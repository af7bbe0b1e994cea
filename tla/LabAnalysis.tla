---------------------------- MODULE LabAnalysis ----------------------------
(***************************************************************************)
(* The process limit and data quality rules of one sensor of the virtual   *)
(* lab (lab/analysis.py).  An observation has a quality and, when it was   *)
(* sampled, a value; observations arrive every sampling period.            *)
(***************************************************************************)
EXTENDS Integers, Sequences, FiniteSets

CONSTANTS Values,       \* the values a sensor may measure
          AlarmLow, AlarmHigh, Hysteresis,
          MaxSamples    \* bound: observations evaluated

VARIABLES state,   \* SensorAnalysisState
          seen,    \* history: the observations evaluated
          alerts   \* history: the alerts emitted, with the sample that emitted them

vars == <<state, seen, alerts>>

Qualities == {"GOOD", "MISSING", "INVALID"}
None == "none"

(* The value of a MISSING or INVALID observation is never looked at. *)
Observations == [quality : {"GOOD"}, value : Values] \cup
                [quality : {"MISSING"}, value : {None}] \cup
                [quality : {"INVALID"}, value : {None}]

fresh ==
  [high |-> 0, low |-> 0, normal |-> 0, bad |-> 0, good |-> 0,
   process |-> None, quality |-> None]

Bad(obs) == obs.quality \in {"MISSING", "INVALID"}
is_above(obs) == ~Bad(obs) /\ obs.value > AlarmHigh
is_below(obs) == ~Bad(obs) /\ obs.value < AlarmLow

(* Mutant: the edge of the hysteresis band counts as inside. *)
is_safely_inside_edge(obs) == /\ ~Bad(obs)
                              /\ obs.value <= AlarmHigh - Hysteresis
                              /\ obs.value >= AlarmLow + Hysteresis

is_safely_inside(obs) == /\ ~Bad(obs)
                         /\ obs.value < AlarmHigh - Hysteresis
                         /\ obs.value > AlarmLow + Hysteresis

Emit(origin, kind, what) == <<[origin |-> origin, kind |-> kind, state |-> what]>>

(* A MISSING or INVALID observation: process limits are not evaluated, and *)
(* only the normal streak is broken by it.                                 *)
evaluate_bad(s, obs) ==
  LET t    == [s EXCEPT !.bad = @ + 1, !.good = 0, !.normal = 0]
      open == t.bad >= 2 /\ t.quality = None
  IN  [s   |-> [t EXCEPT !.quality = IF open THEN obs.quality ELSE @],
       out |-> IF open THEN Emit("DATA_QUALITY", obs.quality, "OPEN") ELSE <<>>]

(* A GOOD observation resolves the quality alert after three in a row. *)
evaluate_good(s) ==
  LET t       == [s EXCEPT !.good = @ + 1]
      resolve == t.quality /= None /\ t.good >= 3
  IN  [s   |-> IF resolve THEN [t EXCEPT !.quality = None, !.bad = 0] ELSE t,
       out |-> IF resolve THEN Emit("DATA_QUALITY", t.quality, "RESOLVED") ELSE <<>>]

OpenProcess(s, count, kind) ==
  LET open == count >= 3 /\ s.process = None
  IN  [s   |-> [s EXCEPT !.process = IF open THEN kind ELSE @],
       out |-> IF open THEN Emit("PROCESS_LIMIT", kind, "OPEN") ELSE <<>>]

above(s) == [s EXCEPT !.high = @ + 1, !.low = 0, !.normal = 0]

below(s) == [s EXCEPT !.low = @ + 1, !.high = 0, !.normal = 0]

inside(s) ==
  LET t       == [s EXCEPT !.normal = @ + 1, !.high = 0, !.low = 0]
      resolve == t.process /= None /\ t.normal >= 5
  IN  [s   |-> [t EXCEPT !.process = IF resolve THEN None ELSE @],
       out |-> IF resolve THEN Emit("PROCESS_LIMIT", t.process, "RESOLVED") ELSE <<>>]

(* Process limits: inside the limits but within the hysteresis of one of   *)
(* them, nothing is counted and nothing is reset.                          *)
evaluate_limits(s, obs) ==
  CASE is_above(obs) -> OpenProcess(above(s), above(s).high, "ABOVE_LIMIT")
    [] is_below(obs) -> OpenProcess(below(s), below(s).low, "BELOW_LIMIT")
    [] is_safely_inside(obs) -> inside(s)
    [] OTHER -> [s |-> s, out |-> <<>>]

evaluate_sensor_observation(s, obs) ==
  LET good   == evaluate_good(s)
      limits == evaluate_limits(good.s, obs)
  IN  IF Bad(obs) THEN evaluate_bad(s, obs)
      ELSE [s |-> limits.s, out |-> good.out \o limits.out]

Init == state = fresh /\ seen = <<>> /\ alerts = <<>>

Observe ==
  /\ Len(seen) < MaxSamples
  /\ \E obs \in Observations :
       LET r == evaluate_sensor_observation(state, obs)
       IN  /\ state' = r.s
           /\ seen' = Append(seen, obs)
           /\ alerts' = alerts \o [i \in DOMAIN r.out |-> [alert |-> r.out[i], at |-> Len(seen) + 1]]

Next == Observe

Spec == Init /\ [][Next]_vars

-----------------------------------------------------------------------------
Emitted(origin, what) == {i \in DOMAIN alerts : alerts[i].alert.origin = origin
                                              /\ alerts[i].alert.state = what}

(* A process alert is resolved only by five samples inside the limits by   *)
(* more than the hysteresis, with no violation and no bad sample among     *)
(* them: a sensor that drops out, or dips once beyond the limit, starts    *)
(* again, and one on the edge of the band is not counted.                  *)
ResolvedWhenSafe ==
  \A i \in Emitted("PROCESS_LIMIT", "RESOLVED") :
    \E from \in 1..alerts[i].at :
      /\ Cardinality({k \in from..alerts[i].at : /\ ~Bad(seen[k])
                                               /\ AlarmLow + Hysteresis < seen[k].value
                                               /\ seen[k].value < AlarmHigh - Hysteresis}) >= 5
      /\ \A k \in from..alerts[i].at : ~is_above(seen[k]) /\ ~is_below(seen[k]) /\ ~Bad(seen[k])

(* A quality alert is resolved by three GOOD samples in a row. *)
QualityResolvedByThree ==
  \A i \in Emitted("DATA_QUALITY", "RESOLVED") :
    \A k \in (alerts[i].at - 2)..alerts[i].at : ~Bad(seen[k])

(* A process alert opens on three samples beyond the same limit since the  *)
(* sensor was last safely inside or beyond the other one, never on a mix.  *)
OpenedByOneLimit ==
  \A i \in Emitted("PROCESS_LIMIT", "OPEN") :
    LET beyond(k) == IF alerts[i].alert.kind = "ABOVE_LIMIT" THEN is_above(seen[k])
                     ELSE is_below(seen[k])
        other(k)  == IF alerts[i].alert.kind = "ABOVE_LIMIT" THEN is_below(seen[k])
                     ELSE is_above(seen[k])
    IN  \E from \in 1..alerts[i].at :
          /\ Cardinality({k \in from..alerts[i].at : beyond(k)}) >= 3
          /\ \A k \in from..alerts[i].at : ~other(k) /\ ~is_safely_inside(seen[k])

(* An alert of either origin opens and resolves on the samples its rule    *)
(* asks for, whatever lies between them (evaluate).                        *)
RulesObeyed == ResolvedWhenSafe /\ QualityResolvedByThree /\ OpenedByOneLimit
=============================================================================
