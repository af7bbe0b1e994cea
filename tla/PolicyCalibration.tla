-------------------------- MODULE PolicyCalibration --------------------------
(***************************************************************************)
(* lock_alert_policy: every candidate of the grid is simulated on one      *)
(* model's scores, in window order, and the first that meets the gates is  *)
(* locked; a research package may fall back on its train split and on the  *)
(* cheapest candidate.  The scores arrive one at a time here, so that a    *)
(* behaviour meets every prefix as a score file of its own.                *)
(*                                                                         *)
(* Times are window numbers (strides); the gates' 1.0 episodes per day and *)
(* 5% in alert are constants, so that short streams reach both sides.      *)
(***************************************************************************)
EXTENDS Integers, FiniteSets, FiniteSetsExt

CONSTANTS
  MaxWindows,    \* bound: last window number
  Span,          \* length of a window, in strides
  Persistences,  \* PERSISTENCE_CANDIDATES
  Cooldowns,     \* COOLDOWN_CANDIDATES
  Gaps,          \* MERGE_GAP_SECONDS_CANDIDATES, in strides
  Day,           \* strides in a day
  AlertPercent   \* time_in_alert gate, in percent

Candidates == [persistence : Persistences, cooldown : Cooldowns, gap : Gaps]

Sim(p, c, g) == INSTANCE AlertPolicy
  WITH Horizon <- MaxWindows, Persistence <- p, Cooldown <- c, MergeGap <- g

VARIABLES
  research,  \* operational_status is RESEARCH_ONLY
  split,     \* the split the model's rows are of
  count,     \* rows
  start,     \* window_end of the first row
  end,       \* window_end of the last row, 0 without rows
  sims,      \* the simulation of each candidate
  first,     \* the first window after which each candidate was in alert, or 0
  locked     \* the policy file: {} or one candidate

vars == <<research, split, count, start, end, sims, first, locked>>

Start == [is_active |-> FALSE, anomaly_streak |-> 0, normal_streak |-> 0,
          last_resolution |-> 0, episodes |-> 0, alert_window_count |-> 0]

Init ==
  /\ research \in BOOLEAN /\ split \in {"calibration", "train"}
  /\ count = 0 /\ start = 0 /\ end = 0
  /\ sims = [k \in Candidates |-> Start]
  /\ first = [k \in Candidates |-> 0]
  /\ locked = {}

Step(k, d) == Sim(k.persistence, k.cooldown, k.gap)!simulate_step(sims[k], d)

(* One row of _simulate_alert_stream, for every candidate. *)
Row(ts, is_anomaly) ==
  /\ locked = {} /\ ts > end
  /\ count' = count + 1 /\ end' = ts
  /\ start' = IF count = 0 THEN ts ELSE start
  /\ sims' = [k \in Candidates |->
                Step(k, [ts |-> ts, is_anomaly |-> is_anomaly])]
  /\ first' = [k \in Candidates |->
       IF first[k] = 0 /\ sims'[k].is_active THEN ts ELSE first[k]]
  /\ UNCHANGED <<research, split, locked>>

-----------------------------------------------------------------------------
(* evaluate_candidate: duration is at least a stride (1/288 day). *)
Duration == Max({end - start + Span, 1})
Passes(k) ==
  /\ sims[k].episodes * Day <= Duration
  /\ sims[k].alert_window_count * 100 <= AlertPercent * count

(* false_episodes_per_day + 100 * time_in_alert, times Duration * count. *)
Cost(k) ==
  sims[k].episodes * Day * count
    + 100 * sims[k].alert_window_count * Duration

(* Position in product(PERSISTENCE, COOLDOWN, MERGE_GAP). *)
Before(a, b) ==
  \/ a.persistence < b.persistence
  \/ a.persistence = b.persistence /\ a.cooldown < b.cooldown
  \/ a.persistence = b.persistence /\ a.cooldown = b.cooldown /\ a.gap < b.gap
Earliest(S) == {k \in S : \A o \in S \ {k} : Before(k, o)}

Passing == {k \in Candidates : Passes(k)}
Cheapest == {k \in Candidates : \A o \in Candidates : Cost(k) <= Cost(o)}

(* Mutant: the grid is searched for the shortest cooldown first. *)
select_policy_CooldownFirst(allow_fallback) ==
  LET Soonest(S) == {k \in S : \A o \in S : k.cooldown <= o.cooldown}
  IN  IF Passing # {} THEN Earliest(Soonest(Passing))
      ELSE IF allow_fallback THEN Earliest(Cheapest) ELSE {}

(* The first candidate that passes; else, for research, the first of the   *)
(* cheapest; else ValueError, {} here.                                     *)
select_policy(allow_fallback) ==
  IF Passing # {} THEN Earliest(Passing)
  ELSE IF allow_fallback THEN Earliest(Cheapest) ELSE {}

(* Champions need calibration rows; an error leaves no file. *)
lock_alert_policy ==
  /\ locked = {} /\ count > 0
  /\ split = "calibration" \/ research
  /\ select_policy(research) # {}
  /\ locked' = select_policy(research)
  /\ UNCHANGED <<research, split, count, start, end, sims, first>>

Next ==
  \/ \E ts \in 1..MaxWindows, is_anomaly \in BOOLEAN : Row(ts, is_anomaly)
  \/ lock_alert_policy

Spec == Init /\ [][Next]_vars

-----------------------------------------------------------------------------
(* A candidate that needs fewer anomalies to open, or more normal decisions *)
(* to resolve, is in alert whenever the other is: the grid's order is one   *)
(* of sensitivity, whatever the scores (_simulate_alert_stream).            *)
SensitivityOrdered ==
  \A a, b \in Candidates :
    a.persistence <= b.persistence /\ a.cooldown >= b.cooldown =>
      /\ sims[b].is_active => sims[a].is_active
      /\ sims[a].alert_window_count >= sims[b].alert_window_count

(* At one persistence, a longer cooldown or a wider merge gap never counts  *)
(* more episodes (_step_anomaly merges by the last resolution).             *)
EpisodesOrdered ==
  \A a, b \in Candidates :
    /\ a.persistence = b.persistence
    /\ a.cooldown >= b.cooldown /\ a.gap >= b.gap
    => sims[a].episodes <= sims[b].episodes

(* No candidate that meets the gates would have raised its first alert on   *)
(* these scores before the locked one (select_policy takes the first in     *)
(* the order persistence, cooldown, gap).                                   *)
LockedDetectsFirst ==
  \A k \in locked : Passes(k) =>
    \A o \in Passing : first[o] # 0 => first[k] \in 1..first[o]

(* A locked policy breaks the gates only if it is a research package's and  *)
(* no candidate of the grid meets them (select_policy's fallback).          *)
GatesBrokenByResearchOnly ==
  \A k \in locked : Passes(k) \/ (research /\ Passing = {})

(* The policy locked is the most sensitive one that meets the gates: the   *)
(* grid is ordered by sensitivity and the first that passes is taken       *)
(* (select_policy).                                                        *)
LockedIsMostSensitive ==
  SensitivityOrdered /\ EpisodesOrdered /\ LockedDetectsFirst /\ GatesBrokenByResearchOnly
=============================================================================
