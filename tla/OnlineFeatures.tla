--------------------------- MODULE OnlineFeatures ---------------------------
(***************************************************************************)
(* A feature builder fed with a telemetry stream: in order, with records   *)
(* delivered again, replaced, lost or stamped earlier than the one before. *)
(***************************************************************************)
EXTENDS FeatureBuilder, SequencesExt

CONSTANTS MaxEvents,   \* bound: events pushed
          Horizon,     \* bound: the last timestamp
          Values,      \* the readings of a sample
          MaxFaults,   \* bound: deliveries that are not in order
          MaxJump      \* bound: bins an event may leave empty before it

VARIABLES builder,   \* the builder
          out,       \* the windows emitted, in order
          segments,  \* history: the samples accepted, split where the stream breaks
          faults     \* deliveries out of order so far

vars == <<builder, out, segments, faults>>

Init == /\ builder = new_builder
        /\ out = <<>>
        /\ segments = << <<>> >>
        /\ faults = 0

Now == IF builder.last = <<>> THEN 1 ELSE builder.last[1].ts
Next_seq == IF builder.last = <<>> THEN 1 ELSE builder.last[1].seq + 1

Accepted == Len(FlattenSeq(segments))

(* The history: e follows the last accepted event without a lost record,   *)
(* a conflict, a regression or an empty bin.                               *)
Continues(e) ==
  \/ builder.last = <<>>
  \/ e = builder.last[1]
  \/ /\ e.seq = Next_seq
     /\ e.ts >= Now
     /\ _compute_bin_end(e.ts) - _compute_bin_end(Now) <= Stride

(* An event that breaks the stream starts a new segment, one that only     *)
(* repeats a sequence is not part of any.                                  *)
Recorded(e) ==
  LET cut == IF Continues(e) \/ Last(segments) = <<>> THEN segments
             ELSE Append(segments, <<>>)
  IN  IF e.seq = Next_seq - 1 THEN cut
      ELSE [cut EXCEPT ![Len(cut)] = Append(@, _extract_sample(e))]

Push(e) ==
  LET r == push(builder, e)
  IN  /\ ~builder.complete
      /\ Accepted < MaxEvents
      /\ builder' = r.b
      /\ out' = out \o r.out
      /\ segments' = Recorded(e)

Faulty == faults < MaxFaults /\ faults' = faults + 1

(* The next row of the dataset. *)
InOrder ==
  \E v \in Values, ts \in Now..Horizon :
    /\ _compute_bin_end(ts) <= _compute_bin_end(Now) + (MaxJump + 1) * Stride
    /\ Push([seq |-> Next_seq, ts |-> ts, v |-> v])
    /\ UNCHANGED faults

(* The replay service publishes its last event again after a restart. *)
Redelivered ==
  /\ builder.last /= <<>> /\ Faulty
  /\ Push(builder.last[1])

(* Another payload under the last sequence. *)
Conflicting ==
  /\ builder.last /= <<>> /\ Faulty
  /\ \E v \in Values \ {builder.last[1].v} : Push([builder.last[1] EXCEPT !.v = v])

(* An event is lost: the next sequence is skipped. *)
Skipped ==
  /\ builder.last /= <<>> /\ Faulty
  /\ \E v \in Values, ts \in Now..Horizon :
       /\ _compute_bin_end(ts) <= _compute_bin_end(Now) + Stride
       /\ Push([seq |-> Next_seq + 1, ts |-> ts, v |-> v])

(* The next sequence with an earlier timestamp. *)
Regressed ==
  /\ builder.last /= <<>> /\ Faulty
  /\ \E v \in Values, ts \in 1..(Now - 1) : Push([seq |-> Next_seq, ts |-> ts, v |-> v])

Complete ==
  /\ ~builder.complete
  /\ ~complete_raises(builder, Now)
  /\ builder' = complete(builder).b
  /\ out' = out \o complete(builder).out
  /\ UNCHANGED <<segments, faults>>

Next == InOrder \/ Redelivered \/ Conflicting \/ Skipped \/ Regressed \/ Complete

Spec == Init /\ [][Next]_vars

-----------------------------------------------------------------------------
(* Every window the builder emits is a window the offline code computes    *)
(* from the samples of one uninterrupted segment: no window spans a lost   *)
(* record, a conflicting one, a regression or an empty bin, and none is    *)
(* computed from a bin that was still open.                                *)
NoWindowSpansABreak ==
  \A i \in DOMAIN out : \E k \in DOMAIN segments :
    out[i] \in _iter_phase1b_windows(segments[k])

(* A redelivered event changes nothing and no fault makes the builder      *)
(* forget or invent a sample: the open segment's windows are, at every     *)
(* moment, exactly the ones the offline code finds among its closed bins.  *)
OpenSegmentIsScored ==
  LET open   == Last(segments)
      closed == IF builder.complete THEN open
                ELSE SelectSeq(open, LAMBDA s : _compute_bin_end(s.ts) /= builder.bin)
  IN  _iter_phase1b_windows(closed) \subseteq {out[i] : i \in DOMAIN out}

(* What the offline code computes from all the samples of the session. *)
OfflineWindows == _iter_phase1b_windows(FlattenSeq(segments))
OnlineWindows  == {out[i] : i \in DOMAIN out}

(* The dataset leaves a bin between two of its samples empty. *)
HasEmptyBin ==
  LET samples == FlattenSeq(segments)
      bins    == {_compute_bin_end(samples[i].ts) : i \in DOMAIN samples}
  IN  \E b \in bins : b + Stride \notin bins /\ \E later \in bins : later > b

(* A session delivered without a fault scores offline windows only, and    *)
(* once it has ended, if its dataset leaves no bin empty, all of them.     *)
MatchesOffline ==
  faults = 0 =>
    /\ OnlineWindows \subseteq OfflineWindows
    /\ builder.complete /\ ~HasEmptyBin => OnlineWindows = OfflineWindows
=============================================================================
