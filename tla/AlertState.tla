------------------------------ MODULE AlertState ------------------------------
(* The pure alert state machine of one replay session (alert_state.py): the    *)
(* state it keeps and the result `transition` computes for one score decision. *)
(*                                                                             *)
(* A decision's source timestamp is the end of its feature window.  Windows    *)
(* end on a 300-second grid, so timestamps are the window numbers 1..Horizon   *)
(* and durations are counted in strides of 300 seconds.  window_id is a UUIDv5 *)
(* of the session and the window end, decision_id a UUIDv5 of the window and   *)
(* the model version, alert_id a UUIDv5 of the session and a decision: within  *)
(* one session all three identify, and are identified by, a window number.     *)
EXTENDS Integers, Sequences

CONSTANTS Horizon,      \* the number of feature windows a session can have
          Persistence,  \* LockedAlertPolicyV1.persistence_decisions
          Cooldown,     \* LockedAlertPolicyV1.cooldown_decisions
          MergeGap      \* LockedAlertPolicyV1.merge_gap_seconds, in strides

ASSUME HorizonAssumption == Horizon \in Nat \ {0}
ASSUME PolicyAssumption ==
  /\ Persistence \in Nat \ {0}
  /\ Cooldown \in Nat \ {0}
  /\ MergeGap \in Nat

Windows == 1..Horizon

(* Python's None where a window is expected; real windows start at 1. *)
None == 0

Decision == [ts : Windows, is_anomaly : BOOLEAN]

decision_id(d) == d.ts

alert_id_for(first_decision_id) == first_decision_id

AlertStates ==
  [active_alert_id : Windows \cup {None},
   previous_alert_id : Windows \cup {None},
   first_detection : Windows \cup {None},
   last_detection : Windows \cup {None},
   resolved_at : Windows \cup {None},
   anomaly_decision_ids : Seq(Windows),
   anomaly_streak : Nat,
   normal_streak : Nat,
   last_decision_id : Windows \cup {None},
   last_source_timestamp : Windows \cup {None}]

empty ==
  [active_alert_id |-> None,
   previous_alert_id |-> None,
   first_detection |-> None,
   last_detection |-> None,
   resolved_at |-> None,
   anomaly_decision_ids |-> << >>,
   anomaly_streak |-> 0,
   normal_streak |-> 0,
   last_decision_id |-> None,
   last_source_timestamp |-> None]

AlertActions == {"OPENED", "UPDATED", "RESOLVED", "REOPENED"}

(* A TransitionResult without an event. *)
NoEvent == [action |-> "NONE", alert |-> None, first |-> None, last |-> None,
            ids |-> << >>]

Quiet(state) == [state |-> state, event |-> NoEvent, evidence |-> FALSE]

(* `a or b` on optional values. *)
OrElse(a, b) == IF a # None THEN a ELSE b

(* Every path that handles a decision stamps the state with it. *)
Stamped(state, d) ==
  [state EXCEPT !.last_decision_id = decision_id(d),
                !.last_source_timestamp = d.ts]

(* ----------------------------- anomalous decision ------------------------- *)

emit_anomaly_result(state, d, action, alert, first, ids) ==
  [state |-> Stamped([state EXCEPT !.active_alert_id = alert,
                                   !.first_detection = first,
                                   !.last_detection = d.ts,
                                   !.resolved_at = None,
                                   !.anomaly_decision_ids = ids,
                                   !.anomaly_streak = @ + 1,
                                   !.normal_streak = 0], d),
   event |-> [action |-> action, alert |-> alert, first |-> first,
              last |-> d.ts, ids |-> ids],
   evidence |-> TRUE]

is_reopen(state, d) ==
  /\ state.previous_alert_id # None
  /\ state.resolved_at # None
  /\ MergeGap > 0
  /\ d.ts - state.resolved_at <= MergeGap

handle_anomaly_trigger(state, d, ids) ==
  IF state.anomaly_streak + 1 < Persistence
    THEN Quiet(Stamped([state EXCEPT !.anomaly_decision_ids = ids,
                                     !.anomaly_streak = @ + 1,
                                     !.normal_streak = 0], d))
  ELSE IF is_reopen(state, d)
    THEN emit_anomaly_result(state, d, "REOPENED", state.previous_alert_id,
                             OrElse(state.first_detection, d.ts), ids)
    ELSE emit_anomaly_result(state, d, "OPENED", alert_id_for(ids[1]), d.ts, ids)

handle_anomaly_update(state, d, ids) ==
  emit_anomaly_result(state, d, "UPDATED", state.active_alert_id,
                      OrElse(state.first_detection, d.ts), ids)

(* ------------------------------- normal decision -------------------------- *)

resolve(state, d) ==
  LET first == OrElse(state.first_detection, d.ts)
      last  == OrElse(state.last_detection, d.ts)
  IN [state |-> Stamped([state EXCEPT !.active_alert_id = None,
                                      !.previous_alert_id = state.active_alert_id,
                                      !.first_detection = first,
                                      !.last_detection = last,
                                      !.resolved_at = d.ts,
                                      !.anomaly_decision_ids = << >>,
                                      !.anomaly_streak = 0,
                                      !.normal_streak = @ + 1], d),
      event |-> [action |-> "RESOLVED", alert |-> state.active_alert_id,
                 first |-> first, last |-> last,
                 ids |-> state.anomaly_decision_ids],
      evidence |-> FALSE]

(* Mutant: every normal decision clears the references, also below cooldown. *)
handle_normal_clears(state, d) ==
  IF state.active_alert_id # None /\ state.normal_streak + 1 >= Cooldown
    THEN resolve(state, d)
    ELSE Quiet(Stamped([state EXCEPT !.anomaly_decision_ids = << >>,
                                     !.anomaly_streak = 0,
                                     !.normal_streak = @ + 1], d))

handle_normal(state, d) ==
  LET calm == Stamped([state EXCEPT !.anomaly_streak = 0,
                                    !.normal_streak = @ + 1], d)
  IN IF state.active_alert_id = None
       THEN Quiet([calm EXCEPT !.anomaly_decision_ids = << >>])
     ELSE IF state.normal_streak + 1 >= Cooldown
       THEN resolve(state, d)
       ELSE Quiet(calm)

(* -------------------------------- transition ------------------------------ *)

(* The decision is the one handled last: transition returns the state as it is. *)
Redelivered(state, d) == decision_id(d) = state.last_decision_id

(* transition raises OrderingViolationError. *)
OrderingViolation(state, d) ==
  /\ ~Redelivered(state, d)
  /\ state.last_source_timestamp # None
  /\ d.ts <= state.last_source_timestamp

transition(state, d) ==
  IF Redelivered(state, d) THEN Quiet(state)
  ELSE IF d.is_anomaly
    THEN LET ids == Append(state.anomaly_decision_ids, decision_id(d))
         IN IF state.active_alert_id = None
              THEN handle_anomaly_trigger(state, d, ids)
              ELSE handle_anomaly_update(state, d, ids)
    ELSE handle_normal(state, d)

(* AlertEventV1 refuses an event with no decision reference or whose           *)
(* first_detection is later than its last_detection: transition then raises.   *)
ValidEvent(event) ==
  event.action \in AlertActions =>
    /\ event.ids # << >>
    /\ event.first <= event.last
===============================================================================
