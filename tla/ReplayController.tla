-------------------------- MODULE ReplayController --------------------------
(***************************************************************************)
(* The immutable controller of a replay session and the rows it replays    *)
(* (replay.py).  The rows of a session's range are numbered by source      *)
(* time: row t carries timestamp t, and range_start is the timestamp of    *)
(* row 1.  None, the absent timestamp, is 0.                               *)
(***************************************************************************)
EXTENDS Naturals, FiniteSets

CONSTANT Rows   \* the rows in the range of a session

ASSUME RowsAssumption == Rows \in Nat

None == 0
range_start == 1
Timestamps == {None, range_start} \cup 1..Rows

States == {"CREATED", "RUNNING", "PAUSED", "STOPPED", "COMPLETED", "FAILED"}
Terminal == {"STOPPED", "COMPLETED", "FAILED"}
Actions == {"START", "PAUSE", "RESUME", "STOP"}

ALLOWED_TRANSITIONS ==
  [state \in States |->
     CASE state = "CREATED" -> {"START"}
       [] state = "RUNNING" -> {"PAUSE", "STOP"}
       [] state = "PAUSED"  -> {"RESUME", "STOP"}
       [] OTHER             -> {}]

(* apply raises ReplayContractError. *)
Refused(ctrl, action) == action \notin ALLOWED_TRANSITIONS[ctrl.state]

created(s) == [session |-> s, state |-> "CREATED", last |-> 0]

(* START alone resets the sequence; the other commands keep the one the    *)
(* controller has, which the streaming task never updates.                 *)
apply(ctrl, action) ==
  [ctrl EXCEPT
     !.state = CASE action = "START"  -> "RUNNING"
                 [] action = "PAUSE"  -> "PAUSED"
                 [] action = "RESUME" -> "RUNNING"
                 [] action = "STOP"   -> "STOPPED",
     !.last = IF action = "START" THEN 0 ELSE @]

mark(ctrl, state, last) == [ctrl EXCEPT !.state = state, !.last = last]

(* Mutant: the lower bound is inclusive after a cursor too. *)
iter_events_inclusive(start, cursor) ==
  LET first == IF cursor = None THEN range_start ELSE cursor
  IN  IF first <= Rows THEN {[seq |-> start, ts |-> first]} ELSE {}

(* The next event of a stream that resumes after timestamp cursor, when    *)
(* there is one: from range_start if there is no cursor, else strictly     *)
(* after it.  sequence continues from start.                               *)
iter_events(start, cursor) ==
  LET first == IF cursor = None THEN range_start ELSE cursor + 1
  IN  IF first <= Rows THEN {[seq |-> start, ts |-> first]} ELSE {}

=============================================================================
