------------------------ MODULE ReplayServiceProofs ------------------------
(***************************************************************************)
(* Proofs about the replay service (ReplayService).  Three theorems, for   *)
(* any number of sessions, rows, commands, failing calls and deaths: the   *)
(* service implements ReplaySession, a restart finds at most one session   *)
(* to resume, and sessions end by command only.                            *)
(*                                                                         *)
(* The invariant common to the three is Inv: the types, what no step does  *)
(* before a PAUSE or a failed call (SideInv), and the cursors a restart    *)
(* can come back to (StreamInv).  IncompleteInv and EndInv are added for   *)
(* the second and the third.                                               *)
(***************************************************************************)
EXTENDS ReplayService, FiniteSetTheorems, TLAPS

Status == [state : States, last : Nat, error : {"NONE", "ACTIVE", "IDENTITY", "STREAM"}]
Checkpoint == [state : States, last : Nat, ts : Nat]
Handler == [pc : {"IDLE", "STATUS", "COMMIT", "QUARANTINE"}, session : Sessions \cup {NoSession},
            status : Status]
Controller == [session : Sessions \cup {NoSession}, state : States, last : Nat]
Task == [pc : {"ROW", "SENDING", "SENT", "COMPLETED", "FAILED", "DONE"}, fresh : BOOLEAN,
         last : Nat, ts : Nat]
Event == [seq : Nat, ts : Nat]

(* The timestamp of the row that follows a cursor. *)
Following(ts) == IF ts = None THEN range_start ELSE ts + 1

Types ==
  /\ log \in Seq(Records) /\ position \in Nat /\ committed \in Nat
  /\ mode \in {"UP", "STOPPING", "DOWN"}
  /\ handler \in Handler /\ active \in Controller /\ task \in Task
  /\ paused \in BOOLEAN /\ stopping \in BOOLEAN
  /\ checkpoints \in [Sessions -> Checkpoint]
  /\ emitted \in [Sessions -> SUBSET Event]
  /\ announced \in [Sessions -> SUBSET Status]
  /\ faults \in Nat /\ crashes \in Nat

(* A task that lives has a session, and one that sends has a row to send. *)
TaskSound ==
  /\ TaskLives => active.session \in Sessions
  /\ task.pc \in {"SENDING", "SENT"} => Following(task.ts) <= Rows
  /\ handler.pc = "STATUS" => handler.session \in Sessions
  /\ mode = "DOWN" => task = NoTask /\ active = created(NoSession)
  /\ handler.pc # "IDLE" => mode = "UP"

TypeInv == Types /\ TaskSound

-----------------------------------------------------------------------------
(* The next event of a stream is that of the row after the cursor. *)
LEMMA NextEvent ==
  ASSUME NEW seq \in Nat, NEW ts \in Nat
  PROVE  /\ Following(ts) \in Nat
         /\ Following(ts) <= Rows => iter_events(seq, ts) = {[seq |-> seq, ts |-> Following(ts)]}
         /\ ~(Following(ts) <= Rows) => iter_events(seq, ts) = {}
         /\ iter_events(seq, ts) \in SUBSET Event
  BY RowsAssumption DEF Following, iter_events, None, range_start, Event

(* Values the service starts from. *)
LEMMA Constants ==
  /\ Idle \in Handler /\ NoTask \in Task /\ created(NoSession) \in Controller
  /\ NoStatus \in Status /\ NoCheckpoint \in Checkpoint
  /\ Idle.pc = "IDLE" /\ NoTask.pc = "DONE"
  BY DEF Idle, Handler, NoTask, Task, created, Controller, NoStatus, NoCheckpoint, Status, Checkpoint,
         States, None

(* The service starts with its types. *)
LEMMA InitTypes == Init => TypeInv
<1> SUFFICES ASSUME Init PROVE TypeInv
  OBVIOUS
<1>1. Types
  <2>1. /\ handler \in Handler /\ active \in Controller /\ task \in Task
        /\ checkpoints \in [Sessions -> Checkpoint]
    BY Constants DEF Init
  <2>2. /\ emitted \in [Sessions -> SUBSET Event] /\ announced \in [Sessions -> SUBSET Status]
        /\ paused \in BOOLEAN /\ stopping \in BOOLEAN
    BY DEF Init
  <2>3. /\ log \in Seq(Records) /\ position \in Nat /\ committed \in Nat
        /\ faults \in Nat /\ crashes \in Nat /\ mode \in {"UP", "STOPPING", "DOWN"}
    BY DEF Init
  <2> QED BY <2>1, <2>2, <2>3 DEF Types
<1>2. TaskSound
  BY DEF Init, TaskSound, TaskLives, NoTask, Idle
<1> QED BY <1>1, <1>2 DEF TypeInv

-----------------------------------------------------------------------------
(* What the helpers of the model do. *)

(* A checkpoint is written for one session. *)
LEMMA RecordFacts ==
  ASSUME NEW cps \in [Sessions -> Checkpoint], NEW s \in Sessions, NEW state \in States,
         NEW last \in Nat, NEW ts \in Nat
  PROVE  LET new == record_replay_checkpoint(cps, s, state, last, ts)
         IN  /\ new \in [Sessions -> Checkpoint]
             /\ new[s].state = state /\ new[s].last = last /\ new[s].ts = ts
             /\ \A q \in Sessions : q # s => new[q] = cps[q]
<1> DEFINE row == [state |-> state, last |-> last, ts |-> ts]
<1>1. row \in Checkpoint /\ row.state = state /\ row.last = last /\ row.ts = ts
  BY DEF Checkpoint
<1> HIDE DEF row
<1> QED BY <1>1 DEF record_replay_checkpoint, row

(* A checkpoint that is written, or another one. *)
LEMMA RecordChanges ==
  ASSUME NEW cps \in [Sessions -> Checkpoint], NEW s \in Sessions, NEW state \in States,
         NEW last \in Nat, NEW ts \in Nat, NEW q \in Sessions
  PROVE  \/ record_replay_checkpoint(cps, s, state, last, ts)[q].state = state
         \/ record_replay_checkpoint(cps, s, state, last, ts)[q] = cps[q]
<1>1. CASE q = s
  BY <1>1, RecordFacts
<1>2. CASE q # s
  BY <1>2, RecordFacts
<1> QED BY <1>1, <1>2

(* A control command changes the state of one checkpoint, not its cursor. *)
LEMMA UpdateFacts ==
  ASSUME NEW cps \in [Sessions -> Checkpoint], NEW s \in Sessions, NEW state \in States
  PROVE  LET new == update_replay_checkpoint_state(cps, s, state)
         IN  /\ new \in [Sessions -> Checkpoint]
             /\ new[s].state = state /\ new[s].last = cps[s].last /\ new[s].ts = cps[s].ts
             /\ \A q \in Sessions : q # s => new[q] = cps[q]
<1> DEFINE row == [cps[s] EXCEPT !.state = state]
<1>1. cps[s] \in Checkpoint
  OBVIOUS
<1>2. /\ row \in Checkpoint /\ row.state = state /\ row.last = cps[s].last
      /\ row.ts = cps[s].ts
  BY <1>1 DEF Checkpoint
<1>3. update_replay_checkpoint_state(cps, s, state) = [cps EXCEPT ![s] = row]
  BY DEF update_replay_checkpoint_state
<1> HIDE DEF row
<1> QED BY <1>2, <1>3

(* A checkpoint whose state is changed, or another one. *)
LEMMA UpdateChanges ==
  ASSUME NEW cps \in [Sessions -> Checkpoint], NEW s \in Sessions, NEW state \in States,
         NEW q \in Sessions
  PROVE  \/ update_replay_checkpoint_state(cps, s, state)[q].state = state
         \/ update_replay_checkpoint_state(cps, s, state)[q] = cps[q]
<1>1. CASE q = s
  BY <1>1, UpdateFacts
<1>2. CASE q # s
  BY <1>2, UpdateFacts
<1> QED BY <1>1, <1>2

(* A command moves the controller of its session to the state it names. *)
LEMMA ApplyFacts ==
  ASSUME NEW c \in Controller, NEW action \in Actions
  PROVE  /\ apply(c, action) \in Controller /\ apply(c, action).session = c.session
         /\ action = "STOP" => apply(c, action).state = "STOPPED"
         /\ action = "PAUSE" => apply(c, action).state = "PAUSED"
         /\ action \in {"START", "RESUME"} => apply(c, action).state = "RUNNING"
<1> DEFINE state == CASE action = "START"  -> "RUNNING"
                      [] action = "PAUSE"  -> "PAUSED"
                      [] action = "RESUME" -> "RUNNING"
                      [] action = "STOP"   -> "STOPPED"
           last == IF action = "START" THEN 0 ELSE c.last
<1>1. /\ state \in States
      /\ action = "STOP" => state = "STOPPED"
      /\ action = "PAUSE" => state = "PAUSED"
      /\ action \in {"START", "RESUME"} => state = "RUNNING"
  BY DEF Actions, States
<1>2. last \in Nat
  BY DEF Controller
<1>3. apply(c, action) = [c EXCEPT !.state = state, !.last = last]
  BY DEF apply
<1> HIDE DEF state, last
<1> QED BY <1>1, <1>2, <1>3 DEF Controller

(* stop(): the loop is gone; the task is asked to finish, or was done. *)
LEMMA StopFacts ==
  ASSUME stop
  PROVE  /\ mode' \in {"STOPPING", "DOWN"} /\ handler' = Idle /\ paused' = FALSE
         /\ mode' = "STOPPING" =>
              /\ TaskLives /\ stopping' = TRUE
              /\ UNCHANGED <<position, active, task>>
         /\ mode' = "DOWN" =>
              /\ ~TaskLives /\ stopping' = FALSE
              /\ position' = 0 /\ active' = created(NoSession) /\ task' = NoTask
  BY DEF stop, Dead

(* Where a task waits next, and what it has recorded by then. *)
LEMMA ProceedFacts ==
  ASSUME NEW t \in Task, NEW cps \in [Sessions -> Checkpoint], active.session \in Sessions,
         Proceed(t, cps), stopping \in BOOLEAN, paused \in BOOLEAN
  PROVE  /\ task' \in Task /\ task'.last = t.last /\ task'.ts = t.ts
         /\ task'.pc \in {"DONE", "ROW", "SENDING", "COMPLETED"}
         /\ task'.pc = "DONE" <=> stopping = TRUE
         /\ task'.pc = "ROW" => paused = TRUE
         /\ task'.pc = "SENDING" => Following(t.ts) <= Rows
         /\ task'.pc = "COMPLETED" =>
              /\ ~(Following(t.ts) <= Rows)
              /\ checkpoints' =
                   record_replay_checkpoint(cps, active.session, "COMPLETED", t.last, t.ts)
         /\ task'.pc # "COMPLETED" => checkpoints' = cps
         /\ checkpoints' \in [Sessions -> Checkpoint]
<1>1. t.last \in Nat /\ t.ts \in Nat
  BY DEF Task
<1>2. ASSUME NEW pc \in {"DONE", "ROW", "SENDING", "COMPLETED"}, task' = [t EXCEPT !.pc = pc]
      PROVE  /\ task' \in Task /\ task'.last = t.last /\ task'.ts = t.ts /\ task'.pc = pc
  BY <1>2 DEF Task
<1>3. (iter_events(t.last + 1, t.ts) # {}) <=> (Following(t.ts) <= Rows)
  <2>1. t.last + 1 \in Nat
    BY <1>1
  <2> QED BY <1>1, <2>1, NextEvent
<1>4. record_replay_checkpoint(cps, active.session, "COMPLETED", t.last, t.ts)
        \in [Sessions -> Checkpoint]
  BY <1>1, RecordFacts DEF States
<1>5. CASE stopping = TRUE
  <2>1. task' = [t EXCEPT !.pc = "DONE"] /\ checkpoints' = cps
    BY <1>5 DEF Proceed
  <2> QED BY <1>2, <1>5, <2>1
<1>6. CASE stopping = FALSE /\ paused = TRUE
  <2>1. task' = [t EXCEPT !.pc = "ROW"] /\ checkpoints' = cps
    BY <1>6 DEF Proceed
  <2> QED BY <1>2, <1>6, <2>1
<1>7. CASE stopping = FALSE /\ paused = FALSE /\ Following(t.ts) <= Rows
  <2>1. task' = [t EXCEPT !.pc = "SENDING"] /\ checkpoints' = cps
    BY <1>3, <1>7 DEF Proceed
  <2> QED BY <1>2, <1>7, <2>1
<1>8. CASE stopping = FALSE /\ paused = FALSE /\ ~(Following(t.ts) <= Rows)
  <2>1. /\ task' = [t EXCEPT !.pc = "COMPLETED"]
        /\ checkpoints' =
             record_replay_checkpoint(cps, active.session, "COMPLETED", t.last, t.ts)
    BY <1>3, <1>8 DEF Proceed
  <2> QED BY <1>2, <1>4, <1>8, <2>1
<1> QED BY <1>5, <1>6, <1>7, <1>8

-----------------------------------------------------------------------------
(* What handling a command record comes to, up to its first await. *)
Handled(r) ==
  /\ r \in Records /\ r = log[position + 1] /\ position + 1 \in DOMAIN log
  /\ mode = "UP" /\ handler.pc = "IDLE"

(* Nothing but the command loop's own state changes: a quarantined record, *)
(* a command for a session that is not active, or a refused START.         *)
PassedOver(r) ==
  /\ UNCHANGED <<active, task, paused, stopping, checkpoints>>
  /\ \/ handler'.pc \in {"QUARANTINE", "COMMIT"}
     \/ /\ r.action \in {"START", "MISMATCHED"}
        /\ handler'.pc = "STATUS" /\ handler'.session = r.session
        /\ handler'.status.state = "FAILED"

Started(r) ==
  /\ r.action = "START" /\ ~TaskLives
  /\ checkpoints' = record_replay_checkpoint(checkpoints, r.session, "RUNNING", 0, None)
  /\ active' \in Controller /\ active'.session = r.session /\ active'.state = "RUNNING"
  /\ task' = [pc |-> "ROW", fresh |-> TRUE, last |-> 0, ts |-> None]
  /\ paused' = FALSE /\ stopping' = FALSE
  /\ handler'.pc = "STATUS" /\ handler'.session = r.session
  /\ handler'.status.state = "RUNNING" /\ handler'.status.error = "NONE"

Obeyed(r) ==
  /\ r.action \in {"PAUSE", "RESUME", "STOP"} /\ active.session = r.session /\ TaskLives
  /\ ~Refused(active, r.action)
  /\ active' = apply(active, r.action)
  /\ checkpoints' = update_replay_checkpoint_state(checkpoints, r.session, active'.state)
  /\ paused' = (r.action = "PAUSE")
  /\ stopping' = (stopping \/ r.action = "STOP")
  /\ handler'.pc = "STATUS" /\ handler'.session = r.session
  /\ handler'.status.state = active'.state /\ handler'.status.error = "NONE"
  /\ UNCHANGED task

(* A status to publish is that of the controller it was made from. *)
LEMMA PublishingFacts ==
  ASSUME NEW s \in Sessions, NEW c, c.state \in States, c.last \in Nat,
         NEW error \in {"NONE", "ACTIVE", "IDENTITY", "STREAM"}, Publishing(s, c, error)
  PROVE  /\ handler' \in Handler /\ handler'.pc = "STATUS" /\ handler'.session = s
         /\ handler'.status.state = c.state /\ handler'.status.error = error
<1> DEFINE st == [state |-> c.state, last |-> c.last, error |-> error]
<1>1. st \in Status /\ st.state = c.state /\ st.error = error
  BY DEF Status
<1>2. handler' = [pc |-> "STATUS", session |-> s, status |-> st]
  BY DEF Publishing
<1> HIDE DEF st
<1> QED BY <1>1, <1>2 DEF Handler

(* handle_command does one of the three. *)
LEMMA DeliverFacts ==
  ASSUME TypeInv, Deliver
  PROVE  /\ UNCHANGED <<log, committed, mode, emitted, announced, faults, crashes>>
         /\ position' = position + 1
         /\ handler' \in Handler /\ handler'.pc # "IDLE"
         /\ \E r : Handled(r) /\ (PassedOver(r) \/ Started(r) \/ Obeyed(r))
<1> DEFINE r == log[position + 1]
<1>1. /\ mode = "UP" /\ handler.pc = "IDLE" /\ position < Len(log) /\ ~Raises(r)
      /\ UNCHANGED <<log, committed, mode, emitted, announced, faults, crashes>>
      /\ position' = position + 1
      /\ handle_command(r)
  BY DEF Deliver, Fetched, topics
<1>2. position + 1 \in DOMAIN log /\ r \in Records
  BY <1>1 DEF TypeInv, Types
<1>3. Handled(r) /\ r.session \in Sessions
      /\ r.action \in Actions \cup {"MISMATCHED", "INVALID"}
  BY <1>1, <1>2 DEF Handled, Records
<1> HIDE DEF r
<1>4. \A c : (handler' = [Idle EXCEPT !.pc = c] /\ c \in {"QUARANTINE", "COMMIT"})
        => handler' \in Handler /\ handler'.pc = c
  BY Constants DEF Handler
<1>5. CASE r.action = "INVALID"
  BY <1>1, <1>4, <1>5, <1>3 DEF handle_command, PassedOver
<1>6. ASSUME NEW error \in {"ACTIVE", "IDENTITY"}, r.action \in {"START", "MISMATCHED"},
             Publishing(r.session, mark(created(r.session), "FAILED", 0), error),
             UNCHANGED <<active, task, paused, stopping, checkpoints>>
      PROVE  handler' \in Handler /\ handler'.pc # "IDLE" /\ PassedOver(r)
  <2> DEFINE c == mark(created(r.session), "FAILED", 0)
  <2>1. c.state = "FAILED" /\ c.last = 0
    BY DEF mark, created
  <2> HIDE DEF c
  <2>2. /\ handler' \in Handler /\ handler'.pc = "STATUS" /\ handler'.session = r.session
        /\ handler'.status.state = "FAILED"
    BY <1>3, <1>6, <2>1, PublishingFacts DEF c, States
  <2> QED BY <1>6, <2>2 DEF PassedOver
<1>7. CASE r.action = "START"
  <2>1. _handle_start_command(r.session)
    BY <1>1, <1>7 DEF handle_command
  <2>2. CASE TaskLives
    BY <1>1, <1>3, <1>6, <1>7, <2>1, <2>2 DEF _handle_start_command
  <2>3. CASE ~TaskLives
    <3>1. /\ checkpoints' = record_replay_checkpoint(checkpoints, r.session, "RUNNING", 0, None)
          /\ active' = apply(created(r.session), "START")
          /\ task' = [pc |-> "ROW", fresh |-> TRUE, last |-> 0, ts |-> None]
          /\ paused' = FALSE /\ stopping' = FALSE
          /\ Publishing(r.session, active', "NONE")
      BY <2>1, <2>3 DEF _handle_start_command
    <3>2. created(r.session) \in Controller /\ created(r.session).session = r.session
      BY <1>3 DEF created, Controller, States
    <3>3. active' \in Controller /\ active'.session = r.session /\ active'.state = "RUNNING"
      BY <3>1, <3>2, ApplyFacts DEF Actions
    <3>4. active'.state \in States /\ active'.last \in Nat
      BY <3>3 DEF Controller
    <3>5. /\ handler' \in Handler /\ handler'.pc = "STATUS" /\ handler'.session = r.session
          /\ handler'.status.state = active'.state /\ handler'.status.error = "NONE"
      BY <1>3, <3>1, <3>4, PublishingFacts
    <3> QED BY <1>1, <1>3, <1>7, <2>3, <3>1, <3>3, <3>5 DEF Started
  <2> QED BY <1>1, <2>2, <2>3
<1>8. CASE r.action = "MISMATCHED"
  BY <1>1, <1>3, <1>6, <1>8 DEF handle_command
<1>9. CASE r.action \in {"PAUSE", "RESUME", "STOP"}
  <2>1. CASE ~Controlled(r.session)
    BY <1>1, <1>3, <1>4, <1>9, <2>1 DEF handle_command, PassedOver
  <2>2. CASE Controlled(r.session)
    <3>1. _handle_control_command(r.action, r.session)
      BY <1>1, <1>9, <2>2 DEF handle_command
    <3>2. active \in Controller /\ r.action \in Actions
      BY <1>9 DEF TypeInv, Types, Actions
    <3>3. active' = apply(active, r.action) /\ active' \in Controller
      BY <3>1, <3>2, ApplyFacts DEF _handle_control_command
    <3>4. active'.state \in States /\ active'.last \in Nat
      BY <3>3 DEF Controller
    <3>5. /\ handler' \in Handler /\ handler'.pc = "STATUS" /\ handler'.session = r.session
          /\ handler'.status.state = active'.state /\ handler'.status.error = "NONE"
      BY <1>3, <3>1, <3>4, PublishingFacts DEF _handle_control_command
    <3>6. ~Refused(active, r.action)
      BY <1>1, <1>9, <2>2 DEF Raises, Actions
    <3> QED BY <1>1, <1>3, <1>9, <2>2, <3>1, <3>3, <3>5, <3>6
            DEF Obeyed, Controlled, _handle_control_command
  <2> QED BY <1>1, <2>1, <2>2
<1> QED BY <1>1, <1>3, <1>5, <1>7, <1>8, <1>9 DEF Actions

(* A store call that fails may have written its row; the loop is left. *)
LEMMA DeliverFailsFacts ==
  ASSUME TypeInv, DeliverFails
  PROVE  /\ stop /\ faults' = faults + 1
         /\ UNCHANGED <<log, committed, emitted, announced, crashes>>
         /\ \E r : /\ Handled(r)
                   /\ \/ UNCHANGED checkpoints
                      \/ /\ r.action = "START" /\ ~TaskLives
                         /\ checkpoints' =
                              record_replay_checkpoint(checkpoints, r.session, "RUNNING", 0, None)
                      \/ /\ r.action \in {"PAUSE", "RESUME", "STOP"}
                         /\ active.session = r.session /\ TaskLives /\ ~Refused(active, r.action)
                         /\ checkpoints' =
                              update_replay_checkpoint_state(checkpoints, r.session,
                                                             apply(active, r.action).state)
         /\ checkpoints' \in [Sessions -> Checkpoint]
<1> DEFINE r == log[position + 1]
<1>1. /\ mode = "UP" /\ handler.pc = "IDLE" /\ position < Len(log) /\ ~Raises(r)
      /\ stop /\ faults' = faults + 1
      /\ UNCHANGED <<log, committed, emitted, announced, crashes>>
  BY DEF DeliverFails, Fetched, topics
<1>2. \/ /\ r.action = "START" /\ ~TaskLives
         /\ checkpoints' \in
              {checkpoints, record_replay_checkpoint(checkpoints, r.session, "RUNNING", 0, None)}
      \/ /\ r.action \in Actions \ {"START"} /\ Controlled(r.session)
         /\ checkpoints' \in
              {checkpoints, update_replay_checkpoint_state(checkpoints, r.session,
                                                           apply(active, r.action).state)}
  BY DEF DeliverFails, Fetched
<1>3. position + 1 \in DOMAIN log /\ r \in Records
  BY <1>1 DEF TypeInv, Types
<1>4. Handled(r) /\ r.session \in Sessions
  BY <1>1, <1>3 DEF Handled, Records
<1> HIDE DEF r
<1>5. \/ UNCHANGED checkpoints
      \/ /\ r.action = "START" /\ ~TaskLives
         /\ checkpoints' = record_replay_checkpoint(checkpoints, r.session, "RUNNING", 0, None)
      \/ /\ r.action \in {"PAUSE", "RESUME", "STOP"}
         /\ active.session = r.session /\ TaskLives /\ ~Refused(active, r.action)
         /\ checkpoints' = update_replay_checkpoint_state(checkpoints, r.session,
                                                          apply(active, r.action).state)
  BY <1>1, <1>2 DEF Controlled, Raises, Actions
<1>6. checkpoints' \in [Sessions -> Checkpoint]
  <2>1. checkpoints \in [Sessions -> Checkpoint] /\ active \in Controller
    BY DEF TypeInv, Types
  <2>2. record_replay_checkpoint(checkpoints, r.session, "RUNNING", 0, None)
          \in [Sessions -> Checkpoint]
    BY <1>4, <2>1, RecordFacts DEF States, None
  <2>3. r.action \in Actions => apply(active, r.action).state \in States
    BY <2>1, ApplyFacts DEF Controller
  <2>4. r.action \in Actions =>
          update_replay_checkpoint_state(checkpoints, r.session, apply(active, r.action).state)
            \in [Sessions -> Checkpoint]
    BY <1>4, <2>1, <2>3, UpdateFacts
  <2> QED BY <1>5, <2>1, <2>2, <2>4 DEF Actions
<1> QED BY <1>1, <1>4, <1>5, <1>6

(* Where a task that failed says it stood. *)
LEMMA FailureCursorFacts ==
  ASSUME TypeInv
  PROVE  FailureCursor.seq \in Nat /\ FailureCursor.ts \in Nat
<1>1. task \in Task /\ task.last \in Nat /\ task.ts \in Nat /\ task.last + 1 \in Nat
  BY DEF TypeInv, Types, Task
<1>2. CASE task.pc = "SENT" \/ (task.fresh /\ task.pc = "SENDING")
  <2>1. Following(task.ts) <= Rows
    BY <1>2 DEF TypeInv, TaskSound
  <2>2. /\ iter_events(task.last + 1, task.ts)
             = {[seq |-> task.last + 1, ts |-> Following(task.ts)]}
        /\ Following(task.ts) \in Nat
    BY <1>1, <2>1, NextEvent
  <2>3. FailureCursor = [seq |-> task.last + 1, ts |-> Following(task.ts)]
    BY <1>2, <2>2 DEF FailureCursor
  <2> QED BY <1>1, <2>2, <2>3
<1>3. CASE ~(task.pc = "SENT" \/ (task.fresh /\ task.pc = "SENDING"))
  BY <1>1, <1>3 DEF FailureCursor, None, range_start
<1> QED BY <1>2, <1>3

(* The event of the current row joins the topic. *)
Sent == [emitted EXCEPT ![active.session] = @ \cup iter_events(task.last + 1, task.ts)]

(* A status joins the topic. *)
Told(s, status) == [announced EXCEPT ![s] = @ \cup {status}]

(* What joins a topic has its type. *)
LEMMA TopicFacts ==
  ASSUME TypeInv
  PROVE  /\ TaskLives => Sent \in [Sessions -> SUBSET Event]
         /\ \A s \in Sessions, status \in Status : Told(s, status) \in [Sessions -> SUBSET Status]
<1>1. task.last + 1 \in Nat /\ task.ts \in Nat
  BY DEF TypeInv, Types, Task
<1>2. iter_events(task.last + 1, task.ts) \in SUBSET Event
  BY <1>1, NextEvent
<1> QED BY <1>2 DEF TypeInv, Types, TaskSound, Sent, Told

(* The status with which a task ends. *)
Ending(state, error) == [state |-> state, last |-> task.last, error |-> error]

(* The last status of a task is a status. *)
LEMMA EndingFacts ==
  ASSUME TypeInv, NEW state \in States, NEW error \in {"NONE", "ACTIVE", "IDENTITY", "STREAM"}
  PROVE  /\ Ending(state, error) \in Status
         /\ Ending(state, error).state = state /\ Ending(state, error).error = error
<1>1. task.last \in Nat
  BY DEF TypeInv, Types, Task
<1> QED BY <1>1 DEF Ending, Status

(* A call of the task fails: it has sent or announced, or it has not. *)
LEMMA TaskFailsFacts ==
  ASSUME TypeInv, TaskFails
  PROVE  /\ faults' = faults + 1 /\ mode # "DOWN"
         /\ UNCHANGED <<log, committed, position, mode, handler, active, paused, stopping, crashes>>
         /\ TaskLives /\ active.session \in Sessions
         /\ task' \in Task /\ task'.pc \in {"FAILED", "DONE"}
         /\ emitted' = emitted \/ (task.pc = "SENDING" /\ emitted' = Sent)
         /\ \/ announced' = announced
            \/ /\ task.pc = "COMPLETED"
               /\ announced' = Told(active.session, Ending("COMPLETED", "NONE"))
         /\ task'.pc = "DONE" => UNCHANGED checkpoints
         /\ task'.pc = "FAILED" => \E last, ts \in Nat :
              checkpoints' = record_replay_checkpoint(checkpoints, active.session, "FAILED", last, ts)
         /\ checkpoints' \in [Sessions -> Checkpoint]
<1>1. task \in Task /\ active.session \in Sessions /\ checkpoints \in [Sessions -> Checkpoint]
  BY DEF TypeInv, Types, TaskSound, TaskFails, TaskLives
<1>2. /\ faults' = faults + 1 /\ mode # "DOWN" /\ TaskLives
      /\ UNCHANGED <<log, committed, position, mode, handler, active, paused, stopping, crashes>>
  BY DEF TaskFails, TaskRuns, TaskLives
<1>3. emitted' = emitted \/ (task.pc = "SENDING" /\ emitted' = Sent)
  BY DEF TaskFails, Sent
<1>4. \/ announced' = announced
      \/ /\ task.pc = "COMPLETED"
         /\ announced' = Told(active.session, Ending("COMPLETED", "NONE"))
  BY DEF TaskFails, Told, Ending
<1>5. CASE /\ task' = [task EXCEPT !.pc = "FAILED", !.last = FailureCursor.seq,
                                   !.ts = FailureCursor.ts]
           /\ checkpoints' = record_replay_checkpoint(checkpoints, active.session, "FAILED",
                                                      FailureCursor.seq, FailureCursor.ts)
  <2>1. FailureCursor.seq \in Nat /\ FailureCursor.ts \in Nat
    BY FailureCursorFacts
  <2>2. task' \in Task /\ task'.pc = "FAILED"
    BY <1>1, <1>5, <2>1 DEF Task
  <2>3. checkpoints' \in [Sessions -> Checkpoint]
    BY <1>1, <1>5, <2>1, RecordFacts DEF States
  <2> QED BY <1>1, <1>2, <1>3, <1>4, <1>5, <2>1, <2>2, <2>3
<1>6. CASE task' = [task EXCEPT !.pc = "DONE"] /\ UNCHANGED checkpoints
  <2>1. task' \in Task /\ task'.pc = "DONE"
    BY <1>1, <1>6 DEF Task
  <2> QED BY <1>1, <1>2, <1>3, <1>4, <1>6, <2>1
<1> QED BY <1>5, <1>6 DEF TaskFails

(* The task records a row it has sent, and goes on. *)
LEMMA AcknowledgeFacts ==
  ASSUME TypeInv, Acknowledge
  PROVE  LET t == [task EXCEPT !.last = task.last + 1, !.ts = Following(task.ts)]
             cps == record_replay_checkpoint(checkpoints, active.session, _checkpoint_state,
                                             task.last + 1, Following(task.ts))
         IN  /\ task.pc = "SENT" /\ mode # "DOWN" /\ Following(task.ts) <= Rows
             /\ active.session \in Sessions
             /\ task.last + 1 \in Nat /\ Following(task.ts) \in Nat /\ _checkpoint_state \in States
             /\ Proceed(t, cps)
             /\ t \in Task /\ t.last = task.last + 1 /\ t.ts = Following(task.ts)
             /\ cps \in [Sessions -> Checkpoint]
             /\ UNCHANGED <<log, committed, position, mode, handler, active, paused, stopping,
                            emitted, announced, faults, crashes>>
<1>1. /\ task \in Task /\ task.last \in Nat /\ task.ts \in Nat /\ task.last + 1 \in Nat
      /\ checkpoints \in [Sessions -> Checkpoint]
  BY DEF TypeInv, Types, Task
<1>2. /\ task.pc = "SENT" /\ mode # "DOWN" /\ Following(task.ts) <= Rows
      /\ active.session \in Sessions /\ _checkpoint_state \in States
      /\ UNCHANGED <<log, committed, position, mode, handler, active, paused, stopping,
                     emitted, announced, faults, crashes>>
  BY DEF Acknowledge, TaskRuns, TypeInv, TaskSound, TaskLives, _checkpoint_state, States, topics
<1>3. /\ iter_events(task.last + 1, task.ts)
           = {[seq |-> task.last + 1, ts |-> Following(task.ts)]}
      /\ Following(task.ts) \in Nat
  BY <1>1, <1>2, NextEvent
<1>4. Proceed([task EXCEPT !.last = task.last + 1, !.ts = Following(task.ts)],
              record_replay_checkpoint(checkpoints, active.session, _checkpoint_state,
                                       task.last + 1, Following(task.ts)))
  <2>1. PICK e \in iter_events(task.last + 1, task.ts) :
          Proceed([task EXCEPT !.last = e.seq, !.ts = e.ts],
                  record_replay_checkpoint(checkpoints, active.session, _checkpoint_state,
                                           e.seq, e.ts))
    BY DEF Acknowledge
  <2>2. e.seq = task.last + 1 /\ e.ts = Following(task.ts)
    BY <1>3
  <2> QED BY <2>1, <2>2
<1>5. /\ [task EXCEPT !.last = task.last + 1, !.ts = Following(task.ts)] \in Task
      /\ [task EXCEPT !.last = task.last + 1, !.ts = Following(task.ts)].last = task.last + 1
      /\ [task EXCEPT !.last = task.last + 1, !.ts = Following(task.ts)].ts = Following(task.ts)
  BY <1>1, <1>3 DEF Task
<1>6. record_replay_checkpoint(checkpoints, active.session, _checkpoint_state,
                               task.last + 1, Following(task.ts)) \in [Sessions -> Checkpoint]
  BY <1>1, <1>2, <1>3, RecordFacts
<1> QED BY <1>1, <1>2, <1>3, <1>4, <1>5, <1>6

(* A service that starts goes on with an incomplete session, if there is one. *)
LEMMA StartFacts ==
  ASSUME TypeInv, start
  PROVE  /\ mode = "DOWN" /\ mode' = "UP" /\ position' = committed /\ handler' = Idle
         /\ stopping' = FALSE
         /\ UNCHANGED <<log, committed, checkpoints, emitted, announced, faults, crashes>>
         /\ \/ /\ load_incomplete_replays(checkpoints) = {}
               /\ UNCHANGED <<active, task, paused>>
            \/ \E s \in load_incomplete_replays(checkpoints) :
                 /\ active' \in Controller /\ active'.session = s
                 /\ active'.state = checkpoints[s].state
                 /\ task' \in Task /\ task'.pc = "ROW"
                 /\ task'.last = checkpoints[s].last /\ task'.ts = checkpoints[s].ts
                 /\ paused' = (checkpoints[s].state # "RUNNING")
<1>1. /\ mode = "DOWN" /\ mode' = "UP" /\ position' = committed /\ handler' = Idle
      /\ stopping' = FALSE
      /\ UNCHANGED <<log, committed, checkpoints, emitted, announced, faults, crashes>>
  BY DEF start, topics
<1>2. CASE load_incomplete_replays(checkpoints) = {}
  BY <1>1, <1>2 DEF start
<1>3. CASE load_incomplete_replays(checkpoints) # {}
  <2>1. PICK s \in load_incomplete_replays(checkpoints) :
          /\ active' = mark(apply(created(s), "START"), checkpoints[s].state, checkpoints[s].last)
          /\ task' = [pc |-> "ROW", fresh |-> FALSE, last |-> checkpoints[s].last,
                      ts |-> checkpoints[s].ts]
          /\ paused' = ResumesPaused(checkpoints[s])
    BY <1>3 DEF start
  <2>2. s \in Sessions /\ checkpoints[s] \in Checkpoint
    BY DEF load_incomplete_replays, TypeInv, Types
  <2>3. /\ checkpoints[s].state \in States /\ checkpoints[s].last \in Nat
        /\ checkpoints[s].ts \in Nat
    BY <2>2 DEF Checkpoint
  <2>4. task' \in Task /\ task'.pc = "ROW"
        /\ task'.last = checkpoints[s].last /\ task'.ts = checkpoints[s].ts
    BY <2>1, <2>3 DEF Task
  <2>5. created(s) \in Controller /\ created(s).session = s
    BY <2>2 DEF created, Controller, States
  <2>6. apply(created(s), "START") \in Controller /\ apply(created(s), "START").session = s
    BY <2>5, ApplyFacts DEF Actions
  <2>7. \A c \in Controller : \A state \in States, last \in Nat :
          mark(c, state, last) \in Controller /\ mark(c, state, last).session = c.session
            /\ mark(c, state, last).state = state
    BY DEF mark, Controller
  <2>8. active' \in Controller /\ active'.session = s /\ active'.state = checkpoints[s].state
    BY <2>1, <2>3, <2>6, <2>7
  <2> QED BY <1>1, <2>1, <2>4, <2>8 DEF ResumesPaused
<1> QED BY <1>2, <1>3

-----------------------------------------------------------------------------
(* The memory of a process that stops or dies keeps its types. *)
LEMMA TypeStop ==
  ASSUME TypeInv, stop \/ Dead
  PROVE  /\ position' \in Nat /\ mode' \in {"UP", "STOPPING", "DOWN"}
         /\ handler' \in Handler /\ active' \in Controller /\ task' \in Task
         /\ paused' \in BOOLEAN /\ stopping' \in BOOLEAN
         /\ TaskSound'
<1>1. CASE Dead
  <2>1. /\ position' = 0 /\ mode' = "DOWN" /\ handler' = Idle /\ task' = NoTask
        /\ active' = created(NoSession)
        /\ paused' = FALSE /\ stopping' = FALSE
    BY <1>1 DEF Dead
  <2>2. paused' \in BOOLEAN /\ stopping' \in BOOLEAN
    BY <2>1
  <2>3. TaskSound'
    BY <2>1, Constants DEF TaskSound, TaskLives
  <2> QED BY <2>1, <2>2, <2>3, Constants
<1>2. CASE stop /\ ~Dead
  <2>1. /\ mode' = "STOPPING" /\ handler' = Idle /\ paused' = FALSE /\ stopping' = TRUE
        /\ UNCHANGED <<position, active, task>>
    BY <1>2 DEF stop
  <2>2. paused' \in BOOLEAN /\ stopping' \in BOOLEAN
    BY <2>1
  <2>3. TaskSound'
    BY <2>1, Constants DEF TypeInv, TaskSound, TaskLives
  <2> QED BY <2>1, <2>2, <2>3, Constants DEF TypeInv, Types
<1> QED BY <1>1, <1>2

(* The command loop keeps the types. *)
LEMMA TypeCommand ==
  ASSUME TypeInv, Deliver \/ DeliverRefused \/ DeliverFails
  PROVE  TypeInv'
<1>1. CASE Deliver
  <2>1. /\ UNCHANGED <<log, committed, mode, emitted, announced, faults, crashes>>
        /\ position' = position + 1
        /\ handler' \in Handler /\ handler'.pc # "IDLE"
    BY <1>1, DeliverFacts
  <2>2. PICK r : Handled(r) /\ (PassedOver(r) \/ Started(r) \/ Obeyed(r))
    BY <1>1, DeliverFacts
  <2>3. r.session \in Sessions /\ r.action \in Actions \cup {"MISMATCHED", "INVALID"}
    BY <2>2 DEF Handled, Records
  <2>4. CASE PassedOver(r)
    BY <2>1, <2>2, <2>3, <2>4 DEF PassedOver, Handled, TypeInv, Types, TaskSound, TaskLives
  <2>5. CASE Started(r)
    <3>1. checkpoints' \in [Sessions -> Checkpoint]
      BY <2>3, <2>5, RecordFacts DEF Started, TypeInv, Types, States, None
    <3>2. task' \in Task /\ task'.pc = "ROW"
      BY <2>5 DEF Started, Task, None
    <3>3. /\ active' \in Controller /\ active'.session \in Sessions
          /\ paused' \in BOOLEAN /\ stopping' \in BOOLEAN
          /\ handler'.session \in Sessions /\ mode = "UP"
      BY <2>2, <2>3, <2>5 DEF Started, Handled
    <3> QED BY <2>1, <3>1, <3>2, <3>3 DEF TypeInv, Types, TaskSound, TaskLives
  <2>6. CASE Obeyed(r)
    <3>1. active' \in Controller /\ active'.session = active.session /\ active'.state \in States
      BY <2>6, ApplyFacts DEF Obeyed, TypeInv, Types, Actions, Controller
    <3>2. checkpoints' \in [Sessions -> Checkpoint]
      BY <2>3, <2>6, <3>1, UpdateFacts DEF Obeyed, TypeInv, Types
    <3>3. stopping' \in BOOLEAN /\ paused' \in BOOLEAN
      BY <2>6 DEF Obeyed
    <3> QED BY <2>1, <2>2, <2>3, <2>6, <3>1, <3>2, <3>3
            DEF Obeyed, Handled, TypeInv, Types, TaskSound, TaskLives
  <2> QED BY <2>2, <2>4, <2>5, <2>6
<1>2. CASE DeliverRefused \/ DeliverFails
  <2>1. /\ stop /\ faults' \in Nat
        /\ UNCHANGED <<log, committed, emitted, announced, crashes>>
        /\ checkpoints' \in [Sessions -> Checkpoint]
    BY <1>2, DeliverFailsFacts DEF DeliverRefused, TypeInv, Types, topics
  <2> QED BY <2>1, TypeStop DEF TypeInv, Types
<1> QED BY <1>1, <1>2

(* Publications and commits keep the types. *)
LEMMA TypePublish ==
  ASSUME TypeInv, publish_status \/ publish_quarantine \/ Commit \/ HandlerFails
  PROVE  TypeInv'
<1>1. [Idle EXCEPT !.pc = "COMMIT"] \in Handler /\ [Idle EXCEPT !.pc = "COMMIT"].pc = "COMMIT"
  BY Constants DEF Handler
<1>2. handler.pc = "STATUS" => /\ Told(handler.session, handler.status) \in [Sessions -> SUBSET Status]
                               /\ handler.session \in Sessions
  BY TopicFacts DEF TypeInv, Types, TaskSound, Handler
<1>3. CASE publish_status \/ publish_quarantine
  <2>1. announced' \in [Sessions -> SUBSET Status]
    BY <1>2, <1>3 DEF publish_status, publish_quarantine, Told, TypeInv, Types, topics
  <2> QED BY <1>1, <1>3, <2>1
          DEF publish_status, publish_quarantine, TypeInv, Types, TaskSound, TaskLives, topics
<1>4. CASE Commit
  BY <1>4, Constants DEF Commit, TypeInv, Types, TaskSound, TaskLives, topics
<1>5. CASE HandlerFails
  <2>1. /\ stop /\ faults' \in Nat /\ committed' \in Nat
        /\ announced' \in [Sessions -> SUBSET Status]
        /\ UNCHANGED <<log, checkpoints, emitted, crashes>>
    BY <1>2, <1>5 DEF HandlerFails, Told, TypeInv, Types
  <2> QED BY <2>1, TypeStop DEF TypeInv, Types
<1> QED BY <1>3, <1>4, <1>5

(* So does the task. *)
LEMMA TypeTask ==
  ASSUME TypeInv, SessionTask \/ TaskFails \/ AnnounceFails
  PROVE  TypeInv'
<1>1. /\ task \in Task /\ checkpoints \in [Sessions -> Checkpoint] /\ active.session \in Sessions
      /\ stopping \in BOOLEAN /\ paused \in BOOLEAN
      /\ TaskLives /\ mode # "DOWN"
  BY DEF TypeInv, Types, TaskSound, SessionTask, TaskFails, AnnounceFails, Wake,
         publish_telemetry, Acknowledge, Announce, TaskRuns, TaskLives
<1>2. CASE Wake
  <2>1. Proceed(task, checkpoints)
    BY <1>2 DEF Wake
  <2>2. task' \in Task /\ checkpoints' \in [Sessions -> Checkpoint]
        /\ (task'.pc \in {"SENDING", "SENT"} => Following(task'.ts) <= Rows)
    BY <1>1, <2>1, ProceedFacts
  <2> QED BY <1>1, <1>2, <2>2 DEF Wake, TypeInv, Types, TaskSound, TaskLives, topics
<1>3. CASE publish_telemetry
  <2>1. /\ task' \in Task /\ task'.pc = "SENT" /\ task'.ts = task.ts
        /\ emitted' \in [Sessions -> SUBSET Event]
    BY <1>1, <1>3, TopicFacts DEF publish_telemetry, Task, Sent
  <2> QED BY <1>1, <1>3, <2>1 DEF publish_telemetry, TypeInv, Types, TaskSound, TaskLives
<1>4. CASE Acknowledge
  <2> DEFINE t == [task EXCEPT !.last = task.last + 1, !.ts = Following(task.ts)]
             cps == record_replay_checkpoint(checkpoints, active.session, _checkpoint_state,
                                             task.last + 1, Following(task.ts))
  <2>1. /\ t \in Task /\ cps \in [Sessions -> Checkpoint] /\ Proceed(t, cps)
        /\ UNCHANGED <<log, committed, position, mode, handler, active, paused, stopping,
                       emitted, announced, faults, crashes>>
    BY <1>4, AcknowledgeFacts
  <2> HIDE DEF t, cps
  <2>2. task' \in Task /\ checkpoints' \in [Sessions -> Checkpoint]
        /\ (task'.pc \in {"SENDING", "SENT"} => Following(task'.ts) <= Rows)
    BY <1>1, <2>1, ProceedFacts
  <2> QED BY <1>1, <2>1, <2>2 DEF TypeInv, Types, TaskSound, TaskLives
<1>5. CASE Announce \/ AnnounceFails
  <2>1. task' \in Task /\ task'.pc = "DONE"
    BY <1>1, <1>5 DEF Announce, AnnounceFails, Task
  <2>2. announced' \in [Sessions -> SUBSET Status]
    <3>1. \E state \in {"COMPLETED", "FAILED"}, error \in {"NONE", "STREAM"} :
            announced' = announced \/ announced' = Told(active.session, Ending(state, error))
      BY <1>5 DEF Announce, AnnounceFails, Told, Ending
    <3> QED BY <1>1, <3>1, EndingFacts, TopicFacts DEF TypeInv, Types, States
  <2> QED BY <1>1, <1>5, <2>1, <2>2
          DEF Announce, AnnounceFails, TypeInv, Types, TaskSound, TaskLives
<1>6. CASE TaskFails
  <2>1. emitted' \in [Sessions -> SUBSET Event] /\ announced' \in [Sessions -> SUBSET Status]
    BY <1>1, <1>6, TaskFailsFacts, TopicFacts, EndingFacts DEF TypeInv, Types, States
  <2>2. task' \in Task /\ task'.pc \notin {"SENDING", "SENT"}
        /\ checkpoints' \in [Sessions -> Checkpoint] /\ faults' = faults + 1
        /\ UNCHANGED <<log, committed, position, mode, handler, active, paused, stopping, crashes>>
    BY <1>6, TaskFailsFacts
  <2> QED BY <1>1, <2>1, <2>2 DEF TypeInv, Types, TaskSound, TaskLives
<1> QED BY <1>2, <1>3, <1>4, <1>5, <1>6 DEF SessionTask

(* So do the producers of commands and the deaths of the process. *)
LEMMA TypeProcess ==
  ASSUME TypeInv,
         \/ \E action \in Issued, s \in Sessions : Issue(action, s)
         \/ Stopped \/ Shutdown \/ Crash \/ start
  PROVE  TypeInv'
<1>1. CASE \E action \in Issued, s \in Sessions : Issue(action, s)
  <2>1. PICK action \in Issued, s \in Sessions : Issue(action, s)
    BY <1>1
  <2>2. [action |-> action, session |-> s] \in Records
    BY ServiceAssumption DEF Records
  <2>3. log' \in Seq(Records)
    BY <2>1, <2>2 DEF Issue, TypeInv, Types
  <2> QED BY <2>1, <2>3 DEF Issue, memory, topics, TypeInv, Types, TaskSound, TaskLives
<1>2. CASE Stopped \/ Crash
  <2>1. Dead /\ crashes' \in Nat /\ UNCHANGED <<log, committed, checkpoints, emitted, announced, faults>>
    BY <1>2 DEF Stopped, Crash, topics, TypeInv, Types
  <2> QED BY <2>1, TypeStop DEF TypeInv, Types
<1>3. CASE Shutdown
  <2>1. stop /\ crashes' \in Nat /\ UNCHANGED <<log, committed, checkpoints, emitted, announced, faults>>
    BY <1>3 DEF Shutdown, topics, TypeInv, Types
  <2> QED BY <2>1, TypeStop DEF TypeInv, Types
<1>4. CASE start
  <2>1. /\ mode = "DOWN" /\ mode' = "UP" /\ position' = committed /\ handler' = Idle
        /\ stopping' = FALSE
        /\ UNCHANGED <<log, committed, checkpoints, emitted, announced, faults, crashes>>
    BY <1>4, StartFacts
  <2>2. /\ active' \in Controller /\ task' \in Task /\ paused' \in BOOLEAN
        /\ task'.pc = "ROW" => active'.session \in Sessions
        /\ task'.pc \in {"ROW", "DONE"}
    BY <1>4, StartFacts, <2>1, Constants
    DEF TypeInv, Types, TaskSound, load_incomplete_replays
  <2> QED BY <2>1, <2>2, Constants DEF TypeInv, Types, TaskSound, TaskLives
<1> QED BY <1>1, <1>2, <1>3, <1>4

(* The types hold of every step. *)
LEMMA TypeStep ==
  ASSUME TypeInv, [Next]_vars
  PROVE  TypeInv'
<1>1. CASE UNCHANGED vars
  BY <1>1 DEF vars, memory, topics, TypeInv, Types, TaskSound, TaskLives
<1> QED BY <1>1, TypeCommand, TypePublish, TypeTask, TypeProcess DEF Next, CommandLoop

-----------------------------------------------------------------------------
(* What holds whatever fails: nothing is paused before a PAUSE is issued,  *)
(* no task fails before a call does, and no command announces COMPLETED.   *)
PauseInv ==
  ~PauseIssued =>
    /\ paused = FALSE /\ active.state # "PAUSED"
    /\ \A s \in Sessions : checkpoints[s].state # "PAUSED"

SideInv ==
  /\ PauseInv
  /\ faults = 0 => task.pc # "FAILED"
  /\ handler.pc = "STATUS" => handler.status.state # "COMPLETED"

(* Nothing is paused, failed or completed at the start. *)
LEMMA InitSide == Init => SideInv
  BY DEF Init, SideInv, PauseInv, created, NoCheckpoint, NoTask, Idle

(* A record in the log has been issued. *)
LEMMA IssuedFacts ==
  /\ \A r : Handled(r) /\ r.action = "PAUSE" => PauseIssued
  /\ UNCHANGED log => (PauseIssued' <=> PauseIssued)
  BY DEF Handled, PauseIssued, HasBeenIssued

(* What a refused and an accepted command say about the controller. *)
LEMMA RefusedFacts ==
  ASSUME active \in Controller, ~Refused(active, "RESUME")
  PROVE  active.state = "PAUSED"
<1>1. active.state \in States
  BY DEF Controller
<1> QED BY <1>1 DEF Refused, ALLOWED_TRANSITIONS, States

(* The command loop. *)
LEMMA SideCommand ==
  ASSUME TypeInv, SideInv,
         Deliver \/ DeliverRefused \/ DeliverFails \/ publish_status \/ publish_quarantine
           \/ Commit \/ HandlerFails
  PROVE  SideInv'
<1>1. CASE Deliver
  <2>1. /\ UNCHANGED <<log, faults>> /\ handler'.pc # "IDLE"
    BY <1>1, DeliverFacts
  <2>2. PICK r : Handled(r) /\ (PassedOver(r) \/ Started(r) \/ Obeyed(r))
    BY <1>1, DeliverFacts
  <2>3. r.session \in Sessions
    BY <2>2 DEF Handled, Records
  <2>4. CASE PassedOver(r)
    BY <2>1, <2>4, IssuedFacts DEF PassedOver, SideInv, PauseInv
  <2>5. CASE Started(r)
    <3>1. \A s \in Sessions : checkpoints'[s].state = "RUNNING" \/ checkpoints'[s] = checkpoints[s]
      BY <2>3, <2>5, RecordChanges DEF Started, TypeInv, Types, States, None
    <3> QED BY <2>1, <2>5, <3>1, IssuedFacts DEF Started, SideInv, PauseInv
  <2>6. CASE Obeyed(r)
    <3>1. /\ active \in Controller /\ r.action \in Actions
          /\ checkpoints \in [Sessions -> Checkpoint]
      BY <2>6 DEF Obeyed, TypeInv, Types, Actions
    <3>2. /\ active'.state \in {"STOPPED", "PAUSED", "RUNNING"}
          /\ r.action # "PAUSE" => active'.state # "PAUSED"
          /\ active'.state \in States
      BY <2>6, <3>1, ApplyFacts DEF Obeyed, States
    <3>3. \A s \in Sessions : checkpoints'[s].state = active'.state \/ checkpoints'[s] = checkpoints[s]
      BY <2>3, <2>6, <3>1, <3>2, UpdateChanges DEF Obeyed
    <3>4. r.action = "PAUSE" => PauseIssued'
      BY <2>1, <2>2, IssuedFacts
    <3>5. PauseInv'
      BY <2>1, <2>6, <3>2, <3>3, <3>4, IssuedFacts DEF Obeyed, SideInv, PauseInv
    <3> QED BY <2>1, <2>6, <3>2, <3>5 DEF Obeyed, SideInv
  <2> QED BY <2>2, <2>4, <2>5, <2>6
<1>2. ASSUME stop, UNCHANGED log,
             \A s \in Sessions : checkpoints'[s].state # "PAUSED" \/ PauseIssued \/ checkpoints'[s] = checkpoints[s],
             faults' \in {faults, faults + 1}
      PROVE  SideInv'
  <2>1. created(NoSession).state # "PAUSED"
    BY DEF created
  <2>2. PauseInv'
    BY <1>2, <2>1, IssuedFacts, StopFacts DEF SideInv, PauseInv
  <2>3. faults' = 0 => faults = 0
    BY <1>2 DEF TypeInv, Types
  <2> QED BY <1>2, <2>2, <2>3, StopFacts, Constants DEF SideInv
<1>3. CASE DeliverRefused
  BY <1>2, <1>3 DEF DeliverRefused
<1>4. CASE DeliverFails
  <2>1. stop /\ UNCHANGED log /\ faults' = faults + 1
    BY <1>4, DeliverFailsFacts
  <2>2. PICK r : /\ Handled(r)
                 /\ \/ UNCHANGED checkpoints
                    \/ /\ r.action = "START" /\ ~TaskLives
                       /\ checkpoints' =
                            record_replay_checkpoint(checkpoints, r.session, "RUNNING", 0, None)
                    \/ /\ r.action \in {"PAUSE", "RESUME", "STOP"}
                       /\ active.session = r.session /\ TaskLives /\ ~Refused(active, r.action)
                       /\ checkpoints' =
                            update_replay_checkpoint_state(checkpoints, r.session,
                                                           apply(active, r.action).state)
    BY <1>4, DeliverFailsFacts
  <2>3. /\ r.session \in Sessions /\ checkpoints \in [Sessions -> Checkpoint]
        /\ active \in Controller
    BY <2>2 DEF Handled, Records, TypeInv, Types
  <2>4. \A s \in Sessions :
          record_replay_checkpoint(checkpoints, r.session, "RUNNING", 0, None)[s].state = "RUNNING"
            \/ record_replay_checkpoint(checkpoints, r.session, "RUNNING", 0, None)[s] = checkpoints[s]
    BY <2>3, RecordChanges DEF States, None
  <2>5. r.action \in {"PAUSE", "RESUME", "STOP"} =>
          /\ apply(active, r.action).state \in States
          /\ r.action # "PAUSE" => apply(active, r.action).state # "PAUSED"
    BY <2>3, ApplyFacts DEF Actions, Controller
  <2>6. r.action \in {"PAUSE", "RESUME", "STOP"} => \A s \in Sessions :
          \/ update_replay_checkpoint_state(checkpoints, r.session, apply(active, r.action).state)[s].state
               = apply(active, r.action).state
          \/ update_replay_checkpoint_state(checkpoints, r.session, apply(active, r.action).state)[s]
               = checkpoints[s]
    BY <2>3, <2>5, UpdateFacts
  <2>7. \A s \in Sessions : checkpoints'[s].state # "PAUSED" \/ PauseIssued \/ checkpoints'[s] = checkpoints[s]
    <3>1. CASE UNCHANGED checkpoints
      BY <3>1
    <3>2. CASE checkpoints' = record_replay_checkpoint(checkpoints, r.session, "RUNNING", 0, None)
      BY <3>2, <2>4
    <3>3. CASE /\ r.action \in {"PAUSE", "RESUME", "STOP"}
               /\ checkpoints' = update_replay_checkpoint_state(checkpoints, r.session,
                                                               apply(active, r.action).state)
      BY <3>3, <2>2, <2>5, <2>6, IssuedFacts
    <3> QED BY <2>2, <3>1, <3>2, <3>3
  <2> QED BY <1>2, <2>1, <2>7
<1>5. CASE HandlerFails
  BY <1>2, <1>5 DEF HandlerFails
<1>6. CASE publish_status \/ publish_quarantine \/ Commit
  <2>1. /\ handler'.pc # "STATUS"
        /\ UNCHANGED <<log, active, task, paused, checkpoints, faults>>
    BY <1>6, Constants DEF publish_status, publish_quarantine, Commit, Handler
  <2> QED BY <2>1, IssuedFacts DEF SideInv, PauseInv
<1> QED BY <1>1, <1>3, <1>4, <1>5, <1>6

(* The task, the process and the producers of commands. *)
LEMMA SideOther ==
  ASSUME TypeInv, SideInv,
         \/ SessionTask \/ TaskFails \/ AnnounceFails
         \/ \E action \in Issued, s \in Sessions : Issue(action, s)
         \/ Stopped \/ Shutdown \/ Crash \/ start \/ UNCHANGED vars
  PROVE  SideInv'
<1>1. /\ task \in Task /\ checkpoints \in [Sessions -> Checkpoint]
      /\ stopping \in BOOLEAN /\ paused \in BOOLEAN
  BY DEF TypeInv, Types
<1>2. ASSUME NEW t \in Task, NEW cps \in [Sessions -> Checkpoint], Proceed(t, cps),
             active.session \in Sessions,
             \A s \in Sessions : cps[s].state # "PAUSED" \/ PauseIssued \/ cps[s] = checkpoints[s],
             UNCHANGED <<log, handler, active, paused, faults>>
      PROVE  SideInv'
  <2>1. task'.pc # "FAILED" /\ t.last \in Nat /\ t.ts \in Nat
    BY <1>1, <1>2, ProceedFacts DEF Task
  <2>2. \A s \in Sessions : checkpoints'[s].state = "COMPLETED" \/ checkpoints'[s] = cps[s]
    <3>1. checkpoints' = cps \/ checkpoints' =
                   record_replay_checkpoint(cps, active.session, "COMPLETED", t.last, t.ts)
      BY <1>1, <1>2, ProceedFacts
    <3> QED BY <1>2, <2>1, <3>1, RecordChanges DEF States
  <2> QED BY <1>2, <2>1, <2>2, IssuedFacts DEF SideInv, PauseInv
<1>3. CASE Wake
  BY <1>1, <1>2, <1>3 DEF Wake, TypeInv, TaskSound, TaskLives
<1>4. CASE Acknowledge
  <2> DEFINE t == [task EXCEPT !.last = task.last + 1, !.ts = Following(task.ts)]
             cps == record_replay_checkpoint(checkpoints, active.session, _checkpoint_state,
                                             task.last + 1, Following(task.ts))
  <2>1. /\ t \in Task /\ cps \in [Sessions -> Checkpoint] /\ Proceed(t, cps)
        /\ active.session \in Sessions /\ _checkpoint_state \in States
        /\ task.last + 1 \in Nat /\ Following(task.ts) \in Nat
        /\ UNCHANGED <<log, handler, active, paused, faults>>
    BY <1>4, AcknowledgeFacts
  <2>2. \A s \in Sessions : cps[s].state = _checkpoint_state \/ cps[s] = checkpoints[s]
    BY <1>1, <2>1, RecordChanges
  <2>3. _checkpoint_state # "PAUSED" \/ PauseIssued
    BY DEF SideInv, PauseInv, _checkpoint_state
  <2> HIDE DEF t, cps
  <2> QED BY <1>2, <2>1, <2>2, <2>3
<1>5. CASE publish_telemetry
  <2>1. task'.pc = "SENT" /\ UNCHANGED <<log, handler, active, paused, faults, checkpoints>>
    BY <1>1, <1>5 DEF publish_telemetry, Task
  <2> QED BY <2>1, IssuedFacts DEF SideInv, PauseInv
<1>6. CASE Announce \/ AnnounceFails
  <2>1. task'.pc = "DONE" /\ UNCHANGED <<log, handler, active, paused, faults, checkpoints>>
    BY <1>1, <1>6 DEF Announce, AnnounceFails, Task
  <2> QED BY <2>1, IssuedFacts DEF SideInv, PauseInv
<1>7. CASE TaskFails
  <2>1. /\ faults' = faults + 1 /\ UNCHANGED <<log, handler, active, paused>>
        /\ active.session \in Sessions
        /\ \/ UNCHANGED checkpoints
           \/ \E last, ts \in Nat : checkpoints' =
                record_replay_checkpoint(checkpoints, active.session, "FAILED", last, ts)
    BY <1>7, TaskFailsFacts
  <2>2. \A s \in Sessions : checkpoints'[s].state = "FAILED" \/ checkpoints'[s] = checkpoints[s]
    BY <1>1, <2>1, RecordChanges DEF States
  <2>3. faults' # 0
    BY <2>1 DEF TypeInv, Types
  <2> QED BY <2>1, <2>2, <2>3, IssuedFacts DEF SideInv, PauseInv
<1>8. CASE \E action \in Issued, s \in Sessions : Issue(action, s)
  <2>1. PICK action \in Issued, s \in Sessions : Issue(action, s)
    BY <1>8
  <2>2. [action |-> action, session |-> s] \in Records
    BY ServiceAssumption DEF Records
  <2>3. PauseIssued => PauseIssued'
    BY <2>1, <2>2 DEF Issue, PauseIssued, HasBeenIssued, TypeInv, Types
  <2> QED BY <2>1, <2>3 DEF Issue, memory, SideInv, PauseInv
<1>9. CASE Stopped \/ Crash
  <2>1. /\ Dead /\ UNCHANGED <<log, checkpoints, faults>>
    BY <1>9 DEF Stopped, Crash
  <2>2. created(NoSession).state # "PAUSED"
    BY DEF created
  <2> QED BY <2>1, <2>2, IssuedFacts, Constants DEF Dead, SideInv, PauseInv
<1>10. CASE Shutdown
  <2>1. /\ stop /\ UNCHANGED <<log, checkpoints, faults>>
    BY <1>10 DEF Shutdown
  <2>2. created(NoSession).state # "PAUSED"
    BY DEF created
  <2> QED BY <2>1, <2>2, IssuedFacts, Constants, StopFacts DEF SideInv, PauseInv
<1>11. CASE start
  <2>1. /\ mode = "DOWN" /\ handler' = Idle
        /\ UNCHANGED <<log, checkpoints, faults>>
    BY <1>11, StartFacts
  <2>2. /\ task'.pc # "FAILED"
        /\ ~PauseIssued => active'.state # "PAUSED" /\ paused' = FALSE
    BY <1>11, StartFacts, Constants
    DEF SideInv, PauseInv, TypeInv, TaskSound, load_incomplete_replays
  <2> QED BY <2>1, <2>2, IssuedFacts, Constants DEF SideInv, PauseInv
<1>12. CASE UNCHANGED vars
  BY <1>12, IssuedFacts DEF vars, memory, SideInv, PauseInv
<1> QED BY <1>3, <1>4, <1>5, <1>6, <1>7, <1>8, <1>9, <1>10, <1>11, <1>12 DEF SessionTask

-----------------------------------------------------------------------------
(* The stream.  A cursor is good for a session when the rows up to it are  *)
(* out; every cursor the service can come back to is good, unless a call   *)
(* has failed and a PAUSE was issued.                                      *)
Calm == faults = 0 \/ ~PauseIssued

Good(s, last, ts) ==
  /\ ts = last /\ last <= Rows
  /\ \A i \in 1..last : [seq |-> i, ts |-> i] \in emitted[s]

CheckpointsGood ==
  \A s \in Sessions : checkpoints[s].state \in {"RUNNING", "PAUSED"} =>
    Good(s, checkpoints[s].last, checkpoints[s].ts)

StreamInv ==
  /\ \A s \in Sessions : \E n \in 0..Rows : emitted[s] = Session!Prefix(n)
  /\ CheckpointsGood
  /\ TaskLives /\ task.pc # "FAILED" =>
       /\ Good(active.session, task.last, task.ts)
       /\ Good(active.session, checkpoints[active.session].last, checkpoints[active.session].ts)
  /\ task.pc = "SENT" =>
       [seq |-> task.last + 1, ts |-> task.last + 1] \in emitted[active.session]
  /\ task.pc = "COMPLETED" => task.last = Rows

Inv == TypeInv /\ SideInv /\ (Calm => StreamInv)

(* A cursor that is good is followed by the row of the next number. *)
LEMMA GoodFollows ==
  ASSUME NEW s, NEW last \in Nat, NEW ts \in Nat, Good(s, last, ts)
  PROVE  Following(ts) = last + 1
  BY DEF Good, Following, None, range_start

(* What is out stays out. *)
LEMMA GoodStays ==
  ASSUME NEW s \in Sessions, NEW last, NEW ts, Good(s, last, ts), emitted[s] \subseteq emitted'[s]
  PROVE  Good(s, last, ts)'
  BY DEF Good

(* A stream that sends the row after a good cursor repeats a row that is   *)
(* out, or sends the first that is not.                                    *)
LEMMA NextRow ==
  ASSUME NEW s \in Sessions, NEW n \in 0..Rows, emitted[s] = Session!Prefix(n),
         NEW last \in Nat, Good(s, last, last), last + 1 <= Rows
  PROVE  LET e == [seq |-> last + 1, ts |-> last + 1]
         IN  \/ last + 1 <= n /\ emitted[s] \cup {e} = emitted[s]
             \/ last = n /\ emitted[s] \cup {e} = Session!Prefix(n + 1)
<1> DEFINE e == [seq |-> last + 1, ts |-> last + 1]
<1>1. last <= n
  <2>1. CASE last = 0
    BY <2>1
  <2>2. CASE last # 0
    <3>1. [seq |-> last, ts |-> last] \in Session!Prefix(n)
      BY <2>2 DEF Good
    <3>2. PICK i \in 1..n : [seq |-> last, ts |-> last] = [seq |-> i, ts |-> i]
      BY <3>1 DEF Session!Prefix
    <3>3. last = i
      <4>1. [seq |-> last, ts |-> last].seq = [seq |-> i, ts |-> i].seq
        BY <3>2
      <4> QED BY <4>1
    <3> QED BY <3>3
  <2> QED BY <2>1, <2>2
<1>2. CASE last + 1 <= n
  <2>1. e \in Session!Prefix(n)
    BY <1>2 DEF Session!Prefix
  <2> QED BY <1>2, <2>1
<1>3. CASE last = n
  <2>1. Session!Prefix(n + 1) = Session!Prefix(n) \cup {e}
    BY <1>3 DEF Session!Prefix
  <2> QED BY <1>3, <2>1
<1> QED BY <1>1, <1>2, <1>3, RowsAssumption

(* What publishing the task's row does to the topic. *)
LEMMA SentFacts ==
  ASSUME TypeInv, StreamInv, task.pc = "SENDING"
  PROVE  /\ active.session \in Sessions
         /\ iter_events(task.last + 1, task.ts)
              = {[seq |-> task.last + 1, ts |-> task.last + 1]}
         /\ Sent \in [Sessions -> SUBSET Event]
         /\ \A s \in Sessions : s # active.session => Sent[s] = emitted[s]
         /\ [seq |-> task.last + 1, ts |-> task.last + 1] \in Sent[active.session]
         /\ \A s \in Sessions : emitted[s] \subseteq Sent[s]
         /\ \/ Sent = emitted
            \/ \E n \in 0..Rows : /\ n + 1 <= Rows /\ emitted[active.session] = Session!Prefix(n)
                                  /\ Sent[active.session] = Session!Prefix(n + 1)
<1> DEFINE e == [seq |-> task.last + 1, ts |-> task.last + 1]
           s == active.session
<1>1. /\ s \in Sessions /\ task.last \in Nat /\ task.ts \in Nat /\ task.last + 1 \in Nat
      /\ Following(task.ts) <= Rows /\ TaskLives
      /\ emitted \in [Sessions -> SUBSET Event]
  BY DEF TypeInv, Types, TaskSound, TaskLives, Task
<1>2. Good(s, task.last, task.ts)
  BY <1>1 DEF StreamInv
<1>3. Following(task.ts) = task.last + 1 /\ Good(s, task.last, task.last)
  BY <1>1, <1>2, GoodFollows DEF Good
<1>4. iter_events(task.last + 1, task.ts) = {e}
  BY <1>1, <1>3, NextEvent
<1>5. Sent = [emitted EXCEPT ![s] = emitted[s] \cup {e}]
  BY <1>4 DEF Sent
<1>6. Sent \in [Sessions -> SUBSET Event]
  BY <1>1, TopicFacts
<1>7. PICK n \in 0..Rows : emitted[s] = Session!Prefix(n)
  BY <1>1 DEF StreamInv
<1>8. \/ task.last + 1 <= n /\ emitted[s] \cup {e} = emitted[s]
      \/ task.last = n /\ emitted[s] \cup {e} = Session!Prefix(n + 1)
  BY <1>1, <1>3, <1>7, NextRow
<1> HIDE DEF e, s
<1>9. /\ \A q \in Sessions : q # s => Sent[q] = emitted[q]
      /\ Sent[s] = emitted[s] \cup {e}
  BY <1>1, <1>5
<1>10. \/ Sent = emitted
       \/ \E m \in 0..Rows : /\ m + 1 <= Rows /\ emitted[s] = Session!Prefix(m)
                             /\ Sent[s] = Session!Prefix(m + 1)
  <2>1. CASE emitted[s] \cup {e} = emitted[s]
    BY <1>1, <1>5, <2>1
  <2>2. CASE task.last = n /\ emitted[s] \cup {e} = Session!Prefix(n + 1)
    BY <1>1, <1>3, <1>7, <1>9, <2>2
  <2> QED BY <1>8, <2>1, <2>2
<1> QED BY <1>1, <1>4, <1>6, <1>9, <1>10 DEF e, s

(* Without a new event the goodness of a cursor does not change. *)
LEMMA GoodUnchanged ==
  ASSUME UNCHANGED emitted
  PROVE  \A s, last, ts : Good(s, last, ts) => Good(s, last, ts)'
  BY DEF Good

(* The first row needs nothing before it. *)
LEMMA GoodStart == \A s : Good(s, 0, 0)'
  BY RowsAssumption DEF Good

(* A loop that is left leaves the task where it stands, or there is none. *)
LEMMA StreamStop ==
  ASSUME TypeInv, StreamInv, stop \/ Dead, UNCHANGED emitted,
         CheckpointsGood',
         TaskLives /\ task.pc # "FAILED" =>
           /\ checkpoints'[active.session].last = checkpoints[active.session].last
           /\ checkpoints'[active.session].ts = checkpoints[active.session].ts
  PROVE  StreamInv'
<1>1. CASE task' = NoTask
  <2>1. task'.pc = "DONE" /\ ~TaskLives'
    BY <1>1, Constants DEF TaskLives
  <2> QED BY <2>1 DEF StreamInv
<1>2. CASE UNCHANGED <<active, task>>
  <2>1. TaskLives' <=> TaskLives
    BY <1>2 DEF TaskLives
  <2> QED BY <1>2, <2>1, GoodUnchanged DEF StreamInv, CheckpointsGood
<1> QED BY <1>1, <1>2 DEF stop, Dead

(* The command loop moves no cursor but that of the session it starts. *)
LEMMA StreamCommand ==
  ASSUME TypeInv, SideInv, StreamInv, Calm',
         Deliver \/ DeliverRefused \/ DeliverFails \/ publish_status \/ publish_quarantine
           \/ Commit \/ HandlerFails
  PROVE  StreamInv'
<1>1. checkpoints \in [Sessions -> Checkpoint] /\ active \in Controller
  BY DEF TypeInv, Types
<1>2. ASSUME NEW r, Handled(r), r.action \in {"PAUSE", "RESUME"}, ~Refused(active, r.action),
             TaskLives, UNCHANGED log
      PROVE  task.pc # "FAILED"
  <2>1. SUFFICES ASSUME task.pc = "FAILED" PROVE FALSE
    OBVIOUS
  <2>2. faults # 0
    BY <2>1 DEF SideInv
  <2>3. ~PauseIssued
    <3>1. CASE ~PauseIssued'
      BY <1>2, <3>1, IssuedFacts
    <3>2. CASE faults' = 0
      BY <2>2, <3>2, DeliverFacts, DeliverFailsFacts
      DEF TypeInv, Types, publish_status, publish_quarantine, Commit, HandlerFails,
          DeliverRefused
    <3> QED BY <3>1, <3>2 DEF Calm
  <2>4. r.action = "RESUME" /\ active.state # "PAUSED"
    BY <1>2, <2>3, IssuedFacts DEF SideInv, PauseInv
  <2> QED BY <1>1, <1>2, <2>4, RefusedFacts
<1>3. ASSUME NEW r, Handled(r), UNCHANGED <<log, emitted>>,
             r.action = "START" /\ ~TaskLives,
             checkpoints' = record_replay_checkpoint(checkpoints, r.session, "RUNNING", 0, None)
      PROVE  /\ CheckpointsGood'
             /\ checkpoints'[r.session].last = 0 /\ checkpoints'[r.session].ts = 0
  <2>1. r.session \in Sessions
    BY <1>3 DEF Handled, Records
  <2>2. /\ checkpoints'[r.session].last = 0 /\ checkpoints'[r.session].ts = 0
        /\ \A s \in Sessions : s # r.session => checkpoints'[s] = checkpoints[s]
    BY <1>1, <1>3, <2>1, RecordFacts DEF States, None
  <2> QED BY <1>3, <2>1, <2>2, GoodStart, GoodUnchanged DEF StreamInv, CheckpointsGood
<1>4. ASSUME NEW r, Handled(r), UNCHANGED <<log, emitted>>,
             r.action \in {"PAUSE", "RESUME", "STOP"},
             active.session = r.session, TaskLives, ~Refused(active, r.action),
             checkpoints' = update_replay_checkpoint_state(checkpoints, r.session,
                                                           apply(active, r.action).state)
      PROVE  /\ CheckpointsGood'
             /\ checkpoints'[active.session].last = checkpoints[active.session].last
             /\ checkpoints'[active.session].ts = checkpoints[active.session].ts
  <2>1. r.session \in Sessions /\ r.action \in Actions
    BY <1>4 DEF Handled, Records, Actions
  <2>2. apply(active, r.action).state \in States
        /\ (r.action = "STOP" => apply(active, r.action).state = "STOPPED")
    BY <1>1, <2>1, ApplyFacts DEF Controller
  <2>3. /\ checkpoints'[r.session].state = apply(active, r.action).state
        /\ checkpoints'[r.session].last = checkpoints[r.session].last
        /\ checkpoints'[r.session].ts = checkpoints[r.session].ts
        /\ \A s \in Sessions : s # r.session => checkpoints'[s] = checkpoints[s]
    BY <1>1, <1>4, <2>1, <2>2, UpdateFacts
  <2>4. CASE r.action = "STOP"
    BY <1>4, <2>1, <2>2, <2>3, <2>4, GoodUnchanged DEF StreamInv, CheckpointsGood
  <2>5. CASE r.action \in {"PAUSE", "RESUME"}
    <3>1. task.pc # "FAILED"
      BY <1>2, <1>4, <2>5
    <3>2. Good(r.session, checkpoints[r.session].last, checkpoints[r.session].ts)
      BY <1>4, <3>1 DEF StreamInv
    <3> QED BY <1>4, <2>1, <2>3, <3>2, GoodUnchanged DEF StreamInv, CheckpointsGood
  <2> QED BY <1>4, <2>4, <2>5
<1>5. CASE Deliver
  <2>1. UNCHANGED <<log, emitted>>
    BY <1>5, DeliverFacts
  <2>2. PICK r : Handled(r) /\ (PassedOver(r) \/ Started(r) \/ Obeyed(r))
    BY <1>5, DeliverFacts
  <2>3. CASE PassedOver(r)
    <3>1. UNCHANGED <<active, task, checkpoints, emitted>> /\ (TaskLives' <=> TaskLives)
      BY <2>1, <2>3 DEF PassedOver, TaskLives
    <3> QED BY <3>1, GoodUnchanged DEF StreamInv, CheckpointsGood
  <2>4. CASE Started(r)
    <3>1. /\ task'.pc = "ROW" /\ task'.last = 0 /\ task'.ts = 0
          /\ active'.session = r.session
      BY <2>4 DEF Started, None
    <3> QED BY <1>3, <2>1, <2>2, <2>4, <3>1, GoodStart DEF Started, StreamInv
  <2>5. CASE Obeyed(r)
    <3>1. /\ UNCHANGED task /\ (TaskLives' <=> TaskLives)
          /\ active'.session = active.session
      BY <1>1, <2>5, ApplyFacts DEF Obeyed, TaskLives, Actions
    <3>2. /\ CheckpointsGood'
          /\ checkpoints'[active.session].last = checkpoints[active.session].last
          /\ checkpoints'[active.session].ts = checkpoints[active.session].ts
      BY <1>4, <2>1, <2>2, <2>5 DEF Obeyed
    <3> QED BY <2>1, <3>1, <3>2, GoodUnchanged DEF StreamInv, CheckpointsGood
  <2> QED BY <2>2, <2>3, <2>4, <2>5
<1>6. CASE DeliverRefused \/ HandlerFails
  <2>1. stop /\ UNCHANGED <<emitted, checkpoints>>
    BY <1>6 DEF DeliverRefused, HandlerFails, topics
  <2>2. CheckpointsGood'
    BY <2>1, GoodUnchanged DEF StreamInv, CheckpointsGood
  <2> QED BY <2>1, <2>2, StreamStop
<1>7. CASE DeliverFails
  <2>1. stop /\ UNCHANGED <<log, emitted>>
    BY <1>7, DeliverFailsFacts
  <2>2. PICK r : /\ Handled(r)
                 /\ \/ UNCHANGED checkpoints
                    \/ /\ r.action = "START" /\ ~TaskLives
                       /\ checkpoints' =
                            record_replay_checkpoint(checkpoints, r.session, "RUNNING", 0, None)
                    \/ /\ r.action \in {"PAUSE", "RESUME", "STOP"}
                       /\ active.session = r.session /\ TaskLives /\ ~Refused(active, r.action)
                       /\ checkpoints' =
                            update_replay_checkpoint_state(checkpoints, r.session,
                                                           apply(active, r.action).state)
    BY <1>7, DeliverFailsFacts
  <2>3. CASE UNCHANGED checkpoints
    <3>1. CheckpointsGood'
      BY <2>1, <2>3, GoodUnchanged DEF StreamInv, CheckpointsGood
    <3> QED BY <2>1, <2>3, <3>1, StreamStop
  <2>4. CASE /\ r.action = "START" /\ ~TaskLives
             /\ checkpoints' =
                  record_replay_checkpoint(checkpoints, r.session, "RUNNING", 0, None)
    BY <1>3, <2>1, <2>2, <2>4, StreamStop
  <2>5. CASE /\ r.action \in {"PAUSE", "RESUME", "STOP"}
             /\ active.session = r.session /\ TaskLives /\ ~Refused(active, r.action)
             /\ checkpoints' = update_replay_checkpoint_state(checkpoints, r.session,
                                                              apply(active, r.action).state)
    BY <1>4, <2>1, <2>2, <2>5, StreamStop
  <2> QED BY <2>2, <2>3, <2>4, <2>5
<1>8. CASE publish_status \/ publish_quarantine \/ Commit
  <2>1. UNCHANGED <<active, task, checkpoints, emitted>> /\ (TaskLives' <=> TaskLives)
    BY <1>8 DEF publish_status, publish_quarantine, Commit, topics, TaskLives
  <2> QED BY <2>1, GoodUnchanged DEF StreamInv, CheckpointsGood
<1> QED BY <1>5, <1>6, <1>7, <1>8

(* A task that goes on from a good cursor, recorded or not, keeps it. *)
LEMMA StreamProceed ==
  ASSUME TypeInv, StreamInv, UNCHANGED <<emitted, active>>, active.session \in Sessions,
         NEW t \in Task, NEW cps \in [Sessions -> Checkpoint], Proceed(t, cps),
         Good(active.session, t.last, t.ts),
         Good(active.session, cps[active.session].last, cps[active.session].ts),
         \A s \in Sessions : s # active.session => cps[s] = checkpoints[s]
  PROVE  StreamInv'
<1> DEFINE a == active.session
<1>1. stopping \in BOOLEAN /\ paused \in BOOLEAN /\ t.last \in Nat /\ t.ts \in Nat
  BY DEF TypeInv, Types, Task
<1>2. /\ task'.last = t.last /\ task'.ts = t.ts /\ task'.pc \in {"DONE", "ROW", "SENDING", "COMPLETED"}
      /\ task'.pc = "COMPLETED" =>
           /\ ~(Following(t.ts) <= Rows)
           /\ checkpoints' = record_replay_checkpoint(cps, a, "COMPLETED", t.last, t.ts)
      /\ task'.pc # "COMPLETED" => checkpoints' = cps
  BY <1>1, ProceedFacts
<1>3. task'.pc = "COMPLETED" => task'.last = Rows
  <2>1. Following(t.ts) = t.last + 1 /\ t.last <= Rows
    BY <1>1, GoodFollows DEF Good
  <2> QED BY <1>1, <1>2, <2>1, RowsAssumption
<1>4. /\ \A s \in Sessions : s # a => checkpoints'[s] = checkpoints[s]
      /\ \/ checkpoints'[a].last = t.last /\ checkpoints'[a].ts = t.ts
         \/ checkpoints'[a].last = cps[a].last /\ checkpoints'[a].ts = cps[a].ts
  <2>1. CASE task'.pc = "COMPLETED"
    BY <1>1, <1>2, <2>1, RecordFacts DEF States
  <2>2. CASE task'.pc # "COMPLETED"
    BY <1>2, <2>2
  <2> QED BY <2>1, <2>2
<1>5. /\ Good(a, task.last, task.ts)'
      /\ Good(a, checkpoints[a].last, checkpoints[a].ts)'
  BY <1>2, <1>4, GoodUnchanged
<1>6. CheckpointsGood'
  BY <1>4, <1>5, GoodUnchanged DEF StreamInv, CheckpointsGood
<1> QED BY <1>2, <1>3, <1>5, <1>6 DEF StreamInv

(* The task records a row only when it is out, and sends the row after its *)
(* cursor.                                                                 *)
LEMMA StreamTask ==
  ASSUME TypeInv, SideInv, StreamInv, Calm', SessionTask \/ TaskFails \/ AnnounceFails
  PROVE  StreamInv'
<1>1. /\ task \in Task /\ checkpoints \in [Sessions -> Checkpoint] /\ active.session \in Sessions
      /\ task.last \in Nat /\ task.ts \in Nat /\ TaskLives
  BY DEF TypeInv, Types, TaskSound, SessionTask, TaskFails, AnnounceFails, Wake,
         publish_telemetry, Acknowledge, Announce, TaskRuns, TaskLives, Task
<1>2. CASE Wake
  <2>1. /\ UNCHANGED <<emitted, active>> /\ Proceed(task, checkpoints)
        /\ Good(active.session, task.last, task.ts)
        /\ Good(active.session, checkpoints[active.session].last, checkpoints[active.session].ts)
    BY <1>1, <1>2 DEF Wake, topics, StreamInv
  <2> QED BY <1>1, <2>1, StreamProceed
<1>3. CASE Acknowledge
  <2> DEFINE t == [task EXCEPT !.last = task.last + 1, !.ts = Following(task.ts)]
             cps == record_replay_checkpoint(checkpoints, active.session, _checkpoint_state,
                                             task.last + 1, Following(task.ts))
  <2>1. /\ t \in Task /\ cps \in [Sessions -> Checkpoint] /\ Proceed(t, cps)
        /\ task.pc = "SENT" /\ Following(task.ts) <= Rows
        /\ t.last = task.last + 1 /\ t.ts = Following(task.ts)
        /\ task.last + 1 \in Nat /\ Following(task.ts) \in Nat /\ _checkpoint_state \in States
        /\ UNCHANGED <<emitted, active>>
    BY <1>3, AcknowledgeFacts
  <2>2. /\ cps[active.session].last = task.last + 1
        /\ cps[active.session].ts = Following(task.ts)
        /\ \A s \in Sessions : s # active.session => cps[s] = checkpoints[s]
    BY <1>1, <2>1, RecordFacts
  <2>3. Good(active.session, task.last, task.ts) /\ Following(task.ts) = task.last + 1
    BY <1>1, <2>1, GoodFollows DEF StreamInv
  <2>4. Good(active.session, task.last + 1, task.last + 1)
    BY <1>1, <2>1, <2>3 DEF StreamInv, Good
  <2> HIDE DEF t, cps
  <2> QED BY <1>1, <2>1, <2>2, <2>3, <2>4, StreamProceed
<1>4. ASSUME task.pc = "SENDING", emitted' = Sent, UNCHANGED active,
             task'.pc \in {"SENT", "FAILED", "DONE"}, CheckpointsGood',
             task'.pc = "SENT" => UNCHANGED checkpoints /\ task'.last = task.last /\ task'.ts = task.ts
      PROVE  StreamInv'
  <2>1. \A s \in Sessions : emitted[s] \subseteq emitted'[s]
    BY <1>4, SentFacts
  <2>2. \A s \in Sessions : \E n \in 0..Rows : emitted'[s] = Session!Prefix(n)
    <3> SUFFICES ASSUME NEW s \in Sessions
                 PROVE  \E n \in 0..Rows : emitted'[s] = Session!Prefix(n)
      OBVIOUS
    <3>1. CASE s # active.session \/ Sent = emitted
      BY <1>4, <3>1, SentFacts DEF StreamInv
    <3>2. CASE s = active.session /\ Sent # emitted
      <4>1. PICK n \in 0..Rows : /\ n + 1 <= Rows
                                 /\ Sent[active.session] = Session!Prefix(n + 1)
        BY <1>4, <3>2, SentFacts
      <4>2. n + 1 \in 0..Rows
        BY <4>1, RowsAssumption
      <4> QED BY <1>4, <3>2, <4>1, <4>2
    <3> QED BY <3>1, <3>2
  <2>3. task'.pc = "SENT" =>
          /\ Good(active.session, task.last, task.ts)'
          /\ Good(active.session, checkpoints[active.session].last,
                  checkpoints[active.session].ts)'
          /\ [seq |-> task'.last + 1, ts |-> task'.last + 1] \in emitted'[active'.session]
    <3> SUFFICES ASSUME task'.pc = "SENT"
                 PROVE  /\ Good(active.session, task.last, task.ts)'
                        /\ Good(active.session, checkpoints[active.session].last,
                                checkpoints[active.session].ts)'
                        /\ [seq |-> task'.last + 1, ts |-> task'.last + 1] \in emitted'[active'.session]
      OBVIOUS
    <3>1. /\ Good(active.session, task.last, task.ts)
          /\ Good(active.session, checkpoints[active.session].last,
                  checkpoints[active.session].ts)
      BY <1>1, <1>4 DEF StreamInv
    <3>2. \A last, ts : Good(active.session, last, ts) =>
             \A s : s = active.session => Good(s, last, ts)'
      BY <1>1, <2>1, GoodStays
    <3> QED BY <1>4, <3>1, <3>2, SentFacts
  <2> QED BY <1>4, <2>2, <2>3 DEF StreamInv, TaskLives
<1>5. CASE publish_telemetry
  <2>1. /\ task.pc = "SENDING" /\ emitted' = Sent /\ UNCHANGED <<active, checkpoints>>
        /\ task'.pc = "SENT" /\ task'.last = task.last /\ task'.ts = task.ts
    BY <1>1, <1>5 DEF publish_telemetry, Sent, Task
  <2>2. CheckpointsGood'
    BY <2>1, SentFacts, GoodStays DEF StreamInv, CheckpointsGood
  <2> QED BY <1>4, <2>1, <2>2
<1>6. CASE Announce \/ AnnounceFails
  <2>1. task'.pc = "DONE" /\ UNCHANGED <<active, checkpoints, emitted>>
    BY <1>1, <1>6 DEF Announce, AnnounceFails, Task
  <2> QED BY <2>1, GoodUnchanged DEF StreamInv, CheckpointsGood, TaskLives
<1>7. CASE TaskFails
  <2>1. /\ UNCHANGED active /\ task'.pc \in {"FAILED", "DONE"}
        /\ emitted' = emitted \/ (task.pc = "SENDING" /\ emitted' = Sent)
        /\ \/ UNCHANGED checkpoints
           \/ \E last, ts \in Nat : checkpoints' =
                record_replay_checkpoint(checkpoints, active.session, "FAILED", last, ts)
    BY <1>7, TaskFailsFacts
  <2>2. \A s \in Sessions : emitted[s] \subseteq emitted'[s]
    BY <2>1, SentFacts
  <2>3. \A s \in Sessions : checkpoints'[s].state = "FAILED" \/ checkpoints'[s] = checkpoints[s]
    BY <1>1, <2>1, RecordChanges DEF States
  <2>4. CheckpointsGood'
    BY <2>2, <2>3, GoodStays DEF StreamInv, CheckpointsGood
  <2>5. CASE emitted' = emitted
    BY <2>1, <2>4, <2>5 DEF StreamInv, TaskLives
  <2>6. CASE task.pc = "SENDING" /\ emitted' = Sent
    BY <1>4, <2>1, <2>4, <2>6
  <2> QED BY <2>1, <2>5, <2>6
<1> QED BY <1>2, <1>3, <1>5, <1>6, <1>7 DEF SessionTask

(* A restart goes on from a checkpoint, and all of them are good. *)
LEMMA StreamProcess ==
  ASSUME TypeInv, SideInv, StreamInv,
         \/ \E action \in Issued, s \in Sessions : Issue(action, s)
         \/ Stopped \/ Shutdown \/ Crash \/ start \/ UNCHANGED vars
  PROVE  StreamInv'
<1>1. CASE (\E action \in Issued, s \in Sessions : Issue(action, s)) \/ UNCHANGED vars
  <2>1. UNCHANGED <<active, task, checkpoints, emitted>>
    BY <1>1 DEF Issue, vars, memory, topics
  <2> QED BY <2>1, GoodUnchanged DEF StreamInv, CheckpointsGood, TaskLives
<1>2. CASE Stopped \/ Shutdown \/ Crash
  <2>1. (stop \/ Dead) /\ UNCHANGED <<checkpoints, emitted>>
    BY <1>2 DEF Stopped, Shutdown, Crash, topics
  <2>2. CheckpointsGood'
    BY <2>1, GoodUnchanged DEF StreamInv, CheckpointsGood
  <2> QED BY <2>1, <2>2, StreamStop
<1>3. CASE start
  <2>1. mode = "DOWN" /\ UNCHANGED <<checkpoints, emitted>>
    BY <1>3, StartFacts
  <2>2. CheckpointsGood'
    BY <2>1, GoodUnchanged DEF StreamInv, CheckpointsGood
  <2>3. CASE UNCHANGED <<active, task, paused>>
    BY <2>1, <2>2, <2>3, Constants DEF StreamInv, TaskLives, TypeInv, TaskSound
  <2>4. CASE \E s \in load_incomplete_replays(checkpoints) :
               /\ active'.session = s
               /\ task'.pc = "ROW"
               /\ task'.last = checkpoints[s].last /\ task'.ts = checkpoints[s].ts
    <3>1. PICK s \in load_incomplete_replays(checkpoints) :
               /\ active'.session = s
               /\ task'.pc = "ROW"
               /\ task'.last = checkpoints[s].last /\ task'.ts = checkpoints[s].ts
      BY <2>4
    <3>2. s \in Sessions /\ Good(s, checkpoints[s].last, checkpoints[s].ts)
      BY DEF load_incomplete_replays, StreamInv, CheckpointsGood
    <3> QED BY <2>1, <2>2, <3>1, <3>2, GoodUnchanged DEF StreamInv
  <2> QED BY <1>3, <2>3, <2>4, StartFacts
<1> QED BY <1>1, <1>2, <1>3

(* Commands and counts of failures are only added. *)
LEMMA Monotone ==
  ASSUME TypeInv, [Next]_vars
  PROVE  /\ faults' = 0 => faults = 0
         /\ crashes' = 0 => crashes = 0
         /\ \A i \in DOMAIN log : i \in DOMAIN log' /\ log'[i] = log[i]
<1>1. /\ faults' = faults \/ faults' = faults + 1
      /\ crashes' = crashes \/ crashes' = crashes + 1
  BY DEF Next, CommandLoop, SessionTask, Issue, Deliver, DeliverRefused, DeliverFails,
         publish_status, publish_quarantine, Commit, HandlerFails, Wake,
         publish_telemetry, Acknowledge, Announce, TaskFails, AnnounceFails, Stopped,
         Shutdown, Crash, start, vars
<1>2. faults \in Nat /\ crashes \in Nat /\ log \in Seq(Records)
  BY DEF TypeInv, Types
<1>3. UNCHANGED log \/ \E action \in Issued, s \in Sessions : Issue(action, s)
  BY DEF Next, CommandLoop, SessionTask, Deliver, DeliverRefused, DeliverFails,
         publish_status, publish_quarantine, Commit, HandlerFails, Wake,
         publish_telemetry, Acknowledge, Announce, TaskFails, AnnounceFails, Stopped,
         Shutdown, Crash, start, vars
<1>4. ASSUME NEW action \in Issued, NEW s \in Sessions, Issue(action, s)
      PROVE  \A i \in DOMAIN log : i \in DOMAIN log' /\ log'[i] = log[i]
  <2>1. [action |-> action, session |-> s] \in Records
    BY ServiceAssumption DEF Records
  <2> QED BY <1>2, <1>4, <2>1 DEF Issue
<1> QED BY <1>1, <1>2, <1>3, <1>4

(* What has been issued stays issued. *)
LEMMA IssuedStays ==
  ASSUME TypeInv, [Next]_vars
  PROVE  /\ PauseIssued => PauseIssued'
         /\ MayBeRefused => MayBeRefused'
         /\ \A s \in Sessions : StopIssued(s) => StopIssued(s)'
<1>1. \A i \in DOMAIN log : i \in DOMAIN log' /\ log'[i] = log[i]
  BY Monotone
<1> QED BY <1>1 DEF PauseIssued, MayBeRefused, HasBeenIssued, StopIssued, Range

(* The invariant holds in every reachable state. *)
LEMMA AlwaysInv == Spec => []Inv
<1>1. Init => Inv
  <2> SUFFICES ASSUME Init PROVE StreamInv
    BY InitTypes, InitSide DEF Inv
  <2>1. Session!Prefix(0) = {} /\ 0 \in 0..Rows
    BY RowsAssumption DEF Session!Prefix
  <2>2. \A s \in Sessions : emitted[s] = Session!Prefix(0)
    BY <2>1 DEF Init
  <2> QED BY <2>1, <2>2 DEF Init, StreamInv, CheckpointsGood, TaskLives, NoTask, NoCheckpoint
<1>2. Inv /\ [Next]_vars => Inv'
  <2> SUFFICES ASSUME Inv, [Next]_vars PROVE Inv'
    OBVIOUS
  <2>1. TypeInv' /\ SideInv'
    BY TypeStep, SideCommand, SideOther DEF Inv, Next, CommandLoop
  <2>2. Calm' => Calm
    BY Monotone, IssuedStays DEF Calm, Inv
  <2>3. Calm' => StreamInv'
    BY <2>2, StreamCommand, StreamTask, StreamProcess DEF Inv, Next, CommandLoop
  <2> QED BY <2>1, <2>3 DEF Inv
<1> QED BY <1>1, <1>2, PTL DEF Spec

-----------------------------------------------------------------------------
(* The sessions announced as completed. *)
CompletedSessions == {s \in Sessions : "COMPLETED" \in AnnouncedStates(s)}

(* A status changes the completed sessions when it is COMPLETED. *)
LEMMA ToldFacts ==
  ASSUME TypeInv, NEW s \in Sessions, NEW status \in Status, announced' = Told(s, status)
  PROVE  CompletedSessions' =
           IF status.state = "COMPLETED" THEN CompletedSessions \cup {s} ELSE CompletedSessions
<1>1. \A q \in Sessions : announced'[q] = IF q = s THEN announced[q] \cup {status} ELSE announced[q]
  BY DEF Told, TypeInv, Types
<1>2. \A q \in Sessions : ("COMPLETED" \in AnnouncedStates(q))' <=>
        "COMPLETED" \in AnnouncedStates(q) \/ (q = s /\ status.state = "COMPLETED")
  BY <1>1 DEF AnnouncedStates
<1> QED BY <1>2 DEF CompletedSessions

(* Every step of the service publishes the next row of a session, repeats  *)
(* what is out, or announces a completion after the last row.              *)
LEMMA LosslessStep ==
  ASSUME Inv, Next, faults' = 0 \/ ~PauseIssued
  PROVE  Session!Next \/ UNCHANGED <<emitted, CompletedSessions>>
<1>1. TypeInv /\ StreamInv
  <2>1. TypeInv /\ [Next]_vars
    BY DEF Inv
  <2>2. Calm
    BY <2>1, Monotone DEF Calm
  <2> QED BY <2>2 DEF Inv
<1>2. ASSUME task.pc = "SENDING", emitted' = Sent, UNCHANGED announced
      PROVE  Session!Next \/ UNCHANGED <<emitted, CompletedSessions>>
  <2>1. UNCHANGED CompletedSessions
    BY <1>2 DEF CompletedSessions, AnnouncedStates
  <2>2. CASE Sent # emitted
    <3>1. PICK n \in 0..Rows : /\ n + 1 <= Rows
                               /\ emitted[active.session] = Session!Prefix(n)
                               /\ Sent[active.session] = Session!Prefix(n + 1)
      BY <1>1, <1>2, <2>2, SentFacts
    <3>2. Sent = [emitted EXCEPT ![active.session] = Session!Prefix(n + 1)]
      <4>1. active.session \in Sessions /\ emitted \in [Sessions -> SUBSET Event]
            /\ Sent \in [Sessions -> SUBSET Event]
            /\ \A s \in Sessions : s # active.session => Sent[s] = emitted[s]
        BY <1>1, <1>2, SentFacts DEF TypeInv, Types
      <4> QED BY <3>1, <4>1
    <3>3. n + 1 \in 1..Rows /\ (n + 1) - 1 = n /\ active.session \in Sessions
      BY <1>1, <1>2, <3>1, RowsAssumption, SentFacts
    <3>4. Session!Emit(active.session)
      BY <1>2, <2>1, <3>1, <3>2, <3>3 DEF Session!Emit, CompletedSessions
    <3> QED BY <3>3, <3>4 DEF Session!Next
  <2> QED BY <1>2, <2>1, <2>2
<1>3. ASSUME task.pc = "COMPLETED", active.session \in Sessions, UNCHANGED emitted,
             announced' = Told(active.session, Ending("COMPLETED", "NONE"))
      PROVE  Session!Next
  <2>1. Good(active.session, Rows, task.ts)
    BY <1>1, <1>3 DEF StreamInv, TaskLives
  <2>2. PICK n \in 0..Rows : emitted[active.session] = Session!Prefix(n)
    BY <1>1, <1>3 DEF StreamInv
  <2>3. emitted[active.session] = Session!Prefix(Rows)
    <3>1. Session!Prefix(Rows) \subseteq emitted[active.session]
      BY <2>1 DEF Good, Session!Prefix
    <3>2. Session!Prefix(n) \subseteq Session!Prefix(Rows)
      BY RowsAssumption DEF Session!Prefix
    <3> QED BY <2>2, <3>1, <3>2
  <2>4. CompletedSessions' = CompletedSessions \cup {active.session}
    <3>1. Ending("COMPLETED", "NONE") \in Status /\ Ending("COMPLETED", "NONE").state = "COMPLETED"
      BY <1>1, EndingFacts DEF States
    <3> QED BY <1>1, <1>3, <3>1, ToldFacts
  <2>5. Session!Complete(active.session)
    BY <1>3, <2>3, <2>4 DEF Session!Complete, CompletedSessions
  <2> QED BY <1>3, <2>5 DEF Session!Next
<1>4. ASSUME UNCHANGED <<emitted, announced>>
      PROVE  UNCHANGED <<emitted, CompletedSessions>>
  BY <1>4 DEF CompletedSessions, AnnouncedStates
<1>5. ASSUME UNCHANGED emitted, NEW s \in Sessions, NEW status \in Status,
             status.state # "COMPLETED", announced' = Told(s, status)
      PROVE  UNCHANGED <<emitted, CompletedSessions>>
  BY <1>1, <1>5, ToldFacts
<1>6. CASE publish_status \/ HandlerFails
  <2>1. UNCHANGED emitted
        /\ \/ UNCHANGED announced
           \/ handler.pc = "STATUS" /\ announced' = Told(handler.session, handler.status)
    BY <1>6 DEF publish_status, HandlerFails, Told
  <2>2. handler.pc = "STATUS" =>
          /\ handler.session \in Sessions /\ handler.status \in Status
          /\ handler.status.state # "COMPLETED"
    BY DEF Inv, TypeInv, Types, TaskSound, SideInv, Handler
  <2> QED BY <1>4, <1>5, <2>1, <2>2
<1>7. CASE publish_telemetry
  <2>1. task.pc = "SENDING" /\ emitted' = Sent /\ UNCHANGED announced
    BY <1>7 DEF publish_telemetry, Sent
  <2> QED BY <1>2, <2>1
<1>8. CASE Announce \/ AnnounceFails
  <2>1. /\ UNCHANGED emitted /\ active.session \in Sessions
        /\ \/ UNCHANGED announced
           \/ task.pc = "COMPLETED" /\ announced' = Told(active.session, Ending("COMPLETED", "NONE"))
           \/ announced' = Told(active.session, Ending("FAILED", "STREAM"))
    BY <1>1, <1>8 DEF Announce, AnnounceFails, Told, Ending, TypeInv, TaskSound, TaskLives
  <2>2. Ending("FAILED", "STREAM") \in Status /\ Ending("FAILED", "STREAM").state = "FAILED"
    BY <1>1, EndingFacts DEF States
  <2> QED BY <1>3, <1>4, <1>5, <2>1, <2>2
<1>9. CASE TaskFails
  <2>1. /\ emitted' = emitted \/ (task.pc = "SENDING" /\ emitted' = Sent)
        /\ active.session \in Sessions
        /\ \/ announced' = announced
           \/ /\ task.pc = "COMPLETED"
              /\ announced' = Told(active.session, Ending("COMPLETED", "NONE"))
    BY <1>1, <1>9, TaskFailsFacts
  <2> QED BY <1>2, <1>3, <1>4, <2>1
<1>10. CASE \/ \E action \in Issued, s \in Sessions : Issue(action, s)
            \/ Deliver \/ DeliverRefused \/ DeliverFails \/ publish_quarantine \/ Commit
            \/ Wake \/ Acknowledge \/ Stopped \/ Shutdown \/ Crash \/ start
  <2>1. UNCHANGED <<emitted, announced>>
    BY <1>10 DEF Issue, Deliver, DeliverRefused, DeliverFails, publish_quarantine, Commit,
                 Wake, Acknowledge, Stopped, Shutdown, Crash, start, topics
  <2> QED BY <1>4, <2>1
<1> QED BY <1>6, <1>7, <1>8, <1>9, <1>10 DEF Next, CommandLoop, SessionTask

(* For any number of sessions, rows, commands, failing calls and deaths,   *)
(* the service implements ReplaySession: the rows of a session come out in *)
(* order, none is skipped, and COMPLETED follows the last row, as long as  *)
(* no call fails or no PAUSE is issued (replay_service.py).                *)
THEOREM StreamAlwaysLossless == Spec => StreamIsLossless
<1>1. Init => Session!Init
  <2> SUFFICES ASSUME Init PROVE Session!Init
    OBVIOUS
  <2>1. Session!Prefix(0) = {}
    BY DEF Session!Prefix
  <2>2. CompletedSessions = {}
    BY DEF Init, CompletedSessions, AnnouncedStates
  <2> QED BY <2>1, <2>2 DEF Init, Session!Init, CompletedSessions
<1>2. Inv /\ [Next]_vars => [faults' = 0 \/ ~PauseIssued => Session!Next]_(Session!vars)
  <2> SUFFICES ASSUME Inv, [Next]_vars
               PROVE  [faults' = 0 \/ ~PauseIssued => Session!Next]_(Session!vars)
    OBVIOUS
  <2>1. CASE UNCHANGED vars
    BY <2>1 DEF vars, topics, Session!vars, AnnouncedStates
  <2>2. CASE Next
    BY <2>2, LosslessStep DEF Session!vars, CompletedSessions
  <2> QED BY <2>1, <2>2
<1> QED BY AlwaysInv, <1>1, <1>2, PTL DEF Spec, StreamIsLossless

-----------------------------------------------------------------------------
(* One incomplete session.  Without a failed call and without a PAUSE, a   *)
(* checkpoint is incomplete only when it is RUNNING, and the RUNNING one   *)
(* belongs to the task, which leaves it by STOPPED or COMPLETED alone.  A  *)
(* service that is going down has its stop event set, so that the task's   *)
(* last checkpoint is STOPPED.                                             *)
Quiet == faults = 0 /\ ~PauseIssued

RunningOf(s) == checkpoints[s].state = "RUNNING"

IncompleteInv ==
  /\ \A p, q \in Sessions : RunningOf(p) /\ RunningOf(q) => p = q
  /\ mode = "UP" => \A s \in Sessions : RunningOf(s) => TaskLives /\ active.session = s
  /\ mode = "UP" /\ stopping /\ TaskLives => ~RunningOf(active.session)
  /\ task.pc = "COMPLETED" => ~RunningOf(active.session)
  /\ mode = "STOPPING" => stopping

OneInv == Quiet => IncompleteInv

(* A quiet state comes after a quiet one. *)
LEMMA QuietBefore ==
  ASSUME TypeInv, [Next]_vars, Quiet'
  PROVE  Quiet
  BY Monotone, IssuedStays DEF Quiet

(* The command loop of a quiet service. *)
LEMMA OneCommand ==
  ASSUME TypeInv, SideInv, Quiet, Quiet', IncompleteInv,
         Deliver \/ DeliverRefused \/ DeliverFails \/ publish_status \/ publish_quarantine
           \/ Commit \/ HandlerFails
  PROVE  IncompleteInv'
<1>1. checkpoints \in [Sessions -> Checkpoint] /\ active \in Controller
  BY DEF TypeInv, Types
<1>2. CASE Deliver
  <2>1. UNCHANGED <<log, mode>>
    BY <1>2, DeliverFacts
  <2>2. PICK r : Handled(r) /\ (PassedOver(r) \/ Started(r) \/ Obeyed(r))
    BY <1>2, DeliverFacts
  <2>3. r.session \in Sessions /\ mode = "UP"
    BY <2>2 DEF Handled, Records
  <2>4. CASE PassedOver(r)
    <3>1. UNCHANGED <<active, task, stopping, checkpoints>>
      BY <2>4 DEF PassedOver
    <3> QED BY <2>1, <3>1 DEF IncompleteInv, RunningOf, TaskLives
  <2>5. CASE Started(r)
    <3>1. /\ task'.pc = "ROW" /\ active'.session = r.session /\ stopping' = FALSE /\ ~TaskLives
          /\ checkpoints' = record_replay_checkpoint(checkpoints, r.session, "RUNNING", 0, None)
      BY <2>5 DEF Started
    <3>2. \A s \in Sessions : s # r.session => checkpoints'[s] = checkpoints[s]
      BY <1>1, <2>3, <3>1, RecordFacts DEF States, None
    <3>3. \A s \in Sessions : RunningOf(s)' => s = r.session
      BY <2>3, <3>1, <3>2 DEF IncompleteInv, RunningOf
    <3> QED BY <2>1, <2>3, <3>1, <3>3 DEF IncompleteInv, TaskLives
  <2>6. CASE Obeyed(r)
    <3>1. r.action = "STOP"
      <4>1. r.action # "PAUSE"
        BY <2>2, IssuedFacts DEF Quiet
      <4>2. r.action # "RESUME"
        BY <1>1, <2>6, RefusedFacts DEF Obeyed, SideInv, PauseInv, Quiet
      <4> QED BY <2>6, <4>1, <4>2 DEF Obeyed
    <3>2. active'.session = r.session /\ active'.state = "STOPPED"
      BY <1>1, <2>6, <3>1, ApplyFacts DEF Obeyed, Actions
    <3>3. /\ checkpoints'[r.session].state = "STOPPED"
          /\ \A s \in Sessions : s # r.session => checkpoints'[s] = checkpoints[s]
      BY <1>1, <2>3, <2>6, <3>2, UpdateFacts DEF Obeyed, States
    <3>4. UNCHANGED task /\ active.session = r.session
      BY <2>6 DEF Obeyed
    <3>5. \A s \in Sessions : ~RunningOf(s)'
      BY <2>3, <3>3, <3>4 DEF IncompleteInv, RunningOf
    <3>6. active'.session \in Sessions
      BY <2>3, <3>2
    <3> QED BY <2>1, <2>3, <3>5, <3>6 DEF IncompleteInv
  <2> QED BY <2>2, <2>4, <2>5, <2>6
<1>3. CASE DeliverRefused
  <2>1. stop /\ UNCHANGED checkpoints
    BY <1>3 DEF DeliverRefused
  <2> QED BY <2>1, StopFacts, Constants DEF IncompleteInv, RunningOf
<1>4. CASE publish_status \/ publish_quarantine \/ Commit
  <2>1. UNCHANGED <<mode, active, task, stopping, checkpoints>>
    BY <1>4 DEF publish_status, publish_quarantine, Commit
  <2> QED BY <2>1 DEF IncompleteInv, RunningOf, TaskLives
<1>5. CASE DeliverFails \/ HandlerFails
  BY <1>5, DeliverFailsFacts DEF HandlerFails, Quiet
<1> QED BY <1>2, <1>3, <1>4, <1>5

(* A quiet task that goes on, having recorded its row or not. *)
LEMMA OneProceed ==
  ASSUME TypeInv, IncompleteInv, mode # "DOWN", active.session \in Sessions, TaskLives,
         UNCHANGED <<mode, active, stopping>>,
         NEW t \in Task, NEW cps \in [Sessions -> Checkpoint], Proceed(t, cps),
         \A s \in Sessions : s # active.session => cps[s] = checkpoints[s],
         \/ cps[active.session].state = checkpoints[active.session].state
         \/ cps[active.session].state = "RUNNING" /\ stopping = FALSE
         \/ cps[active.session].state = "STOPPED"
  PROVE  IncompleteInv'
<1> DEFINE a == active.session
<1>1. stopping \in BOOLEAN /\ paused \in BOOLEAN /\ t.last \in Nat /\ t.ts \in Nat
  BY DEF TypeInv, Types, Task
<1>2. /\ task'.pc = "DONE" <=> stopping = TRUE
      /\ task'.pc = "COMPLETED" =>
           checkpoints' = record_replay_checkpoint(cps, a, "COMPLETED", t.last, t.ts)
      /\ task'.pc # "COMPLETED" => checkpoints' = cps
  BY <1>1, ProceedFacts
<1>3. /\ task'.pc = "COMPLETED" => checkpoints'[a].state = "COMPLETED"
      /\ task'.pc # "COMPLETED" => checkpoints'[a] = cps[a]
      /\ \A s \in Sessions : s # a => checkpoints'[s] = checkpoints[s]
  <2>1. CASE task'.pc = "COMPLETED"
    <3>1. /\ checkpoints'[a].state = "COMPLETED"
          /\ \A s \in Sessions : s # a => checkpoints'[s] = cps[s]
      BY <1>1, <1>2, <2>1, RecordFacts DEF States
    <3> QED BY <2>1, <3>1
  <2>2. CASE task'.pc # "COMPLETED"
    BY <1>2, <2>2
  <2> QED BY <2>1, <2>2
<1>4. RunningOf(a)' => RunningOf(a) \/ (stopping = FALSE /\ mode = "UP")
  <2>1. stopping = FALSE => mode = "UP"
    BY DEF TypeInv, Types, IncompleteInv
  <2> QED BY <1>3, <2>1 DEF RunningOf
<1>5. \A s \in Sessions : s # a => (RunningOf(s)' <=> RunningOf(s))
  BY <1>3 DEF RunningOf
<1>6. RunningOf(a)' => \A s \in Sessions : RunningOf(s)' => s = a
  BY <1>4, <1>5 DEF IncompleteInv
<1>7. \A p, q \in Sessions : RunningOf(p)' /\ RunningOf(q)' => p = q
  BY <1>5, <1>6 DEF IncompleteInv
<1>8. mode = "UP" => \A s \in Sessions : RunningOf(s)' => s = a
  BY <1>5 DEF IncompleteInv
<1>9. mode = "UP" /\ stopping => ~RunningOf(a)'
  BY <1>4 DEF IncompleteInv
<1>10. task'.pc = "COMPLETED" => ~RunningOf(a)'
  BY <1>3 DEF RunningOf
<1>11. mode = "UP" => \A s \in Sessions : RunningOf(s)' => TaskLives'
  BY <1>2, <1>8, <1>9 DEF TaskLives
<1> QED BY <1>7, <1>8, <1>9, <1>10, <1>11 DEF IncompleteInv

(* The task, the process and the producers of a quiet service. *)
LEMMA OneOther ==
  ASSUME TypeInv, SideInv, Quiet, Quiet', IncompleteInv,
         \/ SessionTask \/ TaskFails \/ AnnounceFails
         \/ \E action \in Issued, s \in Sessions : Issue(action, s)
         \/ Stopped \/ Shutdown \/ Crash \/ start \/ UNCHANGED vars
  PROVE  IncompleteInv'
<1>1. /\ task \in Task /\ checkpoints \in [Sessions -> Checkpoint]
      /\ stopping \in BOOLEAN /\ paused = FALSE /\ task.pc # "FAILED"
  BY DEF TypeInv, Types, SideInv, PauseInv, Quiet
<1>2. CASE Wake
  <2>1. /\ mode # "DOWN" /\ active.session \in Sessions /\ TaskLives /\ Proceed(task, checkpoints)
        /\ UNCHANGED <<mode, active, stopping>>
    BY <1>2 DEF Wake, TaskRuns, TypeInv, TaskSound, TaskLives
  <2> QED BY <1>1, <2>1, OneProceed
<1>3. CASE Acknowledge
  <2> DEFINE t == [task EXCEPT !.last = task.last + 1, !.ts = Following(task.ts)]
             cps == record_replay_checkpoint(checkpoints, active.session, _checkpoint_state,
                                             task.last + 1, Following(task.ts))
  <2>1. /\ t \in Task /\ cps \in [Sessions -> Checkpoint] /\ Proceed(t, cps)
        /\ mode # "DOWN" /\ active.session \in Sessions /\ task.pc = "SENT"
        /\ task.last + 1 \in Nat /\ Following(task.ts) \in Nat /\ _checkpoint_state \in States
        /\ UNCHANGED <<mode, active, stopping>>
    BY <1>3, AcknowledgeFacts
  <2>2. /\ cps[active.session].state = _checkpoint_state
        /\ \A s \in Sessions : s # active.session => cps[s] = checkpoints[s]
    BY <1>1, <2>1, RecordFacts
  <2>3. (_checkpoint_state = "RUNNING" /\ stopping = FALSE) \/ _checkpoint_state = "STOPPED"
    BY <1>1 DEF _checkpoint_state
  <2> HIDE DEF t, cps
  <2> QED BY <2>1, <2>2, <2>3, OneProceed DEF TaskLives
<1>4. CASE publish_telemetry
  <2>1. /\ task.pc = "SENDING" /\ task'.pc = "SENT"
        /\ UNCHANGED <<mode, active, stopping, checkpoints>>
    BY <1>1, <1>4 DEF publish_telemetry, Task
  <2> QED BY <2>1 DEF IncompleteInv, RunningOf, TaskLives
<1>5. CASE Announce
  <2>1. /\ task.pc = "COMPLETED" /\ task'.pc = "DONE"
        /\ UNCHANGED <<mode, active, stopping, checkpoints>>
    BY <1>1, <1>5 DEF Announce, Task
  <2>2. ~RunningOf(active.session)
    BY <2>1 DEF IncompleteInv
  <2> QED BY <2>1, <2>2 DEF IncompleteInv, RunningOf, TaskLives
<1>6. CASE TaskFails \/ AnnounceFails
  BY <1>1, <1>6 DEF TaskFails, AnnounceFails, Quiet
<1>7. CASE (\E action \in Issued, s \in Sessions : Issue(action, s)) \/ UNCHANGED vars
  <2>1. UNCHANGED <<mode, active, task, stopping, checkpoints>>
    BY <1>7 DEF Issue, vars, memory
  <2> QED BY <2>1 DEF IncompleteInv, RunningOf, TaskLives
<1>8. CASE Stopped \/ Crash
  <2>1. /\ mode' = "DOWN" /\ task' = NoTask /\ UNCHANGED checkpoints
    BY <1>8 DEF Stopped, Crash, Dead
  <2> QED BY <2>1, Constants DEF IncompleteInv, RunningOf
<1>9. CASE Shutdown
  <2>1. stop /\ UNCHANGED checkpoints
    BY <1>9 DEF Shutdown
  <2> QED BY <2>1, StopFacts, Constants DEF IncompleteInv, RunningOf
<1>10. CASE start
  <2>1. mode = "DOWN" /\ mode' = "UP" /\ stopping' = FALSE /\ UNCHANGED checkpoints
    BY <1>10, StartFacts
  <2>2. CASE load_incomplete_replays(checkpoints) = {} /\ UNCHANGED <<active, task>>
    <3>1. \A s \in Sessions : ~RunningOf(s)
      BY <2>2 DEF load_incomplete_replays, RunningOf
    <3>2. task = NoTask
      BY <2>1 DEF TypeInv, TaskSound
    <3> QED BY <2>1, <2>2, <3>1, <3>2, Constants DEF IncompleteInv, RunningOf
  <2>3. CASE \E s \in load_incomplete_replays(checkpoints) :
               active'.session = s /\ task'.pc = "ROW"
    <3>1. PICK s \in load_incomplete_replays(checkpoints) :
               active'.session = s /\ task'.pc = "ROW"
      BY <2>3
    <3>2. s \in Sessions /\ RunningOf(s)
      BY DEF load_incomplete_replays, RunningOf, SideInv, PauseInv, Quiet
    <3> QED BY <2>1, <3>1, <3>2 DEF IncompleteInv, RunningOf, TaskLives
  <2> QED BY <1>10, <2>2, <2>3, StartFacts
<1> QED BY <1>2, <1>3, <1>4, <1>5, <1>6, <1>7, <1>8, <1>9, <1>10 DEF SessionTask

(* For any number of sessions, rows, commands, shutdowns and deaths, a     *)
(* restart finds at most one session to resume, as long as no call has     *)
(* failed and no PAUSE was issued (start, load_incomplete_replays).        *)
THEOREM AlwaysOneIncomplete == Spec => []OneIncomplete
<1>1. Init => OneInv
  BY DEF Init, OneInv, IncompleteInv, RunningOf, NoCheckpoint, NoTask
<1>2. Inv /\ OneInv /\ [Next]_vars => OneInv'
  <2> SUFFICES ASSUME Inv, OneInv, [Next]_vars, Quiet' PROVE IncompleteInv'
    BY DEF OneInv
  <2>1. Quiet /\ IncompleteInv /\ TypeInv /\ SideInv
    BY QuietBefore DEF Inv, OneInv
  <2> QED BY <2>1, OneCommand, OneOther DEF Next, CommandLoop
<1>3. Inv /\ OneInv => OneIncomplete
  <2> SUFFICES ASSUME Inv, OneInv, faults = 0, ~PauseIssued
               PROVE  Cardinality(load_incomplete_replays(checkpoints)) <= 1
    BY DEF OneIncomplete
  <2>1. \A p, q \in Sessions : RunningOf(p) /\ RunningOf(q) => p = q
    BY DEF OneInv, IncompleteInv, Quiet
  <2>2. load_incomplete_replays(checkpoints) = {s \in Sessions : RunningOf(s)}
    BY DEF load_incomplete_replays, RunningOf, Inv, SideInv, PauseInv
  <2>3. CASE load_incomplete_replays(checkpoints) = {}
    BY <2>3, FS_EmptySet
  <2>4. CASE load_incomplete_replays(checkpoints) # {}
    <3>1. PICK s : load_incomplete_replays(checkpoints) = {s}
      BY <2>1, <2>2, <2>4
    <3> QED BY <3>1, FS_Singleton
  <2> QED BY <2>3, <2>4
<1> QED BY AlwaysInv, <1>1, <1>2, <1>3, PTL DEF Spec

-----------------------------------------------------------------------------
(* Ended by command.  Without a death, a failed call and a command that is *)
(* refused, the stop event is set for a session somebody stopped.  The     *)
(* commands are handled in the order of the log and each START once, so    *)
(* that a session whose START is refused has never been started.           *)
Undisturbed == crashes = 0 /\ faults = 0 /\ ~MayBeRefused

StopInv ==
  /\ stopping /\ TaskLives => StopIssued(active.session)
  /\ \A s \in Sessions : checkpoints[s].state = "STOPPED" => StopIssued(s)

(* The records whose handling has begun. *)
Reached == IF handler.pc = "IDLE" THEN committed ELSE committed + 1

(* A status of a session that is published or about to be. *)
Answered(s, status) ==
  \/ status \in announced[s]
  \/ handler.pc = "STATUS" /\ handler.session = s /\ handler.status = status

FirstNamed ==
  \A i, j \in DOMAIN log :
    i < j /\ log[j].action \in {"START", "MISMATCHED"} => log[i].session # log[j].session

AnswerInv ==
  /\ mode = "UP" => position = Reached
  /\ FirstNamed
  /\ \A s \in Sessions, st \in Status :
       Answered(s, st) /\ (st.error = "ACTIVE" \/ st.state = "RUNNING") =>
         \E i \in DOMAIN log : i <= Reached /\ log[i].session = s
  /\ \A s \in Sessions, a, b \in Status :
       ~(Answered(s, a) /\ Answered(s, b) /\ a.error = "ACTIVE" /\ b.state = "RUNNING")

EndInv == Undisturbed => StopInv /\ AnswerInv

(* A STOP that is in the log has been issued, and a PAUSE or a RESUME may  *)
(* be refused.                                                             *)
LEMMA HandledFacts ==
  ASSUME NEW r, Handled(r)
  PROVE  /\ r.session \in Sessions
         /\ r.action = "STOP" => StopIssued(r.session)
         /\ r.action \in {"PAUSE", "RESUME"} => MayBeRefused
<1>1. r \in Records /\ r \in Range(log) /\ \E i \in DOMAIN log : log[i] = r
  BY DEF Handled, Range
<1>2. r = [action |-> r.action, session |-> r.session] /\ r.session \in Sessions
  BY <1>1 DEF Records
<1> QED BY <1>1, <1>2 DEF StopIssued, MayBeRefused, HasBeenIssued

(* The stop event and the STOPPED checkpoints. *)
LEMMA StopStep ==
  ASSUME TypeInv, SideInv, Undisturbed, Undisturbed', StopInv, [Next]_vars
  PROVE  StopInv'
<1>1. /\ task \in Task /\ checkpoints \in [Sessions -> Checkpoint] /\ active \in Controller
      /\ stopping \in BOOLEAN /\ paused \in BOOLEAN
  BY DEF TypeInv, Types
<1>2. \A s \in Sessions : StopIssued(s) => StopIssued(s)'
  BY IssuedStays
<1>3. ASSUME UNCHANGED <<active, stopping, checkpoints>>, TaskLives' => TaskLives
      PROVE  StopInv'
  <2>1. TaskLives => active.session \in Sessions
    BY DEF TypeInv, TaskSound
  <2> QED BY <1>2, <1>3, <2>1 DEF StopInv
<1>4. ASSUME stop \/ Dead, UNCHANGED checkpoints,
             mode' = "STOPPING" => StopIssued(active.session)
      PROVE  StopInv'
  <2>1. CASE task' = NoTask
    BY <1>2, <1>4, <2>1, Constants DEF StopInv, TaskLives
  <2>2. CASE mode' = "STOPPING" /\ UNCHANGED <<active, task>>
    <3>1. TaskLives' => active'.session \in Sessions /\ StopIssued(active.session)
      BY <1>4, <2>2 DEF TypeInv, TaskSound, TaskLives
    <3> QED BY <1>2, <1>4, <2>2, <3>1 DEF StopInv
  <2> QED BY <1>4, <2>1, <2>2 DEF stop, Dead
<1>5. ASSUME NEW t \in Task, NEW cps \in [Sessions -> Checkpoint], Proceed(t, cps),
             active.session \in Sessions, TaskLives, UNCHANGED <<active, stopping>>,
             \A s \in Sessions : cps[s].state = "STOPPED" =>
               checkpoints[s].state = "STOPPED" \/ (s = active.session /\ stopping)
      PROVE  StopInv'
  <2>1. /\ t.last \in Nat /\ t.ts \in Nat
        /\ \/ checkpoints' = cps
           \/ checkpoints' = record_replay_checkpoint(cps, active.session, "COMPLETED", t.last, t.ts)
    BY <1>1, <1>5, ProceedFacts DEF Task
  <2>2. \A s \in Sessions : checkpoints'[s].state = "STOPPED" => cps[s].state = "STOPPED"
    <3>1. \A s \in Sessions : checkpoints'[s].state = "COMPLETED" \/ checkpoints'[s] = cps[s]
      BY <1>5, <2>1, RecordChanges DEF States
    <3> QED BY <3>1
  <2> QED BY <1>2, <1>5, <2>2 DEF StopInv
<1>6. CASE Deliver
  <2>1. PICK r : Handled(r) /\ (PassedOver(r) \/ Started(r) \/ Obeyed(r))
    BY <1>6, DeliverFacts
  <2>2. /\ r.session \in Sessions /\ r.action \notin {"PAUSE", "RESUME"}
        /\ r.action = "STOP" => StopIssued(r.session)
    BY <2>1, HandledFacts DEF Undisturbed
  <2>3. CASE PassedOver(r)
    BY <1>3, <2>3 DEF PassedOver, TaskLives
  <2>4. CASE Started(r)
    <3>1. \A s \in Sessions : checkpoints'[s].state = "RUNNING" \/ checkpoints'[s] = checkpoints[s]
      BY <1>1, <2>2, <2>4, RecordChanges DEF Started, States, None
    <3> QED BY <1>2, <2>4, <3>1 DEF Started, StopInv
  <2>5. CASE Obeyed(r)
    <3>1. r.action = "STOP" /\ active.session = r.session
      BY <2>2, <2>5 DEF Obeyed
    <3>2. active'.session = r.session /\ active'.state \in States
      BY <1>1, <2>5, <3>1, ApplyFacts DEF Obeyed, Actions, Controller
    <3>3. \A s \in Sessions : s # r.session => checkpoints'[s] = checkpoints[s]
      BY <1>1, <2>2, <2>5, <3>2, UpdateFacts DEF Obeyed
    <3> QED BY <1>2, <2>2, <3>1, <3>2, <3>3 DEF StopInv
  <2> QED BY <2>1, <2>3, <2>4, <2>5
<1>7. CASE DeliverRefused
  <2> DEFINE r == log[position + 1]
  <2>1. /\ Handled(r) /\ Raises(r) /\ stop /\ UNCHANGED checkpoints
    BY <1>7 DEF DeliverRefused, Fetched, Handled, TypeInv, Types
  <2> HIDE DEF r
  <2>2. r.action = "STOP" /\ active.session = r.session
    BY <2>1, HandledFacts DEF Raises, Controlled, Actions, Undisturbed
  <2> QED BY <1>4, <2>1, <2>2, HandledFacts
<1>8. CASE publish_status \/ publish_quarantine \/ Commit
  BY <1>3, <1>8 DEF publish_status, publish_quarantine, Commit, TaskLives
<1>9. CASE DeliverFails \/ HandlerFails \/ TaskFails \/ Shutdown \/ Crash
  BY <1>9 DEF DeliverFails, HandlerFails, TaskFails, Shutdown, Crash, Undisturbed
<1>10. CASE Wake
  <2>1. /\ active.session \in Sessions /\ TaskLives /\ Proceed(task, checkpoints)
        /\ UNCHANGED <<active, stopping>>
    BY <1>10 DEF Wake, TypeInv, TaskSound, TaskLives
  <2> QED BY <1>1, <1>5, <2>1
<1>11. CASE Acknowledge
  <2> DEFINE t == [task EXCEPT !.last = task.last + 1, !.ts = Following(task.ts)]
             cps == record_replay_checkpoint(checkpoints, active.session, _checkpoint_state,
                                             task.last + 1, Following(task.ts))
  <2>1. /\ t \in Task /\ cps \in [Sessions -> Checkpoint] /\ Proceed(t, cps)
        /\ active.session \in Sessions /\ task.pc = "SENT"
        /\ task.last + 1 \in Nat /\ Following(task.ts) \in Nat /\ _checkpoint_state \in States
        /\ UNCHANGED <<active, stopping>>
    BY <1>11, AcknowledgeFacts
  <2>2. /\ cps[active.session].state = _checkpoint_state
        /\ \A s \in Sessions : s # active.session => cps[s] = checkpoints[s]
    BY <1>1, <2>1, RecordFacts
  <2>3. _checkpoint_state = "STOPPED" => stopping
    BY DEF _checkpoint_state
  <2> HIDE DEF t, cps
  <2> QED BY <1>5, <2>1, <2>2, <2>3 DEF TaskLives
<1>12. CASE publish_telemetry \/ Announce \/ AnnounceFails
  <2>1. UNCHANGED <<active, stopping, checkpoints>> /\ TaskLives
    BY <1>12 DEF publish_telemetry, Announce, AnnounceFails, TaskLives
  <2> QED BY <1>3, <2>1
<1>13. CASE Stopped
  BY <1>4, <1>13 DEF Stopped, Dead
<1>14. CASE start
  BY <1>2, <1>14, StartFacts DEF StopInv
<1>15. CASE (\E action \in Issued, s \in Sessions : Issue(action, s)) \/ UNCHANGED vars
  <2>1. UNCHANGED <<active, task, stopping, checkpoints>>
    BY <1>15 DEF Issue, vars, memory
  <2> QED BY <1>3, <2>1 DEF TaskLives
<1> QED BY <1>6, <1>7, <1>8, <1>9, <1>10, <1>11, <1>12, <1>13, <1>14, <1>15
        DEF Next, CommandLoop, SessionTask

(* A step that neither hands out a command nor starts or refuses a session *)
(* keeps what is known of the answers.                                     *)
LEMMA AnswerKept ==
  ASSUME TypeInv, AnswerInv, UNCHANGED log,
         mode' = "UP" => position' = Reached', Reached' = Reached,
         \A s \in Sessions, st \in Status :
           Answered(s, st)' => Answered(s, st) \/ (st.error # "ACTIVE" /\ st.state # "RUNNING")
  PROVE  AnswerInv'
<1>1. FirstNamed'
  BY DEF AnswerInv, FirstNamed
<1>2. \A s \in Sessions, st \in Status :
       Answered(s, st)' /\ (st.error = "ACTIVE" \/ st.state = "RUNNING") =>
         \E i \in DOMAIN log' : i <= Reached' /\ log'[i].session = s
  BY DEF AnswerInv
<1>3. \A s \in Sessions, a, b \in Status :
       ~(Answered(s, a)' /\ Answered(s, b)' /\ a.error = "ACTIVE" /\ b.state = "RUNNING")
  BY DEF AnswerInv
<1> QED BY <1>1, <1>2, <1>3 DEF AnswerInv

(* A command that is delivered is the first START of its session. *)
LEMMA AnswerDeliver ==
  ASSUME TypeInv, Undisturbed, AnswerInv, Deliver
  PROVE  AnswerInv'
<1>1. /\ UNCHANGED <<log, committed, mode, announced>> /\ position' = position + 1
      /\ handler' \in Handler /\ handler'.pc # "IDLE"
  BY DeliverFacts
<1>2. PICK r : Handled(r) /\ (PassedOver(r) \/ Started(r) \/ Obeyed(r))
  BY DeliverFacts
<1>3. /\ position + 1 \in DOMAIN log /\ log[position + 1] = r /\ r.session \in Sessions
      /\ mode = "UP" /\ handler.pc = "IDLE"
      /\ r.action \notin {"PAUSE", "RESUME"}
  BY <1>2, HandledFacts DEF Handled, Undisturbed
<1>4. position \in Nat /\ committed \in Nat /\ position = committed /\ Reached = position
      /\ Reached' = position + 1
  BY <1>1, <1>3 DEF TypeInv, Types, AnswerInv, Reached
<1>5. \A s \in Sessions, st \in Status : Answered(s, st)' =>
        \/ Answered(s, st)
        \/ /\ handler'.pc = "STATUS" /\ handler'.session = s /\ handler'.status = st
  BY <1>1 DEF Answered
<1>6. \A s \in Sessions, st \in Status :
        Answered(s, st) /\ (st.error = "ACTIVE" \/ st.state = "RUNNING") =>
          \E i \in DOMAIN log : i <= position /\ log[i].session = s
  BY <1>4 DEF AnswerInv
<1>7. r.action \in {"START", "MISMATCHED"} => \A st \in Status :
        Answered(r.session, st) => st.error # "ACTIVE" /\ st.state # "RUNNING"
  <2> SUFFICES ASSUME r.action \in {"START", "MISMATCHED"}, NEW st \in Status,
                      Answered(r.session, st), st.error = "ACTIVE" \/ st.state = "RUNNING"
               PROVE  FALSE
    OBVIOUS
  <2>1. PICK i \in DOMAIN log : i <= position /\ log[i].session = r.session
    BY <1>3, <1>6
  <2>2. i < position + 1
    BY <1>4, <2>1 DEF TypeInv, Types
  <2> QED BY <1>3, <2>1, <2>2 DEF AnswerInv, FirstNamed
<1>8. CASE handler'.pc = "STATUS" =>
             handler'.status.error # "ACTIVE" /\ handler'.status.state # "RUNNING"
  <2>1. \A s \in Sessions, st \in Status :
          Answered(s, st)' => Answered(s, st) \/ (st.error # "ACTIVE" /\ st.state # "RUNNING")
    BY <1>5, <1>8
  <2>2. \A s \in Sessions, st \in Status :
       Answered(s, st)' /\ (st.error = "ACTIVE" \/ st.state = "RUNNING") =>
         \E i \in DOMAIN log' : i <= Reached' /\ log'[i].session = s
    <3> SUFFICES ASSUME NEW s \in Sessions, NEW st \in Status, Answered(s, st),
                        st.error = "ACTIVE" \/ st.state = "RUNNING"
                 PROVE  \E i \in DOMAIN log : i <= position + 1 /\ log[i].session = s
      BY <1>1, <1>4, <2>1
    <3>1. PICK i \in DOMAIN log : i <= position /\ log[i].session = s
      BY <1>6
    <3>2. i <= position + 1
      BY <1>4, <3>1 DEF TypeInv, Types
    <3> QED BY <3>1, <3>2
  <2>3. \A s \in Sessions, a, b \in Status :
       ~(Answered(s, a)' /\ Answered(s, b)' /\ a.error = "ACTIVE" /\ b.state = "RUNNING")
    BY <2>1 DEF AnswerInv
  <2>4. FirstNamed'
    BY <1>1 DEF AnswerInv, FirstNamed
  <2> QED BY <1>1, <1>4, <2>2, <2>3, <2>4 DEF AnswerInv
<1>9. CASE /\ r.action \in {"START", "MISMATCHED"}
           /\ handler'.pc = "STATUS" /\ handler'.session = r.session
           /\ handler'.status.state # "RUNNING" \/ handler'.status.error # "ACTIVE"
  <2>1. \A s \in Sessions, st \in Status :
       Answered(s, st)' /\ (st.error = "ACTIVE" \/ st.state = "RUNNING") =>
         \E i \in DOMAIN log' : i <= Reached' /\ log'[i].session = s
    <3> SUFFICES ASSUME NEW s \in Sessions, NEW st \in Status, Answered(s, st)',
                        st.error = "ACTIVE" \/ st.state = "RUNNING"
                 PROVE  \E i \in DOMAIN log : i <= position + 1 /\ log[i].session = s
      BY <1>1, <1>4
    <3>1. CASE Answered(s, st)
      <4>1. PICK i \in DOMAIN log : i <= position /\ log[i].session = s
        BY <1>6, <3>1
      <4>2. i <= position + 1
        BY <1>4, <4>1 DEF TypeInv, Types
      <4> QED BY <4>1, <4>2
    <3>2. CASE handler'.session = s
      <4>1. position + 1 \in DOMAIN log /\ log[position + 1].session = s
        BY <1>3, <1>9, <3>2
      <4>2. position + 1 <= position + 1
        BY <1>4
      <4> QED BY <4>1, <4>2
    <3> QED BY <1>5, <3>1, <3>2
  <2>2. \A s \in Sessions, a, b \in Status :
       ~(Answered(s, a)' /\ Answered(s, b)' /\ a.error = "ACTIVE" /\ b.state = "RUNNING")
    <3> SUFFICES ASSUME NEW s \in Sessions, NEW a \in Status, NEW b \in Status,
                        Answered(s, a)', Answered(s, b)', a.error = "ACTIVE", b.state = "RUNNING"
                 PROVE  FALSE
      OBVIOUS
    <3>1. CASE s = r.session
      <4>1. a = handler'.status /\ b = handler'.status
        BY <1>5, <1>7, <1>9, <3>1
      <4> QED BY <1>9, <4>1
    <3>2. CASE s # r.session
      <4>1. Answered(s, a) /\ Answered(s, b)
        BY <1>5, <1>9, <3>2
      <4> QED BY <4>1 DEF AnswerInv
    <3> QED BY <3>1, <3>2
  <2>3. FirstNamed'
    BY <1>1 DEF AnswerInv, FirstNamed
  <2> QED BY <1>1, <1>4, <2>1, <2>2, <2>3 DEF AnswerInv
<1>10. CASE PassedOver(r)
  BY <1>8, <1>9, <1>10 DEF PassedOver
<1>11. CASE Started(r)
  BY <1>9, <1>11 DEF Started
<1>12. CASE Obeyed(r)
  <2>1. r.action = "STOP" /\ active \in Controller
    BY <1>3, <1>12 DEF Obeyed, TypeInv, Types
  <2>2. handler'.status.state = "STOPPED" /\ handler'.status.error = "NONE"
    BY <1>12, <2>1, ApplyFacts DEF Obeyed, Actions
  <2> QED BY <1>8, <2>2
<1> QED BY <1>2, <1>10, <1>11, <1>12

(* The answers to the commands. *)
LEMMA AnswerStep ==
  ASSUME TypeInv, Undisturbed, Undisturbed', AnswerInv, [Next]_vars
  PROVE  AnswerInv'
<1>1. /\ position \in Nat /\ committed \in Nat /\ log \in Seq(Records)
      /\ announced \in [Sessions -> SUBSET Status] /\ handler \in Handler
      /\ handler.pc # "IDLE" => mode = "UP"
  BY DEF TypeInv, Types, TaskSound
<1>2. CASE publish_status
  <2>1. /\ handler.pc = "STATUS" /\ handler.session \in Sessions /\ handler.status \in Status
        /\ announced' = Told(handler.session, handler.status)
        /\ handler'.pc = "COMMIT" /\ UNCHANGED <<log, position, committed, mode>>
    BY <1>1, <1>2, Constants DEF publish_status, Told, Handler, TypeInv, TaskSound
  <2>2. \A s \in Sessions, st \in Status : Answered(s, st)' => Answered(s, st)
    BY <1>1, <2>1 DEF Told, Answered
  <2>3. Reached' = Reached
    BY <2>1 DEF Reached
  <2> QED BY <2>1, <2>2, <2>3, AnswerKept DEF AnswerInv
<1>3. CASE publish_quarantine
  <2>1. /\ handler.pc = "QUARANTINE" /\ handler'.pc = "COMMIT"
        /\ UNCHANGED <<log, position, committed, mode, announced>>
    BY <1>3, Constants DEF publish_quarantine, topics, Handler
  <2> QED BY <2>1, AnswerKept DEF AnswerInv, Answered, Reached
<1>4. CASE Commit
  <2>1. /\ mode = "UP" /\ handler.pc = "COMMIT" /\ handler'.pc = "IDLE" /\ committed' = position
        /\ UNCHANGED <<log, position, mode, announced>>
    BY <1>4, Constants DEF Commit, topics
  <2>2. Reached' = Reached /\ position' = Reached'
    BY <2>1 DEF Reached, AnswerInv
  <2> QED BY <2>1, <2>2, AnswerKept DEF Answered
<1>5. CASE DeliverRefused
  <2>1. /\ handler.pc = "IDLE" /\ handler'.pc = "IDLE" /\ mode' # "UP"
        /\ UNCHANGED <<log, committed, announced>>
    BY <1>5, StopFacts, Constants DEF DeliverRefused, topics
  <2> QED BY <2>1, AnswerKept DEF Answered, Reached
<1>6. CASE Stopped
  <2>1. /\ handler.pc = "IDLE" /\ handler'.pc = "IDLE" /\ mode' # "UP"
        /\ UNCHANGED <<log, committed, announced>>
    BY <1>1, <1>6, Constants DEF Stopped, Dead, topics
  <2> QED BY <2>1, AnswerKept DEF Answered, Reached
<1>7. CASE start
  <2>1. /\ handler.pc = "IDLE" /\ handler'.pc = "IDLE" /\ position' = committed
        /\ UNCHANGED <<log, committed, announced>>
    BY <1>1, <1>7, StartFacts, Constants
  <2> QED BY <2>1, AnswerKept DEF Answered, Reached
<1>8. CASE Wake \/ publish_telemetry \/ Acknowledge
  <2>1. UNCHANGED <<log, position, committed, mode, announced, handler>>
    BY <1>8 DEF Wake, publish_telemetry, Acknowledge, topics
  <2> QED BY <2>1, AnswerKept DEF AnswerInv, Answered, Reached
<1>9. CASE Announce \/ AnnounceFails
  <2>1. /\ active.session \in Sessions /\ UNCHANGED <<log, position, committed, mode, handler>>
        /\ \/ UNCHANGED announced
           \/ announced' = Told(active.session, Ending("COMPLETED", "NONE"))
           \/ announced' = Told(active.session, Ending("FAILED", "STREAM"))
    BY <1>9 DEF Announce, AnnounceFails, Told, Ending, TypeInv, TaskSound, TaskLives
  <2>2. /\ Ending("COMPLETED", "NONE").state = "COMPLETED"
        /\ Ending("COMPLETED", "NONE").error = "NONE"
        /\ Ending("FAILED", "STREAM").state = "FAILED"
        /\ Ending("FAILED", "STREAM").error = "STREAM"
    BY EndingFacts DEF States
  <2>3. \A s \in Sessions, st \in Status : st \in announced'[s] =>
          \/ st \in announced[s]
          \/ st = Ending("COMPLETED", "NONE")
          \/ st = Ending("FAILED", "STREAM")
    BY <1>1, <2>1 DEF Told
  <2>4. \A s \in Sessions, st \in Status :
          Answered(s, st)' => Answered(s, st) \/ (st.error # "ACTIVE" /\ st.state # "RUNNING")
    BY <2>1, <2>2, <2>3 DEF Answered
  <2> QED BY <2>1, <2>4, AnswerKept DEF AnswerInv, Reached
<1>10. CASE DeliverFails \/ HandlerFails \/ TaskFails \/ Shutdown \/ Crash
  BY <1>10 DEF DeliverFails, HandlerFails, TaskFails, Shutdown, Crash, Undisturbed
<1>11. CASE UNCHANGED vars
  BY <1>11, AnswerKept DEF vars, memory, topics, AnswerInv, Answered, Reached
<1>12. CASE \E action \in Issued, s \in Sessions : Issue(action, s)
  <2>1. PICK action \in Issued, s \in Sessions : Issue(action, s)
    BY <1>12
  <2> DEFINE r == [action |-> action, session |-> s]
  <2>2. r \in Records /\ r.action = action /\ r.session = s
    BY ServiceAssumption DEF Records
  <2>3. /\ log' = Append(log, r)
        /\ action \in {"START", "MISMATCHED"} => \A i \in DOMAIN log : log[i].session # s
        /\ UNCHANGED <<position, committed, mode, announced, handler>>
    BY <2>1 DEF Issue, memory, topics
  <2> HIDE DEF r
  <2>4. /\ \A i \in DOMAIN log : i \in DOMAIN log' /\ log'[i] = log[i]
        /\ \A i \in DOMAIN log' : i \in DOMAIN log \/ (i = Len(log) + 1 /\ log'[i] = r)
        /\ \A i \in DOMAIN log : i <= Len(log) /\ i \in Nat
    BY <1>1, <2>2, <2>3
  <2>5. FirstNamed'
    <3> SUFFICES ASSUME NEW i \in DOMAIN log', NEW j \in DOMAIN log', i < j,
                        log'[j].action \in {"START", "MISMATCHED"}
                 PROVE  log'[i].session # log'[j].session
      BY DEF FirstNamed
    <3>1. CASE j \in DOMAIN log
      <4>1. i \in DOMAIN log
        BY <1>1, <2>4, <3>1
      <4> QED BY <2>4, <3>1, <4>1 DEF AnswerInv, FirstNamed
    <3>2. CASE j = Len(log) + 1 /\ log'[j] = r
      <4>1. i \in DOMAIN log
        BY <1>1, <2>4, <3>2
      <4> QED BY <2>2, <2>3, <2>4, <3>2, <4>1
    <3> QED BY <2>4, <3>1, <3>2
  <2>6. Reached' = Reached /\ \A q \in Sessions, st \in Status : Answered(q, st)' <=> Answered(q, st)
    BY <2>3 DEF Reached, Answered
  <2>7. \A q \in Sessions, st \in Status :
       Answered(q, st)' /\ (st.error = "ACTIVE" \/ st.state = "RUNNING") =>
         \E i \in DOMAIN log' : i <= Reached' /\ log'[i].session = q
    BY <2>4, <2>6 DEF AnswerInv
  <2>8. \A q \in Sessions, a, b \in Status :
       ~(Answered(q, a)' /\ Answered(q, b)' /\ a.error = "ACTIVE" /\ b.state = "RUNNING")
    BY <2>6 DEF AnswerInv
  <2> QED BY <2>3, <2>5, <2>6, <2>7, <2>8 DEF AnswerInv
<1> QED BY <1>2, <1>3, <1>4, <1>5, <1>6, <1>7, <1>8, <1>9, <1>10, <1>11, <1>12, AnswerDeliver
        DEF Next, CommandLoop, SessionTask

(* For any number of sessions, rows and commands, a checkpoint is STOPPED  *)
(* only for a session somebody asked to stop, and only a START other than  *)
(* the running session's is refused, as long as the service has not been   *)
(* stopped, has not died and no call has failed (handle_command, stop).    *)
THEOREM AlwaysEndedByCommand == Spec => []EndedByCommandOnly
<1>1. Init => EndInv
  <2> SUFFICES ASSUME Init PROVE StopInv /\ AnswerInv
    BY DEF EndInv
  <2>1. StopInv
    BY DEF Init, StopInv, TaskLives, NoTask, NoCheckpoint
  <2>2. \A s \in Sessions, st \in Status : ~Answered(s, st)
    BY Constants DEF Init, Answered
  <2>3. FirstNamed /\ Reached = position
    BY Constants DEF Init, FirstNamed, Reached
  <2> QED BY <2>1, <2>2, <2>3 DEF AnswerInv
<1>2. Inv /\ EndInv /\ [Next]_vars => EndInv'
  <2> SUFFICES ASSUME Inv, EndInv, [Next]_vars, Undisturbed' PROVE StopInv' /\ AnswerInv'
    BY DEF EndInv
  <2>1. TypeInv /\ SideInv
    BY DEF Inv
  <2>2. Undisturbed /\ StopInv /\ AnswerInv
    BY <2>1, Monotone, IssuedStays DEF EndInv, Undisturbed
  <2> QED BY <2>1, <2>2, StopStep, AnswerStep
<1>3. Inv /\ EndInv => EndedByCommandOnly
  <2> SUFFICES ASSUME Inv, EndInv PROVE EndedByCommandOnly
    OBVIOUS
  <2>1. faults \in Nat /\ crashes \in Nat /\ announced \in [Sessions -> SUBSET Status]
    BY DEF Inv, TypeInv, Types
  <2>2. (crashes > 0 \/ faults > 0 \/ MayBeRefused) \/ Undisturbed
    BY <2>1 DEF Undisturbed
  <2>3. StoppedOnlyByCommand
    BY <2>2 DEF StoppedOnlyByCommand, EndInv, StopInv
  <2>4. OnlyDifferentStartRejected
    BY <2>1, <2>2 DEF OnlyDifferentStartRejected, EndInv, AnswerInv, Answered
  <2> QED BY <2>3, <2>4 DEF EndedByCommandOnly
<1> QED BY AlwaysInv, <1>1, <1>2, <1>3, PTL DEF Spec
=============================================================================
