---------------------------- MODULE ReplayService ----------------------------
(***************************************************************************)
(* The replay service (replay_service.py) with its checkpoints             *)
(* (persistence.py), the log of commands and what it publishes.            *)
(*                                                                         *)
(* One process runs two tasks: the command loop and the task of the active *)
(* session.  A step ends at an await: a publication, a commit, or the wait *)
(* for pause_event.  Store calls are synchronous, so they belong to the    *)
(* step that makes them.  The topics are kept as what has been published:  *)
(* events per session and statuses per session, since a record delivered   *)
(* twice is the same record.                                               *)
(***************************************************************************)
EXTENDS ReplayController, Sequences, Functions

CONSTANTS Sessions,     \* session identifiers 1..n, one per START
          Issued,       \* the kinds of command records that are produced
          MaxCommands,  \* length of the command log
          MaxFaults,    \* calls that raise
          MaxCrashes,   \* deaths of the process and shutdowns
          NoSession

ASSUME ServiceAssumption ==
  /\ Issued \subseteq Actions \cup {"MISMATCHED", "INVALID"}
  /\ MaxCommands \in Nat /\ MaxFaults \in Nat /\ MaxCrashes \in Nat
  /\ NoSession \notin Sessions

VARIABLES
  log, position, committed,  \* commands, records fetched, committed offset
  mode,                      \* the process: "UP", "STOPPING" or "DOWN"
  handler,                   \* where the command loop stands, and its status
  active,                    \* controller of active_session
  task,                      \* the task of active_session and its cursor
  paused, stopping,          \* pause_event cleared, stop_event set
  checkpoints,               \* replay_checkpoints
  emitted, announced,        \* telemetry and statuses published, per session
  faults, crashes

memory == <<position, mode, handler, active, task, paused, stopping>>
topics == <<emitted, announced>>
vars == <<log, committed, memory, checkpoints, topics, faults, crashes>>

Records == [action : Actions \cup {"MISMATCHED", "INVALID"}, session : Sessions]
Controllers == [session : Sessions \cup {NoSession}, state : States, last : 0..Rows]
Statuses == [state : States, last : 0..Rows, error : {"NONE", "ACTIVE", "IDENTITY", "STREAM"}]
Checkpoints == [state : States, last : 0..Rows, ts : Timestamps]

NoCheckpoint == [state |-> "CREATED", last |-> 0, ts |-> None]
NoStatus == [state |-> "CREATED", last |-> 0, error |-> "NONE"]
Idle == [pc |-> "IDLE", session |-> NoSession, status |-> NoStatus]
NoTask == [pc |-> "DONE", fresh |-> TRUE, last |-> 0, ts |-> None]

Init ==
  /\ log = <<>> /\ position = 0 /\ committed = 0
  /\ mode = "UP" /\ handler = Idle
  /\ active = created(NoSession) /\ task = NoTask
  /\ paused = FALSE /\ stopping = FALSE
  /\ checkpoints = [s \in Sessions |-> NoCheckpoint]
  /\ emitted = [s \in Sessions |-> {}]
  /\ announced = [s \in Sessions |-> {}]
  /\ faults = 0 /\ crashes = 0

-----------------------------------------------------------------------------
(* Checkpoints. *)

record_replay_checkpoint(cps, s, state, last, ts) ==
  [cps EXCEPT ![s] = [state |-> state, last |-> last, ts |-> ts]]

update_replay_checkpoint_state(cps, s, state) == [cps EXCEPT ![s].state = state]

load_incomplete_replays(cps) == {s \in Sessions : cps[s].state \in {"RUNNING", "PAUSED"}}

_checkpoint_state == IF stopping THEN "STOPPED" ELSE IF paused THEN "PAUSED" ELSE "RUNNING"

-----------------------------------------------------------------------------
(* The API and other producers of commands. *)

Named == {r.session : r \in Range(log)}

(* Every START names a new session, control commands any session.  Sessions *)
(* are numbered in the order in which the log names them.                   *)
Issue(action, s) ==
  /\ Len(log) < MaxCommands
  /\ s \in Named \cup {Cardinality(Named) + 1}
  /\ action = "INVALID" => s = 1
  /\ action \in {"START", "MISMATCHED"} => \A i \in DOMAIN log : log[i].session # s
  /\ log' = Append(log, [action |-> action, session |-> s])
  /\ UNCHANGED <<committed, memory, checkpoints, topics, faults, crashes>>

-----------------------------------------------------------------------------
(* The process. *)

TaskLives == task.pc # "DONE"

(* The process is gone, and its memory with it. *)
Dead ==
  /\ mode' = "DOWN" /\ position' = 0 /\ handler' = Idle
  /\ active' = created(NoSession) /\ task' = NoTask
  /\ paused' = FALSE /\ stopping' = FALSE

(* An exception leaves the command loop: stop() asks the task to finish.    *)
stop ==
  IF TaskLives
    THEN /\ mode' = "STOPPING" /\ handler' = Idle
         /\ stopping' = TRUE /\ paused' = FALSE
         /\ UNCHANGED <<position, active, task>>
    ELSE Dead

(* The task has finished, or two seconds have passed and it is cancelled.   *)
Stopped ==
  /\ mode = "STOPPING"
  /\ Dead
  /\ UNCHANGED <<log, committed, checkpoints, topics, faults, crashes>>

(* SIGINT. *)
Shutdown ==
  /\ mode = "UP" /\ crashes < MaxCrashes /\ crashes' = crashes + 1
  /\ stop
  /\ UNCHANGED <<log, committed, checkpoints, topics, faults>>

Crash ==
  /\ mode # "DOWN" /\ crashes < MaxCrashes /\ crashes' = crashes + 1
  /\ Dead
  /\ UNCHANGED <<log, committed, checkpoints, topics, faults>>

(* Mutant: pause_event is never set for a resumed session. *)
ResumesPausedAlways(checkpoint) == TRUE

(* A resumed session waits for RESUME unless it was running. *)
ResumesPaused(checkpoint) == checkpoint.state # "RUNNING"

(* start(): the one incomplete session goes on from its checkpoint.  With   *)
(* several the service refuses to start.                                   *)
start ==
  LET incomplete == load_incomplete_replays(checkpoints)
  IN  /\ mode = "DOWN" /\ Cardinality(incomplete) <= 1
      /\ mode' = "UP" /\ position' = committed /\ handler' = Idle /\ stopping' = FALSE
      /\ IF incomplete = {}
           THEN UNCHANGED <<active, task, paused>>
           ELSE \E s \in incomplete :
                  LET c == checkpoints[s]
                  IN  /\ active' = mark(apply(created(s), "START"), c.state, c.last)
                      /\ task' = [pc |-> "ROW", fresh |-> FALSE, last |-> c.last, ts |-> c.ts]
                      /\ paused' = ResumesPaused(c)
      /\ UNCHANGED <<log, committed, checkpoints, topics, faults, crashes>>

-----------------------------------------------------------------------------
(* The command loop. *)

(* Go on to publish a status, then to commit. *)
Publishing(s, ctrl, error) ==
  handler' = [pc |-> "STATUS", session |-> s,
              status |-> [state |-> ctrl.state, last |-> ctrl.last, error |-> error]]

(* Mutant: a START replaces the active session. *)
handle_start_regardless(s) ==
  /\ checkpoints' = record_replay_checkpoint(checkpoints, s, "RUNNING", 0, None)
  /\ active' = apply(created(s), "START")
  /\ task' = [pc |-> "ROW", fresh |-> TRUE, last |-> 0, ts |-> None]
  /\ paused' = FALSE /\ stopping' = FALSE
  /\ Publishing(s, active', "NONE")

(* Mutant: the refusal is published for the active session. *)
handle_start_answers_active(s) ==
  IF TaskLives
    THEN /\ Publishing(active.session, mark(created(active.session), "FAILED", 0), "ACTIVE")
         /\ UNCHANGED <<active, task, paused, stopping, checkpoints>>
    ELSE handle_start_regardless(s)

_handle_start_command(s) ==
  IF TaskLives
    THEN /\ Publishing(s, mark(created(s), "FAILED", 0), "ACTIVE")
         /\ UNCHANGED <<active, task, paused, stopping, checkpoints>>
    ELSE /\ checkpoints' = record_replay_checkpoint(checkpoints, s, "RUNNING", 0, None)
         /\ active' = apply(created(s), "START")
         /\ task' = [pc |-> "ROW", fresh |-> TRUE, last |-> 0, ts |-> None]
         /\ paused' = FALSE /\ stopping' = FALSE
         /\ Publishing(s, active', "NONE")

Controlled(s) == active.session = s /\ TaskLives

(* PAUSE, RESUME or STOP of the active session. *)
_handle_control_command(action, s) ==
  /\ active' = apply(active, action)
  /\ checkpoints' = update_replay_checkpoint_state(checkpoints, s, active'.state)
  /\ paused' = (action = "PAUSE")
  /\ stopping' = (stopping \/ action = "STOP")
  /\ Publishing(s, active', "NONE")
  /\ UNCHANGED task

handle_command(r) ==
  CASE r.action = "INVALID" ->
         /\ handler' = [Idle EXCEPT !.pc = "QUARANTINE"]
         /\ UNCHANGED <<active, task, paused, stopping, checkpoints>>
    [] r.action = "START" -> _handle_start_command(r.session)
    [] r.action = "MISMATCHED" ->
         /\ Publishing(r.session, mark(created(r.session), "FAILED", 0),
                       IF TaskLives THEN "ACTIVE" ELSE "IDENTITY")
         /\ UNCHANGED <<active, task, paused, stopping, checkpoints>>
    [] OTHER ->
         IF Controlled(r.session)
           THEN _handle_control_command(r.action, r.session)
           ELSE /\ handler' = [Idle EXCEPT !.pc = "COMMIT"]
                /\ UNCHANGED <<active, task, paused, stopping, checkpoints>>

Fetched == log[position + 1]

Raises(r) ==
  r.action \in Actions \ {"START"} /\ Controlled(r.session) /\ Refused(active, r.action)

(* A record is fetched and handled up to the first await. *)
Deliver ==
  /\ mode = "UP" /\ handler.pc = "IDLE" /\ position < Len(log)
  /\ ~Raises(Fetched)
  /\ position' = position + 1
  /\ handle_command(Fetched)
  /\ UNCHANGED <<log, committed, mode, topics, faults, crashes>>

(* apply raises: the record is not committed and the service stops.         *)
DeliverRefused ==
  /\ mode = "UP" /\ handler.pc = "IDLE" /\ position < Len(log)
  /\ Raises(Fetched)
  /\ stop
  /\ UNCHANGED <<log, committed, checkpoints, topics, faults, crashes>>

(* The store call of a START or a control command raises, before or after   *)
(* the row is written.                                                     *)
DeliverFails ==
  /\ mode = "UP" /\ handler.pc = "IDLE" /\ position < Len(log)
  /\ faults < MaxFaults /\ faults' = faults + 1
  /\ ~Raises(Fetched)
  /\ LET r == Fetched
     IN  \/ /\ r.action = "START" /\ ~TaskLives
            /\ checkpoints' \in
                 {checkpoints, record_replay_checkpoint(checkpoints, r.session, "RUNNING", 0, None)}
         \/ /\ r.action \in Actions \ {"START"} /\ Controlled(r.session)
            /\ checkpoints' \in
                 {checkpoints, update_replay_checkpoint_state(checkpoints, r.session, apply(active, r.action).state)}
  /\ stop
  /\ UNCHANGED <<log, committed, topics, crashes>>

publish_status ==
  /\ mode = "UP" /\ handler.pc = "STATUS"
  /\ announced' = [announced EXCEPT ![handler.session] = @ \cup {handler.status}]
  /\ handler' = [Idle EXCEPT !.pc = "COMMIT"]
  /\ UNCHANGED <<log, position, committed, mode, active, task, paused, stopping,
                 checkpoints, emitted, faults, crashes>>

publish_quarantine ==
  /\ mode = "UP" /\ handler.pc = "QUARANTINE"
  /\ handler' = [Idle EXCEPT !.pc = "COMMIT"]
  /\ UNCHANGED <<log, position, committed, mode, active, task, paused, stopping,
                 checkpoints, topics, faults, crashes>>

Commit ==
  /\ mode = "UP" /\ handler.pc = "COMMIT"
  /\ committed' = position
  /\ handler' = Idle
  /\ UNCHANGED <<log, position, mode, active, task, paused, stopping, checkpoints,
                 topics, faults, crashes>>

(* A publication or the commit raises, whether or not it reached Kafka.     *)
HandlerFails ==
  /\ mode = "UP" /\ handler.pc # "IDLE"
  /\ faults < MaxFaults /\ faults' = faults + 1
  /\ announced' \in
       IF handler.pc = "STATUS"
         THEN {announced, [announced EXCEPT ![handler.session] = @ \cup {handler.status}]}
         ELSE {announced}
  /\ committed' \in IF handler.pc = "COMMIT" THEN {committed, position} ELSE {committed}
  /\ stop
  /\ UNCHANGED <<log, checkpoints, emitted, crashes>>

-----------------------------------------------------------------------------
(* The task of the active session: _run_replay_session after a START,       *)
(* resume_checkpoint after a restart.                                       *)

TaskRuns == mode # "DOWN"

(* The task goes on from cursor t to the next place where it waits. *)
Proceed(t, cps) ==
  IF stopping THEN task' = [t EXCEPT !.pc = "DONE"] /\ checkpoints' = cps
  ELSE IF paused THEN task' = [t EXCEPT !.pc = "ROW"] /\ checkpoints' = cps
  ELSE IF iter_events(t.last + 1, t.ts) # {}
         THEN task' = [t EXCEPT !.pc = "SENDING"] /\ checkpoints' = cps
  ELSE /\ task' = [t EXCEPT !.pc = "COMPLETED"]
       /\ checkpoints' = record_replay_checkpoint(cps, active.session, "COMPLETED", t.last, t.ts)

(* The task starts, or pause_event wakes it. *)
Wake ==
  /\ TaskRuns /\ task.pc = "ROW" /\ ~paused
  /\ Proceed(task, checkpoints)
  /\ UNCHANGED <<log, committed, position, mode, handler, active, paused, stopping,
                 topics, faults, crashes>>

(* The paced event reaches the topic. *)
publish_telemetry ==
  /\ TaskRuns /\ task.pc = "SENDING"
  /\ emitted' = [emitted EXCEPT ![active.session] = @ \cup iter_events(task.last + 1, task.ts)]
  /\ task' = [task EXCEPT !.pc = "SENT"]
  /\ UNCHANGED <<log, committed, position, mode, handler, active, paused, stopping,
                 checkpoints, announced, faults, crashes>>

(* The event is acknowledged, checkpointed, and the next row begun. *)
Acknowledge ==
  /\ TaskRuns /\ task.pc = "SENT"
  /\ \E e \in iter_events(task.last + 1, task.ts) :
       Proceed([task EXCEPT !.last = e.seq, !.ts = e.ts],
               record_replay_checkpoint(checkpoints, active.session, _checkpoint_state, e.seq, e.ts))
  /\ UNCHANGED <<log, committed, position, mode, handler, active, paused, stopping,
                 topics, faults, crashes>>

(* The terminal status is published and the task is done. *)
Announce ==
  /\ TaskRuns /\ task.pc \in {"COMPLETED", "FAILED"}
  /\ announced' = [announced EXCEPT ![active.session] = @ \cup
       {[state |-> task.pc, last |-> task.last,
         error |-> IF task.pc = "FAILED" THEN "STREAM" ELSE "NONE"]}]
  /\ task' = [task EXCEPT !.pc = "DONE"]
  /\ UNCHANGED <<log, committed, position, mode, handler, active, paused, stopping,
                 checkpoints, emitted, faults, crashes>>

(* The cursor mark_failed gets.  A task started by a START has moved its    *)
(* cursor before it publishes, a recovered one moves it afterwards.         *)
FailureCursor ==
  IF task.pc = "SENT" \/ (task.fresh /\ task.pc = "SENDING")
    THEN CHOOSE e \in iter_events(task.last + 1, task.ts) : TRUE
    ELSE [seq |-> task.last, ts |-> IF task.ts = None THEN range_start ELSE task.ts]

(* A call of the task raises.  The failure is checkpointed and then          *)
(* announced, unless writing the checkpoint raises as well.                 *)
TaskFails ==
  /\ TaskRuns /\ task.pc \in {"ROW", "SENDING", "SENT", "COMPLETED"}
  /\ task.pc = "ROW" => ~paused
  /\ faults < MaxFaults /\ faults' = faults + 1
  /\ emitted' \in
       IF task.pc = "SENDING"
         THEN {emitted, [emitted EXCEPT ![active.session] = @ \cup iter_events(task.last + 1, task.ts)]}
         ELSE {emitted}
  /\ announced' \in
       IF task.pc = "COMPLETED"
         THEN {announced, [announced EXCEPT ![active.session] = @ \cup
                 {[state |-> "COMPLETED", last |-> task.last, error |-> "NONE"]}]}
         ELSE {announced}
  /\ \/ /\ task' = [task EXCEPT !.pc = "FAILED", !.last = FailureCursor.seq, !.ts = FailureCursor.ts]
        /\ checkpoints' = record_replay_checkpoint(checkpoints, active.session, "FAILED",
                                                   FailureCursor.seq, FailureCursor.ts)
     \/ task' = [task EXCEPT !.pc = "DONE"] /\ UNCHANGED checkpoints
  /\ UNCHANGED <<log, committed, position, mode, handler, active, paused, stopping, crashes>>

(* The announcement of a failure may fail too; it is as rare as failures   *)
(* are, and needs no bound of its own.                                     *)
AnnounceFails ==
  /\ TaskRuns /\ task.pc = "FAILED"
  /\ announced' \in {announced, [announced EXCEPT ![active.session] = @ \cup
                       {[state |-> "FAILED", last |-> task.last, error |-> "STREAM"]}]}
  /\ task' = [task EXCEPT !.pc = "DONE"]
  /\ UNCHANGED <<log, committed, position, mode, handler, active, paused, stopping,
                 checkpoints, emitted, faults, crashes>>

-----------------------------------------------------------------------------
CommandLoop == Deliver \/ DeliverRefused \/ publish_status \/ publish_quarantine \/ Commit
SessionTask == Wake \/ publish_telemetry \/ Acknowledge \/ Announce

Next ==
  \/ \E action \in Issued, s \in Sessions : Issue(action, s)
  \/ CommandLoop
  \/ SessionTask
  \/ DeliverFails \/ HandlerFails \/ TaskFails \/ AnnounceFails
  \/ Stopped \/ Shutdown \/ Crash \/ start

(* The event loop runs both tasks and stop() ends after two seconds at     *)
(* most.  Nothing obliges anybody to start a service that is down: the     *)
(* deployment gives the replay producer no restart policy.                 *)
Fairness == WF_vars(CommandLoop) /\ WF_vars(SessionTask) /\ WF_vars(Stopped)

Spec == Init /\ [][Next]_vars
FairSpec == Spec /\ Fairness

-----------------------------------------------------------------------------
AnnouncedStates(s) == {a.state : a \in announced[s]}

Session == INSTANCE ReplaySession
  WITH completed <- {s \in Sessions : "COMPLETED" \in AnnouncedStates(s)}

HasBeenIssued(actions) == \E i \in DOMAIN log : log[i].action \in actions
PauseIssued == HasBeenIssued({"PAUSE"})

(* A RESUME or a second PAUSE may be refused, which stops the service, and  *)
(* again after each restart, before the task has had its turn.              *)
MayBeRefused == HasBeenIssued({"PAUSE", "RESUME"})
StopIssued(s) == [action |-> "STOP", session |-> s] \in Range(log)

(* Whatever crashes, failing calls and redeliveries happen, the rows of a   *)
(* session come out in order, none is skipped, a sequence number always     *)
(* names the same row, and COMPLETED follows the last row: the checkpoint   *)
(* is written after the event is acknowledged and recovery continues        *)
(* strictly after its cursor.  The exception is a failing call together     *)
(* with a PAUSE: the cursor of a failed publication names a row that was    *)
(* not sent, and a PAUSE meanwhile makes that checkpoint resumable.         *)
StreamIsLossless ==
  Session!Init /\ [][faults' = 0 \/ ~PauseIssued => Session!Next]_(Session!vars)

(* At most one session is incomplete, so that a restart finds at most one   *)
(* checkpoint to resume: start() refuses to run with two.  The exceptions   *)
(* are a failed checkpoint write, which leaves RUNNING without a task, and  *)
(* a PAUSE of a session that has just completed.                            *)
OneIncomplete ==
  faults = 0 /\ ~PauseIssued => Cardinality(load_incomplete_replays(checkpoints)) <= 1

(* A session recorded as running does not stay so while the service is up: *)
(* it is carried on, from its checkpoint after a restart, until it is       *)
(* completed, failed, stopped or paused, or the process goes down and       *)
(* nobody starts it again.  The exceptions are a failing call, which may    *)
(* leave it without a task, and a PAUSE followed by a RESUME while the      *)
(* terminal status is being published.                                      *)
RunningSessionEnds ==
  \A s \in Sessions :
    checkpoints[s].state = "RUNNING" ~>
      checkpoints[s].state # "RUNNING" \/ mode = "DOWN" \/ faults > 0 \/ PauseIssued

(* A checkpoint is STOPPED only for a session somebody asked to stop, as    *)
(* long as the service itself has not been stopped: stop() uses the same    *)
(* event.                                                                   *)
StoppedOnlyByCommand ==
  \A s \in Sessions :
    checkpoints[s].state = "STOPPED" => StopIssued(s) \/ crashes > 0 \/ faults > 0 \/ MayBeRefused

(* REPLAY_ALREADY_ACTIVE answers a START other than the running session's,  *)
(* as long as no restart has redelivered that session's own START.          *)
OnlyDifferentStartRejected ==
  \A s \in Sessions :
    (\E a, b \in announced[s] : a.error = "ACTIVE" /\ b.state = "RUNNING")
      => crashes > 0 \/ faults > 0 \/ MayBeRefused

(* A session ends, or its START is refused, by a command only, under the   *)
(* conditions of the two parts (handle_command, stop).                     *)
EndedByCommandOnly == StoppedOnlyByCommand /\ OnlyDifferentStartRejected
=============================================================================
