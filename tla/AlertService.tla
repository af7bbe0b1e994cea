----------------------------- MODULE AlertService -----------------------------
(* The alert service (alert_service.py, alert_consumer.py): one asyncio        *)
(* process with a consumer task that turns score decisions into alert rows and *)
(* a dispatcher task that publishes the outbox, over one Kafka partition of    *)
(* irp.scores.v1 and one PostgreSQL database.                                  *)
(*                                                                             *)
(* The store calls block the event loop, so each is one step; the awaits (the  *)
(* poll, the commit, every send) are where the two tasks interleave, where a   *)
(* call can fail and where the process can die.                                *)
EXTENDS AlertStore, Functions

CONSTANTS Sessions,    \* the replay sessions
          Foreign,     \* the kinds of unusable records that may appear on the topic
          MaxLog,      \* bound: records on irp.scores.v1
          MaxFaults,   \* bound: calls to PostgreSQL or Kafka that raise
          MaxRestarts, \* bound: deaths of the process
          MaxRewinds   \* bound: restarts of the streaming worker

ASSUME BoundsAssumption ==
  /\ Foreign \subseteq {"mismatch", "malformed"}
  /\ MaxLog \in Nat
  /\ MaxFaults \in Nat
  /\ MaxRestarts \in Nat
  /\ MaxRewinds \in Nat

VARIABLES
  emitted,    \* the last window the streaming worker has scored
  scores,     \* the log of irp.scores.v1; offsets are positions in it
  committed,  \* the group's committed offset: records below it never come back
  db,         \* the rows of each session
  quarantine, \* offsets announced on irp.quarantine.v1
  statuses,   \* sessions announced as FAILED on irp.replay.status.v1
  sent,       \* alert events on irp.alerts.v1, as <<session, key>>
  failed,     \* AlertConsumer._failed_sessions
  position,   \* the consumer's fetch position, in memory
  cursor,     \* the record of the batch being processed
  pc,         \* where the consumer task is
  picked,     \* the outbox row the dispatcher holds, as <<session, key>>
  dpc,        \* where the dispatcher task is
  faults, restarts, rewinds

worker     == <<emitted, scores, rewinds>>
kafkaOut   == <<quarantine, statuses, sent>>
consumer   == <<failed, position, cursor, pc>>
dispatcher == <<picked, dpc>>
vars == <<worker, committed, db, kafkaOut, consumer, dispatcher, faults, restarts>>

(* A record is a decision of this policy's contract, a decision of another     *)
(* contract, dataset or model version, or bytes that do not decode.            *)
Records ==
  [kind : {"score", "mismatch", "malformed"}, session : Sessions,
   ts : Windows, is_anomaly : BOOLEAN]

Nothing == << >>

(* Type invariant: rows, offsets, the batch in hand and both tasks (the state  *)
(* AlertConsumer and its loops keep).                                          *)
TypeOK ==
  /\ emitted \in [Sessions -> 0..Horizon]
  /\ scores \in Seq(Records)
  /\ committed \in 0..Len(scores)
  /\ db \in [Sessions -> SessionRows]
  /\ quarantine \subseteq 1..Len(scores)
  /\ statuses \subseteq Sessions
  /\ sent \subseteq Sessions \X EventKeys
  /\ failed \subseteq Sessions
  /\ position \in committed..Len(scores)
  /\ cursor \in 1..(position + 1)
  /\ pc \in {"poll", "process", "failing", "commit", "halted"}
  /\ pc \in {"process", "failing", "commit"} => cursor > committed /\ cursor <= position
  /\ picked \in (Sessions \X EventKeys) \cup {Nothing}
  /\ dpc \in {"select", "send", "mark"}
  /\ dpc # "select" => picked \in Sessions \X EventKeys
  /\ faults \in Nat /\ restarts \in Nat /\ rewinds \in Nat

Init ==
  /\ emitted = [s \in Sessions |-> 0]
  /\ scores = << >>
  /\ committed = 0
  /\ db = [s \in Sessions |-> NoRows]
  /\ quarantine = {} /\ statuses = {} /\ sent = {}
  /\ failed = {} /\ position = 0 /\ cursor = 1 /\ pc = "poll"
  /\ picked = Nothing /\ dpc = "select"
  /\ faults = 0 /\ restarts = 0 /\ rewinds = 0

(* --------------------------- the streaming worker -------------------------- *)

Publish(kind, s, w, anomaly) ==
  /\ Len(scores) < MaxLog
  /\ scores' = Append(scores, [kind |-> kind, session |-> s, ts |-> w,
                               is_anomaly |-> anomaly])

(* What the topic already says of session s. *)
Scored(s) == {r \in Range(scores) : r.kind = "score" /\ r.session = s}

(* The worker publishes the decision of a later window of the session.  Window *)
(* identifiers and scores are deterministic: after a restart it repeats the    *)
(* decisions it has published, in order, before it reaches a new window.       *)
PublishScore(s, w, anomaly) ==
  /\ w > emitted[s]
  /\ LET again == {r \in Scored(s) : r.ts > emitted[s]}
     IN again # {} =>
          \E r \in again : /\ r.ts = w /\ r.is_anomaly = anomaly
                           /\ \A q \in again : w <= q.ts
  /\ Publish("score", s, w, anomaly)
  /\ emitted' = [emitted EXCEPT ![s] = w]
  /\ UNCHANGED <<rewinds, committed, db, kafkaOut, consumer, dispatcher, faults,
                 restarts>>

(* Something else on the topic: a decision of another contract, or garbage.    *)
(* Nothing reads the window of such a record.                                  *)
PublishForeign(kind, s) ==
  /\ Publish(kind, s, 1, TRUE)
  /\ UNCHANGED <<emitted, rewinds, committed, db, kafkaOut, consumer,
                 dispatcher, faults, restarts>>

(* The worker commits a session's telemetry only when the session completes: a *)
(* restarted worker scores the session again from its first window, under the  *)
(* same identifiers.                                                           *)
WorkerRestart(s) ==
  /\ rewinds < MaxRewinds
  /\ emitted[s] > 0
  /\ emitted' = [emitted EXCEPT ![s] = 0]
  /\ rewinds' = rewinds + 1
  /\ UNCHANGED <<scores, committed, db, kafkaOut, consumer, dispatcher,
                 faults, restarts>>

(* ---------------------------- the consumer task ---------------------------- *)

Current == scores[cursor]

CurrentDecision == [ts |-> Current.ts, is_anomaly |-> Current.is_anomaly]

(* getmany returns a batch and moves the in-memory position past all of it. *)
Poll ==
  /\ pc = "poll"
  /\ \E last \in (position + 1)..Len(scores) : position' = last
  /\ cursor' = position + 1
  /\ pc' = "process"
  /\ UNCHANGED <<worker, committed, db, kafkaOut, failed, dispatcher, faults,
                 restarts>>

(* An exception out of the batch: the loop logs it, sleeps and polls again. The *)
(* rest of the batch is dropped and the position stays where getmany left it.   *)
AbandonBatch ==
  /\ pc' = "poll"
  /\ cursor' = position + 1
  /\ UNCHANGED position

(* A call to PostgreSQL or Kafka that raises may or may not have taken effect. *)
Fault ==
  /\ faults < MaxFaults
  /\ faults' = faults + 1

(* process: undecodable bytes go to the quarantine topic. *)
Quarantine ==
  /\ pc = "process"
  /\ Current.kind = "malformed"
  /\ quarantine' = quarantine \cup {cursor}
  /\ pc' = "commit"
  /\ UNCHANGED <<worker, committed, db, statuses, sent, failed, position, cursor,
                 dispatcher, faults, restarts>>

QuarantineFails ==
  /\ pc = "process"
  /\ Current.kind = "malformed"
  /\ Fault
  /\ quarantine' \in {quarantine, quarantine \cup {cursor}}
  /\ AbandonBatch
  /\ UNCHANGED <<worker, committed, db, statuses, sent, failed, dispatcher, restarts>>

(* process: a record of a session this process has failed is skipped. *)
Skip ==
  /\ pc = "process"
  /\ Current.kind # "malformed"
  /\ Current.session \in failed
  /\ pc' = "commit"
  /\ UNCHANGED <<worker, committed, db, kafkaOut, failed, position, cursor,
                 dispatcher, faults, restarts>>

(* process: _assert_identity fails; _fail_session first remembers the session  *)
(* and writes the FAILED status.                                               *)
IdentityMismatch ==
  /\ pc = "process"
  /\ Current.kind = "mismatch"
  /\ Current.session \notin failed
  /\ failed' = failed \cup {Current.session}

FailSession ==
  db' = [db EXCEPT ![Current.session] = record_failed_status(@)]

RecordFailure ==
  /\ IdentityMismatch
  /\ FailSession
  /\ pc' = "failing"
  /\ UNCHANGED <<worker, committed, kafkaOut, position, cursor, dispatcher,
                 faults, restarts>>

RecordFailureFails ==
  /\ IdentityMismatch
  /\ Fault
  /\ UNCHANGED db \/ FailSession
  /\ AbandonBatch
  /\ UNCHANGED <<worker, committed, kafkaOut, dispatcher, restarts>>

(* Mutant: the failed record is committed and the loop goes on. *)
PublishFailureCommits ==
  /\ pc = "failing"
  /\ statuses' = statuses \cup {Current.session}
  /\ pc' = "commit"
  /\ UNCHANGED <<worker, committed, db, quarantine, sent, failed, position,
                 cursor, dispatcher, faults, restarts>>

(* _fail_session then publishes the status; SESSION_FAILED ends the loop. *)
PublishFailure ==
  /\ pc = "failing"
  /\ statuses' = statuses \cup {Current.session}
  /\ pc' = "halted"
  /\ UNCHANGED <<worker, committed, db, quarantine, sent, failed, position,
                 cursor, dispatcher, faults, restarts>>

PublishFailureFails ==
  /\ pc = "failing"
  /\ Fault
  /\ statuses' \in {statuses, statuses \cup {Current.session}}
  /\ AbandonBatch
  /\ UNCHANGED <<worker, committed, db, quarantine, sent, failed, dispatcher, restarts>>

(* process: a decision of a live session; the state machine is applied to the  *)
(* stored state and the result recorded in one transaction.                    *)
LiveDecision ==
  /\ pc = "process"
  /\ Current.kind = "score"
  /\ Current.session \notin failed

LoadedState == load_alert_state(db[Current.session])

Result == transition(LoadedState, CurrentDecision)

Recordable ==
  /\ ~OrderingViolation(LoadedState, CurrentDecision)
  /\ ValidEvent(Result.event)
  /\ ~ForeignKeyFails(LoadedRows(db[Current.session]), CurrentDecision, Result)

RecordDecision ==
  db' = [db EXCEPT ![Current.session] =
           record_decision_transition(LoadedRows(@), CurrentDecision, Result)]

Apply ==
  /\ LiveDecision
  /\ Recordable
  /\ RecordDecision
  /\ pc' = "commit"
  /\ UNCHANGED <<worker, committed, kafkaOut, failed, position, cursor,
                 dispatcher, faults, restarts>>

(* transition, the event's validation or the foreign key raises. *)
Reject ==
  /\ LiveDecision
  /\ ~Recordable
  /\ db' = [db EXCEPT ![Current.session] = LoadedRows(@)]
  /\ AbandonBatch
  /\ UNCHANGED <<worker, committed, kafkaOut, failed, dispatcher, faults, restarts>>

(* PostgreSQL raises before the transaction takes effect, or after it: when    *)
(* the acknowledgement is lost, or when the active-alert gauge is refreshed.   *)
ApplyFails ==
  /\ LiveDecision
  /\ Fault
  /\ UNCHANGED db \/ (Recordable /\ RecordDecision)
  /\ AbandonBatch
  /\ UNCHANGED <<worker, committed, kafkaOut, failed, dispatcher, restarts>>

(* Mutant: the committed offset is one too far. *)
CommitAhead ==
  /\ pc = "commit"
  /\ committed' = cursor + 1
  /\ cursor' = cursor + 1
  /\ pc' = IF cursor < position THEN "process" ELSE "poll"
  /\ UNCHANGED <<worker, db, kafkaOut, failed, position, dispatcher, faults,
                 restarts>>

(* Mutant: the loop polls again after the first record of a batch. *)
CommitAndPoll ==
  /\ pc = "commit"
  /\ committed' = cursor
  /\ cursor' = position + 1
  /\ pc' = "poll"
  /\ UNCHANGED <<worker, db, kafkaOut, failed, position, dispatcher, faults,
                 restarts>>

(* The offset is committed record by record. *)
Commit ==
  /\ pc = "commit"
  /\ committed' = cursor
  /\ cursor' = cursor + 1
  /\ pc' = IF cursor < position THEN "process" ELSE "poll"
  /\ UNCHANGED <<worker, db, kafkaOut, failed, position, dispatcher, faults,
                 restarts>>

CommitFails ==
  /\ pc = "commit"
  /\ Fault
  /\ committed' \in {committed, cursor}
  /\ AbandonBatch
  /\ UNCHANGED <<worker, db, kafkaOut, failed, dispatcher, restarts>>

(* --------------------------- the dispatcher task --------------------------- *)

(* Mutant: the row is marked before it is sent. *)
MarkFirst ==
  /\ dpc = "select"
  /\ \E s \in Sessions : \E key \in unpublished(db[s]) : picked' = <<s, key>>
  /\ dpc' = "mark"
  /\ UNCHANGED <<worker, committed, db, kafkaOut, consumer, faults, restarts>>

(* Rows are taken in the order of random message ids: any row may come first.  *)
next_unpublished_outbox ==
  /\ dpc = "select"
  /\ \E s \in Sessions : \E key \in unpublished(db[s]) : picked' = <<s, key>>
  /\ dpc' = "send"
  /\ UNCHANGED <<worker, committed, db, kafkaOut, consumer, faults, restarts>>

Send ==
  /\ dpc = "send"
  /\ sent' = sent \cup {picked}
  /\ dpc' = "mark"
  /\ UNCHANGED <<worker, committed, db, quarantine, statuses, consumer, picked,
                 faults, restarts>>

(* Mutant: the update is not committed. *)
MarkUncommitted ==
  /\ dpc = "mark"
  /\ dpc' = "select"
  /\ picked' = Nothing
  /\ UNCHANGED <<worker, committed, db, kafkaOut, consumer, faults, restarts>>

Mark ==
  /\ dpc = "mark"
  /\ db' = [db EXCEPT ![picked[1]] = mark_outbox_published(@, picked[2])]
  /\ dpc' = "select"
  /\ picked' = Nothing
  /\ UNCHANGED <<worker, committed, kafkaOut, consumer, faults, restarts>>

(* The send or the update raises: the dispatcher sleeps and selects again. *)
DispatchFails ==
  /\ dpc \in {"send", "mark"}
  /\ Fault
  /\ dpc' = "select"
  /\ picked' = Nothing
  /\ UNCHANGED <<worker, committed, db, kafkaOut, consumer, restarts>>

(* ------------------------------ process death ------------------------------ *)

(* Mutant: a restarted consumer starts at the end of the log. *)
RestartAtLatest ==
  /\ restarts < MaxRestarts
  /\ restarts' = restarts + 1
  /\ failed' = {}
  /\ position' = Len(scores)
  /\ cursor' = Len(scores) + 1
  /\ pc' = "poll"
  /\ picked' = Nothing
  /\ dpc' = "select"
  /\ UNCHANGED <<worker, committed, db, kafkaOut, faults>>

(* A kill, or stop() and start(): memory is lost, the group resumes from the   *)
(* committed offset.                                                           *)
Restart ==
  /\ restarts < MaxRestarts
  /\ restarts' = restarts + 1
  /\ failed' = {}
  /\ position' = committed
  /\ cursor' = committed + 1
  /\ pc' = "poll"
  /\ picked' = Nothing
  /\ dpc' = "select"
  /\ UNCHANGED <<worker, committed, db, kafkaOut, faults>>

(* ------------------------------ specification ------------------------------ *)

Worker ==
  \/ \E s \in Sessions, w \in Windows, anomaly \in BOOLEAN : PublishScore(s, w, anomaly)
  \/ \E s \in Sessions, kind \in Foreign : PublishForeign(kind, s)
  \/ \E s \in Sessions : WorkerRestart(s)

Consumer ==
  \/ Poll \/ Quarantine \/ Skip \/ RecordFailure \/ PublishFailure
  \/ Apply \/ Reject \/ Commit

Dispatcher == next_unpublished_outbox \/ Send \/ Mark

Failure ==
  \/ QuarantineFails \/ RecordFailureFails \/ PublishFailureFails
  \/ ApplyFails \/ CommitFails \/ DispatchFails \/ Restart

Next == Worker \/ Consumer \/ Dispatcher \/ Failure

Spec == Init /\ [][Next]_vars

(* Both tasks are while-loops the event loop keeps scheduling. *)
FairSpec == Spec /\ WF_vars(Consumer) /\ WF_vars(Dispatcher)

(* -------------------------------- properties ------------------------------- *)

(* In every session the OPEN alert rows are exactly the alert its stored state *)
(* machine considers active, whatever was redelivered, lost or interrupted.    *)
OpenAlertIsActive == \A s \in Sessions : OpenIsActive(db[s])

(* In every session only ordering makes the service refuse a decision of its   *)
(* own contract.                                                               *)
OnlyOrderingRejects == \A s \in Sessions : NeverRejected(db[s])

(* In every session the stored state machine is what replaying the stored      *)
(* decisions gives.                                                            *)
RuntimeIsReconstruction == \A s \in Sessions : Reconstructs(db[s])

(* The outbox protocol: a row is marked published only after its event went to *)
(* irp.alerts.v1, and nothing goes there that is not a durable event.          *)
OutboxProtocol ==
  /\ \A s \in Sessions : \A key \in db[s].published : <<s, key>> \in sent
  /\ \A m \in sent : m[2] \in db[m[1]].events

(* The dispatcher drains the outbox again and again, failures notwithstanding. *)
OutboxDrained == []<>(\A s \in Sessions : unpublished(db[s]) = {})

(* What must be true of a record before its offset may be committed: a decision *)
(* is stored, or its session has failed; garbage is quarantined; a decision of  *)
(* another contract is never passed.                                            *)
Handled(i) ==
  CASE scores[i].kind = "score" ->
         \/ \E d \in db[scores[i].session].decisions : d.ts = scores[i].ts
         \/ db[scores[i].session].session = "FAILED"
    [] scores[i].kind = "malformed" -> i \in quarantine
    [] scores[i].kind = "mismatch" -> FALSE

(* No offset is committed past a record that has not been handled: Kafka will  *)
(* never deliver that record again.                                            *)
CommittedRecordsHandled == \A i \in 1..committed : Handled(i)

(* Without a call that raises and without redelivery by the worker that holds,  *)
(* however the process dies between handling and committing; the record that   *)
(* failed a session, in particular, stays uncommitted.                         *)
HandledUnlessDisturbed == faults = 0 /\ rewinds = 0 => CommittedRecordsHandled

(* A mismatch fails the session closed: without a raising call or redelivery,  *)
(* once its row says FAILED no decision or event of it is stored any more,     *)
(* although the set of failed sessions does not survive the process.           *)
FailedSessionStaysClosed ==
  [][\A s \in Sessions :
       faults = 0 /\ rewinds = 0 /\ db[s].session = "FAILED" =>
         /\ db'[s].decisions = db[s].decisions
         /\ db'[s].events = db[s].events
         /\ db'[s].session = "FAILED"]_db

(* Unless a mismatch has halted it, and without a raising call or redelivery,  *)
(* the consumer commits the whole log again and again.                         *)
EverythingCommitted ==
  []<>(committed = Len(scores) \/ pc = "halted" \/ faults > 0 \/ rewinds > 0)
===============================================================================
