-------------------------- MODULE AlertServiceProofs --------------------------
(* The alert service, for any number of sessions, any policy, any log, any     *)
(* number of faults, restarts and redeliveries: its types, the agreement of    *)
(* the alert rows with the stored state machine and of that with the stored    *)
(* decisions, the outbox protocol, and, while no call raises and nothing is    *)
(* redelivered, that no record is lost (CalmInv) and a failed session stays    *)
(* closed.                                                                     *)
EXTENDS AlertService, AlertStoreProofs

(* Every session's rows are sound, whatever the consumer is doing. *)
RowsSound == \A s \in Sessions : Sound(db[s])

(* The outbox announces durable events only; the row the dispatcher holds is   *)
(* one of them, and has been sent once the dispatcher is about to mark it.     *)
OutboxInv ==
  /\ \A s \in Sessions : db[s].outbox \subseteq db[s].events
  /\ OutboxProtocol
  /\ dpc # "select" => picked[2] \in db[picked[1]].events
  /\ dpc = "mark" => picked \in sent

Inv == TypeOK /\ RowsSound /\ OutboxInv

(* The initial state satisfies the inductive invariant. *)
LEMMA InitInv == Init => Inv
<1> SUFFICES ASSUME Init PROVE Inv
  OBVIOUS
<1>1. NoRows \in SessionRows /\ Sound(NoRows)
  BY NoRowsSound DEF Sound
<1>2. db = [s \in Sessions |-> NoRows]
  BY DEF Init
<1>3. RowsSound
  BY <1>1, <1>2 DEF RowsSound
<1>4. TypeOK
  <2>1. db \in [Sessions -> SessionRows]
    BY <1>1, <1>2
  <2> QED
    BY <2>1, HorizonAssumption DEF TypeOK, Init
<1>5. OutboxInv
  <2>1. NoRows.outbox = {} /\ NoRows.events = {} /\ NoRows.published = {}
    BY DEF NoRows
  <2>2. sent = {} /\ dpc = "select"
    BY DEF Init
  <2> QED
    BY <1>2, <2>1, <2>2 DEF OutboxInv, OutboxProtocol
<1> QED
  BY <1>3, <1>4, <1>5 DEF Inv

(* ------------------------- one session's rows change ----------------------- *)

(* A transaction that leaves one session sound leaves them all sound. *)
LEMMA RowsStep ==
  ASSUME TypeOK, RowsSound, NEW s \in Sessions, NEW new, Sound(new),
         db' = [db EXCEPT ![s] = new]
  PROVE  RowsSound' /\ db' \in [Sessions -> SessionRows]
<1>1. db \in [Sessions -> SessionRows] /\ new \in SessionRows
  BY DEF TypeOK, Sound
<1>2. \A t \in Sessions : db'[t] = IF t = s THEN new ELSE db[t]
  BY <1>1
<1> QED
  BY <1>1, <1>2 DEF RowsSound

(* A transaction of the consumer keeps the outbox invariant when it forgets no *)
(* event and marks nothing published.                                          *)
LEMMA OutboxStep ==
  ASSUME TypeOK, OutboxInv, NEW s \in Sessions, NEW new,
         db' = [db EXCEPT ![s] = new],
         new.published = db[s].published,
         db[s].events \subseteq new.events,
         db[s].outbox \subseteq db[s].events => new.outbox \subseteq new.events,
         UNCHANGED <<sent, picked, dpc>>
  PROVE  OutboxInv'
<1>1. db \in [Sessions -> SessionRows]
  BY DEF TypeOK
<1>2. \A t \in Sessions : db'[t] = IF t = s THEN new ELSE db[t]
  BY <1>1
<1>3. \A t \in Sessions : /\ db'[t].published = db[t].published
                          /\ db[t].events \subseteq db'[t].events
                          /\ db'[t].outbox \subseteq db'[t].events
  BY <1>2 DEF OutboxInv
<1>4. \A m \in sent : m[1] \in Sessions
  BY DEF TypeOK
<1>5. OutboxProtocol'
  BY <1>3, <1>4 DEF OutboxInv, OutboxProtocol
<1>6. dpc # "select" => picked[1] \in Sessions
  BY DEF TypeOK
<1> QED
  BY <1>3, <1>5, <1>6 DEF OutboxInv

(* Nothing about the rows or the outbox moves. *)
LEMMA RowsUnchanged ==
  ASSUME RowsSound, OutboxInv, UNCHANGED <<db, sent, picked, dpc>>
  PROVE  RowsSound' /\ OutboxInv'
  BY DEF RowsSound, OutboxInv, OutboxProtocol

(* The dispatcher lets go of its row. *)
LEMMA RowReleased ==
  ASSUME RowsSound, OutboxInv, UNCHANGED <<db, sent>>, dpc' = "select"
  PROVE  RowsSound' /\ OutboxInv'
  BY DEF RowsSound, OutboxInv, OutboxProtocol

(* The record the consumer is at. *)
LEMMA CurrentFields ==
  ASSUME TypeOK, pc \in {"process", "failing", "commit"}
  PROVE  /\ cursor \in 1..Len(scores)
         /\ Current \in Records
         /\ Current.session \in Sessions
         /\ CurrentDecision \in Decision
<1>1. cursor \in 1..Len(scores)
  BY DEF TypeOK
<1>2. Current \in Records
  BY <1>1 DEF Current, TypeOK
<1> QED
  BY <1>1, <1>2 DEF Records, CurrentDecision, Decision

(* --------------------------- the streaming worker -------------------------- *)

(* A longer log keeps every offset in range. *)
LEMMA LogGrows ==
  ASSUME TypeOK, NEW r \in Records, scores' = Append(scores, r),
         emitted' \in [Sessions -> 0..Horizon], rewinds' \in Nat,
         UNCHANGED <<committed, db, kafkaOut, consumer, dispatcher, faults, restarts>>
  PROVE  TypeOK'
<1>1. scores' \in Seq(Records) /\ Len(scores') = Len(scores) + 1 /\ Len(scores) \in Nat
  BY DEF TypeOK
<1> QED
  BY <1>1 DEF TypeOK, kafkaOut, consumer, dispatcher

(* The worker's steps keep the inductive invariant. *)
LEMMA WorkerStep == Inv /\ Worker => Inv'
<1> SUFFICES ASSUME Inv, Worker PROVE Inv'
  OBVIOUS
<1>1. TypeOK /\ RowsSound /\ OutboxInv
  BY DEF Inv
<1>2. UNCHANGED <<db, sent, picked, dpc>>
  BY DEF Worker, PublishScore, PublishForeign, WorkerRestart, kafkaOut, dispatcher
<1>3. ASSUME NEW s \in Sessions, NEW w \in Windows, NEW anomaly \in BOOLEAN,
             PublishScore(s, w, anomaly)
      PROVE  TypeOK'
  <2> DEFINE r == [kind |-> "score", session |-> s, ts |-> w, is_anomaly |-> anomaly]
  <2>1. r \in Records
    BY DEF Records
  <2>2. /\ scores' = Append(scores, r)
        /\ emitted' = [emitted EXCEPT ![s] = w]
        /\ UNCHANGED <<rewinds, committed, db, kafkaOut, consumer, dispatcher,
                       faults, restarts>>
    BY <1>3 DEF PublishScore, Publish
  <2> HIDE DEF r
  <2>3. emitted' \in [Sessions -> 0..Horizon] /\ rewinds' \in Nat
    <3>1. w \in 0..Horizon
      BY HorizonAssumption DEF Windows
    <3> QED
      BY <1>1, <2>2, <3>1 DEF TypeOK
  <2> QED
    BY <1>1, <2>1, <2>2, <2>3, LogGrows
<1>4. ASSUME NEW s \in Sessions, NEW kind \in Foreign, PublishForeign(kind, s)
      PROVE  TypeOK'
  <2> DEFINE r == [kind |-> kind, session |-> s, ts |-> 1, is_anomaly |-> TRUE]
  <2>1. r \in Records
    BY BoundsAssumption, HorizonAssumption DEF Records, Windows
  <2>2. /\ scores' = Append(scores, r)
        /\ UNCHANGED <<emitted, rewinds, committed, db, kafkaOut, consumer,
                       dispatcher, faults, restarts>>
    BY <1>4 DEF PublishForeign, Publish
  <2> HIDE DEF r
  <2>3. emitted' \in [Sessions -> 0..Horizon] /\ rewinds' \in Nat
    BY <1>1, <2>2 DEF TypeOK
  <2> QED
    BY <1>1, <2>1, <2>2, <2>3, LogGrows
<1>5. ASSUME NEW s \in Sessions, WorkerRestart(s)
      PROVE  TypeOK'
  <2>1. emitted' \in [Sessions -> 0..Horizon]
    BY <1>1, <1>5, HorizonAssumption DEF TypeOK, WorkerRestart
  <2> QED
    BY <1>1, <1>5, <2>1 DEF TypeOK, WorkerRestart, kafkaOut, consumer, dispatcher
<1>6. TypeOK'
  BY <1>3, <1>4, <1>5 DEF Worker
<1> QED
  BY <1>1, <1>2, <1>6, RowsUnchanged DEF Inv

(* ----------------------------- the consumer task --------------------------- *)

(* A batch that is abandoned leaves every offset in range. *)
LEMMA AbandonType ==
  ASSUME TypeOK, AbandonBatch, db' \in [Sessions -> SessionRows],
         committed' \in 0..position,
         quarantine' \subseteq 1..Len(scores), statuses' \subseteq Sessions,
         failed' \subseteq Sessions, faults' \in Nat,
         UNCHANGED <<worker, sent, dispatcher, restarts>>
  PROVE  TypeOK'
  BY DEF TypeOK, AbandonBatch, worker, dispatcher

(* Recording a decision the service accepts keeps rows and outbox right. *)
LEMMA DecisionRecorded ==
  ASSUME Inv, LiveDecision, Recordable, RecordDecision, UNCHANGED <<sent, picked, dpc>>
  PROVE  RowsSound' /\ OutboxInv' /\ db' \in [Sessions -> SessionRows]
<1> DEFINE s == Current.session
<1> DEFINE rows == db[s]
<1> DEFINE new == record_decision_transition(LoadedRows(rows), CurrentDecision, Result)
<1>1. TypeOK /\ RowsSound /\ OutboxInv
  BY DEF Inv
<1>2. s \in Sessions /\ CurrentDecision \in Decision
  BY <1>1, CurrentFields DEF LiveDecision
<1>3. Sound(rows) /\ ~OrderingViolation(load_alert_state(rows), CurrentDecision)
  BY <1>1, <1>2 DEF RowsSound, Recordable, LoadedState
<1>4. Result = transition(load_alert_state(rows), CurrentDecision)
  BY DEF Result, LoadedState
<1>5. Sound(new)
  BY <1>2, <1>3, <1>4, RecordSound
<1>6. /\ new.published = rows.published
      /\ rows.events \subseteq new.events
      /\ rows.outbox \subseteq rows.events => new.outbox \subseteq new.events
  BY <1>3, RecordKeepsOutbox
<1>7. db' = [db EXCEPT ![s] = new]
  BY DEF RecordDecision
<1> HIDE DEF new, s
<1>8. RowsSound' /\ db' \in [Sessions -> SessionRows]
  BY <1>1, <1>2, <1>5, <1>7, RowsStep
<1>9. OutboxInv'
  BY <1>1, <1>2, <1>6, <1>7, OutboxStep
<1> QED
  BY <1>8, <1>9

(* Failing the current session keeps rows and outbox right. *)
LEMMA FailureRecorded ==
  ASSUME Inv, NEW s \in Sessions, UNCHANGED <<sent, picked, dpc>>,
         db' = [db EXCEPT ![s] = record_failed_status(@)]
  PROVE  RowsSound' /\ OutboxInv' /\ db' \in [Sessions -> SessionRows]
<1> DEFINE new == record_failed_status(db[s])
<1>1. TypeOK /\ RowsSound /\ OutboxInv
  BY DEF Inv
<1>2. Sound(db[s])
  BY <1>1 DEF RowsSound
<1>3. /\ Sound(new)
      /\ new.published = db[s].published
      /\ new.events = db[s].events
      /\ new.outbox = db[s].outbox
  BY <1>2, FailSound
<1>4. db' = [db EXCEPT ![s] = new]
  OBVIOUS
<1> HIDE DEF new
<1> QED
  BY <1>1, <1>3, <1>4, RowsStep, OutboxStep

(* A refused decision changes no row. *)
LEMMA RejectKeepsRows ==
  ASSUME Inv, Reject
  PROVE  db' = db
<1>1. TypeOK /\ RowsSound
  BY DEF Inv
<1>2. Current.session \in Sessions
  BY <1>1, CurrentFields DEF Reject, LiveDecision
<1>3. LoadedRows(db[Current.session]) = db[Current.session]
  BY <1>1, <1>2, SoundLoads DEF RowsSound
<1>4. db \in [Sessions -> SessionRows]
  BY <1>1 DEF TypeOK
<1>5. db' = [db EXCEPT ![Current.session] = LoadedRows(db[Current.session])]
  BY DEF Reject
<1> QED
  BY <1>2, <1>3, <1>4, <1>5

(* The consumer's steps keep the inductive invariant. *)
LEMMA ConsumerStep == Inv /\ Consumer => Inv'
<1> SUFFICES ASSUME Inv, Consumer PROVE Inv'
  OBVIOUS
<1>1. TypeOK /\ RowsSound /\ OutboxInv
  BY DEF Inv
<1>2. CASE Poll
  <2>1. TypeOK'
    BY <1>1, <1>2 DEF TypeOK, Poll, worker, kafkaOut, dispatcher
  <2> QED
    BY <1>1, <1>2, <2>1, RowsUnchanged DEF Inv, Poll, kafkaOut, dispatcher
<1>3. CASE Quarantine
  <2>1. cursor \in 1..Len(scores)
    BY <1>1, <1>3, CurrentFields DEF Quarantine
  <2>2. TypeOK'
    BY <1>1, <1>3, <2>1 DEF TypeOK, Quarantine, worker, dispatcher
  <2> QED
    BY <1>1, <1>3, <2>2, RowsUnchanged DEF Inv, Quarantine, dispatcher
<1>4. CASE Skip
  <2>1. TypeOK'
    BY <1>1, <1>4 DEF TypeOK, Skip, worker, kafkaOut, dispatcher
  <2> QED
    BY <1>1, <1>4, <2>1, RowsUnchanged DEF Inv, Skip, kafkaOut, dispatcher
<1>5. CASE RecordFailure
  <2>1. Current.session \in Sessions
    BY <1>1, <1>5, CurrentFields DEF RecordFailure, IdentityMismatch
  <2>2. RowsSound' /\ OutboxInv' /\ db' \in [Sessions -> SessionRows]
    BY <1>5, <2>1, FailureRecorded DEF RecordFailure, FailSession, kafkaOut, dispatcher
  <2>3. TypeOK'
    BY <1>1, <1>5, <2>1, <2>2
    DEF TypeOK, RecordFailure, IdentityMismatch, worker, kafkaOut, dispatcher
  <2> QED
    BY <2>2, <2>3 DEF Inv
<1>6. CASE PublishFailure
  <2>1. Current.session \in Sessions
    BY <1>1, <1>6, CurrentFields DEF PublishFailure
  <2>2. TypeOK'
    BY <1>1, <1>6, <2>1 DEF TypeOK, PublishFailure, worker, dispatcher
  <2> QED
    BY <1>1, <1>6, <2>2, RowsUnchanged DEF Inv, PublishFailure, dispatcher
<1>7. CASE Apply
  <2>1. RowsSound' /\ OutboxInv' /\ db' \in [Sessions -> SessionRows]
    BY <1>7, DecisionRecorded DEF Apply, kafkaOut, dispatcher
  <2>2. TypeOK'
    BY <1>1, <1>7, <2>1 DEF TypeOK, Apply, LiveDecision, worker, kafkaOut, dispatcher
  <2> QED
    BY <2>1, <2>2 DEF Inv
<1>8. CASE Reject
  <2>1. db' = db
    BY <1>8, RejectKeepsRows
  <2>2. TypeOK'
    <3>1. /\ AbandonBatch
          /\ UNCHANGED <<worker, committed, kafkaOut, failed, dispatcher, faults, restarts>>
      BY <1>8 DEF Reject
    <3>2. /\ failed' \subseteq Sessions /\ faults' \in Nat
          /\ committed' \in 0..position /\ db' \in [Sessions -> SessionRows]
          /\ quarantine' \subseteq 1..Len(scores) /\ statuses' \subseteq Sessions
      BY <1>1, <2>1, <3>1 DEF TypeOK, kafkaOut
    <3> QED
      BY <1>1, <3>1, <3>2, AbandonType DEF kafkaOut
  <2> QED
    BY <1>1, <1>8, <2>1, <2>2, RowsUnchanged DEF Inv, Reject, kafkaOut, dispatcher
<1>9. CASE Commit
  <2>1. TypeOK'
    BY <1>1, <1>9 DEF TypeOK, Commit, worker, kafkaOut, dispatcher
  <2> QED
    BY <1>1, <1>9, <2>1, RowsUnchanged DEF Inv, Commit, kafkaOut, dispatcher
<1> QED
  BY <1>2, <1>3, <1>4, <1>5, <1>6, <1>7, <1>8, <1>9 DEF Consumer

(* ----------------------------- the dispatcher task ------------------------- *)

(* The dispatcher's steps keep the inductive invariant. *)
LEMMA DispatcherStep == Inv /\ Dispatcher => Inv'
<1> SUFFICES ASSUME Inv, Dispatcher PROVE Inv'
  OBVIOUS
<1>1. TypeOK /\ RowsSound /\ OutboxInv
  BY DEF Inv
<1>2. CASE next_unpublished_outbox
  <2>1. PICK s \in Sessions : \E key \in unpublished(db[s]) : picked' = <<s, key>>
    BY <1>2 DEF next_unpublished_outbox
  <2>2. PICK key \in unpublished(db[s]) : picked' = <<s, key>>
    BY <2>1
  <2>3. key \in db[s].events /\ key \in EventKeys
    BY <1>1, <2>2 DEF unpublished, OutboxInv, TypeOK, SessionRows
  <2>4. UNCHANGED <<db, sent>> /\ dpc' = "send"
    BY <1>2 DEF next_unpublished_outbox, kafkaOut
  <2>5. picked' \in Sessions \X EventKeys /\ picked'[1] = s /\ picked'[2] = key
    BY <2>2, <2>3
  <2>6. TypeOK'
    BY <1>1, <1>2, <2>5 DEF TypeOK, next_unpublished_outbox, worker, kafkaOut, consumer
  <2>7. RowsSound'
    BY <1>1, <2>4 DEF RowsSound
  <2>8. OutboxInv'
    BY <1>1, <2>3, <2>4, <2>5 DEF OutboxInv, OutboxProtocol
  <2> QED
    BY <2>6, <2>7, <2>8 DEF Inv
<1>3. CASE Send
  <2>1. picked \in Sessions \X EventKeys
    BY <1>1, <1>3 DEF TypeOK, Send
  <2>2. TypeOK'
    BY <1>1, <1>3, <2>1 DEF TypeOK, Send, worker, consumer
  <2>3. RowsSound'
    BY <1>1, <1>3 DEF RowsSound, Send
  <2>4. OutboxInv'
    BY <1>1, <1>3, <2>1 DEF OutboxInv, OutboxProtocol, Send
  <2> QED
    BY <2>2, <2>3, <2>4 DEF Inv
<1>4. CASE Mark
  <2> DEFINE s == picked[1]
  <2> DEFINE key == picked[2]
  <2> DEFINE new == mark_outbox_published(db[s], key)
  <2>1. picked \in Sessions \X EventKeys /\ picked \in sent
    BY <1>1, <1>4 DEF TypeOK, Mark, OutboxInv
  <2>2. s \in Sessions /\ key \in EventKeys /\ <<s, key>> \in sent
    BY <2>1
  <2>3. Sound(db[s])
    BY <1>1, <2>2 DEF RowsSound
  <2>4. /\ Sound(new)
        /\ new.published = db[s].published \cup {key}
        /\ new.events = db[s].events
        /\ new.outbox = db[s].outbox
    BY <2>2, <2>3, MarkSound
  <2>5. db' = [db EXCEPT ![s] = new] /\ sent' = sent /\ dpc' = "select" /\ picked' = Nothing
    BY <1>4 DEF Mark, kafkaOut
  <2>6. RowsSound' /\ db' \in [Sessions -> SessionRows]
    BY <1>1, <2>2, <2>4, <2>5, RowsStep
  <2>7. TypeOK'
    BY <1>1, <1>4, <2>5, <2>6 DEF TypeOK, Mark, worker, kafkaOut, consumer
  <2> HIDE DEF s, key, new
  <2>8. \A t \in Sessions : db'[t] = IF t = s THEN new ELSE db[t]
    BY <1>1, <2>5 DEF TypeOK
  <2>9. /\ \A t \in Sessions : db'[t].events = db[t].events /\ db'[t].outbox = db[t].outbox
        /\ \A t \in Sessions : \A k \in db'[t].published :
             k \in db[t].published \/ (t = s /\ k = key)
    BY <2>2, <2>4, <2>8
  <2>10. \A m \in sent : m[1] \in Sessions
    BY <1>1 DEF TypeOK
  <2>11. OutboxProtocol'
    BY <1>1, <2>2, <2>5, <2>9, <2>10 DEF OutboxInv, OutboxProtocol
  <2>12. OutboxInv'
    BY <1>1, <2>5, <2>9, <2>11 DEF OutboxInv
  <2> QED
    BY <2>6, <2>7, <2>12 DEF Inv
<1> QED
  BY <1>2, <1>3, <1>4 DEF Dispatcher

(* --------------------------- faults and restarts --------------------------- *)

(* A call that raises and a death of the process keep the inductive invariant. *)
LEMMA FailureStep == Inv /\ Failure => Inv'
<1> SUFFICES ASSUME Inv, Failure PROVE Inv'
  OBVIOUS
<1>1. TypeOK /\ RowsSound /\ OutboxInv
  BY DEF Inv
<1>2. CASE QuarantineFails \/ PublishFailureFails \/ CommitFails
  <2>1. /\ AbandonBatch /\ Fault
        /\ UNCHANGED <<worker, db, sent, failed, dispatcher, restarts>>
    BY <1>2 DEF QuarantineFails, PublishFailureFails, CommitFails, kafkaOut
  <2>2. pc \in {"process", "failing", "commit"}
    BY <1>2 DEF QuarantineFails, PublishFailureFails, CommitFails
  <2>3. cursor \in 1..Len(scores) /\ Current.session \in Sessions
    BY <1>1, <2>2, CurrentFields
  <2>4. /\ committed' \in 0..position
        /\ quarantine' \subseteq 1..Len(scores)
        /\ statuses' \subseteq Sessions
    <3>1. CASE QuarantineFails
      BY <1>1, <2>3, <3>1 DEF TypeOK, QuarantineFails
    <3>2. CASE PublishFailureFails
      BY <1>1, <2>3, <3>2 DEF TypeOK, PublishFailureFails
    <3>3. CASE CommitFails
      BY <1>1, <3>3 DEF TypeOK, CommitFails, kafkaOut
    <3> QED
      BY <1>2, <3>1, <3>2, <3>3
  <2>5. /\ db' \in [Sessions -> SessionRows]
        /\ failed' \subseteq Sessions /\ faults' \in Nat
    BY <1>1, <2>1 DEF TypeOK, Fault
  <2>6. TypeOK'
    BY <1>1, <2>1, <2>4, <2>5, AbandonType
  <2> QED
    BY <1>1, <2>1, <2>6, RowsUnchanged DEF Inv, dispatcher
<1>3. CASE RecordFailureFails
  <2>1. Current.session \in Sessions
    BY <1>1, <1>3, CurrentFields DEF RecordFailureFails, IdentityMismatch
  <2>2. /\ AbandonBatch /\ Fault /\ IdentityMismatch
        /\ UNCHANGED <<worker, committed, kafkaOut, dispatcher, restarts>>
    BY <1>3 DEF RecordFailureFails
  <2>3. RowsSound' /\ OutboxInv' /\ db' \in [Sessions -> SessionRows]
    <3>1. CASE UNCHANGED db
      BY <1>1, <2>2, <3>1, RowsUnchanged DEF kafkaOut, dispatcher, TypeOK
    <3>2. CASE FailSession
      BY <2>1, <2>2, <3>2, FailureRecorded DEF FailSession, kafkaOut, dispatcher
    <3> QED
      BY <1>3, <3>1, <3>2 DEF RecordFailureFails
  <2>4. TypeOK'
    <3>1. /\ failed' \subseteq Sessions /\ faults' \in Nat
          /\ committed' \in 0..position
          /\ quarantine' \subseteq 1..Len(scores) /\ statuses' \subseteq Sessions
      BY <1>1, <2>1, <2>2 DEF TypeOK, Fault, IdentityMismatch, kafkaOut
    <3> QED
      BY <1>1, <2>2, <2>3, <3>1, AbandonType DEF kafkaOut
  <2> QED
    BY <2>3, <2>4 DEF Inv
<1>4. CASE ApplyFails
  <2>1. RowsSound' /\ OutboxInv' /\ db' \in [Sessions -> SessionRows]
    <3>1. CASE UNCHANGED db
      BY <1>1, <1>4, <3>1, RowsUnchanged DEF ApplyFails, kafkaOut, dispatcher, TypeOK
    <3>2. CASE Recordable /\ RecordDecision
      BY <1>4, <3>2, DecisionRecorded DEF ApplyFails, kafkaOut, dispatcher
    <3> QED
      BY <1>4, <3>1, <3>2 DEF ApplyFails
  <2>2. TypeOK'
    <3>1. /\ AbandonBatch /\ Fault
          /\ UNCHANGED <<worker, committed, kafkaOut, failed, dispatcher, restarts>>
      BY <1>4 DEF ApplyFails
    <3>2. /\ failed' \subseteq Sessions /\ faults' \in Nat
          /\ committed' \in 0..position
          /\ quarantine' \subseteq 1..Len(scores) /\ statuses' \subseteq Sessions
      BY <1>1, <3>1 DEF TypeOK, Fault, kafkaOut
    <3> QED
      BY <1>1, <2>1, <3>1, <3>2, AbandonType DEF kafkaOut
  <2> QED
    BY <2>1, <2>2 DEF Inv
<1>5. CASE DispatchFails
  <2>1. TypeOK'
    BY <1>1, <1>5 DEF TypeOK, DispatchFails, Fault, worker, kafkaOut, consumer
  <2> QED
    BY <1>1, <1>5, <2>1, RowReleased DEF Inv, DispatchFails, kafkaOut
<1>6. CASE Restart
  <2>1. TypeOK'
    BY <1>1, <1>6 DEF TypeOK, Restart, worker, kafkaOut
  <2> QED
    BY <1>1, <1>6, <2>1, RowReleased DEF Inv, Restart, kafkaOut
<1> QED
  BY <1>2, <1>3, <1>4, <1>5, <1>6 DEF Failure

(* -------------------------------- theorems --------------------------------- *)

(* A step that changes nothing keeps the inductive invariant. *)
LEMMA StutterStep == Inv /\ UNCHANGED vars => Inv'
<1> SUFFICES ASSUME Inv, UNCHANGED vars PROVE Inv'
  OBVIOUS
<1>1. TypeOK'
  BY DEF Inv, TypeOK, vars, worker, kafkaOut, consumer, dispatcher
<1>2. UNCHANGED <<db, sent, picked, dpc>>
  BY DEF vars, kafkaOut, dispatcher
<1> QED
  BY <1>1, <1>2, RowsUnchanged DEF Inv

(* The inductive invariant holds of every behaviour of the service. *)
THEOREM AlwaysInv == Spec => []Inv
<1>1. Inv /\ [Next]_vars => Inv'
  BY WorkerStep, ConsumerStep, DispatcherStep, FailureStep, StutterStep DEF Next
<1> QED
  BY InitInv, <1>1, PTL DEF Spec

(* The service's variables keep their types: in particular the committed       *)
(* offset never passes the consumer's position, nor the record in hand.        *)
THEOREM TypeCorrect == Spec => []TypeOK
<1>1. Inv => TypeOK
  BY DEF Inv
<1> QED
  BY AlwaysInv, <1>1, PTL

(* In every session the OPEN alert rows are the active alert of the stored     *)
(* state machine, for every policy and every interleaving.                     *)
THEOREM OpenAlertAlwaysActive == Spec => []OpenAlertIsActive
<1>1. Inv => OpenAlertIsActive
  BY SoundOpenIsActive DEF Inv, RowsSound, OpenAlertIsActive
<1> QED
  BY AlwaysInv, <1>1, PTL

(* A decision later than the last one of its session is never refused: neither *)
(* by the validation of its event nor by the outbox's foreign key.             *)
THEOREM OnlyOrderingEverRejects == Spec => []OnlyOrderingRejects
<1>1. Inv => OnlyOrderingRejects
  BY SoundNeverRejected DEF Inv, RowsSound, OnlyOrderingRejects
<1> QED
  BY AlwaysInv, <1>1, PTL

(* No outbox row is marked published before its event is on irp.alerts.v1, and *)
(* nothing is on irp.alerts.v1 that is not a durable event.                    *)
THEOREM OutboxProtocolHolds == Spec => []OutboxProtocol
<1>1. Inv => OutboxProtocol
  BY DEF Inv, OutboxInv
<1> QED
  BY AlwaysInv, <1>1, PTL

(* --------------- the stored state is a replay of the decisions ------------- *)

RowsReplayed == \A s \in Sessions : Replayed(db[s])

(* One session's rows change. *)
LEMMA ReplayedStep ==
  ASSUME TypeOK, RowsReplayed, NEW s \in Sessions, NEW new, Replayed(new),
         db' = [db EXCEPT ![s] = new]
  PROVE  RowsReplayed'
<1>1. db \in [Sessions -> SessionRows]
  BY DEF TypeOK
<1>2. \A t \in Sessions : db'[t] = IF t = s THEN new ELSE db[t]
  BY <1>1
<1> QED
  BY <1>2 DEF RowsReplayed

(* The status of a session and the mark of an outbox row are not replayed. *)
LEMMA StatusReplayed ==
  ASSUME NEW rows \in SessionRows, Replayed(rows), NEW key
  PROVE  Replayed(record_failed_status(rows)) /\ Replayed(mark_outbox_published(rows, key))
<1>1. /\ record_failed_status(rows).decisions = rows.decisions
      /\ record_failed_status(rows).runtime = rows.runtime
      /\ mark_outbox_published(rows, key).decisions = rows.decisions
      /\ mark_outbox_published(rows, key).runtime = rows.runtime
  BY DEF record_failed_status, mark_outbox_published, SessionRows
<1> QED
  BY <1>1, SameReplayed

(* A decision the service records extends the replay of its session. *)
LEMMA DecisionReplayed ==
  ASSUME Inv, RowsReplayed, LiveDecision, Recordable, RecordDecision
  PROVE  RowsReplayed'
<1> DEFINE s == Current.session
<1> DEFINE rows == db[s]
<1> DEFINE new == record_decision_transition(LoadedRows(rows), CurrentDecision, Result)
<1>1. TypeOK /\ RowsSound
  BY DEF Inv
<1>2. s \in Sessions /\ CurrentDecision \in Decision
  BY <1>1, CurrentFields DEF LiveDecision
<1>3. /\ Sound(rows) /\ Replayed(rows)
      /\ ~OrderingViolation(load_alert_state(rows), CurrentDecision)
  BY <1>1, <1>2 DEF RowsSound, RowsReplayed, Recordable, LoadedState
<1>4. Result = transition(load_alert_state(rows), CurrentDecision)
  BY DEF Result, LoadedState
<1>5. Replayed(new)
  BY <1>2, <1>3, <1>4, RecordReplayed
<1>6. db' = [db EXCEPT ![s] = new]
  BY DEF RecordDecision
<1> HIDE DEF new, s
<1> QED
  BY <1>1, <1>2, <1>5, <1>6, ReplayedStep

(* Failing the current session leaves its replay alone. *)
LEMMA FailureReplayed ==
  ASSUME Inv, RowsReplayed, Current.session \in Sessions, FailSession
  PROVE  RowsReplayed'
<1>1. TypeOK /\ db[Current.session] \in SessionRows
  BY DEF Inv, TypeOK
<1>2. Replayed(record_failed_status(db[Current.session]))
  BY <1>1, StatusReplayed DEF RowsReplayed
<1>3. db' = [db EXCEPT ![Current.session] = record_failed_status(db[Current.session])]
  BY DEF FailSession
<1> QED
  BY <1>1, <1>2, <1>3, ReplayedStep

(* Every step keeps the states replays. *)
LEMMA ReplayedKept == Inv /\ RowsReplayed /\ [Next]_vars => RowsReplayed'
<1> SUFFICES ASSUME Inv, RowsReplayed, [Next]_vars PROVE RowsReplayed'
  OBVIOUS
<1>1. TypeOK /\ OutboxInv
  BY DEF Inv
<1>2. ASSUME db' = db PROVE RowsReplayed'
  BY <1>2 DEF RowsReplayed
<1>3. CASE Apply \/ (ApplyFails /\ Recordable /\ RecordDecision)
  BY <1>3, DecisionReplayed DEF Apply, ApplyFails
<1>4. CASE (RecordFailure \/ RecordFailureFails) /\ FailSession
  <2>1. Current.session \in Sessions
    BY <1>1, <1>4, CurrentFields DEF RecordFailure, RecordFailureFails, IdentityMismatch
  <2> QED
    BY <1>4, <2>1, FailureReplayed
<1>5. CASE Mark
  <2>1. picked \in Sessions \X EventKeys /\ db \in [Sessions -> SessionRows]
    BY <1>1, <1>5 DEF TypeOK, Mark
  <2>2. PICK s \in Sessions, key \in EventKeys : picked[1] = s /\ picked[2] = key
    BY <2>1
  <2>3. Replayed(mark_outbox_published(db[s], key))
    BY <2>1, StatusReplayed DEF RowsReplayed
  <2>4. db' = [db EXCEPT ![s] = mark_outbox_published(db[s], key)]
    BY <1>5, <2>2 DEF Mark
  <2> QED
    BY <1>1, <2>3, <2>4, ReplayedStep
<1>6. CASE Reject
  BY <1>2, <1>6, RejectKeepsRows
<1>7. CASE UNCHANGED vars
  BY <1>2, <1>7 DEF vars
<1>8. CASE Worker
  <2>1. db' = db
    BY <1>8 DEF Worker, PublishScore, PublishForeign, WorkerRestart
  <2> QED
    BY <1>2, <2>1
<1>9. CASE \/ Poll \/ Quarantine \/ Skip \/ PublishFailure \/ Commit
           \/ next_unpublished_outbox \/ Send
           \/ QuarantineFails \/ PublishFailureFails \/ CommitFails \/ DispatchFails \/ Restart
  <2>1. db' = db
    BY <1>9 DEF Poll, Quarantine, Skip, PublishFailure, Commit, next_unpublished_outbox, Send,
                QuarantineFails, PublishFailureFails, CommitFails, DispatchFails, Restart
  <2> QED
    BY <1>2, <2>1
<1>10. CASE RecordFailure
  BY <1>4, <1>10 DEF RecordFailure
<1>11. CASE RecordFailureFails
  BY <1>2, <1>4, <1>11 DEF RecordFailureFails
<1>12. CASE ApplyFails
  BY <1>2, <1>3, <1>12 DEF ApplyFails
<1> QED
  BY <1>3, <1>5, <1>6, <1>7, <1>8, <1>9, <1>10, <1>11, <1>12
  DEF Next, Consumer, Dispatcher, Failure

(* In every session the stored state is what reconstruct_alert_state makes of  *)
(* the stored decisions, after any deaths, faults and redeliveries: losing the *)
(* alert_runtime_states row loses nothing.                                     *)
THEOREM RuntimeAlwaysReconstruction == Spec => []RuntimeIsReconstruction
<1>1. Init => RowsReplayed
  BY NoRowsReplayed DEF Init, RowsReplayed
<1>2. RowsReplayed => RuntimeIsReconstruction
  BY DEF RowsReplayed, Replayed, RuntimeIsReconstruction
<1> QED
  BY <1>1, <1>2, AlwaysInv, ReplayedKept, PTL DEF Spec

(* ------------- an undisturbed service passes no record unhandled ----------- *)

(* No call has raised and the worker has not delivered a session again. *)
Calm == faults = 0 /\ rewinds = 0

LastHandled(s) == load_alert_state(db[s]).last_source_timestamp

(* The record after the committed ones is of another contract. *)
AtMismatch == committed < Len(scores) /\ scores[committed + 1].kind = "mismatch"

IsScore(i) == scores[i].kind = "score"

(* The topic is in window order within each session, up to the last window the *)
(* worker has emitted, and so is what the service has handled of it: only the  *)
(* record after the committed ones can be the last handled one again.          *)
OrderInv ==
  /\ \A i \in 1..Len(scores) :
       IsScore(i) => scores[i].ts <= emitted[scores[i].session]
  /\ \A i, j \in 1..Len(scores) :
       i < j /\ IsScore(i) /\ IsScore(j) /\ scores[i].session = scores[j].session =>
         scores[i].ts < scores[j].ts
  /\ \A s \in Sessions : LastHandled(s) <= emitted[s]
  /\ \A i \in 1..Len(scores) :
       i > committed /\ IsScore(i) =>
         /\ LastHandled(scores[i].session) <= scores[i].ts
         /\ i > committed + 1 => LastHandled(scores[i].session) < scores[i].ts

(* The consumer is always at the first uncommitted record, and a mismatch, in  *)
(* memory or in the rows, means that record is the mismatch.                   *)
ConsumerInv ==
  /\ CommittedRecordsHandled
  /\ pc = "poll" => position = committed
  /\ pc \in {"process", "failing", "commit"} => cursor = committed + 1
  /\ pc = "commit" => Handled(cursor)
  /\ pc \in {"failing", "halted"} => AtMismatch
  /\ pc \notin {"failing", "halted"} => failed = {}
  /\ \A s \in Sessions : db[s].session = "FAILED" => AtMismatch

CalmInv == Calm => OrderInv /\ ConsumerInv

(* The initial state satisfies it: nothing is on the topic. *)
LEMMA InitCalm == Init => CalmInv
<1> SUFFICES ASSUME Init PROVE OrderInv /\ ConsumerInv
  BY DEF CalmInv
<1>1. /\ scores = << >> /\ Len(scores) = 0 /\ committed = 0 /\ position = 0
      /\ failed = {} /\ pc = "poll"
      /\ emitted = [s \in Sessions |-> 0] /\ db = [s \in Sessions |-> NoRows]
  BY DEF Init
<1>2. \A s \in Sessions : LastHandled(s) = 0 /\ db[s].session # "FAILED"
  <2>1. load_alert_state(NoRows) = empty /\ NoRows.session # "FAILED"
    BY DEF load_alert_state, NoRows
  <2> QED
    BY <1>1, <2>1 DEF LastHandled, empty, None
<1>3. 1..0 = {}
  OBVIOUS
<1>4. OrderInv
  BY <1>1, <1>2, <1>3 DEF OrderInv
<1>5. ConsumerInv
  BY <1>1, <1>2, <1>3 DEF ConsumerInv, CommittedRecordsHandled
<1> QED
  BY <1>4, <1>5

(* The fields of the records on the topic. *)
LEMMA RecordFields ==
  ASSUME TypeOK, NEW i \in 1..Len(scores)
  PROVE  /\ scores[i].kind \in {"score", "mismatch", "malformed"}
         /\ scores[i].session \in Sessions
         /\ scores[i].ts \in Windows
<1>1. scores[i] \in Records
  BY DEF TypeOK
<1> QED
  BY <1>1 DEF Records

(* What was handled stays handled: rows and the quarantine only grow, and a    *)
(* failed session stays failed.                                                *)
LEMMA HandledKept ==
  ASSUME TypeOK, NEW i \in 1..Len(scores), scores'[i] = scores[i], Handled(i),
         quarantine \subseteq quarantine',
         \A s \in Sessions : db[s].decisions \subseteq db'[s].decisions,
         \A s \in Sessions : db[s].session = "FAILED" => db'[s].session = "FAILED"
  PROVE  Handled(i)'
<1>1. /\ scores[i].kind \in {"score", "mismatch", "malformed"}
      /\ scores[i].session \in Sessions
  BY RecordFields
<1>2. CASE scores[i].kind = "score"
  <2>1. \/ \E d \in db[scores[i].session].decisions : d.ts = scores[i].ts
        \/ db[scores[i].session].session = "FAILED"
    BY <1>2 DEF Handled
  <2>2. \/ \E d \in db'[scores'[i].session].decisions : d.ts = scores'[i].ts
        \/ db'[scores'[i].session].session = "FAILED"
    BY <1>1, <2>1
  <2> QED
    BY <1>2, <2>2 DEF Handled
<1>3. CASE scores[i].kind = "malformed"
  <2>1. i \in quarantine'
    BY <1>3 DEF Handled
  <2> QED
    BY <1>3, <2>1 DEF Handled
<1>4. CASE scores[i].kind = "mismatch"
  BY <1>4 DEF Handled
<1> QED
  BY <1>1, <1>2, <1>3, <1>4

(* Nothing handled is a decision of another contract. *)
LEMMA MismatchUnhandled ==
  ASSUME NEW i, Handled(i)
  PROVE  scores[i].kind # "mismatch"
  BY DEF Handled

(* The order of topic and rows survives a step that moves neither the log, the *)
(* committed offset nor a session's last decision.                             *)
LEMMA OrderKept ==
  ASSUME OrderInv, UNCHANGED <<scores, emitted, committed>>, TypeOK,
         \A s \in Sessions : LastHandled(s)' = LastHandled(s)
  PROVE  OrderInv'
<1>1. \A i \in 1..Len(scores) : scores[i].session \in Sessions
  BY RecordFields
<1>2. \A i : IsScore(i)' = IsScore(i)
  BY DEF IsScore
<1> QED
  BY <1>1, <1>2 DEF OrderInv

(* Rows that do not move keep the last decisions. *)
LEMMA LastKept ==
  ASSUME db' = db
  PROVE  \A s \in Sessions : LastHandled(s)' = LastHandled(s)
  BY DEF LastHandled

(* The last decision of a session is a window, or none. *)
LEMMA LastType ==
  ASSUME RowsSound
  PROVE  \A s \in Sessions : LastHandled(s) \in 0..Horizon
<1> SUFFICES ASSUME NEW s \in Sessions PROVE LastHandled(s) \in 0..Horizon
  OBVIOUS
<1>1. load_alert_state(db[s]) \in AlertStates
  BY SoundLoads DEF RowsSound
<1> QED
  BY <1>1, StateFields DEF LastHandled

(* What a consumer's step leaves alone. *)
LEMMA CommittedKept ==
  ASSUME TypeOK, CommittedRecordsHandled, UNCHANGED <<scores, committed>>,
         quarantine \subseteq quarantine',
         \A s \in Sessions : db[s].decisions \subseteq db'[s].decisions,
         \A s \in Sessions : db[s].session = "FAILED" => db'[s].session = "FAILED"
  PROVE  CommittedRecordsHandled'
<1>1. \A i \in 1..committed : i \in 1..Len(scores)
  BY DEF TypeOK
<1>2. \A i \in 1..committed : Handled(i)'
  BY <1>1, HandledKept DEF CommittedRecordsHandled
<1> QED
  BY <1>2 DEF CommittedRecordsHandled

(* What the consumer has handled does not depend on the records after it. *)
LEMMA LogKept ==
  ASSUME TypeOK, ConsumerInv, Len(scores') = Len(scores) + 1, Len(scores) \in Nat,
         \A i \in 1..Len(scores) : scores'[i] = scores[i],
         UNCHANGED <<committed, db, quarantine, failed, position, cursor, pc>>
  PROVE  ConsumerInv'
<1>1. committed \in 0..Len(scores) /\ (pc = "commit" => cursor \in 1..Len(scores))
  BY DEF TypeOK
<1>2. \A i \in 1..Len(scores) : Handled(i) => Handled(i)'
  BY HandledKept
<1>3. CommittedRecordsHandled'
  BY <1>1, <1>2 DEF ConsumerInv, CommittedRecordsHandled
<1>4. AtMismatch => AtMismatch'
  BY <1>1 DEF AtMismatch
<1>5. pc = "commit" => Handled(cursor)'
  <2> SUFFICES ASSUME pc = "commit" PROVE Handled(cursor)'
    OBVIOUS
  <2> DEFINE c == cursor
  <2>1. Handled(c) /\ c \in 1..Len(scores)
    BY <1>1 DEF ConsumerInv
  <2>2. cursor' = cursor
    OBVIOUS
  <2> QED
    BY <2>1, <2>2, <1>2, <1>1 DEF Handled
<1> QED
  BY <1>3, <1>4, <1>5 DEF ConsumerInv

(* A foreign record is no decision: it changes nothing about the order. *)
LEMMA CalmPublishForeign ==
  ASSUME Inv, OrderInv, ConsumerInv, NEW s \in Sessions, NEW kind \in Foreign,
         PublishForeign(kind, s)
  PROVE  OrderInv' /\ ConsumerInv'
<1>1. TypeOK
  BY DEF Inv
<1> DEFINE r == [kind |-> kind, session |-> s, ts |-> 1, is_anomaly |-> TRUE]
<1>2. /\ scores' = Append(scores, r)
      /\ UNCHANGED <<emitted, committed, db, quarantine, failed, position, cursor, pc>>
  BY DEF PublishForeign, Publish, kafkaOut, consumer
<1>3. r.kind # "score"
  BY BoundsAssumption
<1> HIDE DEF r
<1>4. /\ Len(scores') = Len(scores) + 1 /\ Len(scores) \in Nat
      /\ \A i \in 1..Len(scores) : scores'[i] = scores[i]
      /\ scores'[Len(scores) + 1] = r
  BY <1>1, <1>2 DEF TypeOK
<1>5. \A i \in 1..Len(scores') : IsScore(i)' => i \in 1..Len(scores) /\ IsScore(i)
  BY <1>3, <1>4 DEF IsScore
<1>6. \A i \in 1..Len(scores) : scores[i].session \in Sessions
  BY <1>1, RecordFields
<1>7. \A t \in Sessions : LastHandled(t)' = LastHandled(t)
  BY <1>2, LastKept
<1>8. OrderInv'
  BY <1>2, <1>4, <1>5, <1>6, <1>7 DEF OrderInv
<1>9. ConsumerInv'
  BY <1>1, <1>2, <1>4, LogKept
<1> QED
  BY <1>8, <1>9

(* The worker's next decision is later than everything it has published and    *)
(* everything the service has handled.                                         *)
LEMMA CalmPublishScore ==
  ASSUME Inv, OrderInv, ConsumerInv, NEW s \in Sessions, NEW w \in Windows,
         NEW anomaly \in BOOLEAN, PublishScore(s, w, anomaly)
  PROVE  OrderInv' /\ ConsumerInv'
<1>1. TypeOK /\ RowsSound
  BY DEF Inv
<1> DEFINE r == [kind |-> "score", session |-> s, ts |-> w, is_anomaly |-> anomaly]
<1>2. /\ scores' = Append(scores, r)
      /\ emitted' = [emitted EXCEPT ![s] = w]
      /\ w > emitted[s]
      /\ UNCHANGED <<committed, db, quarantine, failed, position, cursor, pc>>
  BY DEF PublishScore, Publish, kafkaOut, consumer
<1>3. r.kind = "score" /\ r.session = s /\ r.ts = w
  OBVIOUS
<1> HIDE DEF r
<1>4. /\ Len(scores') = Len(scores) + 1 /\ Len(scores) \in Nat
      /\ \A i \in 1..Len(scores) : scores'[i] = scores[i]
      /\ scores'[Len(scores) + 1] = r
  BY <1>1, <1>2 DEF TypeOK
<1>5. /\ emitted \in [Sessions -> 0..Horizon] /\ w \in 1..Horizon /\ Horizon \in Nat
      /\ committed \in 0..Len(scores)
  BY <1>1, HorizonAssumption DEF TypeOK, Windows
<1>6. /\ \A t \in Sessions : emitted'[t] = IF t = s THEN w ELSE emitted[t]
      /\ \A t \in Sessions : emitted[t] \in 0..Horizon
      /\ \A t \in Sessions : emitted[t] <= emitted'[t] /\ emitted'[t] \in 0..Horizon
      /\ emitted[s] < w
  BY <1>2, <1>5
<1>7. \A i \in 1..Len(scores) : scores[i].session \in Sessions /\ scores[i].ts \in 1..Horizon
  BY <1>1, RecordFields DEF Windows
<1>8. \A t \in Sessions : LastHandled(t)' = LastHandled(t) /\ LastHandled(t) \in 0..Horizon
  BY <1>1, <1>2, LastKept, LastType
<1>9. \A i \in 1..Len(scores) : IsScore(i)' <=> IsScore(i)
  BY <1>4 DEF IsScore
<1>10. \A i \in 1..Len(scores') : i \in 1..Len(scores) \/ i = Len(scores) + 1
  BY <1>4
<1>11. \A i \in 1..Len(scores') : IsScore(i)' => scores'[i].ts <= emitted'[scores'[i].session]
  <2> SUFFICES ASSUME NEW i \in 1..Len(scores'), IsScore(i)'
               PROVE  scores'[i].ts <= emitted'[scores'[i].session]
    OBVIOUS
  <2>1. CASE i \in 1..Len(scores)
    <3>1. scores[i].ts <= emitted[scores[i].session]
      BY <1>9, <2>1 DEF OrderInv
    <3> QED
      BY <1>4, <1>6, <1>7, <2>1, <3>1
  <2>2. CASE i = Len(scores) + 1
    BY <1>3, <1>4, <1>5, <1>6, <2>2
  <2> QED
    BY <1>10, <2>1, <2>2
<1>12. \A i, j \in 1..Len(scores') :
         i < j /\ IsScore(i)' /\ IsScore(j)' /\ scores'[i].session = scores'[j].session =>
           scores'[i].ts < scores'[j].ts
  <2> SUFFICES ASSUME NEW i \in 1..Len(scores'), NEW j \in 1..Len(scores'), i < j,
                      IsScore(i)', IsScore(j)', scores'[i].session = scores'[j].session
               PROVE  scores'[i].ts < scores'[j].ts
    OBVIOUS
  <2>1. i \in 1..Len(scores) /\ scores'[i] = scores[i] /\ IsScore(i)
    BY <1>4, <1>9
  <2>2. CASE j \in 1..Len(scores)
    BY <1>4, <1>9, <2>1, <2>2 DEF OrderInv
  <2>3. CASE j = Len(scores) + 1
    <3>1. scores[i].ts <= emitted[s]
      BY <1>3, <1>4, <2>1, <2>3 DEF OrderInv
    <3> QED
      BY <1>3, <1>4, <1>5, <1>6, <1>7, <2>1, <2>3, <3>1
  <2> QED
    BY <1>10, <2>2, <2>3
<1>13. \A t \in Sessions : LastHandled(t)' <= emitted'[t]
  <2>1. \A t \in Sessions : LastHandled(t) <= emitted[t]
    BY DEF OrderInv
  <2> QED
    BY <1>6, <1>8, <2>1
<1>14. \A i \in 1..Len(scores') : i > committed' /\ IsScore(i)' =>
         /\ LastHandled(scores[i].session)' <= scores'[i].ts
         /\ i > committed' + 1 => LastHandled(scores[i].session)' < scores'[i].ts
  <2> SUFFICES ASSUME NEW i \in 1..Len(scores'), i > committed, IsScore(i)'
               PROVE  /\ LastHandled(scores[i].session)' <= scores'[i].ts
                      /\ i > committed + 1 => LastHandled(scores[i].session)' < scores'[i].ts
    BY <1>2
  <2>1. CASE i \in 1..Len(scores)
    <3>1. /\ LastHandled(scores[i].session) <= scores[i].ts
          /\ i > committed + 1 => LastHandled(scores[i].session) < scores[i].ts
      BY <1>9, <2>1 DEF OrderInv
    <3>2. scores'[i] = scores[i]
      BY <1>4, <2>1
    <3>3. LastHandled(scores[i].session)' = LastHandled(scores[i].session)
      BY <1>2, <3>2 DEF LastHandled
    <3> QED
      BY <3>1, <3>2, <3>3
  <2>2. CASE i = Len(scores) + 1
    <3>1. scores'[i].session = s /\ scores'[i].ts = w
      BY <1>3, <1>4, <2>2
    <3>2. LastHandled(s) < w
      BY <1>5, <1>6, <1>8 DEF OrderInv
    <3>3. LastHandled(scores[i].session)' = LastHandled(s)
      BY <1>2, <3>1 DEF LastHandled
    <3> QED
      BY <1>5, <1>8, <3>1, <3>2, <3>3
  <2> QED
    BY <1>10, <2>1, <2>2
<1>15. OrderInv'
  BY <1>11, <1>12, <1>13, <1>14 DEF OrderInv
<1>16. ConsumerInv'
  BY <1>1, <1>2, <1>4, LogKept
<1> QED
  BY <1>15, <1>16

(* A transaction on one session moves the rows of no other session. *)
LEMMA OneSession ==
  ASSUME TypeOK, NEW s \in Sessions, NEW new, db' = [db EXCEPT ![s] = new]
  PROVE  \A t \in Sessions : db'[t] = IF t = s THEN new ELSE db[t]
<1>1. db \in [Sessions -> SessionRows]
  BY DEF TypeOK
<1> QED
  BY <1>1

(* Failing a session, and marking an outbox row, move neither the decisions    *)
(* nor the state machine of any session.                                       *)
LEMMA StatusOrMark ==
  ASSUME Inv, NEW s \in Sessions, NEW new,
         new = record_failed_status(db[s]) \/ \E key : new = mark_outbox_published(db[s], key),
         db' = [db EXCEPT ![s] = new]
  PROVE  /\ \A t \in Sessions : db'[t].decisions = db[t].decisions
         /\ \A t \in Sessions : db'[t].events = db[t].events
         /\ \A t \in Sessions : LastHandled(t)' = LastHandled(t)
         /\ \A t \in Sessions : db[t].session = "FAILED" => db'[t].session = "FAILED"
         /\ (\E key : new = mark_outbox_published(db[s], key)) =>
              \A t \in Sessions : db'[t].session = db[t].session
<1>1. TypeOK /\ db[s] \in SessionRows
  BY DEF Inv, TypeOK
<1>2. /\ new.decisions = db[s].decisions
      /\ new.events = db[s].events
      /\ new.runtime = db[s].runtime
      /\ db[s].session = "FAILED" => new.session = "FAILED"
      /\ (\E key : new = mark_outbox_published(db[s], key)) => new.session = db[s].session
  BY <1>1 DEF record_failed_status, mark_outbox_published, SessionRows
<1>3. \A t \in Sessions : db'[t] = IF t = s THEN new ELSE db[t]
  BY <1>1, OneSession
<1>4. load_alert_state(new) = load_alert_state(db[s])
  BY <1>2 DEF load_alert_state
<1>5. \A t \in Sessions : LastHandled(t)' = LastHandled(t)
  BY <1>3, <1>4 DEF LastHandled
<1> QED
  BY <1>2, <1>3, <1>5

(* At a decision of the contract no session has failed. *)
LEMMA NoneFailedAtScore ==
  ASSUME ConsumerInv, TypeOK, pc \in {"process", "commit"}, Current.kind # "mismatch"
  PROVE  /\ cursor = committed + 1 /\ failed = {}
         /\ \A s \in Sessions : db[s].session # "FAILED"
<1>1. cursor = committed + 1 /\ failed = {} /\ ~AtMismatch
  BY DEF ConsumerInv, AtMismatch, Current
<1> QED
  BY <1>1 DEF ConsumerInv

(* Steps of the consumer that touch neither the rows nor the offset. *)
LEMMA CalmControl ==
  ASSUME Inv, OrderInv, ConsumerInv,
         Poll \/ Quarantine \/ Skip \/ PublishFailure
  PROVE  OrderInv' /\ ConsumerInv'
<1>1. TypeOK
  BY DEF Inv
<1>2. /\ UNCHANGED <<scores, emitted, committed, db, failed>>
      /\ quarantine \subseteq quarantine'
  BY DEF Poll, Quarantine, Skip, PublishFailure, worker, kafkaOut
<1>3. OrderInv'
  BY <1>1, <1>2, OrderKept, LastKept
<1>4. CommittedRecordsHandled'
  BY <1>1, <1>2, CommittedKept DEF ConsumerInv
<1>5. AtMismatch => AtMismatch'
  BY <1>2 DEF AtMismatch
<1>6. CASE Poll
  <2>1. pc' = "process" /\ cursor' = committed' + 1 /\ failed' = {}
    BY <1>2, <1>6 DEF ConsumerInv, Poll
  <2> QED
    BY <1>2, <1>3, <1>4, <1>5, <2>1 DEF ConsumerInv
<1>7. CASE Quarantine
  <2>1. Handled(cursor)' /\ cursor' = cursor
    BY <1>2, <1>7 DEF Handled, Quarantine, Current, worker
  <2>2. pc' = "commit" /\ cursor' = committed' + 1 /\ failed' = {}
    BY <1>2, <1>7, <2>1 DEF ConsumerInv, Quarantine
  <2> QED
    BY <1>2, <1>3, <1>4, <1>5, <2>1, <2>2 DEF ConsumerInv
<1>8. CASE Skip
  <2>1. failed = {}
    BY <1>8 DEF ConsumerInv, Skip
  <2> QED
    BY <1>8, <2>1 DEF Skip
<1>9. CASE PublishFailure
  <2>1. AtMismatch'
    BY <1>2, <1>9 DEF ConsumerInv, AtMismatch, PublishFailure
  <2>2. pc' = "halted"
    BY <1>9 DEF PublishFailure
  <2> QED
    BY <1>2, <1>3, <1>4, <1>5, <2>1, <2>2 DEF ConsumerInv
<1> QED
  BY <1>3, <1>6, <1>7, <1>8, <1>9

(* The record that fails a session is the first uncommitted one. *)
LEMMA CalmRecordFailure ==
  ASSUME Inv, OrderInv, ConsumerInv, RecordFailure
  PROVE  OrderInv' /\ ConsumerInv'
<1>1. TypeOK
  BY DEF Inv
<1> DEFINE s == Current.session
<1>2. /\ UNCHANGED <<scores, emitted, committed, quarantine, position, cursor>>
      /\ pc = "process" /\ pc' = "failing" /\ Current.kind = "mismatch"
      /\ db' = [db EXCEPT ![s] = record_failed_status(db[s])]
  BY DEF RecordFailure, IdentityMismatch, FailSession, worker, kafkaOut
<1>3. s \in Sessions /\ cursor \in 1..Len(scores)
  BY <1>1, <1>2, CurrentFields
<1> HIDE DEF s
<1>4. /\ \A t \in Sessions : db'[t].decisions = db[t].decisions
      /\ \A t \in Sessions : LastHandled(t)' = LastHandled(t)
      /\ \A t \in Sessions : db[t].session = "FAILED" => db'[t].session = "FAILED"
  BY <1>2, <1>3, StatusOrMark
<1>5. OrderInv'
  BY <1>1, <1>2, <1>4, OrderKept
<1>6. CommittedRecordsHandled'
  BY <1>1, <1>2, <1>4, CommittedKept DEF ConsumerInv
<1>7. cursor = committed + 1 /\ committed \in Nat /\ Len(scores) \in Nat
  BY <1>1, <1>2 DEF ConsumerInv, TypeOK
<1>8. AtMismatch'
  BY <1>2, <1>3, <1>7 DEF AtMismatch, Current
<1> QED
  BY <1>2, <1>5, <1>6, <1>7, <1>8 DEF ConsumerInv

(* The decision at the cursor is not earlier than the last one handled. *)
LEMMA CalmRecordable ==
  ASSUME Inv, OrderInv, ConsumerInv, LiveDecision
  PROVE  Recordable
<1>1. TypeOK /\ RowsSound /\ Sound(db[Current.session])
  BY CurrentFields DEF Inv, RowsSound, LiveDecision
<1>2. CurrentDecision \in Decision /\ cursor \in 1..Len(scores) /\ Current.session \in Sessions
  BY <1>1, CurrentFields DEF LiveDecision
<1>3. cursor = committed + 1 /\ committed \in Nat
  BY <1>1 DEF ConsumerInv, LiveDecision, TypeOK
<1>4. cursor > committed /\ IsScore(cursor)
  BY <1>3 DEF IsScore, LiveDecision, Current
<1>5. LastHandled(Current.session) <= Current.ts
  BY <1>2, <1>4 DEF OrderInv, Current
<1>6. LoadedState.last_source_timestamp <= CurrentDecision.ts
  BY <1>5 DEF LastHandled, LoadedState, CurrentDecision
<1> QED
  BY <1>1, <1>2, <1>6, NotEarlierAccepted DEF Recordable, Result, LoadedState

(* Storing the decision at the cursor handles it, and makes it the last one    *)
(* handled; those after it on the topic are later.                             *)
LEMMA CalmApply ==
  ASSUME Inv, OrderInv, ConsumerInv, Apply
  PROVE  OrderInv' /\ ConsumerInv'
<1>1. TypeOK /\ RowsSound
  BY DEF Inv
<1> DEFINE s == Current.session
<1> DEFINE new == record_decision_transition(LoadedRows(db[s]), CurrentDecision, Result)
<1>2. /\ UNCHANGED <<scores, emitted, committed, quarantine, failed, position, cursor>>
      /\ pc = "process" /\ pc' = "commit" /\ Current.kind = "score"
      /\ db' = [db EXCEPT ![s] = new]
      /\ LiveDecision /\ Recordable
  BY DEF Apply, LiveDecision, RecordDecision, worker, kafkaOut
<1>3. /\ s \in Sessions /\ cursor \in 1..Len(scores)
      /\ CurrentDecision \in Decision /\ Sound(db[s])
  BY <1>1, <1>2, CurrentFields DEF RowsSound
<1>4. /\ ~OrderingViolation(load_alert_state(db[s]), CurrentDecision)
      /\ Result = transition(load_alert_state(db[s]), CurrentDecision)
  BY <1>2 DEF Recordable, Result, LoadedState
<1>5. /\ \E x \in new.decisions : x.ts = CurrentDecision.ts
      /\ db[s].decisions \subseteq new.decisions
      /\ new.session = "FAILED" <=> db[s].session = "FAILED"
      /\ load_alert_state(new).last_source_timestamp = CurrentDecision.ts
  BY <1>3, <1>4, RecordStamps
<1>6. CurrentDecision.ts = scores[cursor].ts /\ s = scores[cursor].session
      /\ scores[cursor].kind = "score"
  BY <1>2 DEF CurrentDecision, Current
<1> HIDE DEF s, new
<1>7. \A t \in Sessions : db'[t] = IF t = s THEN new ELSE db[t]
  BY <1>1, <1>2, <1>3, OneSession
<1>8. /\ \A t \in Sessions : db[t].decisions \subseteq db'[t].decisions
      /\ \A t \in Sessions : db'[t].session = "FAILED" <=> db[t].session = "FAILED"
  BY <1>5, <1>7
<1>9. \A t \in Sessions : LastHandled(t)' = IF t = s THEN scores[cursor].ts ELSE LastHandled(t)
  BY <1>5, <1>6, <1>7 DEF LastHandled
<1>10. /\ cursor = committed + 1 /\ committed \in 0..Len(scores) /\ Len(scores) \in Nat
       /\ failed = {} /\ \A t \in Sessions : db[t].session # "FAILED"
  BY <1>1, <1>2, NoneFailedAtScore DEF TypeOK
<1>11. CommittedRecordsHandled'
  BY <1>1, <1>2, <1>8, CommittedKept DEF ConsumerInv
<1>12. Handled(cursor)'
  <2>1. \E x \in db'[scores'[cursor].session].decisions : x.ts = scores'[cursor].ts
    BY <1>2, <1>3, <1>5, <1>6, <1>7
  <2> QED
    BY <1>2, <1>6, <2>1 DEF Handled
<1>13. ConsumerInv'
  BY <1>2, <1>8, <1>10, <1>11, <1>12 DEF ConsumerInv
<1>14. \A i \in 1..Len(scores) : /\ scores[i].session \in Sessions
                                 /\ scores[i].ts \in Windows
                                 /\ IsScore(i)' <=> IsScore(i)
  BY <1>1, <1>2, RecordFields DEF IsScore
<1>15. \A t \in Sessions : LastHandled(t)' <= emitted'[t]
  BY <1>2, <1>3, <1>6, <1>9 DEF OrderInv, IsScore
<1>16. \A i \in 1..Len(scores) : i > committed /\ IsScore(i) =>
         /\ LastHandled(scores[i].session)' <= scores[i].ts
         /\ i > committed + 1 => LastHandled(scores[i].session)' < scores[i].ts
  <2> SUFFICES ASSUME NEW i \in 1..Len(scores), i > committed, IsScore(i)
               PROVE  /\ LastHandled(scores[i].session)' <= scores[i].ts
                      /\ i > committed + 1 => LastHandled(scores[i].session)' < scores[i].ts
    OBVIOUS
  <2>0. LastHandled(scores[i].session)' =
          IF scores[i].session = s THEN scores[cursor].ts ELSE LastHandled(scores[i].session)
    <3>1. scores'[i] = scores[i]
      BY <1>2
    <3>2. PICK t \in Sessions : t = scores[i].session
      BY <1>14
    <3>3. LastHandled(scores[i].session)' = LastHandled(t)'
      BY <3>1, <3>2 DEF LastHandled
    <3> QED
      BY <1>9, <3>2, <3>3
  <2>1. CASE scores[i].session # s
    BY <2>0, <2>1 DEF OrderInv
  <2>2. CASE scores[i].session = s /\ i = cursor
    BY <1>14, <1>10, <2>0, <2>2, HorizonAssumption DEF Windows
  <2>3. CASE scores[i].session = s /\ i # cursor
    <3>1. cursor < i /\ IsScore(cursor) /\ scores[cursor].session = scores[i].session
      BY <1>6, <1>10, <2>3 DEF IsScore
    <3>2. scores[cursor].ts < scores[i].ts
      BY <1>3, <3>1 DEF OrderInv
    <3> QED
      BY <1>3, <1>14, <2>0, <2>3, <3>2, HorizonAssumption DEF Windows
  <2> QED
    BY <2>1, <2>2, <2>3
<1>17. OrderInv'
  BY <1>2, <1>14, <1>15, <1>16 DEF OrderInv
<1> QED
  BY <1>13, <1>17

(* Only a handled record is committed, and it is no mismatch: so none of the   *)
(* sessions has failed.                                                        *)
LEMMA CalmCommit ==
  ASSUME Inv, OrderInv, ConsumerInv, Commit
  PROVE  OrderInv' /\ ConsumerInv'
<1>1. TypeOK /\ RowsSound
  BY DEF Inv
<1>2. /\ UNCHANGED <<scores, emitted, db, quarantine, failed, position>>
      /\ pc = "commit" /\ committed' = cursor /\ cursor' = cursor + 1
      /\ pc' = IF cursor < position THEN "process" ELSE "poll"
  BY DEF Commit, worker, kafkaOut
<1>3. Handled(cursor) /\ Current.kind # "mismatch"
  BY <1>2, MismatchUnhandled DEF ConsumerInv, Current
<1>4. /\ cursor = committed + 1 /\ failed = {}
      /\ \A s \in Sessions : db[s].session # "FAILED"
  BY <1>1, <1>2, <1>3, NoneFailedAtScore
<1>5. /\ cursor \in 1..Len(scores) /\ Len(scores) \in Nat /\ committed \in Nat
      /\ position \in Nat /\ cursor <= position
  BY <1>1, <1>2 DEF TypeOK
<1>6. \A i \in 1..cursor : Handled(i)
  BY <1>3, <1>4, <1>5 DEF ConsumerInv, CommittedRecordsHandled
<1>7. \A i \in 1..cursor : Handled(i)'
  BY <1>1, <1>2, <1>5, <1>6, HandledKept
<1>8. CommittedRecordsHandled'
  BY <1>2, <1>7 DEF CommittedRecordsHandled
<1>9. ConsumerInv'
  BY <1>2, <1>4, <1>5, <1>8 DEF ConsumerInv
<1>10. \A i \in 1..Len(scores) : scores[i].session \in Sessions /\ scores[i].ts \in 1..Horizon
  BY <1>1, RecordFields DEF Windows
<1>11. \A s \in Sessions : LastHandled(s)' = LastHandled(s) /\ LastHandled(s) \in 0..Horizon
  BY <1>1, <1>2, LastKept, LastType
<1>12. \A i : IsScore(i)' <=> IsScore(i)
  BY <1>2 DEF IsScore
<1>13. \A i \in 1..Len(scores) : i > committed' /\ IsScore(i) =>
         LastHandled(scores[i].session) < scores[i].ts
  BY <1>2, <1>4, <1>5 DEF OrderInv
<1>14. \A i \in 1..Len(scores) : LastHandled(scores[i].session)' = LastHandled(scores[i].session)
  BY <1>2 DEF LastHandled
<1>15. \A i \in 1..Len(scores) : i > committed' /\ IsScore(i) =>
         /\ LastHandled(scores[i].session)' <= scores[i].ts
         /\ i > committed' + 1 => LastHandled(scores[i].session)' < scores[i].ts
  BY <1>10, <1>11, <1>13, <1>14, HorizonAssumption
<1>16. OrderInv'
  BY <1>2, <1>11, <1>12, <1>15 DEF OrderInv
<1> QED
  BY <1>9, <1>16

(* The dispatcher moves no decision, no status and no offset. *)
LEMMA CalmDispatcher ==
  ASSUME Inv, OrderInv, ConsumerInv, Dispatcher
  PROVE  OrderInv' /\ ConsumerInv'
<1>1. TypeOK
  BY DEF Inv
<1>2. UNCHANGED <<scores, emitted, committed, quarantine, failed, position, cursor, pc>>
  BY DEF Dispatcher, next_unpublished_outbox, Send, Mark, worker, kafkaOut, consumer
<1>3. /\ \A t \in Sessions : db'[t].decisions = db[t].decisions
      /\ \A t \in Sessions : db'[t].session = db[t].session
      /\ \A t \in Sessions : LastHandled(t)' = LastHandled(t)
  <2>1. CASE Mark
    <3>1. picked[1] \in Sessions
      BY <1>1, <2>1 DEF TypeOK, Mark
    <3>2. db' = [db EXCEPT ![picked[1]] = mark_outbox_published(db[picked[1]], picked[2])]
      BY <2>1 DEF Mark
    <3> QED
      BY <3>1, <3>2, StatusOrMark
  <2>2. CASE next_unpublished_outbox \/ Send
    <3>1. db' = db
      BY <2>2 DEF next_unpublished_outbox, Send
    <3> QED
      BY <3>1, LastKept
  <2> QED
    BY <2>1, <2>2 DEF Dispatcher
<1>4. OrderInv'
  BY <1>1, <1>2, <1>3, OrderKept
<1>5. CommittedRecordsHandled'
  BY <1>1, <1>2, <1>3, CommittedKept DEF ConsumerInv
<1>6. AtMismatch => AtMismatch'
  BY <1>2 DEF AtMismatch
<1>7. pc = "commit" => Handled(cursor)'
  <2>1. pc = "commit" => cursor \in 1..Len(scores)
    BY <1>1 DEF TypeOK
  <2>2. \A i \in 1..Len(scores) : Handled(i) => Handled(i)'
    BY <1>1, <1>2, <1>3, HandledKept
  <2> QED
    BY <1>2, <2>1, <2>2 DEF ConsumerInv, Handled
<1> QED
  BY <1>2, <1>3, <1>4, <1>5, <1>6, <1>7 DEF ConsumerInv

(* A restarted process resumes at the first uncommitted record. *)
LEMMA CalmRestart ==
  ASSUME Inv, OrderInv, ConsumerInv, Restart
  PROVE  OrderInv' /\ ConsumerInv'
<1>1. TypeOK
  BY DEF Inv
<1>2. /\ UNCHANGED <<scores, emitted, committed, db, quarantine>>
      /\ failed' = {} /\ position' = committed /\ pc' = "poll"
  BY DEF Restart, worker, kafkaOut
<1>3. OrderInv'
  BY <1>1, <1>2, OrderKept, LastKept
<1>4. CommittedRecordsHandled'
  BY <1>1, <1>2, CommittedKept DEF ConsumerInv
<1>5. AtMismatch => AtMismatch'
  BY <1>2 DEF AtMismatch
<1> QED
  BY <1>2, <1>3, <1>4, <1>5 DEF ConsumerInv

(* No step makes a disturbed service calm. *)
LEMMA CalmBefore ==
  ASSUME Inv, [Next]_vars, Calm'
  PROVE  Calm /\ UNCHANGED <<faults, rewinds>>
<1>1. faults \in Nat /\ rewinds \in Nat
  BY DEF Inv, TypeOK
<1>2. faults' = faults \/ faults' = faults + 1
  BY DEF Next, vars, Worker, Consumer, Dispatcher, Failure, PublishScore, PublishForeign,
         WorkerRestart, Poll, Quarantine, Skip, RecordFailure, PublishFailure, Apply, Reject,
         Commit, next_unpublished_outbox, Send, Mark, QuarantineFails, RecordFailureFails,
         PublishFailureFails, ApplyFails, CommitFails, DispatchFails, Restart, Fault
<1>3. rewinds' = rewinds \/ rewinds' = rewinds + 1
  BY DEF Next, vars, Worker, Consumer, Dispatcher, Failure, PublishScore, PublishForeign,
         WorkerRestart, Poll, Quarantine, Skip, RecordFailure, PublishFailure, Apply, Reject,
         Commit, next_unpublished_outbox, Send, Mark, QuarantineFails, RecordFailureFails,
         PublishFailureFails, ApplyFails, CommitFails, DispatchFails, Restart, worker
<1> QED
  BY <1>1, <1>2, <1>3 DEF Calm

(* A call that raises disturbs the service. *)
LEMMA FaultDisturbs ==
  ASSUME Inv, Fault
  PROVE  ~Calm'
  BY DEF Fault, Calm, Inv, TypeOK

(* Every step of a calm service keeps its invariant. *)
LEMMA CalmStep == Inv /\ CalmInv /\ [Next]_vars => CalmInv'
<1> SUFFICES ASSUME Inv, CalmInv, [Next]_vars, Calm' PROVE OrderInv' /\ ConsumerInv'
  BY DEF CalmInv
<1>1. Calm /\ OrderInv /\ ConsumerInv /\ UNCHANGED <<faults, rewinds>>
  BY CalmBefore DEF CalmInv
<1>2. CASE Worker
  <2>1. ASSUME NEW s \in Sessions, WorkerRestart(s) PROVE FALSE
    BY <1>1, <2>1 DEF WorkerRestart, Inv, TypeOK
  <2> QED
    BY <1>1, <1>2, <2>1, CalmPublishScore, CalmPublishForeign DEF Worker
<1>3. CASE Consumer
  <2>1. ~Reject
    BY <1>1, CalmRecordable DEF Reject
  <2> QED
    BY <1>1, <1>3, <2>1, CalmControl, CalmRecordFailure, CalmApply, CalmCommit DEF Consumer
<1>4. CASE Dispatcher
  BY <1>1, <1>4, CalmDispatcher
<1>5. CASE Failure
  <2>1. ~Fault
    BY FaultDisturbs
  <2>2. Restart
    BY <1>5, <2>1 DEF Failure, QuarantineFails, RecordFailureFails, PublishFailureFails,
                      ApplyFails, CommitFails, DispatchFails
  <2> QED
    BY <1>1, <2>2, CalmRestart
<1>6. CASE UNCHANGED vars
  <2>1. UNCHANGED <<emitted, scores, committed, db, quarantine, failed, position, cursor, pc>>
    BY <1>6 DEF vars, worker, kafkaOut, consumer
  <2>2. OrderInv'
    BY <1>1, <2>1, OrderKept, LastKept DEF Inv
  <2>3. ConsumerInv'
    BY <1>1, <2>1 DEF ConsumerInv, CommittedRecordsHandled, Handled, AtMismatch
  <2> QED
    BY <2>2, <2>3
<1> QED
  BY <1>2, <1>3, <1>4, <1>5, <1>6 DEF Next

(* While nothing is disturbed the rows of a failed session only change in      *)
(* their published marks.                                                      *)
LEMMA FailedClosed ==
  ASSUME Inv, CalmInv, Next, NEW s \in Sessions, Calm, db[s].session = "FAILED"
  PROVE  /\ db'[s].decisions = db[s].decisions
         /\ db'[s].events = db[s].events
         /\ db'[s].session = "FAILED"
<1>1. TypeOK /\ OrderInv /\ ConsumerInv /\ AtMismatch
  BY DEF Inv, CalmInv, ConsumerInv
<1>2. ~LiveDecision
  BY <1>1 DEF ConsumerInv, LiveDecision, AtMismatch, Current
<1>3. CASE db' = db
  BY <1>3
<1>4. CASE Mark
  <2>1. picked[1] \in Sessions
    BY <1>1, <1>4 DEF TypeOK, Mark
  <2>2. db' = [db EXCEPT ![picked[1]] = mark_outbox_published(db[picked[1]], picked[2])]
    BY <1>4 DEF Mark
  <2> QED
    BY <2>1, <2>2, StatusOrMark
<1>5. CASE IdentityMismatch /\ FailSession
  <2> DEFINE t == Current.session
  <2>1. t \in Sessions
    BY <1>1, <1>5, CurrentFields DEF IdentityMismatch
  <2>2. db' = [db EXCEPT ![t] = record_failed_status(db[t])]
    BY <1>5 DEF FailSession
  <2> HIDE DEF t
  <2> QED
    BY <2>1, <2>2, StatusOrMark
<1>6. db' = db \/ Mark \/ (IdentityMismatch /\ FailSession) \/ LiveDecision
  BY DEF Next, Worker, Consumer, Dispatcher, Failure, PublishScore, PublishForeign,
         WorkerRestart, Poll, Quarantine, Skip, RecordFailure, PublishFailure, Apply, Reject,
         Commit, next_unpublished_outbox, Send, QuarantineFails, RecordFailureFails,
         PublishFailureFails, ApplyFails, CommitFails, DispatchFails, Restart
<1> QED
  BY <1>2, <1>3, <1>4, <1>5, <1>6

(* While no call raises and the worker redelivers nothing, no offset is        *)
(* committed past a record that is neither stored, nor quarantined: the death  *)
(* of the process between handling and committing included.                    *)
THEOREM AlwaysHandledUnlessDisturbed == Spec => []HandledUnlessDisturbed
<1>1. CalmInv => HandledUnlessDisturbed
  BY DEF CalmInv, Calm, ConsumerInv, HandledUnlessDisturbed
<1> QED
  BY AlwaysInv, InitCalm, CalmStep, <1>1, PTL DEF Spec

(* A failed session stays closed: without a raising call or redelivery nothing *)
(* more of it is stored, although its failure is forgotten by a restart.       *)
THEOREM FailedSessionsStayClosed == Spec => FailedSessionStaysClosed
<1>1. Inv /\ CalmInv /\ [Next]_vars =>
        [\A s \in Sessions :
           faults = 0 /\ rewinds = 0 /\ db[s].session = "FAILED" =>
             /\ db'[s].decisions = db[s].decisions
             /\ db'[s].events = db[s].events
             /\ db'[s].session = "FAILED"]_db
  <2>1. UNCHANGED vars => db' = db
    BY DEF vars
  <2> QED
    BY <2>1, FailedClosed DEF Calm
<1>2. Spec => []CalmInv
  BY AlwaysInv, InitCalm, CalmStep, PTL DEF Spec
<1> QED
  BY AlwaysInv, <1>1, <1>2, PTL DEF Spec, FailedSessionStaysClosed
=============================================================================
