------------------------------ MODULE AlertStore ------------------------------
(* What PostgreSQL holds about one replay session on behalf of the alert       *)
(* service, and the transactions of RuntimeStore (persistence.py) that read    *)
(* and write it.  Every transaction is one operator on the session's rows.     *)
EXTENDS AlertState

CONSTANT NoState   \* no alert_runtime_states row

ASSUME NoStateAssumption == NoState \notin AlertStates

(* A row of `alerts`; alert ids are window numbers, ABSENT means no such row. *)
AlertRows ==
  [state : {"ABSENT", "OPEN", "RESOLVED"},
   first_detection : Windows \cup {None},
   last_detection : Windows \cup {None},
   resolved_at : Windows \cup {None},
   latest_decision_id : Windows \cup {None}]

NoAlert ==
  [state |-> "ABSENT", first_detection |-> None, last_detection |-> None,
   resolved_at |-> None, latest_decision_id |-> None]

(* alert_events is keyed by UNIQUE (alert_id, decision_id, action); an outbox  *)
(* row shares its message_id with the event it announces.                      *)
EventKeys == [alert : Windows, decision : Windows, action : AlertActions]

EvidenceKeys == [alert : Windows, decision : Windows]

(* The session's rows: replay_sessions.state, score_decisions, alerts,         *)
(* alert_events, evidence_snapshots, alert_outbox (all rows, and those whose   *)
(* published_at is set) and alert_runtime_states.                              *)
SessionRows ==
  [session : {"ABSENT", "RUNNING", "FAILED"},
   decisions : SUBSET Decision,
   alerts : [Windows -> AlertRows],
   events : SUBSET EventKeys,
   evidence : SUBSET EvidenceKeys,
   outbox : SUBSET EventKeys,
   published : SUBSET EventKeys,
   runtime : AlertStates \cup {NoState}]

NoRows ==
  [session |-> "ABSENT", decisions |-> {},
   alerts |-> [a \in Windows |-> NoAlert], events |-> {}, evidence |-> {},
   outbox |-> {}, published |-> {}, runtime |-> NoState]

(* ------------------------------ load_alert_state -------------------------- *)

(* Mutant: only the anomalous decisions are selected. *)
reconstruct_anomalies_only(decisions) ==
  LET After[w \in 0..Horizon] ==
        IF w = 0 THEN empty
        ELSE IF \E d \in decisions : d.ts = w /\ d.is_anomaly
          THEN transition(After[w - 1], CHOOSE d \in decisions : d.ts = w).state
          ELSE After[w - 1]
  IN After[Horizon]

(* Replay the stored decisions in timestamp order through transition. *)
reconstruct_alert_state(decisions) ==
  LET After[w \in 0..Horizon] ==
        IF w = 0 THEN empty
        ELSE IF \E d \in decisions : d.ts = w
          THEN transition(After[w - 1], CHOOSE d \in decisions : d.ts = w).state
          ELSE After[w - 1]
  IN After[Horizon]

load_alert_state(rows) ==
  IF rows.runtime # NoState THEN rows.runtime
  ELSE IF rows.decisions = {} THEN empty
  ELSE reconstruct_alert_state(rows.decisions)

(* Loading stores a reconstructed state, in a transaction of its own. *)
LoadedRows(rows) ==
  IF rows.runtime = NoState /\ rows.decisions # {}
    THEN [rows EXCEPT !.runtime = reconstruct_alert_state(rows.decisions)]
    ELSE rows

(* ------------------------- record_decision_transition --------------------- *)

KeyOf(event, d) ==
  [alert |-> event.alert, decision |-> decision_id(d), action |-> event.action]

(* Mutant: ON CONFLICT does not update the state column. *)
UpsertKeepsState(row, event, d) ==
  [state |-> IF row.state = "ABSENT" THEN "OPEN" ELSE row.state,
   first_detection |-> event.first,
   last_detection |-> event.last,
   resolved_at |-> IF event.action = "RESOLVED" THEN d.ts ELSE None,
   latest_decision_id |-> decision_id(d)]

UpsertAlert(row, event, d) ==
  [state |-> IF event.action = "RESOLVED" THEN "RESOLVED" ELSE "OPEN",
   first_detection |-> IF row.state = "ABSENT" THEN event.first
                                               ELSE row.first_detection,
   last_detection |-> event.last,
   resolved_at |-> IF event.action = "RESOLVED" THEN d.ts ELSE None,
   latest_decision_id |-> decision_id(d)]

(* The alert, event, evidence and outbox rows of one emitted event. *)
RecordEvent(rows, d, result) ==
  LET event    == result.event
      key      == KeyOf(event, d)
      row      == UpsertAlert(rows.alerts[event.alert], event, d)
      snapshot == [alert |-> event.alert, decision |-> decision_id(d)]
  IN [rows EXCEPT
        !.alerts = [rows.alerts EXCEPT ![event.alert] = row],
        !.events = @ \cup {key},
        !.evidence = IF result.evidence THEN @ \cup {snapshot} ELSE @,
        !.outbox = @ \cup {key}]

(* alert_events keeps the row it has on a conflict, and the outbox row, whose  *)
(* message_id is a fresh UUID, then references an event that was not inserted: *)
(* the foreign key fails and the transaction is rolled back.                   *)
ForeignKeyFails(rows, d, result) ==
  /\ result.event.action # "NONE"
  /\ KeyOf(result.event, d) \in rows.events

(* Mutant: the runtime state is stored only with an event. *)
record_without_state(rows, d, result) ==
  LET kept == [rows EXCEPT !.session = IF @ = "ABSENT" THEN "RUNNING" ELSE @,
                           !.decisions = @ \cup {d}]
  IN IF result.event.action = "NONE"
       THEN [kept EXCEPT !.runtime = load_alert_state(rows)]
       ELSE RecordEvent([kept EXCEPT !.runtime = result.state], d, result)

record_decision_transition(rows, d, result) ==
  LET kept == [rows EXCEPT
                 !.session = IF @ = "ABSENT" THEN "RUNNING" ELSE @,
                 !.decisions = IF \E x \in @ : decision_id(x) = decision_id(d)
                                 THEN @ ELSE @ \cup {d},
                 !.runtime = result.state]
  IN IF result.event.action = "NONE" THEN kept
     ELSE RecordEvent(kept, d, result)

(* ------------------------- the other transactions ------------------------- *)

(* record_replay_status with state FAILED: an upsert, whatever the row held. *)
record_failed_status(rows) == [rows EXCEPT !.session = "FAILED"]

unpublished(rows) == rows.outbox \ rows.published

mark_outbox_published(rows, key) == [rows EXCEPT !.published = @ \cup {key}]

(* ----------------- what the rows of a session must satisfy ----------------- *)

(* The OPEN rows of `alerts` are exactly the one alert the state machine       *)
(* considers active, or none when it considers none.                           *)
OpenIsActive(rows) ==
  \A a \in Windows :
    rows.alerts[a].state = "OPEN" <=> a = load_alert_state(rows).active_alert_id

(* f is the first event after e among the events E of one alert. *)
Follows(e, f, E) ==
  /\ f.decision > e.decision
  /\ ~\E g \in E : g.decision > e.decision /\ g.decision < f.decision

(* An alert's stored events, in decision order, are OPENED once and first,     *)
(* then UPDATED until RESOLVED, REOPENED only straight after RESOLVED, and     *)
(* the row of `alerts` shows the last of them.                                 *)
LegalHistory(E, row) ==
  /\ row.state = "ABSENT" <=> E = {}
  /\ \A e, f \in E : e.decision = f.decision => e = f
  /\ \A e \in E : e.action = "OPENED" <=> \A f \in E : e.decision <= f.decision
  /\ \A e, f \in E :
       Follows(e, f, E) => (e.action = "RESOLVED" <=> f.action = "REOPENED")
  /\ \A e \in E :
       (\A f \in E : f.decision <= e.decision) =>
         /\ row.latest_decision_id = e.decision
         /\ row.state = "RESOLVED" <=> e.action = "RESOLVED"

LegalHistories(rows) ==
  \A a \in Windows :
    LegalHistory({e \in rows.events : e.alert = a}, rows.alerts[a])

(* Every event names a stored decision of the right kind and an alert that a   *)
(* stored anomalous decision identifies; each anomalous event has its evidence *)
(* snapshot and every event its outbox row.                                    *)
Traceable(rows) ==
  /\ \A e \in rows.events :
       /\ [ts |-> e.decision, is_anomaly |-> e.action # "RESOLVED"] \in rows.decisions
       /\ [ts |-> e.alert, is_anomaly |-> TRUE] \in rows.decisions
  /\ rows.evidence = {[alert |-> e.alert, decision |-> e.decision] :
                        e \in {x \in rows.events : x.action # "RESOLVED"}}
  /\ rows.outbox = rows.events

(* A decision later than the last one handled yields an event that validates,  *)
(* and its transaction meets neither the unique key nor the foreign key.       *)
NeverRejected(rows) ==
  \A d \in Decision :
    LET state  == load_alert_state(rows)
        result == transition(state, d)
    IN d.ts > state.last_source_timestamp =>
         /\ ValidEvent(result.event)
         /\ ~ForeignKeyFails(rows, d, result)

(* The stored state is what replaying the stored decisions gives. *)
Reconstructs(rows) ==
  rows.runtime # NoState =>
    rows.runtime = reconstruct_alert_state(rows.decisions)
===============================================================================
