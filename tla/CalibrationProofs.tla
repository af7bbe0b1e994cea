-------------------------- MODULE CalibrationProofs --------------------------
(***************************************************************************)
(* Proofs about what is computed twice, offline and at run time.           *)
(*                                                                         *)
(* One session's decisions, online and offline (AlertStream), across the   *)
(* upgrade that creates alert_runtime_states (AlertUpgrade), for every     *)
(* policy and every number of windows: the calibration's simulation counts *)
(* what the alert service stores, and the rows of the session tell one     *)
(* story.  After the upgrade the state row is missing although decisions   *)
(* are stored, so the invariant is about the rows as the next load leaves  *)
(* them (LoadedRows): these are sound because the state replayed from the  *)
(* decisions is the one that was dropped.                                  *)
(*                                                                         *)
(* The grid of policies (PolicyCalibration), for any grid, gates and list  *)
(* of rows: the simulations of a grid run in step, so that two candidates  *)
(* can be compared state by state (MoreSensitive, FirstOrdered).           *)
(*                                                                         *)
(* The evaluation (OfflineEvaluation), for any holdout, threshold, stride  *)
(* and list of failures: what is merged so far covers the anomalies taken  *)
(* so far, in groups (Merging), and the verdict is read off the groups.    *)
(***************************************************************************)
EXTENDS Calibration, AlertStoreProofs, FiniteSetTheorems

Loaded == LoadedRows(rows)

(* Every decision of the streak being counted is stored, as an anomaly. *)
StreakStored(r, st) ==
  \A i \in 1..Len(st.anomaly_decision_ids) :
    [ts |-> st.anomaly_decision_ids[i], is_anomaly |-> TRUE] \in r.decisions

(* A state that remembers a resolution remembers which alert it was. *)
ResolutionNamed(st) ==
  st.active_alert_id = None /\ st.resolved_at # None => st.previous_alert_id # None

(* One session's rows, loaded. *)
StoryInv(r) ==
  /\ Sound(r) /\ Replayed(r)
  /\ LegalHistories(r) /\ Traceable(r)
  /\ StreakStored(r, load_alert_state(r)) /\ ResolutionNamed(load_alert_state(r))

(* The simulation's locals against a state of the online machine. *)
Agrees(s, n, st) ==
  /\ s.is_active <=> st.active_alert_id # None
  /\ s.anomaly_streak = st.anomaly_streak
  /\ s.normal_streak = st.normal_streak
  /\ s.alert_window_count = n
  /\ ~s.is_active => s.last_resolution = st.resolved_at

Present(r) == {a \in Windows : r.alerts[a].state # "ABSENT"}
Openings(r) == {e \in r.events : e.action = "OPENED"}

StreamInv ==
  /\ rows \in SessionRows /\ sim \in SimStates /\ inAlert \in Nat
  /\ StoryInv(Loaded)
  /\ Agrees(sim, inAlert, State)
  /\ IsFiniteSet(Openings(rows))
  /\ sim.episodes = Cardinality(Present(rows)) /\ sim.episodes = Cardinality(Openings(rows))

(* ------------------------- rows as the next load leaves them --------------- *)

(* Loading stores the state it returns and nothing else. *)
LEMMA LoadedFields ==
  ASSUME NEW r \in SessionRows, NEW l, l = LoadedRows(r)
  PROVE  /\ l.decisions = r.decisions /\ l.alerts = r.alerts
         /\ l.events = r.events /\ l.evidence = r.evidence /\ l.outbox = r.outbox
         /\ load_alert_state(l) = load_alert_state(r)
<1> DEFINE st == reconstruct_alert_state(r.decisions)
<1>1. CASE r.runtime = NoState /\ r.decisions # {}
  <2>1. l = [r EXCEPT !.runtime = st] /\ load_alert_state(r) = st
    BY <1>1 DEF LoadedRows, load_alert_state
  <2> HIDE DEF st
  <2>2. /\ l.decisions = r.decisions /\ l.alerts = r.alerts
        /\ l.events = r.events /\ l.evidence = r.evidence /\ l.outbox = r.outbox
        /\ l.runtime = st
    BY <2>1 DEF SessionRows
  <2>3. load_alert_state(l) = st
    BY <1>1, <2>2 DEF load_alert_state, st
  <2> QED
    BY <2>1, <2>2, <2>3
<1>2. CASE ~(r.runtime = NoState /\ r.decisions # {})
  BY <1>2 DEF LoadedRows
<1> QED
  BY <1>1, <1>2

(* The same alerts, events, evidence and outbox. *)
SameAlerts(r, new) ==
  /\ new.alerts = r.alerts /\ new.events = r.events
  /\ new.evidence = r.evidence /\ new.outbox = r.outbox

(* Rows that differ in how the state is stored, or in the session's status,    *)
(* tell the same story.                                                        *)
LEMMA SameStory ==
  ASSUME NEW r, StoryInv(r), NEW new \in SessionRows, SameAlerts(r, new),
         new.decisions = r.decisions, load_alert_state(new) = load_alert_state(r),
         new.runtime = NoState => new.decisions = {},
         new.runtime # NoState => new.runtime = load_alert_state(r)
  PROVE  StoryInv(new)
<1>1. Sound(new)
  BY DEF StoryInv, Sound, SameAlerts
<1>2. load_alert_state(r) = reconstruct_alert_state(r.decisions)
  BY LoadedIsReplay DEF StoryInv, Replayed
<1>3. Replayed(new)
  BY <1>2 DEF StoryInv, Replayed, Reconstructs
<1>4. LegalHistories(new) /\ Traceable(new)
  BY DEF StoryInv, LegalHistories, Traceable, SameAlerts
<1>5. StreakStored(new, load_alert_state(new)) /\ ResolutionNamed(load_alert_state(new))
  BY DEF StoryInv, StreakStored
<1> QED
  BY <1>1, <1>3, <1>4, <1>5 DEF StoryInv

(* ----------------------- what one decision in order does ------------------- *)

(* The decision d is recorded with an event of `alert`. *)
Effect(r, new, d, action, alert) ==
  /\ action \in AlertActions /\ alert \in Windows
  /\ \A a \in Windows : a # alert => new.alerts[a] = r.alerts[a]
  /\ new.alerts[alert].state = IF action = "RESOLVED" THEN "RESOLVED" ELSE "OPEN"
  /\ new.alerts[alert].latest_decision_id = d.ts
  /\ new.events = r.events \cup {[alert |-> alert, decision |-> d.ts, action |-> action]}
  /\ new.outbox = r.outbox \cup {[alert |-> alert, decision |-> d.ts, action |-> action]}
  /\ action = "RESOLVED" => new.evidence = r.evidence
  /\ action # "RESOLVED" =>
       new.evidence = r.evidence \cup {[alert |-> alert, decision |-> d.ts]}
  /\ d.is_anomaly <=> action # "RESOLVED"
  /\ action = "OPENED" <=> r.alerts[alert].state = "ABSENT"
  /\ action = "REOPENED" <=> r.alerts[alert].state = "RESOLVED"
  /\ action = "OPENED" => alert = Streak(load_alert_state(r), d)[1]

(* A transaction with an event, in these terms. *)
LEMMA EffectRecorded ==
  ASSUME NEW r \in SessionRows, NEW d \in Decision, NEW got,
         got.state \in AlertStates,
         NEW action \in AlertActions, NEW alert \in Windows, NEW head \in Windows,
         NEW last \in Windows, NEW ids,
         got.event = Event(action, alert, head, last, ids),
         got.evidence = (action # "RESOLVED"),
         d.is_anomaly <=> action # "RESOLVED",
         action = "OPENED" <=> r.alerts[alert].state = "ABSENT",
         action = "REOPENED" <=> r.alerts[alert].state = "RESOLVED",
         action = "OPENED" => alert = Streak(load_alert_state(r), d)[1],
         NEW new, new = record_decision_transition(r, d, got)
  PROVE  Effect(r, new, d, action, alert)
<1> DEFINE key == [alert |-> alert, decision |-> d.ts, action |-> action]
<1> DEFINE row == UpsertAlert(r.alerts[alert], got.event, d)
<1>1. /\ got.event.action = action /\ got.event.alert = alert
      /\ got.event.first = head /\ got.event.last = last
  BY EventFields
<1>2. KeyOf(got.event, d) = key
  BY <1>1 DEF KeyOf, decision_id
<1>3. /\ \A a \in Windows : new.alerts[a] = IF a = alert THEN row ELSE r.alerts[a]
      /\ new.events = r.events \cup {key}
      /\ new.outbox = r.outbox \cup {key}
  BY <1>1, <1>2, EventRecord
<1>4. row.state = (IF action = "RESOLVED" THEN "RESOLVED" ELSE "OPEN")
      /\ row.latest_decision_id = d.ts
  BY <1>1 DEF UpsertAlert, decision_id
<1>5. /\ action = "RESOLVED" => new.evidence = r.evidence
      /\ action # "RESOLVED" =>
           new.evidence = r.evidence \cup {[alert |-> alert, decision |-> d.ts]}
  <2> DEFINE kept == Kept(r, d, got.state)
  <2>1. kept.evidence = r.evidence /\ kept \in SessionRows
    BY KeptFields
  <2>2. new = RecordEvent(kept, d, got)
    BY <1>1 DEF record_decision_transition, AlertActions, Kept
  <2>3. {"alerts", "events", "evidence", "outbox"} \subseteq DOMAIN kept
    BY <2>1 DEF SessionRows
  <2> HIDE DEF kept
  <2>4. new.evidence = IF got.evidence
          THEN kept.evidence \cup {[alert |-> got.event.alert, decision |-> decision_id(d)]}
          ELSE kept.evidence
    BY <2>2, <2>3 DEF RecordEvent
  <2>5. CASE action = "RESOLVED"
    BY <2>1, <2>4, <2>5
  <2>6. CASE action # "RESOLVED"
    BY <1>1, <2>1, <2>4, <2>6 DEF decision_id
  <2> QED
    BY <2>5, <2>6
<1> HIDE DEF row, key
<1>6. /\ \A a \in Windows : a # alert => new.alerts[a] = r.alerts[a]
      /\ new.alerts[alert] = row
  BY <1>3
<1> QED
  BY <1>3, <1>4, <1>5, <1>6 DEF Effect, key

(* What a decision in order makes of the state, case by case: an anomaly below *)
(* the persistence is counted, ...                                             *)
CountedStep(st, next, d) ==
  /\ d.is_anomaly /\ st.active_alert_id = None
  /\ st.anomaly_streak + 1 < Persistence
  /\ next.active_alert_id = None
  /\ next.previous_alert_id = st.previous_alert_id
  /\ next.resolved_at = st.resolved_at
  /\ next.anomaly_decision_ids = Streak(st, d)
  /\ next.anomaly_streak = st.anomaly_streak + 1 /\ next.normal_streak = 0

(* ... from the persistence on it opens or reopens an alert, or updates the    *)
(* active one, ...                                                             *)
EmittedStep(st, next, d, action, alert) ==
  /\ d.is_anomaly /\ action \in {"OPENED", "REOPENED", "UPDATED"}
  /\ action = "UPDATED" <=> st.active_alert_id # None
  /\ action # "UPDATED" => ~(st.anomaly_streak + 1 < Persistence)
  /\ action # "UPDATED" => (action = "REOPENED" <=> is_reopen(st, d))
  /\ next.active_alert_id = alert
  /\ next.anomaly_decision_ids = Streak(st, d)
  /\ next.anomaly_streak = st.anomaly_streak + 1 /\ next.normal_streak = 0

(* ... a normal decision ends the streak and leaves the alert as it is, ...    *)
CalmStep(st, next, d) ==
  /\ ~d.is_anomaly
  /\ st.active_alert_id # None => st.normal_streak + 1 < Cooldown
  /\ next.active_alert_id = st.active_alert_id
  /\ next.previous_alert_id = st.previous_alert_id
  /\ next.resolved_at = st.resolved_at
  /\ next.anomaly_decision_ids =
       IF st.active_alert_id = None THEN << >> ELSE st.anomaly_decision_ids
  /\ next.anomaly_streak = 0 /\ next.normal_streak = st.normal_streak + 1

(* ... or resolves it at the end of the cooldown. *)
ResolvedStep(st, next, d) ==
  /\ ~d.is_anomaly /\ st.active_alert_id # None
  /\ st.normal_streak + 1 >= Cooldown
  /\ next.active_alert_id = None
  /\ next.previous_alert_id = st.active_alert_id
  /\ next.resolved_at = d.ts
  /\ next.anomaly_decision_ids = << >>
  /\ next.anomaly_streak = 0 /\ next.normal_streak = st.normal_streak + 1

(* The rows and the state after a decision in order. *)
Decided(r, new, st, next, d) ==
  \/ SameAlerts(r, new) /\ CountedStep(st, next, d)
  \/ SameAlerts(r, new) /\ CalmStep(st, next, d)
  \/ \E action \in AlertActions, alert \in Windows :
       Effect(r, new, d, action, alert) /\ EmittedStep(st, next, d, action, alert)
  \/ \E alert \in Windows :
       Effect(r, new, d, "RESOLVED", alert) /\ ResolvedStep(st, next, d)

(* An alert that an anomaly opens, reopens or updates. *)
LEMMA EmitDecided ==
  ASSUME NEW r, Sound(r), NEW st, st = load_alert_state(r),
         NEW d \in Decision, st.last_source_timestamp < d.ts, d.is_anomaly,
         NEW ids, ids = Streak(st, d),
         NEW action \in {"OPENED", "REOPENED", "UPDATED"},
         NEW alert \in Windows, NEW head \in Windows,
         action = "UPDATED" <=> st.active_alert_id # None,
         action # "UPDATED" => ~(st.anomaly_streak + 1 < Persistence),
         action # "UPDATED" => (action = "REOPENED" <=> is_reopen(st, d)),
         action = "OPENED" <=> r.alerts[alert].state = "ABSENT",
         action = "REOPENED" <=> r.alerts[alert].state = "RESOLVED",
         action = "OPENED" => alert = ids[1],
         NEW got, got = emit_anomaly_result(st, d, action, alert, head, ids),
         NEW new, new = record_decision_transition(r, d, got)
  PROVE  Decided(r, new, st, got.state, d)
<1>1. st \in AlertStates /\ r \in SessionRows /\ SoundState(st) /\ d.ts \in Windows
  BY SoundFields DEF Decision
<1>2. ids \in Seq(Windows)
  BY <1>1, StreakExtended
<1>3. /\ got.state \in AlertStates
      /\ got.state.active_alert_id = alert
      /\ got.state.anomaly_decision_ids = ids
      /\ got.state.anomaly_streak = st.anomaly_streak + 1
      /\ got.state.normal_streak = 0
      /\ got.event = Event(action, alert, head, d.ts, ids)
  BY <1>1, <1>2, EmitFields
<1>4. got.evidence = (action # "RESOLVED")
  <2>1. got.evidence = TRUE
    BY DEF emit_anomaly_result
  <2> QED
    BY <2>1
<1>5. action \in AlertActions /\ action # "RESOLVED"
  BY DEF AlertActions
<1>6. Effect(r, new, d, action, alert)
  BY <1>1, <1>3, <1>4, <1>5, EffectRecorded
<1>7. EmittedStep(st, got.state, d, action, alert)
  BY <1>3 DEF EmittedStep
<1> QED
  BY <1>5, <1>6, <1>7 DEF Decided

(* Every decision in order does one of these things. *)
LEMMA InOrderDecided ==
  ASSUME NEW r, Sound(r), NEW st, st = load_alert_state(r),
         NEW d \in Decision, st.last_source_timestamp < d.ts,
         NEW got, got = transition(st, d),
         NEW new, new = record_decision_transition(r, d, got)
  PROVE  Decided(r, new, st, got.state, d)
<1> DEFINE ids == Streak(st, d)
<1>1. /\ st \in AlertStates /\ SoundState(st) /\ SoundAlerts(r.alerts, st)
      /\ r \in SessionRows /\ r.alerts \in [Windows -> AlertRows]
      /\ st.active_alert_id \in 0..Horizon
      /\ st.previous_alert_id \in 0..Horizon
      /\ st.first_detection \in 0..Horizon
      /\ st.last_source_timestamp \in 0..Horizon
      /\ d.ts \in 1..Horizon
      /\ Windows = 1..Horizon /\ None = 0 /\ Horizon \in Nat
  BY SoundFields
<1>2. /\ ids \in Seq(Windows) /\ ids[1] \in Windows
      /\ st.anomaly_decision_ids = << >> => ids[1] = d.ts
      /\ st.anomaly_decision_ids # << >> =>
           /\ ids[1] = st.anomaly_decision_ids[1]
           /\ 1 \in 1..Len(st.anomaly_decision_ids)
  BY <1>1, StreakExtended
<1>3. ids = Streak(st, d)
  OBVIOUS
<1> HIDE DEF ids
<1>4. OrElse(st.first_detection, d.ts) \in Windows
  BY <1>1 DEF OrElse
<1>5. CASE /\ d.is_anomaly /\ st.active_alert_id = None
           /\ st.anomaly_streak + 1 < Persistence
           /\ got = Counted(st, d, ids)
  <2>1. /\ got.state \in AlertStates /\ got.event = NoEvent
        /\ got.state.active_alert_id = st.active_alert_id
        /\ got.state.previous_alert_id = st.previous_alert_id
        /\ got.state.resolved_at = st.resolved_at
        /\ got.state.anomaly_decision_ids = ids
        /\ got.state.anomaly_streak = st.anomaly_streak + 1
        /\ got.state.normal_streak = 0
    BY <1>1, <1>2, <1>5, CountedFields
  <2>2. SameAlerts(r, new)
    BY <1>1, <2>1, QuietRecord DEF SameAlerts
  <2>3. CountedStep(st, got.state, d)
    BY <1>3, <1>5, <2>1 DEF CountedStep
  <2> QED
    BY <2>2, <2>3 DEF Decided
<1>6. CASE /\ d.is_anomaly /\ st.active_alert_id = None
           /\ ~(st.anomaly_streak + 1 < Persistence) /\ is_reopen(st, d)
           /\ got = emit_anomaly_result(st, d, "REOPENED", st.previous_alert_id,
                                           OrElse(st.first_detection, d.ts), ids)
  <2>1. st.previous_alert_id # None
    BY <1>6 DEF is_reopen
  <2>2. st.previous_alert_id \in Windows
    BY <1>1, <2>1
  <2>3. r.alerts[st.previous_alert_id].state = "RESOLVED"
    BY <1>1, <1>6, <2>1 DEF SoundAlerts
  <2> QED
    BY <1>3, <1>4, <1>6, <2>2, <2>3, EmitDecided
<1>7. CASE /\ d.is_anomaly /\ st.active_alert_id = None
           /\ ~(st.anomaly_streak + 1 < Persistence) /\ ~is_reopen(st, d)
           /\ got = emit_anomaly_result(st, d, "OPENED", ids[1], d.ts, ids)
  <2>1. r.alerts[ids[1]].state = "ABSENT"
    <3>1. CASE st.anomaly_decision_ids = << >>
      <4>1. ~(ids[1] <= st.last_source_timestamp)
        BY <1>1, <1>2, <3>1
      <4> QED
        BY <1>1, <1>2, <4>1 DEF SoundAlerts
    <3>2. CASE st.anomaly_decision_ids # << >>
      <4>1. r.alerts[ids[1]].state # "ABSENT" => ids[1] < ids[1]
        BY <1>1, <1>2, <1>7, <3>2 DEF SoundAlerts
      <4> QED
        BY <1>1, <1>2, <4>1
    <3> QED
      BY <3>1, <3>2
  <2>2. d.ts \in Windows
    BY <1>1
  <2> QED
    BY <1>2, <1>3, <1>7, <2>1, <2>2, EmitDecided
<1>8. CASE /\ d.is_anomaly /\ st.active_alert_id # None
           /\ got = emit_anomaly_result(st, d, "UPDATED", st.active_alert_id,
                                           OrElse(st.first_detection, d.ts), ids)
  <2>1. st.active_alert_id \in Windows
    BY <1>1, <1>8
  <2>2. r.alerts[st.active_alert_id].state = "OPEN"
    BY <1>1, <2>1 DEF SoundAlerts
  <2> QED
    BY <1>3, <1>4, <1>8, <2>1, <2>2, EmitDecided
<1>9. CASE /\ ~d.is_anomaly
           /\ st.active_alert_id # None => st.normal_streak + 1 < Cooldown
           /\ got = handle_normal(st, d)
  <2>1. /\ got.state \in AlertStates /\ got.event = NoEvent
        /\ got.state.active_alert_id = st.active_alert_id
        /\ got.state.previous_alert_id = st.previous_alert_id
        /\ got.state.resolved_at = st.resolved_at
        /\ got.state.anomaly_decision_ids =
             IF st.active_alert_id = None THEN << >> ELSE st.anomaly_decision_ids
        /\ got.state.anomaly_streak = 0
        /\ got.state.normal_streak = st.normal_streak + 1
    BY <1>1, <1>9, CalmFields
  <2>2. SameAlerts(r, new)
    BY <1>1, <2>1, QuietRecord DEF SameAlerts
  <2>3. CalmStep(st, got.state, d)
    BY <1>9, <2>1 DEF CalmStep
  <2> QED
    BY <2>2, <2>3 DEF Decided
<1>10. CASE /\ ~d.is_anomaly /\ st.active_alert_id # None
            /\ st.normal_streak + 1 >= Cooldown
            /\ got = resolve(st, d)
  <2> DEFINE alert == st.active_alert_id
  <2>1. alert \in Windows
    BY <1>1, <1>10
  <2>2. r.alerts[alert].state = "OPEN"
    BY <1>1, <2>1 DEF SoundAlerts
  <2>3. /\ got.state \in AlertStates
        /\ got.state.active_alert_id = None
        /\ got.state.previous_alert_id = st.active_alert_id
        /\ got.state.resolved_at = d.ts
        /\ got.state.anomaly_decision_ids = << >>
        /\ got.state.anomaly_streak = 0
        /\ got.state.normal_streak = st.normal_streak + 1
        /\ got.event = Event("RESOLVED", alert,
                                OrElse(st.first_detection, d.ts),
                                OrElse(st.last_detection, d.ts),
                                st.anomaly_decision_ids)
    BY <1>1, <1>10, ResolveFields
  <2>4. OrElse(st.last_detection, d.ts) \in Windows
    <3>1. st.last_detection \in 0..Horizon
      BY SoundFields
    <3> QED
      BY <1>1, <3>1 DEF OrElse
  <2>5. got.evidence = ("RESOLVED" # "RESOLVED")
    <3>1. resolve(st, d).evidence = FALSE
      BY DEF resolve
    <3> QED
      BY <1>10, <3>1
  <2>6. "RESOLVED" \in AlertActions
    BY DEF AlertActions
  <2>7. Effect(r, new, d, "RESOLVED", alert)
    <3> HIDE DEF alert
    <3> QED
      BY <1>1, <1>4, <1>10, <2>1, <2>2, <2>3, <2>4, <2>5, <2>6, EffectRecorded
  <2>8. ResolvedStep(st, got.state, d)
    BY <1>10, <2>3 DEF ResolvedStep
  <2> QED
    BY <2>1, <2>7, <2>8 DEF Decided
<1> QED
  BY <1>1, <1>3, <1>5, <1>6, <1>7, <1>8, <1>9, <1>10, Outcomes

(* ------------------------- the rows tell one story ------------------------- *)

(* The new event is the last of its alert and continues what the row says:     *)
(* the histories of the alerts stay legal.                                     *)
LEMMA EffectLegal ==
  ASSUME NEW r \in SessionRows, LegalHistories(r), NEW d \in Decision,
         \A e \in r.events : e.decision < d.ts,
         NEW action, NEW alert, NEW new, Effect(r, new, d, action, alert)
  PROVE  LegalHistories(new)
<1> SUFFICES ASSUME NEW a \in Windows
             PROVE  LegalHistory({e \in new.events : e.alert = a}, new.alerts[a])
  BY DEF LegalHistories
<1> DEFINE y == [alert |-> alert, decision |-> d.ts, action |-> action]
<1> DEFINE E == {e \in r.events : e.alert = a}
<1> DEFINE F == {e \in new.events : e.alert = a}
<1>1. /\ new.events = r.events \cup {y}
      /\ y.alert = alert /\ y.decision = d.ts /\ y.action = action
  BY DEF Effect
<1>2. LegalHistory(E, r.alerts[a])
  BY DEF LegalHistories
<1>3. CASE a # alert
  <2>1. F = E
    BY <1>1, <1>3
  <2>2. new.alerts[a] = r.alerts[a]
    BY <1>3 DEF Effect
  <2> QED
    BY <1>2, <2>1, <2>2
<1>4. CASE a = alert
  <2> DEFINE old == r.alerts[a]
  <2> DEFINE row == new.alerts[a]
  <2>1. F = E \cup {y}
    BY <1>1, <1>4
  <2>2. \A e \in E : e.decision < d.ts /\ e.decision \in Nat
    BY HorizonAssumption DEF SessionRows, EventKeys, Windows
  <2>3. d.ts \in Nat
    BY HorizonAssumption DEF Decision, Windows
  <2>4. /\ row.state = IF action = "RESOLVED" THEN "RESOLVED" ELSE "OPEN"
        /\ row.latest_decision_id = d.ts
        /\ action = "OPENED" <=> old.state = "ABSENT"
        /\ action = "REOPENED" <=> old.state = "RESOLVED"
    BY <1>4 DEF Effect
  <2>5. /\ old.state = "ABSENT" <=> E = {}
        /\ \A e, f \in E : e.decision = f.decision => e = f
        /\ \A e \in E : e.action = "OPENED" <=> \A f \in E : e.decision <= f.decision
        /\ \A e, f \in E :
             Follows(e, f, E) => (e.action = "RESOLVED" <=> f.action = "REOPENED")
        /\ \A e \in E :
             (\A f \in E : f.decision <= e.decision) =>
               (old.state = "RESOLVED" <=> e.action = "RESOLVED")
    BY <1>2 DEF LegalHistory
  <2> HIDE DEF E, F, old, row, y
  <2>6. row.state = "ABSENT" <=> F = {}
    BY <2>1, <2>4
  <2>7. \A e, f \in F : e.decision = f.decision => e = f
    BY <1>1, <2>1, <2>2, <2>3, <2>5
  <2>8. \A e \in F : e.action = "OPENED" <=> \A f \in F : e.decision <= f.decision
    <3> SUFFICES ASSUME NEW e \in F
                 PROVE  e.action = "OPENED" <=> \A f \in F : e.decision <= f.decision
      OBVIOUS
    <3>1. CASE e \in E
      <4>1. e.decision <= y.decision
        BY <1>1, <2>2, <2>3, <3>1
      <4>2. (\A f \in F : e.decision <= f.decision) <=> (\A f \in E : e.decision <= f.decision)
        BY <2>1, <4>1
      <4> QED
        BY <2>5, <3>1, <4>2
    <3>2. CASE e = y
      <4>1. CASE E = {}
        <5>1. F = {y} /\ y.decision <= y.decision
          BY <1>1, <2>1, <2>3, <4>1
        <5>2. y.action = "OPENED"
          BY <1>1, <2>4, <2>5, <4>1
        <5> QED
          BY <3>2, <5>1, <5>2
      <4>2. CASE E # {}
        <5>1. PICK f \in E : TRUE
          BY <4>2
        <5>2. f \in F /\ ~(y.decision <= f.decision)
          BY <1>1, <2>1, <2>2, <2>3, <5>1
        <5>3. y.action # "OPENED"
          BY <1>1, <2>4, <2>5, <4>2
        <5> QED
          BY <3>2, <5>2, <5>3
      <4> QED
        BY <4>1, <4>2
    <3> QED
      BY <2>1, <3>1, <3>2
  <2>9. \A e, f \in F :
          Follows(e, f, F) => (e.action = "RESOLVED" <=> f.action = "REOPENED")
    <3> SUFFICES ASSUME NEW e \in F, NEW f \in F, Follows(e, f, F)
                 PROVE  e.action = "RESOLVED" <=> f.action = "REOPENED"
      OBVIOUS
    <3>1. f.decision > e.decision
          /\ \A g \in F : ~(g.decision > e.decision /\ g.decision < f.decision)
      BY DEF Follows
    <3>2. e \in E
      <4>1. CASE e = y /\ f = y
        BY <1>1, <2>3, <3>1, <4>1
      <4>2. CASE e = y /\ f \in E
        BY <1>1, <2>2, <2>3, <3>1, <4>2
      <4> QED
        BY <2>1, <4>1, <4>2
    <3>3. CASE f \in E
      <4>1. Follows(e, f, E)
        BY <2>1, <3>1 DEF Follows
      <4> QED
        BY <2>5, <3>2, <3>3, <4>1
    <3>4. CASE f = y
      <4>1. \A g \in E : g.decision <= e.decision
        BY <1>1, <2>1, <2>2, <3>1, <3>2, <3>4
      <4>2. old.state = "RESOLVED" <=> e.action = "RESOLVED"
        BY <2>5, <3>2, <4>1
      <4> QED
        BY <1>1, <2>4, <3>4, <4>2
    <3> QED
      BY <2>1, <3>3, <3>4
  <2>10. \A e \in F :
           (\A f \in F : f.decision <= e.decision) =>
             /\ row.latest_decision_id = e.decision
             /\ row.state = "RESOLVED" <=> e.action = "RESOLVED"
    <3> SUFFICES ASSUME NEW e \in F, \A f \in F : f.decision <= e.decision
                 PROVE  /\ row.latest_decision_id = e.decision
                        /\ row.state = "RESOLVED" <=> e.action = "RESOLVED"
      OBVIOUS
    <3>1. e = y
      <4>1. y.decision <= e.decision
        BY <2>1
      <4> QED
        BY <1>1, <2>1, <2>2, <2>3, <4>1
    <3> QED
      BY <1>1, <2>4, <3>1
  <2>11. LegalHistory(F, row)
    BY <2>6, <2>7, <2>8, <2>9, <2>10 DEF LegalHistory
  <2> QED
    BY <2>11 DEF F, row
<1> QED
  BY <1>3, <1>4

(* The new event's decision has just been stored, its alert's decision is the  *)
(* head of the streak or was stored with an earlier event.                    *)
LEMMA EffectTraceable ==
  ASSUME NEW r, StoryInv(r), NEW st, st = load_alert_state(r), NEW d \in Decision,
         st.last_source_timestamp < d.ts,
         NEW action, NEW alert, NEW new, Effect(r, new, d, action, alert),
         new.decisions = r.decisions \cup {d}
  PROVE  Traceable(new)
<1> DEFINE y == [alert |-> alert, decision |-> d.ts, action |-> action]
<1>1. /\ new.events = r.events \cup {y} /\ new.outbox = r.outbox \cup {y}
      /\ y.alert = alert /\ y.decision = d.ts /\ y.action = action
      /\ alert \in Windows /\ (d.is_anomaly <=> action # "RESOLVED")
  BY DEF Effect
<1>2. r \in SessionRows /\ SoundState(st) /\ d = [ts |-> d.ts, is_anomaly |-> d.is_anomaly]
      /\ d.is_anomaly \in BOOLEAN
  BY DEF StoryInv, Sound, Decision
<1>3. /\ \A e \in r.events :
           /\ [ts |-> e.decision, is_anomaly |-> e.action # "RESOLVED"] \in r.decisions
           /\ [ts |-> e.alert, is_anomaly |-> TRUE] \in r.decisions
      /\ r.evidence = {[alert |-> e.alert, decision |-> e.decision] :
                         e \in {x \in r.events : x.action # "RESOLVED"}}
      /\ r.outbox = r.events
  BY DEF StoryInv, Traceable
<1>4. [ts |-> y.decision, is_anomaly |-> y.action # "RESOLVED"] \in new.decisions
  <2>1. d.is_anomaly = (y.action # "RESOLVED")
    BY <1>1, <1>2
  <2>2. [ts |-> y.decision, is_anomaly |-> y.action # "RESOLVED"] = d
    BY <1>1, <1>2, <2>1
  <2> QED
    BY <2>2
<1>5. [ts |-> alert, is_anomaly |-> TRUE] \in new.decisions
  <2>1. CASE action = "OPENED"
    <3> DEFINE ids == Streak(st, d)
    <3>1. alert = ids[1] /\ d.is_anomaly
      BY <1>1, <2>1 DEF Effect
    <3>2. /\ st.anomaly_decision_ids = << >> => ids[1] = d.ts
          /\ st.anomaly_decision_ids # << >> =>
               /\ ids[1] = st.anomaly_decision_ids[1]
               /\ 1 \in 1..Len(st.anomaly_decision_ids)
      BY <1>2, StreakExtended
    <3> HIDE DEF ids
    <3>3. CASE st.anomaly_decision_ids = << >>
      <4>1. d.is_anomaly = TRUE
        BY <1>2, <3>1
      <4>2. [ts |-> alert, is_anomaly |-> TRUE] = d
        BY <1>2, <3>1, <3>2, <3>3, <4>1
      <4> QED
        BY <4>2
    <3>4. CASE st.anomaly_decision_ids # << >>
      <4>1. [ts |-> alert, is_anomaly |-> TRUE] \in r.decisions
        BY <3>1, <3>2, <3>4 DEF StoryInv, StreakStored
      <4> QED
        BY <4>1
    <3> QED
      BY <3>3, <3>4
  <2>2. CASE action # "OPENED"
    <3>1. r.alerts[alert].state # "ABSENT"
      BY <2>2 DEF Effect
    <3>2. {e \in r.events : e.alert = alert} # {}
      BY <1>1, <3>1 DEF StoryInv, LegalHistories, LegalHistory
    <3>3. PICK e \in r.events : e.alert = alert
      BY <3>2
    <3> QED
      BY <1>3, <3>3
  <2> QED
    BY <2>1, <2>2
<1>6. new.evidence = {[alert |-> e.alert, decision |-> e.decision] :
                        e \in {x \in new.events : x.action # "RESOLVED"}}
  <2> DEFINE key(e) == [alert |-> e.alert, decision |-> e.decision]
  <2>1. CASE action = "RESOLVED"
    <3>1. {x \in new.events : x.action # "RESOLVED"} = {x \in r.events : x.action # "RESOLVED"}
      BY <1>1, <2>1
    <3>2. new.evidence = r.evidence
      BY <2>1 DEF Effect
    <3> QED
      BY <1>3, <3>1, <3>2
  <2>2. CASE action # "RESOLVED"
    <3> DEFINE X == {x \in r.events : x.action # "RESOLVED"}
    <3>1. {x \in new.events : x.action # "RESOLVED"} = X \cup {y}
      BY <1>1, <2>2
    <3>2. new.evidence = r.evidence \cup {key(y)}
      BY <1>1, <2>2 DEF Effect
    <3>3. r.evidence = {key(e) : e \in X}
      BY <1>3
    <3> HIDE DEF X
    <3>4. {key(e) : e \in X \cup {y}} = {key(e) : e \in X} \cup {key(y)}
      <4> HIDE DEF key, y
      <4> QED
        OBVIOUS
    <3> QED
      BY <3>1, <3>2, <3>3, <3>4
  <2> QED
    BY <2>1, <2>2
<1> HIDE DEF y
<1>7. \A e \in new.events :
        /\ [ts |-> e.decision, is_anomaly |-> e.action # "RESOLVED"] \in new.decisions
        /\ [ts |-> e.alert, is_anomaly |-> TRUE] \in new.decisions
  <2> SUFFICES ASSUME NEW e \in new.events
               PROVE  /\ [ts |-> e.decision, is_anomaly |-> e.action # "RESOLVED"]
                           \in new.decisions
                      /\ [ts |-> e.alert, is_anomaly |-> TRUE] \in new.decisions
    OBVIOUS
  <2>1. CASE e \in r.events
    BY <1>3, <2>1
  <2>2. CASE e = y
    BY <1>1, <1>4, <1>5, <2>2
  <2> QED
    BY <1>1, <2>1, <2>2
<1> QED
  BY <1>1, <1>3, <1>6, <1>7 DEF Traceable

(* A streak or a resolution the next state remembers is stored. *)
LEMMA MemoryKept ==
  ASSUME NEW r, StoryInv(r), NEW st, st = load_alert_state(r), NEW d \in Decision,
         st.last_source_timestamp < d.ts, NEW new, NEW next,
         new.decisions = r.decisions \cup {d},
         Decided(r, new, st, next, d)
  PROVE  StreakStored(new, next) /\ ResolutionNamed(next)
<1> DEFINE ids == st.anomaly_decision_ids
<1>1. /\ SoundState(st) /\ d = [ts |-> d.ts, is_anomaly |-> d.is_anomaly]
      /\ d.is_anomaly \in BOOLEAN /\ d.ts \in 1..Horizon
      /\ StreakStored(r, st) /\ ResolutionNamed(st)
  BY DEF StoryInv, Sound, Decision, Windows
<1>2. \A i \in 1..Len(ids) : [ts |-> ids[i], is_anomaly |-> TRUE] \in new.decisions
  BY <1>1 DEF StreakStored
<1>3. ASSUME next.anomaly_decision_ids = Streak(st, d), d.is_anomaly
      PROVE  StreakStored(new, next)
  <2> DEFINE more == Streak(st, d)
  <2>1. /\ Len(more) = Len(ids) + 1 /\ Len(ids) \in Nat
        /\ \A i \in 1..Len(ids) : more[i] = ids[i]
        /\ more[Len(ids) + 1] = d.ts
    BY <1>1, StreakExtended
  <2>2. [ts |-> d.ts, is_anomaly |-> TRUE] \in new.decisions
    <3>1. d.is_anomaly = TRUE
      BY <1>1, <1>3
    <3>2. [ts |-> d.ts, is_anomaly |-> TRUE] = d
      BY <1>1, <3>1
    <3> QED
      BY <3>2
  <2> HIDE DEF more, ids
  <2>3. ASSUME NEW i \in 1..Len(more)
        PROVE  [ts |-> more[i], is_anomaly |-> TRUE] \in new.decisions
    <3>1. CASE i \in 1..Len(ids)
      BY <1>2, <2>1, <3>1
    <3>2. CASE i = Len(ids) + 1
      BY <2>1, <2>2, <3>2
    <3> QED
      BY <2>1, <3>1, <3>2
  <2>4. next.anomaly_decision_ids = more
    BY <1>3 DEF more
  <2> QED
    BY <2>3, <2>4 DEF StreakStored
<1>4. ASSUME next.anomaly_decision_ids = << >> PROVE StreakStored(new, next)
  BY <1>4 DEF StreakStored
<1>5. ASSUME next.anomaly_decision_ids = ids PROVE StreakStored(new, next)
  BY <1>2, <1>5 DEF StreakStored
<1>6. CASE CountedStep(st, next, d)
  <2>1. StreakStored(new, next)
    BY <1>3, <1>6 DEF CountedStep
  <2> QED
    BY <1>1, <1>6, <2>1 DEF CountedStep, ResolutionNamed
<1>7. CASE CalmStep(st, next, d)
  <2>1. StreakStored(new, next)
    BY <1>4, <1>5, <1>7 DEF CalmStep
  <2> QED
    BY <1>1, <1>7, <2>1 DEF CalmStep, ResolutionNamed
<1>8. CASE \E action \in AlertActions, alert \in Windows :
             Effect(r, new, d, action, alert) /\ EmittedStep(st, next, d, action, alert)
  <2>1. PICK action \in AlertActions, alert \in Windows :
               EmittedStep(st, next, d, action, alert)
    BY <1>8
  <2>2. StreakStored(new, next)
    BY <1>3, <2>1 DEF EmittedStep
  <2>3. next.active_alert_id # None
    BY <2>1, HorizonAssumption DEF EmittedStep, Windows, None
  <2> QED
    BY <2>2, <2>3 DEF ResolutionNamed
<1>9. CASE ResolvedStep(st, next, d)
  <2>1. StreakStored(new, next)
    BY <1>4, <1>9 DEF ResolvedStep
  <2> QED
    BY <1>9, <2>1 DEF ResolvedStep, ResolutionNamed
<1> QED
  BY <1>6, <1>7, <1>8, <1>9 DEF Decided

(* A decision in order continues the story. *)
LEMMA StoryKept ==
  ASSUME NEW r, StoryInv(r), NEW st, st = load_alert_state(r), NEW d \in Decision,
         st.last_source_timestamp < d.ts,
         NEW got, got = transition(st, d),
         NEW new, new = record_decision_transition(r, d, got)
  PROVE  /\ StoryInv(new) /\ load_alert_state(new) = got.state
         /\ got.state \in AlertStates
         /\ Decided(r, new, st, got.state, d)
<1>1. /\ Sound(r) /\ Replayed(r) /\ r \in SessionRows /\ SoundState(st)
      /\ LoadedRows(r) = r
  BY SoundLoads DEF StoryInv, Sound
<1>2. st.last_source_timestamp \in 0..Horizon /\ d.ts \in 1..Horizon
  BY <1>1, StateFields DEF SoundState, Decision, Windows
<1>3. ~OrderingViolation(st, d)
  BY <1>2, HorizonAssumption DEF OrderingViolation
<1>4. got.state \in AlertStates
  BY <1>1, <1>3, TransitionStamps
<1>5. Sound(new)
  BY <1>1, InOrderSound
<1>6. Replayed(new)
  BY <1>1, <1>3, RecordReplayed
<1>7. /\ new.decisions = r.decisions \cup {d} /\ new.runtime = got.state
  <2>1. \A x \in r.decisions : x.ts \in 1..Horizon /\ x.ts <= st.last_source_timestamp
    BY <1>1 DEF Replayed, SessionRows, Decision, Windows
  <2>2. \A x \in r.decisions : x.ts # d.ts
    BY <1>2, <2>1, HorizonAssumption
  <2> QED
    BY <1>1, <2>2, RecordStores
<1>8. load_alert_state(new) = got.state
  BY <1>4, <1>7, NoStateAssumption DEF load_alert_state
<1>9. Decided(r, new, st, got.state, d)
  BY <1>1, InOrderDecided
<1>10. \A e \in r.events : e.decision < d.ts
  BY <1>1, EventsBefore
<1>11. LegalHistories(new) /\ Traceable(new)
  <2>1. CASE SameAlerts(r, new)
    <3>1. LegalHistories(new)
      BY <2>1 DEF StoryInv, LegalHistories, SameAlerts
    <3>2. Traceable(new)
      BY <1>7, <2>1 DEF StoryInv, Traceable, SameAlerts
    <3> QED
      BY <3>1, <3>2
  <2>2. CASE \E action \in AlertActions, alert \in Windows : Effect(r, new, d, action, alert)
    <3>1. PICK action \in AlertActions, alert \in Windows : Effect(r, new, d, action, alert)
      BY <2>2
    <3>2. LegalHistories(r)
      BY DEF StoryInv
    <3>3. LegalHistories(new)
      BY <1>1, <1>10, <3>1, <3>2, EffectLegal
    <3>4. Traceable(new)
      BY <1>7, <3>1, EffectTraceable
    <3> QED
      BY <3>3, <3>4
  <2>3. "RESOLVED" \in AlertActions
    BY DEF AlertActions
  <2> QED
    BY <1>9, <2>1, <2>2, <2>3 DEF Decided
<1>12. StreakStored(new, got.state) /\ ResolutionNamed(got.state)
  BY <1>7, <1>9, MemoryKept
<1> QED
  BY <1>4, <1>5, <1>6, <1>8, <1>9, <1>11, <1>12 DEF StoryInv

(* ---------------------- the simulation counts the same --------------------- *)

(* The fields of the simulation's locals. *)
LEMMA SimStep ==
  ASSUME NEW s \in SimStates, NEW d \in Decision, NEW t, t = simulate_step(s, d)
  PROVE  /\ t \in SimStates
         /\ s.anomaly_streak \in Nat /\ s.normal_streak \in Nat /\ s.episodes \in Nat
         /\ s.alert_window_count \in Nat /\ s.is_active \in BOOLEAN
         /\ t.is_active => t.alert_window_count = s.alert_window_count + 1
         /\ ~t.is_active => t.alert_window_count = s.alert_window_count
         /\ d.is_anomaly =>
              /\ t.is_active <=> s.is_active \/ s.anomaly_streak + 1 >= Persistence
              /\ t.anomaly_streak = s.anomaly_streak + 1 /\ t.normal_streak = 0
              /\ t.last_resolution = s.last_resolution
              /\ (~s.is_active /\ s.anomaly_streak + 1 >= Persistence
                   /\ ~is_merged(s, d.ts)) => t.episodes = s.episodes + 1
              /\ ~(~s.is_active /\ s.anomaly_streak + 1 >= Persistence
                   /\ ~is_merged(s, d.ts)) => t.episodes = s.episodes
         /\ ~d.is_anomaly =>
              /\ t.is_active <=> s.is_active /\ ~(s.normal_streak + 1 >= Cooldown)
              /\ t.anomaly_streak = 0 /\ t.normal_streak = s.normal_streak + 1
              /\ (s.is_active /\ s.normal_streak + 1 >= Cooldown) => t.last_resolution = d.ts
              /\ ~(s.is_active /\ s.normal_streak + 1 >= Cooldown) =>
                   t.last_resolution = s.last_resolution
              /\ t.episodes = s.episodes
<1> DEFINE m == IF d.is_anomaly THEN step_anomaly(s, d.ts) ELSE step_normal(s, d.ts)
<1>1. /\ s.anomaly_streak \in Nat /\ s.normal_streak \in Nat /\ s.episodes \in Nat
      /\ s.alert_window_count \in Nat /\ s.is_active \in BOOLEAN
      /\ s.last_resolution \in Windows \cup {None} /\ d.ts \in Windows
      /\ s.anomaly_streak + 1 \in Nat /\ s.normal_streak + 1 \in Nat
      /\ s.episodes + 1 \in Nat /\ s.alert_window_count + 1 \in Nat /\ 0 \in Nat
  BY DEF SimStates, Decision
<1>2. ASSUME d.is_anomaly
      PROVE  /\ m \in SimStates
             /\ m.is_active <=> s.is_active \/ s.anomaly_streak + 1 >= Persistence
             /\ m.anomaly_streak = s.anomaly_streak + 1 /\ m.normal_streak = 0
             /\ m.last_resolution = s.last_resolution
             /\ m.alert_window_count = s.alert_window_count
             /\ (~s.is_active /\ s.anomaly_streak + 1 >= Persistence
                  /\ ~is_merged(s, d.ts)) => m.episodes = s.episodes + 1
             /\ ~(~s.is_active /\ s.anomaly_streak + 1 >= Persistence
                  /\ ~is_merged(s, d.ts)) => m.episodes = s.episodes
  <2> DEFINE trig == ~s.is_active /\ s.anomaly_streak + 1 >= Persistence
  <2> DEFINE act == s.is_active \/ trig
  <2> DEFINE ep == IF trig /\ ~is_merged(s, d.ts) THEN s.episodes + 1 ELSE s.episodes
  <2>1. m = [s EXCEPT !.is_active = act, !.anomaly_streak = s.anomaly_streak + 1,
                      !.normal_streak = 0, !.episodes = ep]
    BY <1>2 DEF step_anomaly
  <2>2. act \in BOOLEAN /\ ep \in Nat
    BY <1>1
  <2>3. act <=> s.is_active \/ s.anomaly_streak + 1 >= Persistence
    BY <1>1
  <2>4. /\ trig /\ ~is_merged(s, d.ts) => ep = s.episodes + 1
        /\ ~(trig /\ ~is_merged(s, d.ts)) => ep = s.episodes
    OBVIOUS
  <2> HIDE DEF m, act, ep
  <2>5. /\ m \in SimStates /\ m.is_active = act
        /\ m.anomaly_streak = s.anomaly_streak + 1 /\ m.normal_streak = 0
        /\ m.last_resolution = s.last_resolution
        /\ m.alert_window_count = s.alert_window_count /\ m.episodes = ep
    BY <1>1, <2>1, <2>2 DEF SimStates
  <2> QED
    BY <2>3, <2>4, <2>5
<1>3. ASSUME ~d.is_anomaly
      PROVE  /\ m \in SimStates
             /\ m.is_active <=> s.is_active /\ ~(s.normal_streak + 1 >= Cooldown)
             /\ m.anomaly_streak = 0 /\ m.normal_streak = s.normal_streak + 1
             /\ m.alert_window_count = s.alert_window_count
             /\ (s.is_active /\ s.normal_streak + 1 >= Cooldown) => m.last_resolution = d.ts
             /\ ~(s.is_active /\ s.normal_streak + 1 >= Cooldown) =>
                  m.last_resolution = s.last_resolution
             /\ m.episodes = s.episodes
  <2> DEFINE res == s.is_active /\ s.normal_streak + 1 >= Cooldown
  <2> DEFINE act == s.is_active /\ ~res
  <2> DEFINE at == IF res THEN d.ts ELSE s.last_resolution
  <2>1. m = [s EXCEPT !.is_active = act, !.anomaly_streak = 0,
                      !.normal_streak = s.normal_streak + 1, !.last_resolution = at]
    BY <1>3 DEF step_normal
  <2>2. act \in BOOLEAN /\ at \in Windows \cup {None}
    BY <1>1
  <2>3. act <=> s.is_active /\ ~(s.normal_streak + 1 >= Cooldown)
    OBVIOUS
  <2>4. (res => at = d.ts) /\ (~res => at = s.last_resolution)
    OBVIOUS
  <2> HIDE DEF m, act, at
  <2>5. /\ m \in SimStates /\ m.is_active = act
        /\ m.anomaly_streak = 0 /\ m.normal_streak = s.normal_streak + 1
        /\ m.last_resolution = at
        /\ m.alert_window_count = s.alert_window_count /\ m.episodes = s.episodes
    BY <1>1, <2>1, <2>2 DEF SimStates
  <2> QED
    BY <2>3, <2>4, <2>5
<1>4. m \in SimStates /\ m.alert_window_count = s.alert_window_count
  BY <1>2, <1>3
<1>5. t = [m EXCEPT !.alert_window_count =
             IF m.is_active THEN s.alert_window_count + 1 ELSE s.alert_window_count]
  BY <1>4 DEF simulate_step
<1> HIDE DEF m
<1>6. /\ t \in SimStates
      /\ t.is_active = m.is_active /\ t.anomaly_streak = m.anomaly_streak
      /\ t.normal_streak = m.normal_streak /\ t.last_resolution = m.last_resolution
      /\ t.episodes = m.episodes
      /\ m.is_active => t.alert_window_count = s.alert_window_count + 1
      /\ ~m.is_active => t.alert_window_count = s.alert_window_count
  BY <1>1, <1>4, <1>5 DEF SimStates
<1> QED
  BY <1>1, <1>2, <1>3, <1>6

(* The simulation opens or merges exactly when the online machine opens or     *)
(* reopens, and resolves when it resolves.                                     *)
LEMMA AgreesKept ==
  ASSUME NEW s \in SimStates, NEW n \in Nat, NEW st \in AlertStates,
         ResolutionNamed(st), Agrees(s, n, st),
         NEW d \in Decision, NEW r, NEW new, NEW next \in AlertStates,
         Decided(r, new, st, next, d),
         NEW t, t = simulate_step(s, d),
         NEW m, m = IF next.active_alert_id # None THEN n + 1 ELSE n
  PROVE  /\ t \in SimStates /\ Agrees(t, m, next)
         /\ \/ SameAlerts(r, new) /\ t.episodes = s.episodes
            \/ \E action \in AlertActions, alert \in Windows :
                 /\ Effect(r, new, d, action, alert)
                 /\ action = "OPENED" => t.episodes = s.episodes + 1
                 /\ action # "OPENED" => t.episodes = s.episodes
<1>1. /\ st.anomaly_streak \in Nat /\ st.normal_streak \in Nat
      /\ Persistence \in Nat \ {0} /\ Cooldown \in Nat \ {0}
  BY PolicyAssumption, StateFields
<1>2. /\ s.is_active <=> st.active_alert_id # None
      /\ s.anomaly_streak = st.anomaly_streak /\ s.normal_streak = st.normal_streak
      /\ s.alert_window_count = n
      /\ ~s.is_active => s.last_resolution = st.resolved_at
  BY DEF Agrees
<1>3. /\ t \in SimStates
      /\ t.is_active => t.alert_window_count = n + 1
      /\ ~t.is_active => t.alert_window_count = n
  BY <1>2, SimStep
<1>4. d.is_anomaly =>
        /\ t.is_active <=> s.is_active \/ s.anomaly_streak + 1 >= Persistence
        /\ t.anomaly_streak = s.anomaly_streak + 1 /\ t.normal_streak = 0
        /\ t.last_resolution = s.last_resolution
        /\ (~s.is_active /\ s.anomaly_streak + 1 >= Persistence
             /\ ~is_merged(s, d.ts)) => t.episodes = s.episodes + 1
        /\ ~(~s.is_active /\ s.anomaly_streak + 1 >= Persistence
             /\ ~is_merged(s, d.ts)) => t.episodes = s.episodes
  BY SimStep
<1>5. ~d.is_anomaly =>
        /\ t.is_active <=> s.is_active /\ ~(s.normal_streak + 1 >= Cooldown)
        /\ t.anomaly_streak = 0 /\ t.normal_streak = s.normal_streak + 1
        /\ (s.is_active /\ s.normal_streak + 1 >= Cooldown) => t.last_resolution = d.ts
        /\ ~(s.is_active /\ s.normal_streak + 1 >= Cooldown) =>
             t.last_resolution = s.last_resolution
        /\ t.episodes = s.episodes
  BY SimStep
<1>6. ASSUME t.is_active <=> next.active_alert_id # None,
             t.anomaly_streak = next.anomaly_streak, t.normal_streak = next.normal_streak,
             ~t.is_active => t.last_resolution = next.resolved_at
      PROVE  Agrees(t, m, next)
  BY <1>3, <1>6 DEF Agrees
<1>7. CASE SameAlerts(r, new) /\ CountedStep(st, next, d)
  <2>1. ~(s.anomaly_streak + 1 >= Persistence) /\ d.is_anomaly /\ ~s.is_active
    BY <1>1, <1>2, <1>7 DEF CountedStep
  <2>2. t.episodes = s.episodes /\ ~t.is_active
    BY <1>4, <2>1
  <2>3. Agrees(t, m, next)
    BY <1>2, <1>4, <1>6, <1>7, <2>1, <2>2 DEF CountedStep
  <2> QED
    BY <1>3, <1>7, <2>2, <2>3
<1>8. CASE SameAlerts(r, new) /\ CalmStep(st, next, d)
  <2>1. ~d.is_anomaly /\ (s.is_active => ~(s.normal_streak + 1 >= Cooldown))
    BY <1>1, <1>2, <1>8 DEF CalmStep
  <2>2. t.episodes = s.episodes /\ (t.is_active <=> s.is_active)
        /\ t.last_resolution = s.last_resolution
    BY <1>5, <2>1
  <2>3. Agrees(t, m, next)
    BY <1>2, <1>5, <1>6, <1>8, <2>1, <2>2 DEF CalmStep
  <2> QED
    BY <1>3, <1>8, <2>2, <2>3
<1>9. CASE \E action \in AlertActions, alert \in Windows :
             Effect(r, new, d, action, alert) /\ EmittedStep(st, next, d, action, alert)
  <2>1. PICK action \in AlertActions, alert \in Windows :
               Effect(r, new, d, action, alert) /\ EmittedStep(st, next, d, action, alert)
    BY <1>9
  <2>2. next.active_alert_id # None /\ d.is_anomaly
    BY <2>1, HorizonAssumption DEF EmittedStep, Windows, None
  <2>3. action = "UPDATED" \/ s.anomaly_streak + 1 >= Persistence
    BY <1>1, <1>2, <2>1 DEF EmittedStep
  <2>4. action = "UPDATED" <=> s.is_active
    BY <1>2, <2>1 DEF EmittedStep
  <2>5. t.is_active
    BY <1>4, <2>2, <2>3, <2>4
  <2>6. Agrees(t, m, next)
    BY <1>2, <1>4, <1>6, <2>1, <2>2, <2>5 DEF EmittedStep
  <2>7. action # "UPDATED" => (action = "REOPENED" <=> is_merged(s, d.ts))
    <3> SUFFICES ASSUME action # "UPDATED"
                 PROVE  is_reopen(st, d) <=> is_merged(s, d.ts)
      BY <2>1 DEF EmittedStep
    <3>1. st.active_alert_id = None /\ s.last_resolution = st.resolved_at
      BY <1>2, <2>4
    <3>2. st.resolved_at # None => st.previous_alert_id # None
      BY <3>1 DEF ResolutionNamed
    <3> QED
      BY <3>1, <3>2 DEF is_reopen, is_merged
  <2>8. action \in {"OPENED", "REOPENED", "UPDATED"}
    BY <2>1 DEF EmittedStep
  <2>9. /\ action = "OPENED" => t.episodes = s.episodes + 1
        /\ action # "OPENED" => t.episodes = s.episodes
    BY <1>4, <2>2, <2>3, <2>4, <2>7, <2>8
  <2> QED
    BY <1>3, <2>1, <2>6, <2>9
<1>10. CASE \E alert \in Windows :
              Effect(r, new, d, "RESOLVED", alert) /\ ResolvedStep(st, next, d)
  <2>1. PICK alert \in Windows :
               Effect(r, new, d, "RESOLVED", alert) /\ ResolvedStep(st, next, d)
    BY <1>10
  <2>2. ~d.is_anomaly /\ s.is_active /\ s.normal_streak + 1 >= Cooldown
    BY <1>2, <2>1 DEF ResolvedStep
  <2>3. ~t.is_active /\ t.last_resolution = d.ts /\ t.episodes = s.episodes
    BY <1>5, <2>2
  <2>4. Agrees(t, m, next)
    BY <1>2, <1>5, <1>6, <2>1, <2>2, <2>3 DEF ResolvedStep
  <2>5. "RESOLVED" \in AlertActions /\ "RESOLVED" # "OPENED"
    BY DEF AlertActions
  <2> QED
    BY <1>3, <2>1, <2>3, <2>4, <2>5
<1> QED
  BY <1>7, <1>8, <1>9, <1>10 DEF Decided

(* Only OPENED adds an alert, and it adds one. *)
LEMMA EpisodesKept ==
  ASSUME NEW r \in SessionRows, NEW d \in Decision, NEW new, NEW action, NEW alert,
         Effect(r, new, d, action, alert),
         \A e \in r.events : e.decision < d.ts,
         IsFiniteSet(Openings(r))
  PROVE  /\ action = "OPENED" =>
              /\ Cardinality(Present(new)) = Cardinality(Present(r)) + 1
              /\ Cardinality(Openings(new)) = Cardinality(Openings(r)) + 1
         /\ action # "OPENED" => Present(new) = Present(r) /\ Openings(new) = Openings(r)
         /\ IsFiniteSet(Openings(new))
<1> DEFINE y == [alert |-> alert, decision |-> d.ts, action |-> action]
<1>1. /\ alert \in Windows
      /\ \A a \in Windows : a # alert => new.alerts[a] = r.alerts[a]
      /\ new.alerts[alert].state # "ABSENT"
      /\ new.events = r.events \cup {y} /\ y.decision = d.ts /\ y.action = action
      /\ action = "OPENED" <=> r.alerts[alert].state = "ABSENT"
  BY DEF Effect
<1>2. IsFiniteSet(Present(r))
  <2>1. IsFiniteSet(Windows)
    BY FS_Interval, HorizonAssumption DEF Windows
  <2> QED
    BY <2>1, FS_Subset DEF Present
<1>3. y \notin r.events
  <2>1. d.ts \in Nat
    BY HorizonAssumption DEF Decision, Windows
  <2> QED
    BY <1>1, <2>1
<1> HIDE DEF y
<1>4. CASE action = "OPENED"
  <2>1. Present(new) = Present(r) \cup {alert} /\ alert \notin Present(r)
    BY <1>1, <1>4 DEF Present
  <2>2. Openings(new) = Openings(r) \cup {y} /\ y \notin Openings(r)
    BY <1>1, <1>3, <1>4 DEF Openings
  <2> QED
    <3>1. Cardinality(Present(new)) = Cardinality(Present(r)) + 1
      BY ONLY <1>2, <2>1, FS_AddElement
    <3>2. IsFiniteSet(Openings(new)) /\ Cardinality(Openings(new)) = Cardinality(Openings(r)) + 1
      BY ONLY IsFiniteSet(Openings(r)), <2>2, FS_AddElement
    <3> QED
      BY ONLY <1>4, <3>1, <3>2
<1>5. CASE action # "OPENED"
  BY <1>1, <1>5 DEF Present, Openings
<1> QED
  BY <1>4, <1>5

(* -------------------------- redelivery and upgrade ------------------------- *)

(* Delivering the last decision again changes nothing of the story. *)
LEMMA RedeliveryStory ==
  ASSUME NEW r, StoryInv(r), NEW st, st = load_alert_state(r),
         NEW d \in Decision, Redelivered(st, d),
         NEW got, got = transition(st, d),
         NEW new, new = record_decision_transition(r, d, got)
  PROVE  StoryInv(new) /\ SameAlerts(r, new) /\ load_alert_state(new) = st
<1>1. /\ Sound(r) /\ Replayed(r) /\ r \in SessionRows /\ SoundState(st)
      /\ st \in AlertStates /\ st.last_decision_id = st.last_source_timestamp
  BY DEF StoryInv, Sound, SoundState
<1>2. got.state = st /\ got.event = NoEvent
  BY DEF transition, Quiet
<1>3. /\ new \in SessionRows /\ new.runtime = st /\ SameAlerts(r, new)
  BY <1>1, <1>2, QuietRecord DEF SameAlerts
<1>4. new.decisions = r.decisions
  <2>1. d.ts = st.last_source_timestamp /\ d.ts # None
    BY <1>1, HorizonAssumption DEF Redelivered, decision_id, Decision, Windows, None
  <2>2. \E x \in r.decisions : x.ts = d.ts
    BY <1>1, <2>1 DEF Replayed
  <2> QED
    BY <1>1, <2>2, RecordStores
<1>5. new.runtime # NoState /\ load_alert_state(new) = st
  BY <1>1, <1>3, NoStateAssumption DEF load_alert_state
<1> QED
  BY <1>3, <1>4, <1>5, SameStory

(* Dropping the state row changes nothing of the story: the next load replays  *)
(* the decisions to the state that was dropped.                                *)
LEMMA UpgradeStory ==
  ASSUME NEW r \in SessionRows, StoryInv(LoadedRows(r)),
         NEW new, new = [r EXCEPT !.runtime = NoState]
  PROVE  /\ new \in SessionRows /\ StoryInv(LoadedRows(new)) /\ SameAlerts(r, new)
         /\ load_alert_state(new) = load_alert_state(r)
<1> DEFINE l == LoadedRows(r)
<1> DEFINE m == LoadedRows(new)
<1> DEFINE st == load_alert_state(r)
<1>1. /\ new \in SessionRows /\ new.runtime = NoState
      /\ new.decisions = r.decisions /\ SameAlerts(r, new)
  BY DEF SessionRows, SameAlerts
<1>2. /\ l.decisions = r.decisions /\ SameAlerts(r, l) /\ load_alert_state(l) = st
  BY LoadedFields DEF SameAlerts
<1>3. Sound(l) /\ Replayed(l) /\ st \in AlertStates
  BY <1>2 DEF StoryInv, Sound, SoundState
<1> HIDE DEF l, st
<1>4. st = reconstruct_alert_state(r.decisions)
  BY <1>2, <1>3, LoadedIsReplay DEF Replayed
<1>5. load_alert_state(new) = st
  BY <1>1, <1>4, ReconstructNothing DEF load_alert_state
<1>6. /\ m.decisions = new.decisions /\ SameAlerts(new, m)
      /\ load_alert_state(m) = load_alert_state(new)
  BY <1>1, LoadedFields DEF SameAlerts
<1>7. /\ m \in SessionRows
      /\ m.runtime = NoState => m.decisions = {}
      /\ m.runtime # NoState => m.runtime = st
  <2>1. CASE new.decisions = {}
    BY <1>1, <2>1 DEF LoadedRows
  <2>2. CASE new.decisions # {}
    <3>1. m = [new EXCEPT !.runtime = st]
      BY <1>1, <1>4, <2>2 DEF LoadedRows
    <3> HIDE DEF m
    <3>2. m \in SessionRows /\ m.runtime = st
      BY <1>1, <1>3, <3>1 DEF SessionRows
    <3> QED
      BY <1>3, <3>2, NoStateAssumption
  <2> QED
    BY <2>1, <2>2
<1>8. SameAlerts(l, m)
  BY <1>1, <1>2, <1>6 DEF SameAlerts
<1> HIDE DEF m
<1>9. StoryInv(m)
  <2>1. StoryInv(l)
    BY DEF l
  <2> QED
    BY <1>1, <1>2, <1>5, <1>6, <1>7, <1>8, <2>1, SameStory
<1> QED
  BY <1>1, <1>5, <1>9 DEF m, st

(* ------------------------------ the theorems ------------------------------- *)

(* A session that was never written and a simulation that has not begun. *)
LEMMA StreamInit == Init => StreamInv
<1> SUFFICES ASSUME Init PROVE StreamInv
  OBVIOUS
<1>1. rows = NoRows /\ sim = SimStart /\ inAlert = 0
  BY DEF Init
<1>2. /\ NoRows \in SessionRows /\ NoRows.decisions = {} /\ NoRows.runtime = NoState
      /\ NoRows.events = {} /\ NoRows.evidence = {} /\ NoRows.outbox = {}
      /\ \A a \in Windows : NoRows.alerts[a].state = "ABSENT"
  BY NoRowsSound DEF Sound, NoRows, NoAlert
<1>3. LoadedRows(NoRows) = NoRows /\ load_alert_state(NoRows) = empty
  BY <1>2 DEF LoadedRows, load_alert_state
<1>4. LegalHistories(NoRows)
  <2> SUFFICES ASSUME NEW a \in Windows
               PROVE  LegalHistory({e \in NoRows.events : e.alert = a}, NoRows.alerts[a])
    BY DEF LegalHistories
  <2>1. {e \in NoRows.events : e.alert = a} = {}
    BY <1>2
  <2>2. NoRows.alerts[a].state = "ABSENT"
    BY <1>2
  <2> QED
    BY <2>1, <2>2 DEF LegalHistory
<1>5. Traceable(NoRows)
  BY <1>2 DEF Traceable
<1>6. StreakStored(NoRows, empty) /\ ResolutionNamed(empty)
  BY DEF StreakStored, ResolutionNamed, empty, None
<1>7. StoryInv(NoRows)
  BY <1>3, <1>4, <1>5, <1>6, NoRowsSound, NoRowsReplayed DEF StoryInv
<1>8. SimStart \in SimStates
  BY DEF SimStart, SimStates, None
<1>9. Agrees(SimStart, 0, empty)
  BY DEF Agrees, SimStart, empty, None
<1>10. Present(NoRows) = {} /\ Openings(NoRows) = {}
  BY <1>2 DEF Present, Openings
<1>11. SimStart.episodes = 0
  BY DEF SimStart
<1> QED
  BY <1>1, <1>2, <1>3, <1>7, <1>8, <1>9, <1>10, <1>11, FS_EmptySet
     DEF StreamInv, Loaded, State

(* What a step leaves alone keeps the counts. *)
LEMMA SameCounts ==
  ASSUME NEW r, NEW new, SameAlerts(r, new)
  PROVE  Present(new) = Present(r) /\ Openings(new) = Openings(r)
  BY DEF Present, Openings, SameAlerts

(* Every step keeps the invariant. *)
LEMMA StreamStep == StreamInv /\ [Next \/ Upgrade]_vars => StreamInv'
<1> SUFFICES ASSUME StreamInv, [Next \/ Upgrade]_vars PROVE StreamInv'
  OBVIOUS
<1> DEFINE st == State
<1>1. /\ rows \in SessionRows /\ sim \in SimStates /\ inAlert \in Nat
      /\ StoryInv(Loaded) /\ Agrees(sim, inAlert, st)
      /\ IsFiniteSet(Openings(rows))
      /\ sim.episodes = Cardinality(Present(rows))
      /\ sim.episodes = Cardinality(Openings(rows))
  BY DEF StreamInv
<1>2. /\ SameAlerts(rows, Loaded) /\ load_alert_state(Loaded) = st
  BY <1>1, LoadedFields DEF SameAlerts, Loaded, State
<1>3. /\ Loaded \in SessionRows /\ Sound(Loaded) /\ st \in AlertStates
      /\ SoundState(st) /\ ResolutionNamed(st)
  BY <1>1, <1>2 DEF StoryInv, Sound, SoundState
<1>4. Present(Loaded) = Present(rows) /\ Openings(Loaded) = Openings(rows)
  BY <1>2, SameCounts
<1> HIDE DEF st
<1>5. ASSUME NEW d \in Decision, Score(d) PROVE StreamInv'
  <2> DEFINE got == transition(st, d)
  <2>1. /\ ~Redelivered(st, d) /\ ~OrderingViolation(st, d)
        /\ rows' = record_decision_transition(Loaded, d, got)
        /\ sim' = simulate_step(sim, d)
        /\ inAlert' = IF got.state.active_alert_id # None THEN inAlert + 1 ELSE inAlert
    BY <1>5 DEF Score, Deliver, Loaded, st
  <2> HIDE DEF got
  <2>2. st.last_source_timestamp \in 0..Horizon /\ d.ts \in 1..Horizon
    BY <1>3, StateFields DEF Decision, Windows
  <2>3. st.last_source_timestamp < d.ts
    BY <2>1, <2>2, HorizonAssumption DEF OrderingViolation, None
  <2>4. /\ StoryInv(rows') /\ load_alert_state(rows') = got.state
        /\ got.state \in AlertStates
        /\ Decided(Loaded, rows', st, got.state, d)
    BY <1>1, <1>2, <2>1, <2>3, StoryKept DEF got
  <2>5. rows' \in SessionRows /\ LoadedRows(rows') = rows'
    BY <2>4, SoundLoads DEF StoryInv, Sound
  <2>6. Loaded' = rows' /\ State' = got.state
    BY <2>4, <2>5 DEF Loaded, State
  <2>7. /\ sim' \in SimStates /\ Agrees(sim', inAlert', got.state)
        /\ \/ SameAlerts(Loaded, rows') /\ sim'.episodes = sim.episodes
           \/ \E action \in AlertActions, alert \in Windows :
                /\ Effect(Loaded, rows', d, action, alert)
                /\ action = "OPENED" => sim'.episodes = sim.episodes + 1
                /\ action # "OPENED" => sim'.episodes = sim.episodes
    BY <1>1, <1>3, <2>1, <2>4, AgreesKept
  <2>8. inAlert' \in Nat
    BY <1>1, <2>1
  <2>9. \A e \in Loaded.events : e.decision < d.ts
    BY <1>2, <1>3, <2>3, EventsBefore
  <2>10. /\ IsFiniteSet(Openings(rows'))
         /\ sim'.episodes = Cardinality(Present(rows'))
         /\ sim'.episodes = Cardinality(Openings(rows'))
    <3>1. CASE SameAlerts(Loaded, rows') /\ sim'.episodes = sim.episodes
      BY <1>1, <1>4, <3>1, SameCounts
    <3>2. CASE \E action \in AlertActions, alert \in Windows :
                 /\ Effect(Loaded, rows', d, action, alert)
                 /\ action = "OPENED" => sim'.episodes = sim.episodes + 1
                 /\ action # "OPENED" => sim'.episodes = sim.episodes
      <4>1. PICK action \in AlertActions, alert \in Windows :
                 /\ Effect(Loaded, rows', d, action, alert)
                 /\ action = "OPENED" => sim'.episodes = sim.episodes + 1
                 /\ action # "OPENED" => sim'.episodes = sim.episodes
        BY <3>2
      <4>2. IsFiniteSet(Openings(Loaded))
        BY <1>1, <1>4
      <4>3. /\ action = "OPENED" =>
                 /\ Cardinality(Present(rows')) = Cardinality(Present(Loaded)) + 1
                 /\ Cardinality(Openings(rows')) = Cardinality(Openings(Loaded)) + 1
            /\ action # "OPENED" =>
                 Present(rows') = Present(Loaded) /\ Openings(rows') = Openings(Loaded)
            /\ IsFiniteSet(Openings(rows'))
        BY <1>3, <2>9, <4>1, <4>2, EpisodesKept
      <4> QED
        BY <1>1, <1>4, <4>1, <4>3
    <3> QED
      BY <2>7, <3>1, <3>2
  <2> QED
    BY <2>4, <2>5, <2>6, <2>7, <2>8, <2>10 DEF StreamInv
<1>6. ASSUME NEW d \in Decision, Redeliver(d) PROVE StreamInv'
  <2>1. /\ Redelivered(st, d)
        /\ rows' = record_decision_transition(Loaded, d, transition(st, d))
        /\ sim' = sim /\ inAlert' = inAlert
    BY <1>6 DEF Redeliver, Deliver, Loaded, st
  <2>2. StoryInv(rows') /\ SameAlerts(Loaded, rows') /\ load_alert_state(rows') = st
    BY <1>1, <1>2, <2>1, RedeliveryStory
  <2>3. rows' \in SessionRows /\ LoadedRows(rows') = rows'
    BY <2>2, SoundLoads DEF StoryInv, Sound
  <2>4. Loaded' = rows' /\ State' = st
    BY <2>2, <2>3 DEF Loaded, State
  <2>5. Present(rows') = Present(rows) /\ Openings(rows') = Openings(rows)
    BY <1>4, <2>2, SameCounts
  <2> QED
    BY <1>1, <2>1, <2>2, <2>3, <2>4, <2>5 DEF StreamInv
<1>7. CASE Upgrade
  <2>1. rows' = [rows EXCEPT !.runtime = NoState] /\ sim' = sim /\ inAlert' = inAlert
    BY <1>7 DEF Upgrade
  <2>2. /\ rows' \in SessionRows /\ StoryInv(LoadedRows(rows')) /\ SameAlerts(rows, rows')
        /\ load_alert_state(rows') = load_alert_state(rows)
    BY <1>1, <2>1, UpgradeStory DEF Loaded
  <2>3. Loaded' = LoadedRows(rows') /\ State' = st
    BY <2>2 DEF Loaded, State, st
  <2>4. Present(rows') = Present(rows) /\ Openings(rows') = Openings(rows)
    BY <2>2, SameCounts
  <2> QED
    BY <1>1, <2>1, <2>2, <2>3, <2>4 DEF StreamInv
<1>8. CASE UNCHANGED vars
  <2>1. rows' = rows /\ sim' = sim /\ inAlert' = inAlert
    BY <1>8 DEF vars
  <2>2. Loaded' = Loaded /\ State' = st
    BY <2>1 DEF Loaded, State, st
  <2> QED
    BY <1>1, <2>1, <2>2 DEF StreamInv
<1> QED
  BY <1>5, <1>6, <1>7, <1>8 DEF Next

(* The invariant holds throughout. *)
LEMMA StreamInvariant == UpgradeSpec => []StreamInv
  BY StreamInit, StreamStep, PTL DEF UpgradeSpec

(* Whatever policy is being calibrated and however long the session, the      *)
(* simulation of alert_policy.py is in alert, counts its streaks, merges and  *)
(* counts episodes exactly as the alert service's state machine and store do, *)
(* redeliveries and the upgrade included.                                     *)
THEOREM SimulationAlwaysAgrees == UpgradeSpec => []SimulationAgrees
<1>1. StreamInv => SimulationAgrees
  BY DEF StreamInv, Agrees, SimulationAgrees, CalibrationAgrees, EpisodesAreAlerts,
         Present, Openings, Opened
<1> QED
  BY <1>1, StreamInvariant, PTL

(* The rows of a session tell one story throughout: the open alert is the     *)
(* state machine's active one, every alert's events are a legal lifecycle,    *)
(* every event is traceable to stored decisions and has its evidence and      *)
(* outbox rows; the state rebuilt after the upgrade fits the rows kept.       *)
THEOREM AlertRowsAlwaysAgree == UpgradeSpec => []AlertRowsAgree
<1>1. StreamInv => AlertRowsAgree
  <2> SUFFICES ASSUME StreamInv PROVE AlertRowsAgree
    OBVIOUS
  <2>1. /\ Loaded.decisions = rows.decisions /\ Loaded.alerts = rows.alerts
        /\ Loaded.events = rows.events /\ Loaded.evidence = rows.evidence
        /\ Loaded.outbox = rows.outbox
        /\ load_alert_state(Loaded) = load_alert_state(rows)
    BY LoadedFields DEF StreamInv, Loaded
  <2>2. OpenIsActive(Loaded) /\ LegalHistories(Loaded) /\ Traceable(Loaded)
    BY SoundOpenIsActive DEF StreamInv, StoryInv
  <2>3. OpenIsActive(rows)
    BY <2>1, <2>2 DEF OpenIsActive
  <2>4. LegalHistories(rows)
    BY <2>1, <2>2 DEF LegalHistories
  <2>5. Traceable(rows)
    BY <2>1, <2>2 DEF Traceable
  <2>6. TypeOK
    BY DEF StreamInv, TypeOK
  <2> QED
    BY <2>3, <2>4, <2>5, <2>6
       DEF AlertRowsAgree, OpenAlertIsActive, AlertHistories, TraceableAlerts
<1> QED
  BY <1>1, StreamInvariant, PTL


(* --------------------------- the grid of policies -------------------------- *)

SimRecords ==
  [is_active : BOOLEAN, anomaly_streak : Nat, normal_streak : Nat,
   last_resolution : Nat, episodes : Nat, alert_window_count : Nat]

(* The candidate k's simulation of one score. *)
LEMMA CandidateStep ==
  ASSUME NEW k \in Grid!Candidates, NEW s \in SimRecords, NEW ts \in Nat, NEW x \in BOOLEAN,
         NEW t, t = Grid!Sim(k.persistence, k.cooldown, k.gap)!simulate_step(
                      s, [ts |-> ts, is_anomaly |-> x])
  PROVE  /\ t \in SimRecords
         /\ t.is_active => t.alert_window_count = s.alert_window_count + 1
         /\ ~t.is_active => t.alert_window_count = s.alert_window_count
         /\ x => /\ t.is_active <=> s.is_active \/ s.anomaly_streak + 1 >= k.persistence
                 /\ t.anomaly_streak = s.anomaly_streak + 1 /\ t.normal_streak = 0
                 /\ t.last_resolution = s.last_resolution
         /\ ~x => /\ t.is_active <=> s.is_active /\ ~(s.normal_streak + 1 >= k.cooldown)
                  /\ t.anomaly_streak = 0 /\ t.normal_streak = s.normal_streak + 1
                  /\ (s.is_active /\ ~t.is_active) => t.last_resolution = ts
                  /\ ~(s.is_active /\ ~t.is_active) => t.last_resolution = s.last_resolution
         /\ t.episodes = s.episodes \/ t.episodes = s.episodes + 1
         /\ t.episodes = s.episodes + 1 <=>
              /\ x /\ ~s.is_active /\ t.is_active
              /\ ~(s.last_resolution # 0 /\ k.gap > 0 /\ ts - s.last_resolution <= k.gap)
<1> DEFINE d == [ts |-> ts, is_anomaly |-> x]
<1> DEFINE P == k.persistence
<1> DEFINE C == k.cooldown
<1> DEFINE G == k.gap
<1> DEFINE merged == s.last_resolution # 0 /\ G > 0 /\ ts - s.last_resolution <= G
<1>1. /\ s.anomaly_streak \in Nat /\ s.normal_streak \in Nat /\ s.episodes \in Nat
      /\ s.alert_window_count \in Nat /\ s.is_active \in BOOLEAN
      /\ s.last_resolution \in Nat
      /\ s.anomaly_streak + 1 \in Nat /\ s.normal_streak + 1 \in Nat
      /\ s.episodes + 1 \in Nat /\ s.alert_window_count + 1 \in Nat /\ 0 \in Nat
  BY DEF SimRecords
<1>2. P \in Nat /\ C \in Nat /\ G \in Nat
  BY GridAssumption DEF Grid!Candidates
<1>3. d.ts = ts /\ d.is_anomaly = x
  OBVIOUS
<1> HIDE DEF d, P, C, G
<1> DEFINE m == IF x THEN Grid!Sim(P, C, G)!step_anomaly(s, ts)
                     ELSE Grid!Sim(P, C, G)!step_normal(s, ts)
<1>4. t = [m EXCEPT !.alert_window_count = IF m.is_active THEN @ + 1 ELSE @]
  BY <1>3 DEF Grid!Sim!simulate_step, d, P, C, G
<1>5. Grid!Sim(P, C, G)!is_merged(s, ts) <=> merged
  BY DEF Grid!Sim!is_merged, Grid!Sim!None, G
<1>6. ASSUME x
      PROVE  /\ m \in SimRecords
             /\ m.is_active <=> s.is_active \/ s.anomaly_streak + 1 >= P
             /\ m.anomaly_streak = s.anomaly_streak + 1 /\ m.normal_streak = 0
             /\ m.last_resolution = s.last_resolution
             /\ m.alert_window_count = s.alert_window_count
             /\ (~s.is_active /\ m.is_active /\ ~merged) => m.episodes = s.episodes + 1
             /\ ~(~s.is_active /\ m.is_active /\ ~merged) => m.episodes = s.episodes
  <2> DEFINE trig == ~s.is_active /\ s.anomaly_streak + 1 >= P
  <2> DEFINE act == s.is_active \/ trig
  <2> DEFINE ep == IF trig /\ ~Grid!Sim(P, C, G)!is_merged(s, ts)
                     THEN s.episodes + 1 ELSE s.episodes
  <2>1. m = [s EXCEPT !.is_active = act, !.anomaly_streak = s.anomaly_streak + 1,
                      !.normal_streak = 0, !.episodes = ep]
    BY <1>6 DEF Grid!Sim!step_anomaly
  <2>2. act \in BOOLEAN /\ ep \in Nat
    BY <1>1
  <2>3. act <=> s.is_active \/ s.anomaly_streak + 1 >= P
    BY <1>1
  <2>4. /\ trig /\ ~merged => ep = s.episodes + 1
        /\ ~(trig /\ ~merged) => ep = s.episodes
    BY <1>5
  <2>5. trig <=> ~s.is_active /\ act
    BY <1>1
  <2> HIDE DEF m, act, ep, trig, merged
  <2>6. /\ m \in SimRecords /\ m.is_active = act
        /\ m.anomaly_streak = s.anomaly_streak + 1 /\ m.normal_streak = 0
        /\ m.last_resolution = s.last_resolution
        /\ m.alert_window_count = s.alert_window_count /\ m.episodes = ep
    BY <1>1, <2>1, <2>2 DEF SimRecords
  <2> QED
    BY <2>3, <2>4, <2>5, <2>6
<1>7. ASSUME ~x
      PROVE  /\ m \in SimRecords
             /\ m.is_active <=> s.is_active /\ ~(s.normal_streak + 1 >= C)
             /\ m.anomaly_streak = 0 /\ m.normal_streak = s.normal_streak + 1
             /\ m.alert_window_count = s.alert_window_count
             /\ (s.is_active /\ ~m.is_active) => m.last_resolution = ts
             /\ ~(s.is_active /\ ~m.is_active) => m.last_resolution = s.last_resolution
             /\ m.episodes = s.episodes
  <2> DEFINE res == s.is_active /\ s.normal_streak + 1 >= C
  <2> DEFINE act == s.is_active /\ ~res
  <2> DEFINE at == IF res THEN ts ELSE s.last_resolution
  <2>1. m = [s EXCEPT !.is_active = act, !.anomaly_streak = 0,
                      !.normal_streak = s.normal_streak + 1, !.last_resolution = at]
    BY <1>7 DEF Grid!Sim!step_normal
  <2>2. act \in BOOLEAN /\ at \in Nat
    BY <1>1
  <2>3. act <=> s.is_active /\ ~(s.normal_streak + 1 >= C)
    OBVIOUS
  <2>4. (res => at = ts) /\ (~res => at = s.last_resolution) /\ (res <=> s.is_active /\ ~act)
    BY <1>1
  <2> HIDE DEF m, act, at, res
  <2>5. /\ m \in SimRecords /\ m.is_active = act
        /\ m.anomaly_streak = 0 /\ m.normal_streak = s.normal_streak + 1
        /\ m.last_resolution = at
        /\ m.alert_window_count = s.alert_window_count /\ m.episodes = s.episodes
    BY <1>1, <2>1, <2>2 DEF SimRecords
  <2> QED
    BY <2>3, <2>4, <2>5
<1>8. m \in SimRecords /\ m.alert_window_count = s.alert_window_count
  BY <1>6, <1>7
<1> HIDE DEF m, merged
<1>9. /\ t \in SimRecords
      /\ t.is_active = m.is_active /\ t.anomaly_streak = m.anomaly_streak
      /\ t.normal_streak = m.normal_streak /\ t.last_resolution = m.last_resolution
      /\ t.episodes = m.episodes
      /\ m.is_active => t.alert_window_count = s.alert_window_count + 1
      /\ ~m.is_active => t.alert_window_count = s.alert_window_count
  BY <1>1, <1>4, <1>8 DEF SimRecords
<1>10. /\ t.episodes = s.episodes \/ t.episodes = s.episodes + 1
       /\ t.episodes = s.episodes + 1 <=> x /\ ~s.is_active /\ t.is_active /\ ~merged
  BY <1>1, <1>6, <1>7, <1>9
<1> QED
  BY <1>6, <1>7, <1>9, <1>10 DEF P, C, G, merged

(* Whatever the scores, a needs no more anomalies than b to open an alert and  *)
(* no fewer normal decisions to resolve it.                                    *)
MoreSensitive(a, b) == a.persistence <= b.persistence /\ a.cooldown >= b.cooldown

(* What that means for their simulations s and u of the same scores: a is in   *)
(* alert whenever b is, and while it is not, it resolved no earlier than b.    *)
Dominates(s, u) ==
  /\ u.is_active => s.is_active
  /\ s.alert_window_count >= u.alert_window_count
  /\ ~s.is_active => s.last_resolution >= u.last_resolution

(* Two simulations of the same scores count the same streaks. *)
InStep(s, u) ==
  s.anomaly_streak = u.anomaly_streak /\ s.normal_streak = u.normal_streak

(* One more score keeps two simulations in step and ordered. *)
LEMMA PairStep ==
  ASSUME NEW a \in Grid!Candidates, NEW b \in Grid!Candidates,
         NEW s \in SimRecords, NEW u \in SimRecords, InStep(s, u),
         NEW ts \in Nat, s.last_resolution <= ts, u.last_resolution <= ts,
         NEW x \in BOOLEAN, NEW t, NEW v,
         t = Grid!Sim(a.persistence, a.cooldown, a.gap)!simulate_step(
               s, [ts |-> ts, is_anomaly |-> x]),
         v = Grid!Sim(b.persistence, b.cooldown, b.gap)!simulate_step(
               u, [ts |-> ts, is_anomaly |-> x])
  PROVE  /\ InStep(t, v)
         /\ MoreSensitive(a, b) /\ Dominates(s, u) => Dominates(t, v)
         /\ (/\ a.persistence = b.persistence /\ a.cooldown >= b.cooldown
             /\ a.gap >= b.gap /\ Dominates(s, u) /\ s.episodes <= u.episodes)
              => t.episodes <= v.episodes
<1>1. /\ a.persistence \in Nat /\ a.cooldown \in Nat /\ a.gap \in Nat
      /\ b.persistence \in Nat /\ b.cooldown \in Nat /\ b.gap \in Nat
  BY GridAssumption DEF Grid!Candidates
<1>2. /\ s.anomaly_streak \in Nat /\ s.normal_streak \in Nat /\ s.episodes \in Nat
      /\ s.alert_window_count \in Nat /\ s.is_active \in BOOLEAN /\ s.last_resolution \in Nat
      /\ u.anomaly_streak \in Nat /\ u.normal_streak \in Nat /\ u.episodes \in Nat
      /\ u.alert_window_count \in Nat /\ u.is_active \in BOOLEAN /\ u.last_resolution \in Nat
  BY DEF SimRecords
<1>3. /\ t.is_active => t.alert_window_count = s.alert_window_count + 1
      /\ ~t.is_active => t.alert_window_count = s.alert_window_count
      /\ x => /\ t.is_active <=> s.is_active \/ s.anomaly_streak + 1 >= a.persistence
              /\ t.anomaly_streak = s.anomaly_streak + 1 /\ t.normal_streak = 0
              /\ t.last_resolution = s.last_resolution
      /\ ~x => /\ t.is_active <=> s.is_active /\ ~(s.normal_streak + 1 >= a.cooldown)
               /\ t.anomaly_streak = 0 /\ t.normal_streak = s.normal_streak + 1
               /\ (s.is_active /\ ~t.is_active) => t.last_resolution = ts
               /\ ~(s.is_active /\ ~t.is_active) => t.last_resolution = s.last_resolution
      /\ t.episodes = s.episodes \/ t.episodes = s.episodes + 1
      /\ t.episodes = s.episodes + 1 <=>
           /\ x /\ ~s.is_active /\ t.is_active
           /\ ~(s.last_resolution # 0 /\ a.gap > 0 /\ ts - s.last_resolution <= a.gap)
  BY CandidateStep
<1>4. /\ v.is_active => v.alert_window_count = u.alert_window_count + 1
      /\ ~v.is_active => v.alert_window_count = u.alert_window_count
      /\ x => /\ v.is_active <=> u.is_active \/ u.anomaly_streak + 1 >= b.persistence
              /\ v.anomaly_streak = u.anomaly_streak + 1 /\ v.normal_streak = 0
              /\ v.last_resolution = u.last_resolution
      /\ ~x => /\ v.is_active <=> u.is_active /\ ~(u.normal_streak + 1 >= b.cooldown)
               /\ v.anomaly_streak = 0 /\ v.normal_streak = u.normal_streak + 1
               /\ (u.is_active /\ ~v.is_active) => v.last_resolution = ts
               /\ ~(u.is_active /\ ~v.is_active) => v.last_resolution = u.last_resolution
      /\ v.episodes = u.episodes \/ v.episodes = u.episodes + 1
      /\ v.episodes = u.episodes + 1 <=>
           /\ x /\ ~u.is_active /\ v.is_active
           /\ ~(u.last_resolution # 0 /\ b.gap > 0 /\ ts - u.last_resolution <= b.gap)
  BY CandidateStep
<1>5. InStep(t, v)
  BY <1>3, <1>4 DEF InStep
<1>6. ASSUME MoreSensitive(a, b), Dominates(s, u) PROVE Dominates(t, v)
  <2>1. v.is_active => t.is_active
    BY <1>1, <1>2, <1>3, <1>4, <1>6 DEF MoreSensitive, Dominates, InStep
  <2>2. t.alert_window_count >= v.alert_window_count
    BY <1>2, <1>3, <1>4, <1>6, <2>1 DEF Dominates
  <2>3. ~t.is_active => t.last_resolution >= v.last_resolution
    BY <1>1, <1>2, <1>3, <1>4, <1>6 DEF Dominates
  <2> QED
    BY <2>1, <2>2, <2>3 DEF Dominates
<1>7. ASSUME a.persistence = b.persistence, a.cooldown >= b.cooldown, a.gap >= b.gap,
             Dominates(s, u), s.episodes <= u.episodes
      PROVE  t.episodes <= v.episodes
  <2>1. CASE t.episodes = s.episodes
    BY <1>2, <1>4, <1>7, <2>1
  <2>2. CASE t.episodes = s.episodes + 1
    <3>1. /\ x /\ ~s.is_active /\ t.is_active
          /\ ~(s.last_resolution # 0 /\ a.gap > 0 /\ ts - s.last_resolution <= a.gap)
      BY <1>3, <2>2
    <3>2. ~u.is_active /\ v.is_active /\ s.last_resolution >= u.last_resolution
      BY <1>1, <1>2, <1>3, <1>4, <1>7, <3>1 DEF Dominates, InStep
    <3>3. ~(u.last_resolution # 0 /\ b.gap > 0 /\ ts - u.last_resolution <= b.gap)
      BY <1>1, <1>2, <1>7, <3>1, <3>2
    <3>4. v.episodes = u.episodes + 1
      BY <1>4, <3>1, <3>2, <3>3
    <3> QED
      BY <1>2, <1>7, <2>2, <3>4
  <2> QED
    BY <1>3, <2>1, <2>2
<1> QED
  BY <1>5, <1>6, <1>7

GridTyped ==
  /\ end \in Nat /\ locked \in SUBSET Grid!Candidates
  /\ sims \in [Grid!Candidates -> SimRecords]
  /\ first \in [Grid!Candidates -> Nat]
  /\ \A k \in Grid!Candidates :
       sims[k].last_resolution <= end /\ first[k] <= end

(* The first alert of a candidate depends on its persistence alone. *)
FirstOrdered ==
  /\ \A k \in Grid!Candidates : sims[k].is_active => first[k] # 0
  /\ \A a, b \in Grid!Candidates :
       a.persistence <= b.persistence => (first[b] # 0 => first[a] \in 1..first[b])

GridInv ==
  /\ GridTyped
  /\ \A a, b \in Grid!Candidates : InStep(sims[a], sims[b])
  /\ \A a, b \in Grid!Candidates : MoreSensitive(a, b) => Dominates(sims[a], sims[b])
  /\ Grid!EpisodesOrdered
  /\ FirstOrdered
  /\ locked # {} => locked = Grid!select_policy(research)

(* No score has been simulated. *)
LEMMA GridInit == Grid!Init => GridInv
<1> SUFFICES ASSUME Grid!Init PROVE GridInv
  OBVIOUS
<1>1. /\ end = 0 /\ locked = {}
      /\ sims = [k \in Grid!Candidates |-> Grid!Start]
      /\ first = [k \in Grid!Candidates |-> 0]
  BY DEF Grid!Init
<1>2. /\ Grid!Start \in SimRecords /\ Grid!Start.is_active = FALSE
      /\ Grid!Start.last_resolution = 0 /\ Grid!Start.alert_window_count = 0
      /\ Grid!Start.episodes = 0
  BY DEF Grid!Start, SimRecords
<1> HIDE DEF Grid!Start
<1>3. GridTyped
  BY <1>1, <1>2 DEF GridTyped
<1>4. \A a, b \in Grid!Candidates : InStep(sims[a], sims[b]) /\ Dominates(sims[a], sims[b])
  BY <1>1, <1>2 DEF InStep, Dominates
<1>5. Grid!EpisodesOrdered /\ FirstOrdered
  BY <1>1, <1>2 DEF Grid!EpisodesOrdered, FirstOrdered
<1> QED
  BY <1>1, <1>3, <1>4, <1>5 DEF GridInv

(* One more row of the score file. *)
LEMMA RowKeeps ==
  ASSUME GridInv, NEW ts \in 1..MaxWindows, NEW x \in BOOLEAN, Grid!Row(ts, x)
  PROVE  GridInv'
<1> DEFINE K == Grid!Candidates
<1> DEFINE d == [ts |-> ts, is_anomaly |-> x]
<1>1. /\ ts > end /\ end' = ts /\ locked = {} /\ locked' = {}
      /\ sims' = [k \in K |-> Grid!Sim(k.persistence, k.cooldown, k.gap)!simulate_step(
                                sims[k], d)]
      /\ first' = [k \in K |-> IF first[k] = 0 /\ sims'[k].is_active THEN ts ELSE first[k]]
  BY DEF Grid!Row, Grid!Step
<1>2. ts \in Nat /\ ts # 0
  BY GridAssumption
<1>3. /\ end \in Nat /\ sims \in [K -> SimRecords] /\ first \in [K -> Nat]
      /\ \A k \in K : sims[k].last_resolution <= end /\ first[k] <= end
  BY DEF GridInv, GridTyped
<1>4. \A k \in K : /\ sims[k] \in SimRecords /\ sims[k].last_resolution \in Nat
                   /\ sims[k].last_resolution <= ts /\ first[k] < ts /\ first[k] \in Nat
  BY <1>1, <1>2, <1>3 DEF SimRecords
<1>5. ASSUME NEW k \in K
      PROVE  /\ sims'[k] \in SimRecords /\ sims'[k].last_resolution <= ts
             /\ x => (sims'[k].is_active <=>
                        sims[k].is_active \/ sims[k].anomaly_streak + 1 >= k.persistence)
             /\ ~x => (sims'[k].is_active => sims[k].is_active)
  <2>1. sims'[k] = Grid!Sim(k.persistence, k.cooldown, k.gap)!simulate_step(sims[k], d)
    BY <1>1
  <2>2. /\ sims'[k] \in SimRecords
        /\ x => /\ sims'[k].is_active <=>
                     sims[k].is_active \/ sims[k].anomaly_streak + 1 >= k.persistence
                /\ sims'[k].last_resolution = sims[k].last_resolution
        /\ ~x => /\ sims'[k].is_active => sims[k].is_active
                 /\ \/ sims'[k].last_resolution = ts
                    \/ sims'[k].last_resolution = sims[k].last_resolution
    BY <1>2, <1>4, <2>1, CandidateStep
  <2> QED
    BY <1>2, <1>4, <2>2
<1>6. ASSUME NEW k \in K
      PROVE  /\ first[k] = 0 /\ sims'[k].is_active => first'[k] = ts
             /\ ~(first[k] = 0 /\ sims'[k].is_active) => first'[k] = first[k]
  BY <1>1
<1>7. GridTyped'
  <2>1. sims' \in [K -> SimRecords]
    BY <1>1, <1>5
  <2>2. first' \in [K -> Nat]
    BY <1>1, <1>2, <1>4
  <2>3. \A k \in K : first'[k] <= ts
    BY <1>2, <1>4, <1>6
  <2> QED
    BY <1>1, <1>2, <1>5, <2>1, <2>2, <2>3 DEF GridTyped
<1>8. ASSUME NEW a \in K, NEW b \in K
      PROVE  /\ InStep(sims'[a], sims'[b])
             /\ MoreSensitive(a, b) => Dominates(sims'[a], sims'[b])
             /\ a.persistence = b.persistence /\ a.cooldown >= b.cooldown /\ a.gap >= b.gap
                  => sims'[a].episodes <= sims'[b].episodes
  <2>1. /\ sims'[a] = Grid!Sim(a.persistence, a.cooldown, a.gap)!simulate_step(sims[a], d)
        /\ sims'[b] = Grid!Sim(b.persistence, b.cooldown, b.gap)!simulate_step(sims[b], d)
    BY <1>1
  <2>2. /\ InStep(sims[a], sims[b])
        /\ MoreSensitive(a, b) => Dominates(sims[a], sims[b])
        /\ a.persistence = b.persistence /\ a.cooldown >= b.cooldown /\ a.gap >= b.gap
             => sims[a].episodes <= sims[b].episodes
    BY DEF GridInv, Grid!EpisodesOrdered
  <2>3. a.persistence = b.persistence /\ a.cooldown >= b.cooldown => MoreSensitive(a, b)
    <3>1. a.persistence \in Nat /\ b.persistence \in Nat
      BY GridAssumption DEF Grid!Candidates
    <3> QED
      BY <3>1 DEF MoreSensitive
  <2>4. /\ InStep(sims'[a], sims'[b])
        /\ MoreSensitive(a, b) /\ Dominates(sims[a], sims[b]) => Dominates(sims'[a], sims'[b])
        /\ (/\ a.persistence = b.persistence /\ a.cooldown >= b.cooldown
            /\ a.gap >= b.gap /\ Dominates(sims[a], sims[b])
            /\ sims[a].episodes <= sims[b].episodes)
             => sims'[a].episodes <= sims'[b].episodes
    BY <1>2, <1>4, <2>1, <2>2, PairStep
  <2> QED
    BY <2>2, <2>3, <2>4
<1>9. Grid!EpisodesOrdered'
  BY <1>8 DEF Grid!EpisodesOrdered
<1>10. FirstOrdered'
  <2>1. \A k \in K : sims'[k].is_active => first'[k] # 0
    BY <1>2, <1>6
  <2>2. ASSUME NEW a \in K, NEW b \in K, a.persistence <= b.persistence, first'[b] # 0
        PROVE  first'[a] \in 1..first'[b]
    <3>1. /\ first[b] # 0 => first[a] \in 1..first[b]
          /\ sims[a].is_active => first[a] # 0
          /\ sims[b].is_active => first[b] # 0
      BY <2>2 DEF GridInv, FirstOrdered
    <3>2. CASE first[b] # 0
      BY <1>4, <1>6, <3>1, <3>2
    <3>3. CASE first[b] = 0
      <4>1. first'[b] = ts /\ sims'[b].is_active /\ ~sims[b].is_active
        BY <1>6, <2>2, <3>1, <3>3
      <4>2. x /\ sims[b].anomaly_streak + 1 >= b.persistence
        BY <1>5, <4>1
      <4>3. sims[a].anomaly_streak = sims[b].anomaly_streak
        BY DEF GridInv, InStep
      <4>4. a.persistence \in Nat /\ b.persistence \in Nat /\ sims[b].anomaly_streak \in Nat
        BY <1>4, GridAssumption DEF Grid!Candidates, SimRecords
      <4>5. sims'[a].is_active
        BY <1>5, <2>2, <4>2, <4>3, <4>4
      <4>6. first'[a] = ts \/ (first'[a] = first[a] /\ first[a] # 0)
        BY <1>6, <4>5
      <4> QED
        BY <1>2, <1>4, <4>1, <4>6
    <3> QED
      BY <3>2, <3>3
  <2> QED
    BY <2>1, <2>2 DEF FirstOrdered
<1> QED
  BY <1>1, <1>7, <1>8, <1>9, <1>10 DEF GridInv

(* Every step keeps the invariant. *)
LEMMA GridStep == GridInv /\ [Grid!Next]_(Grid!vars) => GridInv'
<1> SUFFICES ASSUME GridInv, [Grid!Next]_(Grid!vars) PROVE GridInv'
  OBVIOUS
<1>1. ASSUME NEW ts \in 1..MaxWindows, NEW x \in BOOLEAN, Grid!Row(ts, x) PROVE GridInv'
  BY <1>1, RowKeeps
<1>2. ASSUME UNCHANGED <<research, count, start, end, sims, first>>,
             locked' = locked \/ locked' = Grid!select_policy(research)
      PROVE  GridInv'
  <2>1. /\ Grid!Passing' = Grid!Passing /\ Grid!Cheapest' = Grid!Cheapest
    BY <1>2 DEF Grid!Passing, Grid!Cheapest, Grid!Passes, Grid!Cost, Grid!Duration
  <2>2. Grid!select_policy(research)' = Grid!select_policy(research)
    BY <1>2, <2>1 DEF Grid!select_policy
  <2>3. Grid!select_policy(research) \in SUBSET Grid!Candidates
    BY DEF Grid!select_policy, Grid!Earliest, Grid!Passing, Grid!Cheapest
  <2>4. GridTyped'
    BY <1>2, <2>3 DEF GridInv, GridTyped
  <2>5. Grid!EpisodesOrdered' /\ FirstOrdered'
    BY <1>2 DEF GridInv, Grid!EpisodesOrdered, FirstOrdered
  <2> QED
    BY <1>2, <2>2, <2>4, <2>5 DEF GridInv
<1>3. CASE Grid!lock_alert_policy
  BY <1>2, <1>3 DEF Grid!lock_alert_policy
<1>4. CASE UNCHANGED Grid!vars
  BY <1>2, <1>4 DEF Grid!vars
<1> QED
  BY <1>1, <1>3, <1>4 DEF Grid!Next

(* For every grid of persistences, cooldowns and merge gaps, every score file  *)
(* and every gate: the grid is ordered by sensitivity, select_policy takes the *)
(* most sensitive candidate that passes, and only a research package may lock  *)
(* one that does not.                                                          *)
THEOREM LockedAlwaysMostSensitive == Grid!Spec => []LockedIsMostSensitive
<1>1. GridInv => LockedIsMostSensitive
  <2> SUFFICES ASSUME GridInv PROVE LockedIsMostSensitive
    OBVIOUS
  <2>1. Grid!SensitivityOrdered
    BY DEF GridInv, Grid!SensitivityOrdered, MoreSensitive, Dominates
  <2>2. Grid!LockedDetectsFirst
    <3> SUFFICES ASSUME NEW k \in locked, Grid!Passes(k), NEW o \in Grid!Passing, first[o] # 0
                 PROVE  first[k] \in 1..first[o]
      BY DEF Grid!LockedDetectsFirst
    <3>1. k \in Grid!Candidates /\ o \in Grid!Candidates /\ Grid!Passing # {}
      BY DEF GridInv, GridTyped, Grid!Passing
    <3>2. k \in Grid!Earliest(Grid!Passing)
      BY <3>1 DEF GridInv, Grid!select_policy
    <3>3. k.persistence <= o.persistence
      <4>1. k.persistence \in Nat /\ o.persistence \in Nat
        BY <3>1, GridAssumption DEF Grid!Candidates
      <4>2. k = o \/ Grid!Before(k, o)
        BY <3>2 DEF Grid!Earliest
      <4> QED
        BY <4>1, <4>2 DEF Grid!Before
    <3> QED
      BY <3>1, <3>3 DEF GridInv, FirstOrdered
  <2>3. Grid!GatesBrokenByResearchOnly
    <3> SUFFICES ASSUME NEW k \in locked
                 PROVE  Grid!Passes(k) \/ (research /\ Grid!Passing = {})
      BY DEF Grid!GatesBrokenByResearchOnly
    <3>1. k \in Grid!select_policy(research)
      BY DEF GridInv
    <3>2. CASE Grid!Passing # {}
      BY <3>1, <3>2 DEF Grid!select_policy, Grid!Earliest, Grid!Passing
    <3>3. CASE Grid!Passing = {}
      BY <3>1, <3>3 DEF Grid!select_policy
    <3> QED
      BY <3>2, <3>3
  <2> QED
    BY <2>1, <2>2, <2>3 DEF GridInv, LockedIsMostSensitive, Grid!LockedIsMostSensitive
<1> QED
  BY <1>1, GridInit, GridStep, PTL DEF Grid!Spec


(* ------------------------- the offline evaluation -------------------------- *)

EpisodeRecords == [first : Nat, last : Nat, count : Nat]

(* The decisions of P that the episode e spans. *)
Of(P, e) == {t \in P : e.first <= t /\ t <= e.last}

(* The episode e is a chain of decisions of P, none more than a stride before  *)
(* the next.                                                                   *)
IsGroup(P, e) ==
  /\ e \in EpisodeRecords /\ e.first \in P /\ e.last \in P /\ e.first <= e.last
  /\ Cardinality(Of(P, e)) = e.count
  /\ \A t \in Of(P, e) \ {e.last} : \E u \in Of(P, e) : t < u /\ u - t <= Stride

(* The closed episodes E, in order. *)
Groups(P, E) ==
  /\ E \in Seq(EpisodeRecords)
  /\ \A i \in DOMAIN E : IsGroup(P, E[i])
  /\ \A i \in DOMAIN E : i < Len(E) => E[i + 1].first - E[i].last > Stride

(* Every decision of P is of an episode. *)
Covered(P, E, O) ==
  \A t \in P : \/ \E i \in DOMAIN E : t \in Of(P, E[i])
               \/ \E e \in O : t \in Of(P, e)

(* The loop of build_episodes, between the decisions P and the later ones: the *)
(* open episode O is the last.                                                 *)
Merging(P, E, O) ==
  /\ P \in SUBSET (1..MaxTime) /\ Groups(P, E) /\ Covered(P, E, O)
  /\ \/ O = {} /\ P = {} /\ E = << >>
     \/ \E e \in O : O = {e}
  /\ \A e \in O :
       /\ IsGroup(P, e) /\ \A t \in P : t <= e.last
       /\ E # << >> => e.first - E[Len(E)].last > Stride

(* The module's own copies of library operators. *)
LEMMA OfflineCardinality == \A S : Offline!Cardinality(S) = Cardinality(S)
  BY DEF Offline!Cardinality, Cardinality

(* The open episode as a sequence. *)
LEMMA OpenAsSequence ==
  /\ Offline!SetToSeq({}) = << >>
  /\ \A e : Offline!SetToSeq({e}) = <<e>>
<1>1. Offline!SetToSeq({}) = << >>
  <2>1. Offline!Cardinality({}) = 0
    BY FS_EmptySet, OfflineCardinality
  <2>2. << >> \in [1..0 -> {}] /\ \A f \in [1..0 -> {}] : f = << >>
    OBVIOUS
  <2>3. Offline!IsInjective(<< >>)
    BY DEF Offline!IsInjective
  <2> QED
    BY <2>1, <2>2, <2>3 DEF Offline!SetToSeq
<1>2. ASSUME NEW e PROVE Offline!SetToSeq({e}) = <<e>>
  <2>1. Offline!Cardinality({e}) = 1
    BY FS_Singleton, OfflineCardinality
  <2>2. <<e>> \in [1..1 -> {e}] /\ \A f \in [1..1 -> {e}] : f = <<e>>
    OBVIOUS
  <2>3. Offline!IsInjective(<<e>>)
    BY DEF Offline!IsInjective
  <2> QED
    BY <2>1, <2>2, <2>3 DEF Offline!SetToSeq
<1> QED
  BY <1>1, <1>2

(* A later decision does not disturb a group. *)
LEMMA GroupKept ==
  ASSUME NEW P \in SUBSET Nat, NEW c \in Nat, \A t \in P : t < c, NEW e, IsGroup(P, e)
  PROVE  IsGroup(P \cup {c}, e) /\ Of(P \cup {c}, e) = Of(P, e)
<1>1. e.last \in P /\ e.last \in Nat
  BY DEF IsGroup, EpisodeRecords
<1>2. ~(c <= e.last)
  BY <1>1
<1>3. Of(P \cup {c}, e) = Of(P, e)
  BY <1>2 DEF Of
<1> QED
  BY <1>3 DEF IsGroup

(* A decision within a stride of the last extends the last group. *)
LEMMA GroupExtended ==
  ASSUME NEW P \in SUBSET Nat, IsFiniteSet(P), NEW c \in Nat, \A t \in P : t < c,
         NEW e, IsGroup(P, e), \A t \in P : t <= e.last, c - e.last <= Stride,
         NEW new, new = Offline!Episode(e.first, c, e.count + 1)
  PROVE  IsGroup(P \cup {c}, new) /\ Of(P \cup {c}, new) = Of(P, e) \cup {c}
<1>1. /\ e.first \in P /\ e.last \in P /\ e.first \in Nat /\ e.last \in Nat
      /\ e.first <= e.last /\ e.count \in Nat /\ Cardinality(Of(P, e)) = e.count
      /\ \A t \in Of(P, e) \ {e.last} : \E u \in Of(P, e) : t < u /\ u - t <= Stride
  BY DEF IsGroup, EpisodeRecords
<1>2. /\ new.first = e.first /\ new.last = c /\ new.count = e.count + 1
      /\ new \in EpisodeRecords
  BY <1>1 DEF Offline!Episode, EpisodeRecords
<1>3. e.first <= c /\ e.last < c
  BY <1>1
<1>4. Of(P \cup {c}, new) = Of(P, e) \cup {c}
  <2>1. \A t \in P : e.first <= t /\ t <= c <=> e.first <= t /\ t <= e.last
    BY <1>1
  <2>2. c <= c
    OBVIOUS
  <2> QED
    BY <1>2, <1>3, <2>1, <2>2 DEF Of
<1>5. Cardinality(Of(P \cup {c}, new)) = new.count
  <2>1. IsFiniteSet(Of(P, e)) /\ c \notin Of(P, e)
    <3>1. c \notin P
      OBVIOUS
    <3> QED
      BY <3>1, FS_Subset DEF Of
  <2>2. Cardinality(Of(P, e) \cup {c}) = Cardinality(Of(P, e)) + 1
    BY <2>1, FS_AddElement
  <2> QED
    BY <1>1, <1>2, <1>4, <2>2
<1>6. ASSUME NEW t \in Of(P \cup {c}, new) \ {new.last}
      PROVE  \E u \in Of(P \cup {c}, new) : t < u /\ u - t <= Stride
  <2>1. t \in Of(P, e)
    BY <1>2, <1>4
  <2>2. CASE t = e.last
    BY <1>3, <1>4, <2>2
  <2>3. CASE t # e.last
    BY <1>1, <1>4, <2>1, <2>3
  <2> QED
    BY <2>2, <2>3
<1> QED
  BY <1>1, <1>2, <1>3, <1>4, <1>5, <1>6 DEF IsGroup

(* A decision after a gap is a group of its own. *)
LEMMA GroupBegun ==
  ASSUME NEW P \in SUBSET Nat, NEW c \in Nat, \A t \in P : t < c,
         NEW new, new = Offline!Episode(c, c, 1)
  PROVE  IsGroup(P \cup {c}, new) /\ Of(P \cup {c}, new) = {c}
<1>1. new.first = c /\ new.last = c /\ new.count = 1 /\ new \in EpisodeRecords
  BY DEF Offline!Episode, EpisodeRecords
<1>2. Of(P \cup {c}, new) = {c}
  <2>1. (\A t \in P : ~(c <= t)) /\ c <= c
    OBVIOUS
  <2> QED
    BY <1>1, <2>1 DEF Of
<1>3. Cardinality(Of(P \cup {c}, new)) = new.count
  BY <1>1, <1>2, FS_Singleton
<1>4. new.first <= new.last
  BY <1>1
<1> QED
  BY <1>1, <1>2, <1>3, <1>4 DEF IsGroup

(* The open episode, closed, is the last. *)
LEMMA GroupsAppended ==
  ASSUME NEW P, NEW E, NEW e \in EpisodeRecords, Groups(P, E), IsGroup(P, e),
         E # << >> => e.first - E[Len(E)].last > Stride,
         NEW F, F = E \o <<e>>
  PROVE  /\ Groups(P, F)
         /\ Covered(P, E, {e}) => Covered(P, F, {})
<1>1. /\ E \in Seq(EpisodeRecords)
      /\ \A i \in DOMAIN E : IsGroup(P, E[i])
      /\ \A i \in DOMAIN E : i < Len(E) => E[i + 1].first - E[i].last > Stride
  BY DEF Groups
<1>2. /\ F \in Seq(EpisodeRecords) /\ Len(F) = Len(E) + 1 /\ Len(E) \in Nat
      /\ DOMAIN F = 1..(Len(E) + 1) /\ DOMAIN E = 1..Len(E)
      /\ \A i \in 1..Len(E) : F[i] = E[i]
      /\ F[Len(E) + 1] = e
      /\ E # << >> => Len(E) > 0
  BY <1>1
<1>3. \A i \in DOMAIN F : IsGroup(P, F[i])
  <2> SUFFICES ASSUME NEW i \in DOMAIN F PROVE IsGroup(P, F[i])
    OBVIOUS
  <2>1. CASE i \in 1..Len(E)
    BY <1>1, <1>2, <2>1
  <2>2. CASE i = Len(E) + 1
    BY <1>2, <2>2
  <2> QED
    BY <1>2, <2>1, <2>2
<1>4. ASSUME NEW i \in DOMAIN F, i < Len(F)
      PROVE  F[i + 1].first - F[i].last > Stride
  <2>1. i \in 1..Len(E) /\ F[i] = E[i]
    BY <1>2, <1>4
  <2>2. CASE i = Len(E)
    BY <1>2, <2>1, <2>2
  <2>3. CASE i < Len(E)
    <3>1. i + 1 \in 1..Len(E) /\ F[i + 1] = E[i + 1]
      BY <1>2, <2>1, <2>3
    <3> QED
      BY <1>1, <1>2, <2>1, <2>3, <3>1
  <2> QED
    BY <1>2, <2>1, <2>2, <2>3
<1>5. Groups(P, F)
  BY <1>2, <1>3, <1>4 DEF Groups
<1>6. ASSUME Covered(P, E, {e}), NEW t \in P
      PROVE  \E i \in DOMAIN F : t \in Of(P, F[i])
  <2>1. (\E i \in DOMAIN E : t \in Of(P, E[i])) \/ t \in Of(P, e)
    BY <1>6 DEF Covered
  <2>2. CASE t \in Of(P, e)
    BY <1>2, <2>2
  <2>3. CASE \E i \in DOMAIN E : t \in Of(P, E[i])
    BY <1>2, <2>3
  <2> QED
    BY <2>1, <2>2, <2>3
<1> QED
  BY <1>5, <1>6 DEF Covered

(* One iteration of the loop. *)
LEMMA MergeStep ==
  ASSUME NEW P, NEW E, NEW O, Merging(P, E, O),
         NEW c \in 1..MaxTime, \A t \in P : t < c,
         NEW F, NEW Q,
         (\E e \in O : c - e.last <= Stride) =>
            /\ Q = {Offline!Episode(e.first, c, e.count + 1) : e \in O}
            /\ F = E,
         ~(\E e \in O : c - e.last <= Stride) =>
            /\ Q = {Offline!Episode(c, c, 1)}
            /\ F = E \o Offline!SetToSeq(O)
  PROVE  Merging(P \cup {c}, F, Q)
<1> DEFINE R == P \cup {c}
<1>1. /\ P \in SUBSET (1..MaxTime) /\ P \in SUBSET Nat /\ c \in Nat
      /\ R \in SUBSET (1..MaxTime)
  BY EvaluationAssumption DEF Merging
<1>2. IsFiniteSet(P)
  <2>1. 1 \in Int /\ MaxTime \in Int
    BY EvaluationAssumption
  <2>2. IsFiniteSet(1..MaxTime)
    BY <2>1, FS_Interval
  <2> QED
    BY <1>1, <2>2, FS_Subset
<1>3. /\ E \in Seq(EpisodeRecords) /\ Covered(P, E, O)
      /\ \A i \in DOMAIN E : IsGroup(P, E[i])
      /\ \A i \in DOMAIN E : i < Len(E) => E[i + 1].first - E[i].last > Stride
  BY DEF Merging, Groups
<1>4. \A i \in DOMAIN E : IsGroup(R, E[i]) /\ Of(R, E[i]) = Of(P, E[i])
  BY <1>1, <1>3, GroupKept
<1>5. Groups(R, E)
  BY <1>3, <1>4 DEF Groups
<1> HIDE DEF R
<1>6. CASE \E e \in O : c - e.last <= Stride
  <2>1. PICK e \in O : c - e.last <= Stride
    BY <1>6
  <2>2. /\ O = {e} /\ IsGroup(P, e) /\ \A t \in P : t <= e.last
        /\ E # << >> => e.first - E[Len(E)].last > Stride
    BY <2>1 DEF Merging
  <2> DEFINE new == Offline!Episode(e.first, c, e.count + 1)
  <2>3. Q = {new} /\ F = E
    BY <1>6, <2>2
  <2>4. IsGroup(R, new) /\ Of(R, new) = Of(P, e) \cup {c}
    <3>1. \A t \in P : t < c /\ t <= e.last
      BY <2>2
    <3> QED
      BY ONLY <1>1, <1>2, <2>1, <2>2, <3>1, GroupExtended DEF R
  <2>5. new.first = e.first /\ new.last = c
    BY DEF Offline!Episode
  <2> HIDE DEF new
  <2>6. Covered(R, F, Q)
    <3> SUFFICES ASSUME NEW t \in R
                 PROVE  \/ \E i \in DOMAIN E : t \in Of(R, E[i])
                        \/ t \in Of(R, new)
      BY <2>3 DEF Covered
    <3>1. CASE t \in P
      BY <1>3, <1>4, <2>2, <2>4, <3>1 DEF Covered
    <3>2. CASE t = c
      BY <2>4, <3>2
    <3> QED
      BY <3>1, <3>2 DEF R
  <2>7. \A t \in R : t <= c
    BY <1>1 DEF R
  <2> QED
    BY <1>1, <1>5, <2>2, <2>3, <2>4, <2>5, <2>6, <2>7 DEF Merging, R
<1>7. CASE ~(\E e \in O : c - e.last <= Stride)
  <2> DEFINE new == Offline!Episode(c, c, 1)
  <2>1. Q = {new} /\ F = E \o Offline!SetToSeq(O)
    BY <1>7
  <2>2. IsGroup(R, new) /\ Of(R, new) = {c} /\ new.first = c /\ new.last = c
    <3>1. \A t \in P : t < c
      OBVIOUS
    <3>2. IsGroup(R, new) /\ Of(R, new) = {c}
      BY ONLY <1>1, <3>1, GroupBegun DEF R
    <3>3. new.first = c /\ new.last = c
      BY ONLY TRUE DEF Offline!Episode
    <3> QED
      BY ONLY <3>2, <3>3
  <2> HIDE DEF new
  <2>3. \A t \in R : t <= c
    BY <1>1 DEF R
  <2>4. CASE O = {}
    <3>1. P = {} /\ E = << >> /\ F = << >>
      BY <2>1, <2>4, OpenAsSequence DEF Merging
    <3>2. Covered(R, F, Q)
      BY <2>1, <2>2, <3>1 DEF Covered, R
    <3> QED
      BY <1>1, <1>5, <2>1, <2>2, <2>3, <3>1, <3>2 DEF Merging, R
  <2>5. CASE O # {}
    <3>1. PICK e \in O : O = {e}
      BY <2>5 DEF Merging
    <3>2. /\ IsGroup(P, e) /\ \A t \in P : t <= e.last
          /\ E # << >> => e.first - E[Len(E)].last > Stride
      BY DEF Merging
    <3>3. IsGroup(R, e) /\ Of(R, e) = Of(P, e) /\ e \in EpisodeRecords
      BY <1>1, <3>2, GroupKept DEF IsGroup, R
    <3>4. F = E \o <<e>>
      BY <2>1, <3>1, OpenAsSequence
    <3>5. /\ F \in Seq(EpisodeRecords) /\ Len(F) = Len(E) + 1 /\ Len(E) \in Nat
          /\ DOMAIN F = 1..(Len(E) + 1) /\ DOMAIN E = 1..Len(E)
          /\ \A i \in 1..Len(E) : F[i] = E[i]
          /\ F[Len(E) + 1] = e
      BY <1>3, <3>3, <3>4
    <3>6. Groups(R, F)
      BY <1>5, <3>2, <3>3, <3>4, GroupsAppended
    <3>7. Covered(R, F, Q)
      <4> SUFFICES ASSUME NEW t \in R
                   PROVE  \/ \E i \in DOMAIN F : t \in Of(R, F[i])
                          \/ \E x \in Q : t \in Of(R, x)
        BY DEF Covered
      <4>1. CASE t \in P
        <5>1. (\E i \in DOMAIN E : t \in Of(P, E[i])) \/ t \in Of(P, e)
          BY <1>3, <3>1, <4>1 DEF Covered
        <5>2. CASE t \in Of(P, e)
          BY <3>3, <3>5, <5>2
        <5>3. CASE \E i \in DOMAIN E : t \in Of(P, E[i])
          <6>1. PICK i \in DOMAIN E : t \in Of(P, E[i])
            BY <5>3
          <6>2. i \in DOMAIN F /\ t \in Of(R, F[i])
            BY <1>4, <3>5, <6>1
          <6> QED
            BY <6>2
        <5> QED
          BY <5>1, <5>2, <5>3
      <4>2. CASE t = c
        BY <2>1, <2>2, <4>2
      <4> QED
        BY <4>1, <4>2 DEF R
    <3>8. F # << >> => new.first - F[Len(F)].last > Stride
      <4>1. e.last \in Nat /\ e.last < c /\ ~(c - e.last <= Stride)
        BY <1>7, <3>1, <3>2 DEF IsGroup, EpisodeRecords
      <4> QED
        BY <1>1, <2>2, <3>5, <4>1, EvaluationAssumption
    <3> QED
      BY <1>1, <2>1, <2>2, <2>3, <3>6, <3>7, <3>8 DEF Merging, R
  <2> QED
    BY <2>4, <2>5
<1> QED
  BY <1>6, <1>7 DEF R

Began == {"calibrate", "choose"}
Closed == {"evaluate", "done", "rejected"}

(* The inductive invariant of the offline evaluation. *)
EvalInv ==
  /\ stage \in Began => open = {} /\ episodes = << >>
  /\ stage \notin Began =>
       /\ Offline!Anomalies \in SUBSET (1..MaxTime)
       /\ \A j \in DOMAIN events : events[j].from \in Nat /\ events[j].to \in Nat
  /\ stage = "merge" =>
       /\ left \in SUBSET Offline!Anomalies
       /\ \A t \in Offline!Anomalies \ left, u \in left : t < u
       /\ Merging(Offline!Anomalies \ left, episodes, open)
  /\ stage \in Closed =>
       Groups(Offline!Anomalies, episodes) /\ Covered(Offline!Anomalies, episodes, {})
  /\ stage # "done" => result = {}
  /\ \A r \in result :
       /\ r.detected = Offline!Detected /\ r.false = Offline!FalseEpisodes
       /\ r.lead = [j \in Offline!Detected |->
                      events[j].from - Offline!FirstDetection(j)]

(* The least of a set of times. *)
LEMMA OfflineMin ==
  ASSUME NEW T \in SUBSET Nat, T # {}
  PROVE  Offline!Min(T) \in T /\ \A m \in T : Offline!Min(T) <= m
BY LeastNumber DEF Offline!Min

(* Before the holdout there is nothing to evaluate. *)
LEMMA EvalInit == Offline!Init => EvalInv
<1> SUFFICES ASSUME Offline!Init PROVE EvalInv
  OBVIOUS
<1>1. stage = "calibrate" /\ open = {} /\ episodes = << >> /\ result = {}
  BY DEF Offline!Init
<1> QED
  BY <1>1 DEF EvalInv, Began, Closed

(* The holdout's anomalies are all to be merged. *)
LEMMA HoldoutStep == EvalInv /\ Offline!Holdout => EvalInv'
<1> SUFFICES ASSUME EvalInv, Offline!Holdout PROVE EvalInv'
  OBVIOUS
<1>1. /\ stage = "choose" /\ stage' = "merge" /\ result' = {}
      /\ open' = {} /\ episodes' = << >> /\ result = {}
  BY DEF EvalInv, Offline!Holdout, Began
<1>2. left' = Offline!Anomalies'
  BY DEF Offline!Holdout, Offline!Anomalies, Offline!_anomalies, Offline!Ends
<1>3. Offline!Anomalies' \in SUBSET (1..MaxTime)
  <2>1. PICK S \in SUBSET Offline!Times : holdout' \in [S -> Offline!Scores]
    BY DEF Offline!Holdout, Offline!Holdouts
  <2>2. DOMAIN holdout' \in SUBSET (1..MaxTime)
    BY <2>1 DEF Offline!Times
  <2> QED
    BY <2>2 DEF Offline!Anomalies, Offline!_anomalies, Offline!Ends
<1>4. \A j \in DOMAIN events' : events'[j].from \in Nat /\ events'[j].to \in Nat
  <2>1. PICK n \in 1..MaxEvents : events' \in [1..n -> Offline!Intervals]
    BY DEF Offline!Holdout, Offline!EventLists
  <2>2. \A i \in Offline!Intervals : i.from \in Nat /\ i.to \in Nat
    BY EvaluationAssumption DEF Offline!Intervals, Offline!Times
  <2> QED
    BY <2>1, <2>2
<1>5. Merging(Offline!Anomalies' \ left', episodes', open')
  <2>1. Offline!Anomalies' \ left' = {}
    BY <1>2
  <2>2. Merging({}, << >>, {})
    BY DEF Merging, Groups, Covered
  <2> QED
    BY <1>1, <2>1, <2>2
<1> QED
  BY <1>1, <1>2, <1>3, <1>4, <1>5 DEF EvalInv, Began, Closed

(* One decision merged. *)
LEMMA MergeKeeps == EvalInv /\ Offline!Merge => EvalInv'
<1> SUFFICES ASSUME EvalInv, Offline!Merge PROVE EvalInv'
  OBVIOUS
<1> DEFINE A == Offline!Anomalies
           c == Offline!Min(left)
           P == A \ left
<1>1. /\ stage = "merge" /\ stage' = "merge" /\ left # {} /\ result' = result
      /\ events' = events /\ A' = A /\ result = {}
  BY DEF Offline!Merge, EvalInv, Offline!Anomalies, Offline!_anomalies, Offline!Ends
<1>2. /\ A \in SUBSET (1..MaxTime) /\ left \in SUBSET A
      /\ \A j \in DOMAIN events : events[j].from \in Nat /\ events[j].to \in Nat
      /\ \A t \in P, u \in left : t < u
      /\ Merging(P, episodes, open)
  BY <1>1 DEF EvalInv, Began
<1>3. c \in left /\ c \in 1..MaxTime /\ \A u \in left : c <= u
  <2> HIDE DEF A
  <2>1. \A t \in 1..MaxTime : t \in Nat
    BY EvaluationAssumption
  <2>2. left \in SUBSET Nat
    BY <1>2, <2>1
  <2> QED
    BY <1>1, <1>2, <2>2, OfflineMin
<1>4. /\ left' = left \ {c}
      /\ (\E e \in open : c - e.last <= Stride) =>
            /\ open' = {Offline!Episode(e.first, c, e.count + 1) : e \in open}
            /\ episodes' = episodes
      /\ ~(\E e \in open : c - e.last <= Stride) =>
            /\ open' = {Offline!Episode(c, c, 1)}
            /\ episodes' = episodes \o Offline!SetToSeq(open)
  BY DEF Offline!Merge
<1> HIDE DEF A, c
<1>5. \A t \in P : t < c
  BY <1>2, <1>3
<1>6. Merging(P \cup {c}, episodes', open')
  BY <1>2, <1>3, <1>4, <1>5, MergeStep
<1>7. A' \ left' = P \cup {c}
  BY <1>1, <1>2, <1>3, <1>4
<1>8. \A t \in A' \ left', u \in left' : t < u
  <2>1. \A u \in left' : u \in left /\ u # c /\ u \in Nat /\ c \in Nat
    BY <1>2, <1>3, <1>4, EvaluationAssumption
  <2>2. \A u \in left' : c < u
    BY <1>3, <2>1
  <2> QED
    BY <1>2, <1>7, <2>1, <2>2
<1>9. left' \in SUBSET A' /\ A' \in SUBSET (1..MaxTime)
  BY <1>1, <1>2, <1>4
<1>10. Merging(A' \ left', episodes', open')
  BY <1>6, <1>7
<1> QED
  BY <1>1, <1>2, <1>8, <1>9, <1>10 DEF EvalInv, Began, Closed, A

(* The last episode is closed. *)
LEMMA MergedKeeps == EvalInv /\ Offline!Merged => EvalInv'
<1> SUFFICES ASSUME EvalInv, Offline!Merged PROVE EvalInv'
  OBVIOUS
<1> DEFINE A == Offline!Anomalies
<1>1. /\ stage = "merge" /\ stage' = "evaluate" /\ left = {} /\ result' = result
      /\ events' = events /\ A' = A /\ result = {}
      /\ episodes' = episodes \o Offline!SetToSeq(open)
  BY DEF Offline!Merged, EvalInv, Offline!Anomalies, Offline!_anomalies, Offline!Ends
<1>2. /\ A \in SUBSET (1..MaxTime)
      /\ \A j \in DOMAIN events : events[j].from \in Nat /\ events[j].to \in Nat
      /\ Merging(A \ left, episodes, open)
  BY <1>1 DEF EvalInv, Began
<1> HIDE DEF A
<1>3. Merging(A, episodes, open)
  <2>1. A \ left = A
    BY <1>1
  <2> QED
    BY <1>2, <2>1
<1>4. Groups(A, episodes') /\ Covered(A, episodes', {})
  <2>1. CASE open = {}
    <3>1. A = {} /\ episodes = << >> /\ episodes' = << >>
      BY <1>1, <1>3, <2>1, OpenAsSequence DEF Merging
    <3> QED
      BY <3>1 DEF Groups, Covered
  <2>2. CASE open # {}
    <3>1. PICK e \in open : open = {e}
      BY <1>3, <2>2 DEF Merging
    <3>2. /\ IsGroup(A, e) /\ e \in EpisodeRecords
          /\ episodes # << >> => e.first - episodes[Len(episodes)].last > Stride
          /\ Groups(A, episodes) /\ Covered(A, episodes, open)
      BY <1>3 DEF Merging, IsGroup
    <3> QED
      BY <1>1, <3>1, <3>2, OpenAsSequence, GroupsAppended
  <2> QED
    BY <2>1, <2>2
<1> QED
  BY <1>1, <1>2, <1>4 DEF EvalInv, Began, Closed, A

(* The verdict is computed once, from the closed episodes. *)
LEMMA EvaluateKeeps == EvalInv /\ Offline!evaluate => EvalInv'
<1> SUFFICES ASSUME EvalInv, Offline!evaluate PROVE EvalInv'
  OBVIOUS
<1>1. /\ stage = "evaluate" /\ stage' \in {"rejected", "done"} /\ result = {}
      /\ events' = events /\ episodes' = episodes
      /\ Offline!Anomalies' = Offline!Anomalies
      /\ stage' = "rejected" => result' = {}
  BY DEF Offline!evaluate, EvalInv, Offline!Anomalies, Offline!_anomalies, Offline!Ends
<1>2. Offline!Detected' = Offline!Detected /\ Offline!FalseEpisodes' = Offline!FalseEpisodes
  BY <1>1 DEF Offline!Detected, Offline!FalseEpisodes, Offline!Matching
<1>3. \A j : Offline!FirstDetection(j)' = Offline!FirstDetection(j)
  BY <1>1 DEF Offline!FirstDetection, Offline!Matching
<1>4. ASSUME NEW r \in result'
      PROVE  /\ r.detected = Offline!Detected /\ r.false = Offline!FalseEpisodes
             /\ r.lead = [j \in Offline!Detected |->
                            events[j].from - Offline!FirstDetection(j)]
  BY <1>1, <1>4 DEF Offline!evaluate
<1>5. ASSUME NEW r \in result'
      PROVE  /\ r.detected = Offline!Detected' /\ r.false = Offline!FalseEpisodes'
             /\ r.lead = [j \in Offline!Detected |->
                            events[j].from - Offline!FirstDetection(j)]'
  BY <1>1, <1>2, <1>3, <1>4, <1>5
<1> QED
  BY <1>1, <1>5 DEF EvalInv, Began, Closed

(* Every step of the evaluation keeps the invariant. *)
LEMMA EvalStep == EvalInv /\ [Offline!Next]_offlineVars => EvalInv'
<1> SUFFICES ASSUME EvalInv, [Offline!Next]_offlineVars PROVE EvalInv'
  OBVIOUS
<1>1. CASE Offline!Calibrate
  <2>1. /\ stage \in Began /\ stage' \in Began /\ stage' # "merge" /\ stage' \notin Closed
        /\ stage # "done" /\ stage' # "done"
        /\ open' = open /\ episodes' = episodes /\ result' = result
    BY <1>1 DEF Offline!Calibrate, Began, Closed
  <2> QED
    BY <2>1 DEF EvalInv
<1>2. CASE UNCHANGED offlineVars
  <2>1. /\ UNCHANGED <<stage, open, episodes, events, left, result, holdout, threshold>>
        /\ Offline!Anomalies' = Offline!Anomalies
        /\ Offline!Detected' = Offline!Detected
        /\ Offline!FalseEpisodes' = Offline!FalseEpisodes
    BY <1>2 DEF offlineVars, Offline!Anomalies, Offline!_anomalies, Offline!Ends, Offline!Detected,
                Offline!FalseEpisodes, Offline!Matching
  <2>2. \A j : Offline!FirstDetection(j)' = Offline!FirstDetection(j)
    BY <2>1 DEF Offline!FirstDetection, Offline!Matching
  <2> QED
    BY <2>1, <2>2 DEF EvalInv
<1> QED
  BY <1>1, <1>2, HoldoutStep, MergeKeeps, MergedKeeps, EvaluateKeeps DEF Offline!Next

(* An episode that holds a decision made during a failure matches it. *)
LEMMA OverlapMatches ==
  ASSUME NEW event, event.from \in Nat, event.to \in Nat, NEW e \in EpisodeRecords,
         NEW t \in Nat, e.first <= t, t <= e.last, event.from <= t, t < event.to
  PROVE  Offline!_episode_matches_event(e, event)
<1>1. e.first \in Nat /\ e.last \in Nat
  BY DEF EpisodeRecords
<1>2. e.first < event.to /\ e.last + Stride > event.from
  BY <1>1, EvaluationAssumption
<1> QED
  BY <1>2 DEF Offline!_episode_matches_event

(* The invariant is what the verdict's exactness says. *)
LEMMA EvalExact == EvalInv => EvaluationIsExact
<1> SUFFICES ASSUME EvalInv PROVE EvaluationIsExact
  OBVIOUS
<1> DEFINE A == Offline!Anomalies
<1>1. ASSUME stage \in Closed
      PROVE  /\ episodes \in Seq(EpisodeRecords) /\ A \in SUBSET Nat
             /\ \A i \in DOMAIN episodes : IsGroup(A, episodes[i])
             /\ \A i \in DOMAIN episodes :
                  i < Len(episodes) => episodes[i + 1].first - episodes[i].last > Stride
             /\ \A t \in A : \E i \in DOMAIN episodes : t \in Of(A, episodes[i])
             /\ \A j \in DOMAIN events : events[j].from \in Nat /\ events[j].to \in Nat
  BY <1>1, EvaluationAssumption DEF EvalInv, Began, Closed, Groups, Covered
<1>2. Offline!EpisodesAreGroups
  <2> SUFFICES ASSUME stage \in Closed PROVE Offline!EpisodesAreGroups
    BY DEF Closed, Offline!EpisodesAreGroups
  <2>1. UNION {Of(A, episodes[i]) : i \in DOMAIN episodes} = A
    BY <1>1 DEF Of
  <2>2. ASSUME NEW i \in DOMAIN episodes
        PROVE  /\ {episodes[i].first, episodes[i].last} \subseteq A
               /\ Offline!Cardinality(Of(A, episodes[i])) = episodes[i].count
               /\ \A t \in Of(A, episodes[i]) \ {episodes[i].last} :
                    \E u \in Of(A, episodes[i]) : t < u /\ u - t <= Stride
               /\ i < Len(episodes) =>
                    episodes[i + 1].first - episodes[i].last > Stride
    BY <1>1, <2>2, OfflineCardinality DEF IsGroup
  <2> QED
    BY <2>1, <2>2 DEF Offline!EpisodesAreGroups, Of
<1>3. ASSUME NEW r \in result
      PROVE  /\ stage \in Closed
             /\ r.detected = Offline!Detected /\ r.false = Offline!FalseEpisodes
             /\ \A j \in r.detected :
                  r.lead[j] = events[j].from - Offline!FirstDetection(j)
  BY <1>3 DEF EvalInv, Closed
<1> HIDE DEF A
<1>4. ASSUME stage \in Closed, NEW j \in DOMAIN events,
             Offline!Matching(events[j]) # {}
      PROVE  /\ \E i \in Offline!Matching(events[j]) :
                  Offline!FirstDetection(j) = episodes[i].first
             /\ \A i \in Offline!Matching(events[j]) :
                  Offline!FirstDetection(j) <= episodes[i].first
  <2> DEFINE T == {episodes[i].first : i \in Offline!Matching(events[j])}
  <2>1. \A i \in DOMAIN episodes : episodes[i].first \in Nat
    BY <1>1, <1>4 DEF IsGroup, EpisodeRecords
  <2>2. T \in SUBSET Nat /\ T # {}
    BY <1>4, <2>1 DEF Offline!Matching
  <2>3. Offline!FirstDetection(j) = Offline!Min(T)
    BY DEF Offline!FirstDetection
  <2>4. Offline!Min(T) \in T /\ \A m \in T : Offline!Min(T) <= m
    BY <2>2, OfflineMin
  <2> QED
    BY <2>3, <2>4
<1>5. Offline!FailuresAreDetected
  <2> SUFFICES ASSUME NEW r \in result, NEW j \in DOMAIN events, NEW t \in A,
                      events[j].from <= t, t < events[j].to
               PROVE  /\ j \in r.detected /\ r.lead[j] >= events[j].from - t
                      /\ \A i \in r.false : t \notin episodes[i].first..episodes[i].last
    BY DEF Offline!FailuresAreDetected, A
  <2>1. /\ stage \in Closed /\ t \in Nat
        /\ events[j].from \in Nat /\ events[j].to \in Nat
        /\ \A i \in DOMAIN episodes : episodes[i] \in EpisodeRecords
    BY <1>1, <1>3 DEF IsGroup
  <2>2. \A i \in DOMAIN episodes : episodes[i].first <= t /\ t <= episodes[i].last
          => i \in Offline!Matching(events[j])
    BY <2>1, OverlapMatches DEF Offline!Matching
  <2>3. PICK i \in DOMAIN episodes : t \in Of(A, episodes[i])
    BY <1>1, <2>1
  <2>4. i \in Offline!Matching(events[j]) /\ episodes[i].first <= t
    BY <2>2, <2>3 DEF Of
  <2>5. j \in Offline!Detected
    BY <2>4 DEF Offline!Detected
  <2>6. /\ Offline!FirstDetection(j) <= episodes[i].first
        /\ \E k \in Offline!Matching(events[j]) :
             Offline!FirstDetection(j) = episodes[k].first
    BY <1>4, <2>1, <2>4
  <2>7. Offline!FirstDetection(j) \in Nat /\ episodes[i].first \in Nat
    BY <2>1, <2>6 DEF Offline!Matching, EpisodeRecords
  <2>8. r.lead[j] = events[j].from - Offline!FirstDetection(j)
    BY <1>3, <2>5
  <2>9. ASSUME NEW k \in r.false PROVE t \notin episodes[k].first..episodes[k].last
    <3>1. k \in DOMAIN episodes /\ k \notin Offline!Matching(events[j])
      BY <1>3, <2>9 DEF Offline!FalseEpisodes, Offline!Matching
    <3> QED
      BY <2>2, <3>1
  <2>10. r.lead[j] >= events[j].from - t
    BY <2>1, <2>4, <2>6, <2>7, <2>8
  <2> QED
    BY <1>3, <2>5, <2>9, <2>10
<1>6. Offline!MissedOnlyByContinuation
  <2> SUFFICES ASSUME NEW r \in result, NEW j \in DOMAIN events, j \notin r.detected,
                      NEW t \in A, Offline!InHorizon(t, events[j])
               PROVE  \E i \in DOMAIN episodes :
                        /\ episodes[i].first < events[j].from - EventHorizon
                        /\ t \in episodes[i].first..episodes[i].last
    BY DEF Offline!MissedOnlyByContinuation, A
  <2>1. /\ stage \in Closed /\ t \in Nat
        /\ events[j].from \in Nat /\ events[j].to \in Nat
    BY <1>1, <1>3
  <2>2. PICK i \in DOMAIN episodes : t \in Of(A, episodes[i])
    BY <1>1, <2>1
  <2>3. /\ episodes[i].first \in Nat /\ episodes[i].last \in Nat
        /\ episodes[i].first <= t /\ t <= episodes[i].last
    BY <1>1, <2>1, <2>2 DEF IsGroup, EpisodeRecords, Of
  <2>4. ~Offline!InHorizon(episodes[i].first, events[j])
    BY <1>3, <2>2 DEF Offline!Detected, Offline!Matching, Offline!_episode_matches_event
  <2>5. episodes[i].first < events[j].from - EventHorizon
    BY <2>1, <2>3, <2>4, EvaluationAssumption DEF Offline!InHorizon
  <2> QED
    BY <2>1, <2>2, <2>3, <2>5
<1>7. Offline!LongLeadIsContinuous
  <2> SUFFICES ASSUME NEW r \in result, NEW j \in r.detected, r.lead[j] > EventHorizon
               PROVE  \E i \in DOMAIN episodes :
                        /\ episodes[i].first = events[j].from - r.lead[j]
                        /\ episodes[i].last + Stride > events[j].from
    BY DEF Offline!LongLeadIsContinuous
  <2>1. /\ stage \in Closed /\ j \in DOMAIN events /\ Offline!Matching(events[j]) # {}
        /\ r.lead[j] = events[j].from - Offline!FirstDetection(j)
    BY <1>3 DEF Offline!Detected
  <2>2. PICK i \in Offline!Matching(events[j]) :
          Offline!FirstDetection(j) = episodes[i].first
    BY <1>4, <2>1
  <2>3. /\ i \in DOMAIN episodes /\ episodes[i].first \in Nat /\ events[j].from \in Nat
        /\ Offline!_episode_matches_event(episodes[i], events[j])
    BY <1>1, <2>1, <2>2 DEF Offline!Matching, IsGroup, EpisodeRecords
  <2>4. ~Offline!InHorizon(episodes[i].first, events[j])
    BY <2>1, <2>2, <2>3, EvaluationAssumption DEF Offline!InHorizon
  <2>5. episodes[i].last + Stride > events[j].from
    BY <2>3, <2>4 DEF Offline!_episode_matches_event
  <2>6. episodes[i].first = events[j].from - r.lead[j]
    BY <2>1, <2>2, <2>3
  <2> QED
    BY <2>3, <2>5, <2>6
<1> QED
  BY <1>2, <1>5, <1>6, <1>7 DEF EvaluationIsExact, Offline!EvaluationIsExact

(* The offline verdict counts what happened: the episodes are the maximal      *)
(* groups of anomalous decisions, and a failure is detected, missed or led for *)
(* the reason build_episodes, _episode_matches_event and evaluate give.        *)
THEOREM EvaluationAlwaysExact == Offline!Spec => []EvaluationIsExact
<1>1. Offline!Init => EvalInv
  BY EvalInit
<1>2. EvalInv /\ [Offline!Next]_Offline!vars => EvalInv'
  BY EvalStep DEF Offline!vars, offlineVars
<1> QED
  BY <1>1, <1>2, EvalExact, PTL DEF Offline!Spec
====
