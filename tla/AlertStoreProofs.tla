--------------------------- MODULE AlertStoreProofs ---------------------------
(* What one transaction of the alert service preserves, for every policy and   *)
(* every number of windows.  The alert rows and the state machine are only     *)
(* kept consistent through facts neither states on its own: that the state's   *)
(* detections bound each other, that the streak being counted lies after every *)
(* alert that exists (so that a new alert id is fresh), and that no event is   *)
(* later than the last decision (so that an event key is fresh).               *)
EXTENDS AlertStore, WellFoundedInduction, TLAPS

(* The state machine on its own. *)
SoundState(st) ==
  /\ st \in AlertStates
  /\ st.last_decision_id = st.last_source_timestamp
  /\ st.first_detection <= st.last_detection
  /\ st.last_detection <= st.last_source_timestamp
  /\ st.active_alert_id # None =>
       st.anomaly_decision_ids # << >> /\ st.first_detection # None
  /\ \A i \in 1..Len(st.anomaly_decision_ids) :
       st.anomaly_decision_ids[i] <= st.last_source_timestamp

(* The alert rows against the state machine. *)
SoundAlerts(alerts, st) ==
  /\ \A a \in Windows : alerts[a].state = "OPEN" <=> a = st.active_alert_id
  /\ \A a \in Windows :
       alerts[a].state # "ABSENT" => a <= st.last_source_timestamp
  /\ st.active_alert_id = None =>
       \A a \in Windows, i \in 1..Len(st.anomaly_decision_ids) :
         alerts[a].state # "ABSENT" => a < st.anomaly_decision_ids[i]
  /\ st.active_alert_id # None =>
       /\ alerts[st.active_alert_id].first_detection = st.first_detection
       /\ alerts[st.active_alert_id].last_detection = st.last_detection
  /\ st.active_alert_id = None /\ st.previous_alert_id # None =>
       /\ st.first_detection # None
       /\ alerts[st.previous_alert_id].state = "RESOLVED"
       /\ alerts[st.previous_alert_id].first_detection = st.first_detection
       /\ alerts[st.previous_alert_id].last_detection = st.last_detection
       /\ alerts[st.previous_alert_id].resolved_at = st.resolved_at

Sound(rows) ==
  /\ rows \in SessionRows
  /\ rows.runtime = NoState => rows.decisions = {}
  /\ SoundState(load_alert_state(rows))
  /\ SoundAlerts(rows.alerts, load_alert_state(rows))
  /\ \A e \in rows.events :
       e.decision <= load_alert_state(rows).last_source_timestamp

(* The state AlertState.empty() gives a new session is sound. *)
LEMMA EmptySound == empty \in AlertStates /\ SoundState(empty)
  BY DEF empty, SoundState, AlertStates, None

(* A session the store has never written has sound rows. *)
LEMMA NoRowsSound == Sound(NoRows)
<1>1. NoRows \in SessionRows
  BY DEF NoRows, SessionRows, NoAlert, AlertRows, None
<1>2. load_alert_state(NoRows) = empty
  BY DEF NoRows, load_alert_state
<1>3. SoundAlerts(NoRows.alerts, empty)
  BY DEF SoundAlerts, NoRows, NoAlert, empty, None, Windows
<1> QED
  BY <1>1, <1>2, <1>3, EmptySound DEF Sound, NoRows

(* Reading the state of sound rows changes nothing. *)
LEMMA SoundLoads ==
  ASSUME NEW rows, Sound(rows)
  PROVE  /\ LoadedRows(rows) = rows
         /\ load_alert_state(rows) \in AlertStates
         /\ rows.runtime # NoState => load_alert_state(rows) = rows.runtime
         /\ rows.runtime = NoState => load_alert_state(rows) = empty
  BY EmptySound DEF Sound, LoadedRows, load_alert_state, SoundState

(* A window or None, as the nullable columns hold, is a number up to Horizon. *)
LEMMA OptionalWindows == Windows \cup {None} = 0..Horizon
  BY HorizonAssumption DEF Windows, None

(* The types of the fields the arguments below use. *)
LEMMA StateFields ==
  ASSUME NEW st \in AlertStates
  PROVE  /\ st.active_alert_id \in 0..Horizon
         /\ st.previous_alert_id \in 0..Horizon
         /\ st.first_detection \in 0..Horizon
         /\ st.last_detection \in 0..Horizon
         /\ st.resolved_at \in 0..Horizon
         /\ st.anomaly_decision_ids \in Seq(Windows)
         /\ st.anomaly_streak \in Nat
         /\ st.normal_streak \in Nat
         /\ st.last_decision_id \in 0..Horizon
         /\ st.last_source_timestamp \in 0..Horizon
<1>1. Windows \cup {None} = 0..Horizon
  BY OptionalWindows
<1> QED
  BY <1>1 DEF AlertStates

(* The references of a streak that d extends. *)
Streak(st, d) == Append(st.anomaly_decision_ids, d.ts)

(* The extended streak ends with d and keeps what it had. *)
LEMMA StreakExtended ==
  ASSUME NEW st, SoundState(st), NEW d \in Decision,
         st.last_source_timestamp < d.ts, NEW ids,
         ids = Streak(st, d)
  PROVE  /\ ids \in Seq(Windows) /\ ids # << >>
         /\ ids[1] \in Windows
         /\ \A i \in 1..Len(ids) : ids[i] <= d.ts
         /\ st.anomaly_decision_ids = << >> => ids[1] = d.ts
         /\ st.anomaly_decision_ids # << >> =>
              /\ ids[1] = st.anomaly_decision_ids[1]
              /\ 1 \in 1..Len(st.anomaly_decision_ids)
         /\ Len(ids) = Len(st.anomaly_decision_ids) + 1
         /\ \A i \in 1..Len(st.anomaly_decision_ids) :
              ids[i] = st.anomaly_decision_ids[i]
         /\ ids[Len(st.anomaly_decision_ids) + 1] = d.ts
         /\ Len(st.anomaly_decision_ids) \in Nat
<1> DEFINE old == st.anomaly_decision_ids
<1>1. old \in Seq(Windows) /\ d.ts \in Windows /\ st.last_source_timestamp \in 0..Horizon
  BY StateFields DEF SoundState, Decision
<1>2. /\ ids \in Seq(Windows)
      /\ Len(ids) = Len(old) + 1 /\ Len(old) \in Nat
      /\ \A i \in 1..Len(old) : ids[i] = old[i]
      /\ ids[Len(old) + 1] = d.ts
  BY <1>1 DEF Streak
<1>3. \A i \in 1..Len(old) : old[i] \in Windows /\ old[i] <= d.ts
  <2>1. \A i \in 1..Len(old) : old[i] \in Windows
    BY <1>1
  <2>2. \A i \in 1..Len(old) : old[i] <= st.last_source_timestamp
    BY DEF SoundState
  <2> QED
    BY <1>1, <2>1, <2>2, HorizonAssumption DEF Windows
<1>4. \A i \in 1..Len(ids) : ids[i] <= d.ts
  <2> SUFFICES ASSUME NEW i \in 1..Len(ids) PROVE ids[i] <= d.ts
    OBVIOUS
  <2>1. CASE i \in 1..Len(old)
    BY <2>1, <1>2, <1>3
  <2>2. CASE i = Len(old) + 1
    BY <2>2, <1>1, <1>2, HorizonAssumption DEF Windows
  <2> QED
    BY <2>1, <2>2, <1>2
<1>5. old = << >> <=> Len(old) = 0
  BY <1>1
<1>6. ids # << >> /\ (old = << >> => ids[1] = d.ts)
      /\ (old # << >> => ids[1] = old[1] /\ 1 \in 1..Len(old))
  BY <1>2, <1>5
<1>7. ids[1] \in Windows
  BY <1>1, <1>3, <1>6
<1> QED
  BY <1>2, <1>4, <1>6, <1>7

(* A decision in order is not taken for the one handled last. *)
LEMMA InOrderIsNew ==
  ASSUME NEW st, SoundState(st), NEW d \in Decision,
         st.last_source_timestamp < d.ts
  PROVE  ~Redelivered(st, d)
<1>1. st.last_source_timestamp \in 0..Horizon /\ d.ts \in Windows
  BY StateFields DEF SoundState, Decision
<1> QED
  BY <1>1, HorizonAssumption DEF Redelivered, SoundState, decision_id, Windows

(* ------------------- the five outcomes of transition ----------------------- *)

(* An emitted event. *)
Event(action, alert, first, last, ids) ==
  [action |-> action, alert |-> alert, first |-> first, last |-> last, ids |-> ids]

(* The fields of an emitted event. *)
LEMMA EventFields ==
  ASSUME NEW action, NEW alert, NEW first, NEW last, NEW ids, NEW event,
         event = Event(action, alert, first, last, ids)
  PROVE  /\ event.action = action /\ event.alert = alert /\ event.first = first
         /\ event.last = last /\ event.ids = ids
  BY DEF Event

(* Stamping a decision on the state moves its last decision and nothing else. *)
LEMMA StampedFields ==
  ASSUME NEW st \in AlertStates, NEW d \in Decision, NEW new, new = Stamped(st, d)
  PROVE  /\ new \in AlertStates
         /\ new.active_alert_id = st.active_alert_id
         /\ new.previous_alert_id = st.previous_alert_id
         /\ new.first_detection = st.first_detection
         /\ new.last_detection = st.last_detection
         /\ new.resolved_at = st.resolved_at
         /\ new.anomaly_decision_ids = st.anomaly_decision_ids
         /\ new.anomaly_streak = st.anomaly_streak
         /\ new.normal_streak = st.normal_streak
         /\ new.last_decision_id = d.ts
         /\ new.last_source_timestamp = d.ts
  BY DEF Stamped, decision_id, AlertStates, Decision

(* An alert is opened, reopened or updated. *)
LEMMA EmitFields ==
  ASSUME NEW st \in AlertStates, NEW d \in Decision, NEW action, NEW alert \in Windows,
         NEW first \in Windows, NEW ids \in Seq(Windows), NEW result,
         result = emit_anomaly_result(st, d, action, alert, first, ids)
  PROVE  /\ result.state \in AlertStates
         /\ result.state.active_alert_id = alert
         /\ result.state.previous_alert_id = st.previous_alert_id
         /\ result.state.first_detection = first
         /\ result.state.last_detection = d.ts
         /\ result.state.anomaly_decision_ids = ids
         /\ result.state.anomaly_streak = st.anomaly_streak + 1
         /\ result.state.normal_streak = 0
         /\ result.state.last_decision_id = d.ts
         /\ result.state.last_source_timestamp = d.ts
         /\ result.event = Event(action, alert, first, d.ts, ids)
<1> DEFINE after == [st EXCEPT !.active_alert_id = alert,
                               !.first_detection = first,
                               !.last_detection = d.ts,
                               !.resolved_at = None,
                               !.anomaly_decision_ids = ids,
                               !.anomaly_streak = @ + 1,
                               !.normal_streak = 0]
<1>1. d.ts \in Windows /\ 0 \in Nat /\ st.anomaly_streak + 1 \in Nat
  BY DEF AlertStates, Decision
<1>2. /\ result.state = Stamped(after, d)
      /\ result.event = Event(action, alert, first, d.ts, ids)
  BY DEF emit_anomaly_result, Event
<1>3. /\ after \in AlertStates
      /\ after.active_alert_id = alert
      /\ after.previous_alert_id = st.previous_alert_id
      /\ after.first_detection = first
      /\ after.last_detection = d.ts
      /\ after.anomaly_decision_ids = ids
      /\ after.anomaly_streak = st.anomaly_streak + 1
      /\ after.normal_streak = 0
  BY <1>1 DEF AlertStates
<1> HIDE DEF after
<1> QED
  BY <1>2, <1>3, StampedFields

(* An anomaly below the persistence is only counted. *)
Counted(st, d, ids) ==
  Quiet(Stamped([st EXCEPT !.anomaly_decision_ids = ids,
                           !.anomaly_streak = @ + 1,
                           !.normal_streak = 0], d))

(* Counting an anomaly only extends the streak. *)
LEMMA CountedFields ==
  ASSUME NEW st \in AlertStates, NEW d \in Decision, NEW ids \in Seq(Windows), NEW result,
         result = Counted(st, d, ids)
  PROVE  /\ result.state \in AlertStates
         /\ result.state.active_alert_id = st.active_alert_id
         /\ result.state.previous_alert_id = st.previous_alert_id
         /\ result.state.first_detection = st.first_detection
         /\ result.state.last_detection = st.last_detection
         /\ result.state.resolved_at = st.resolved_at
         /\ result.state.anomaly_decision_ids = ids
         /\ result.state.anomaly_streak = st.anomaly_streak + 1
         /\ result.state.normal_streak = 0
         /\ result.state.last_decision_id = d.ts
         /\ result.state.last_source_timestamp = d.ts
         /\ result.event = NoEvent
<1> DEFINE after == [st EXCEPT !.anomaly_decision_ids = ids,
                               !.anomaly_streak = @ + 1,
                               !.normal_streak = 0]
<1>1. 0 \in Nat /\ st.anomaly_streak + 1 \in Nat
  BY DEF AlertStates
<1>2. result.state = Stamped(after, d) /\ result.event = NoEvent
  BY DEF Quiet, Counted
<1>3. /\ after \in AlertStates
      /\ after.active_alert_id = st.active_alert_id
      /\ after.previous_alert_id = st.previous_alert_id
      /\ after.first_detection = st.first_detection
      /\ after.last_detection = st.last_detection
      /\ after.resolved_at = st.resolved_at
      /\ after.anomaly_decision_ids = ids
      /\ after.anomaly_streak = st.anomaly_streak + 1
      /\ after.normal_streak = 0
  BY <1>1 DEF AlertStates
<1> HIDE DEF after
<1> QED
  BY <1>2, <1>3, StampedFields

(* A normal decision that resolves nothing. *)
LEMMA CalmFields ==
  ASSUME NEW st \in AlertStates, NEW d \in Decision,
         st.active_alert_id # None => st.normal_streak + 1 < Cooldown,
         NEW result, result = handle_normal(st, d)
  PROVE  /\ result.state \in AlertStates
         /\ result.state.active_alert_id = st.active_alert_id
         /\ result.state.previous_alert_id = st.previous_alert_id
         /\ result.state.first_detection = st.first_detection
         /\ result.state.last_detection = st.last_detection
         /\ result.state.resolved_at = st.resolved_at
         /\ result.state.anomaly_decision_ids =
              IF st.active_alert_id = None THEN << >> ELSE st.anomaly_decision_ids
         /\ result.state.anomaly_streak = 0
         /\ result.state.normal_streak = st.normal_streak + 1
         /\ result.state.last_decision_id = d.ts
         /\ result.state.last_source_timestamp = d.ts
         /\ result.event = NoEvent
<1>1. st.normal_streak \in Nat
  BY DEF AlertStates
<1>2. st.active_alert_id # None => ~(st.normal_streak + 1 >= Cooldown)
  BY <1>1, PolicyAssumption
<1> DEFINE base == [st EXCEPT !.anomaly_streak = 0, !.normal_streak = @ + 1]
<1> DEFINE calm == Stamped(base, d)
<1>3. /\ calm \in AlertStates
      /\ calm.active_alert_id = st.active_alert_id
      /\ calm.previous_alert_id = st.previous_alert_id
      /\ calm.first_detection = st.first_detection
      /\ calm.last_detection = st.last_detection
      /\ calm.resolved_at = st.resolved_at
      /\ calm.anomaly_decision_ids = st.anomaly_decision_ids
      /\ calm.anomaly_streak = 0
      /\ calm.normal_streak = st.normal_streak + 1
      /\ calm.last_decision_id = d.ts
      /\ calm.last_source_timestamp = d.ts
  <2>1. 0 \in Nat /\ st.normal_streak + 1 \in Nat
    BY <1>1
  <2>2. /\ base \in AlertStates
        /\ base.active_alert_id = st.active_alert_id
        /\ base.previous_alert_id = st.previous_alert_id
        /\ base.first_detection = st.first_detection
        /\ base.last_detection = st.last_detection
        /\ base.resolved_at = st.resolved_at
        /\ base.anomaly_decision_ids = st.anomaly_decision_ids
        /\ base.anomaly_streak = 0
        /\ base.normal_streak = st.normal_streak + 1
    BY <2>1 DEF AlertStates
  <2> HIDE DEF base
  <2> QED
    BY <2>2, StampedFields
<1>4. << >> \in Seq(Windows)
  OBVIOUS
<1>5. result = IF st.active_alert_id = None
                 THEN Quiet([calm EXCEPT !.anomaly_decision_ids = << >>])
                 ELSE Quiet(calm)
  BY <1>2 DEF handle_normal
<1> HIDE DEF calm
<1>6. CASE st.active_alert_id = None
  <2>1. result.state = [calm EXCEPT !.anomaly_decision_ids = << >>]
        /\ result.event = NoEvent
    BY <1>5, <1>6 DEF Quiet
  <2> QED
    BY <1>3, <1>4, <1>6, <2>1 DEF AlertStates
<1>7. CASE st.active_alert_id # None
  <2>1. result.state = calm /\ result.event = NoEvent
    BY <1>5, <1>7 DEF Quiet
  <2> QED
    BY <1>3, <1>7, <2>1
<1> QED
  BY <1>6, <1>7

(* A normal decision that ends the cooldown. *)
LEMMA ResolveFields ==
  ASSUME NEW st \in AlertStates, NEW d \in Decision,
         st.active_alert_id # None, NEW result, result = resolve(st, d)
  PROVE  /\ result.state \in AlertStates
         /\ result.state.active_alert_id = None
         /\ result.state.previous_alert_id = st.active_alert_id
         /\ result.state.first_detection = OrElse(st.first_detection, d.ts)
         /\ result.state.last_detection = OrElse(st.last_detection, d.ts)
         /\ result.state.resolved_at = d.ts
         /\ result.state.anomaly_decision_ids = << >>
         /\ result.state.anomaly_streak = 0
         /\ result.state.normal_streak = st.normal_streak + 1
         /\ result.state.last_decision_id = d.ts
         /\ result.state.last_source_timestamp = d.ts
         /\ result.event = Event("RESOLVED", st.active_alert_id,
                                   OrElse(st.first_detection, d.ts),
                                   OrElse(st.last_detection, d.ts),
                                   st.anomaly_decision_ids)
<1> DEFINE F == OrElse(st.first_detection, d.ts)
<1> DEFINE L == OrElse(st.last_detection, d.ts)
<1> DEFINE after == [st EXCEPT !.active_alert_id = None,
                               !.previous_alert_id = st.active_alert_id,
                               !.first_detection = F,
                               !.last_detection = L,
                               !.resolved_at = d.ts,
                               !.anomaly_decision_ids = << >>,
                               !.anomaly_streak = 0,
                               !.normal_streak = @ + 1]
<1>1. << >> \in Seq(Windows) /\ 0 \in Nat /\ st.normal_streak + 1 \in Nat
  BY DEF AlertStates
<1>2. F \in Windows \cup {None} /\ L \in Windows \cup {None} /\ d.ts \in Windows
  BY DEF OrElse, AlertStates, Decision
<1>3. /\ result.state = Stamped(after, d)
      /\ result.event = Event("RESOLVED", st.active_alert_id, F, L, st.anomaly_decision_ids)
  BY DEF resolve, Event
<1> HIDE DEF F, L
<1>4. /\ after \in AlertStates
      /\ after.active_alert_id = None
      /\ after.previous_alert_id = st.active_alert_id
      /\ after.first_detection = F
      /\ after.last_detection = L
      /\ after.resolved_at = d.ts
      /\ after.anomaly_decision_ids = << >>
      /\ after.anomaly_streak = 0
      /\ after.normal_streak = st.normal_streak + 1
  BY <1>1, <1>2 DEF AlertStates
<1> HIDE DEF after
<1> QED
  BY <1>3, <1>4, StampedFields DEF F, L

(* What transition returns for a decision in order. *)
LEMMA Outcomes ==
  ASSUME NEW st, SoundState(st), NEW d \in Decision, st.last_source_timestamp < d.ts,
         NEW ids, ids = Streak(st, d),
         NEW result, result = transition(st, d)
  PROVE  \/ /\ d.is_anomaly /\ st.active_alert_id = None
            /\ st.anomaly_streak + 1 < Persistence
            /\ result = Counted(st, d, ids)
         \/ /\ d.is_anomaly /\ st.active_alert_id = None
            /\ ~(st.anomaly_streak + 1 < Persistence) /\ is_reopen(st, d)
            /\ result = emit_anomaly_result(st, d, "REOPENED", st.previous_alert_id,
                                            OrElse(st.first_detection, d.ts), ids)
         \/ /\ d.is_anomaly /\ st.active_alert_id = None
            /\ ~(st.anomaly_streak + 1 < Persistence) /\ ~is_reopen(st, d)
            /\ result = emit_anomaly_result(st, d, "OPENED", ids[1], d.ts, ids)
         \/ /\ d.is_anomaly /\ st.active_alert_id # None
            /\ result = emit_anomaly_result(st, d, "UPDATED", st.active_alert_id,
                                            OrElse(st.first_detection, d.ts), ids)
         \/ /\ ~d.is_anomaly
            /\ st.active_alert_id # None => st.normal_streak + 1 < Cooldown
            /\ result = handle_normal(st, d)
         \/ /\ ~d.is_anomaly /\ st.active_alert_id # None
            /\ st.normal_streak + 1 >= Cooldown
            /\ result = resolve(st, d)
<1>1. ~Redelivered(st, d)
  BY InOrderIsNew
<1>2. CASE d.is_anomaly /\ st.active_alert_id = None
  <2>1. result = handle_anomaly_trigger(st, d, ids)
    BY <1>1, <1>2 DEF transition, decision_id, Streak
  <2> QED
    BY <1>2, <2>1 DEF handle_anomaly_trigger, alert_id_for, Counted
<1>3. CASE d.is_anomaly /\ st.active_alert_id # None
  BY <1>1, <1>3 DEF transition, decision_id, handle_anomaly_update, Streak
<1>4. CASE ~d.is_anomaly
  <2>1. result = handle_normal(st, d)
    BY <1>1, <1>4 DEF transition
  <2>2. st.normal_streak \in Nat
    BY StateFields DEF SoundState
  <2> QED
    BY <1>4, <2>1, <2>2, PolicyAssumption DEF handle_normal
<1> QED
  BY <1>2, <1>3, <1>4

(* The part of the transaction that precedes the event. *)
Kept(rows, d, state) ==
  [rows EXCEPT !.session = IF @ = "ABSENT" THEN "RUNNING" ELSE @,
               !.decisions = IF \E x \in @ : decision_id(x) = decision_id(d)
                               THEN @ ELSE @ \cup {d},
               !.runtime = state]

(* The writes before the event touch the session, the decisions and the runtime only. *)
LEMMA KeptFields ==
  ASSUME NEW rows \in SessionRows, NEW d \in Decision, NEW state \in AlertStates,
         NEW kept, kept = Kept(rows, d, state)
  PROVE  /\ kept \in SessionRows
         /\ kept.runtime = state
         /\ kept.alerts = rows.alerts
         /\ kept.events = rows.events
         /\ kept.evidence = rows.evidence
         /\ kept.outbox = rows.outbox
         /\ kept.published = rows.published
<1> DEFINE S == IF rows.session = "ABSENT" THEN "RUNNING" ELSE rows.session
<1> DEFINE D == IF \E x \in rows.decisions : decision_id(x) = decision_id(d)
                  THEN rows.decisions ELSE rows.decisions \cup {d}
<1>1. S \in {"ABSENT", "RUNNING", "FAILED"} /\ D \in SUBSET Decision
  BY DEF SessionRows
<1>2. kept = [rows EXCEPT !.session = S, !.decisions = D, !.runtime = state]
  BY DEF Kept
<1> HIDE DEF S, D
<1> QED
  BY <1>1, <1>2 DEF SessionRows

(* A transaction without an event leaves the alerts and their events alone. *)
LEMMA QuietRecord ==
  ASSUME NEW rows \in SessionRows, NEW d \in Decision, NEW result,
         result.state \in AlertStates, result.event = NoEvent,
         NEW new, new = record_decision_transition(rows, d, result)
  PROVE  /\ new \in SessionRows
         /\ new.runtime = result.state
         /\ new.alerts = rows.alerts
         /\ new.events = rows.events
         /\ new.evidence = rows.evidence
         /\ new.outbox = rows.outbox
         /\ new.published = rows.published
<1> DEFINE kept == Kept(rows, d, result.state)
<1>1. new = kept
  BY DEF record_decision_transition, NoEvent, Kept
<1> QED
  BY <1>1, KeptFields

(* A transaction with an event upserts its alert and adds its event. *)
LEMMA EventRecord ==
  ASSUME NEW rows \in SessionRows, NEW d \in Decision, NEW result,
         result.state \in AlertStates,
         result.event.action \in AlertActions, result.event.alert \in Windows,
         result.event.first \in Windows, result.event.last \in Windows,
         NEW new, new = record_decision_transition(rows, d, result)
  PROVE  /\ new \in SessionRows
         /\ new.runtime = result.state
         /\ \A a \in Windows : new.alerts[a] =
              IF a = result.event.alert
                THEN UpsertAlert(rows.alerts[result.event.alert], result.event, d)
                ELSE rows.alerts[a]
         /\ new.events = rows.events \cup {KeyOf(result.event, d)}
         /\ new.outbox = rows.outbox \cup {KeyOf(result.event, d)}
         /\ new.published = rows.published
<1> DEFINE kept == Kept(rows, d, result.state)
<1> DEFINE alert == result.event.alert
<1> DEFINE row == UpsertAlert(rows.alerts[alert], result.event, d)
<1> DEFINE key == KeyOf(result.event, d)
<1> DEFINE snapshot == [alert |-> alert, decision |-> decision_id(d)]
<1>1. /\ kept \in SessionRows
      /\ kept.runtime = result.state
      /\ kept.alerts = rows.alerts
      /\ kept.events = rows.events
      /\ kept.evidence = rows.evidence
      /\ kept.outbox = rows.outbox
      /\ kept.published = rows.published
  BY KeptFields
<1>2. new = RecordEvent(kept, d, result)
  BY DEF record_decision_transition, AlertActions, Kept
<1>3. row \in AlertRows
  BY DEF UpsertAlert, AlertRows, SessionRows, Decision, decision_id
<1>4. key \in EventKeys /\ snapshot \in EvidenceKeys
  BY DEF EventKeys, EvidenceKeys, KeyOf, Decision, decision_id
<1> HIDE DEF kept
<1> DEFINE A == [kept.alerts EXCEPT ![alert] = UpsertAlert(kept.alerts[alert], result.event, d)]
<1> DEFINE E == kept.events \cup {key}
<1> DEFINE V == IF result.evidence THEN kept.evidence \cup {snapshot} ELSE kept.evidence
<1> DEFINE O == kept.outbox \cup {key}
<1>5. new = [kept EXCEPT !.alerts = A, !.events = E, !.evidence = V, !.outbox = O]
  BY <1>2 DEF RecordEvent
<1> HIDE DEF row, key, snapshot
<1>6. /\ A \in [Windows -> AlertRows]
      /\ \A a \in Windows : A[a] = IF a = alert THEN row ELSE rows.alerts[a]
  BY <1>1, <1>3 DEF SessionRows, row
<1>7. /\ V \in SUBSET EvidenceKeys
      /\ E = rows.events \cup {key} /\ E \in SUBSET EventKeys
      /\ O = rows.outbox \cup {key} /\ O \in SUBSET EventKeys
  BY <1>1, <1>4 DEF SessionRows
<1> HIDE DEF A, E, V, O
<1>8. /\ new \in SessionRows
      /\ new.runtime = kept.runtime
      /\ new.alerts = A
      /\ new.events = E
      /\ new.outbox = O
      /\ new.published = kept.published
  BY <1>1, <1>5, <1>6, <1>7, ZenonT(40) DEF SessionRows
<1> QED
  BY <1>1, <1>6, <1>7, <1>8 DEF row, key

(* ----------------- soundness is kept by every transaction ------------------ *)

(* Rows that hold a sound state are sound. *)
LEMMA StoredSound ==
  ASSUME NEW new \in SessionRows, NEW st, new.runtime = st,
         SoundState(st), SoundAlerts(new.alerts, st),
         \A e \in new.events : e.decision <= st.last_source_timestamp
  PROVE  Sound(new)
<1>1. new.runtime # NoState
  BY NoStateAssumption DEF SoundState
<1>2. load_alert_state(new) = st
  BY <1>1 DEF load_alert_state
<1> QED
  BY <1>1, <1>2 DEF Sound

(* Every later stamp bounds the events there are. *)
LEMMA EventsBefore ==
  ASSUME NEW rows, Sound(rows), NEW d \in Decision,
         load_alert_state(rows).last_source_timestamp < d.ts
  PROVE  /\ \A e \in rows.events : e.decision < d.ts
         /\ \A e \in rows.events : e.decision \in Windows
         /\ d.ts \in Windows
<1> DEFINE lst == load_alert_state(rows).last_source_timestamp
<1>1. lst \in 0..Horizon /\ d.ts \in Windows
  BY StateFields DEF Sound, SoundState, Decision
<1>2. \A e \in rows.events : e.decision \in Windows
  BY DEF Sound, SessionRows, EventKeys
<1>3. \A e \in rows.events : e.decision <= lst
  BY DEF Sound
<1> HIDE DEF lst
<1>4. lst < d.ts
  BY DEF lst
<1> QED
  BY <1>1, <1>2, <1>3, <1>4, HorizonAssumption DEF Windows

(* What the soundness of the state machine alone gives its next state. *)
LEMMA NextStateSound ==
  ASSUME NEW st, SoundState(st), NEW d \in Decision, st.last_source_timestamp < d.ts,
         NEW new \in AlertStates,
         new.last_decision_id = d.ts, new.last_source_timestamp = d.ts,
         new.first_detection <= new.last_detection,
         new.last_detection <= d.ts,
         new.active_alert_id # None =>
           new.anomaly_decision_ids # << >> /\ new.first_detection # None,
         \/ new.anomaly_decision_ids = << >>
         \/ new.anomaly_decision_ids = st.anomaly_decision_ids
         \/ new.anomaly_decision_ids = Streak(st, d)
  PROVE  SoundState(new)
<1> DEFINE ids == new.anomaly_decision_ids
<1>1. CASE ids = << >>
  BY <1>1 DEF SoundState
<1>2. CASE ids = st.anomaly_decision_ids
  <2>1. /\ st.anomaly_decision_ids \in Seq(Windows)
        /\ st.last_source_timestamp \in 0..Horizon /\ d.ts \in Windows
    BY StateFields DEF SoundState, Decision
  <2>2. \A i \in 1..Len(ids) : ids[i] \in Windows /\ ids[i] <= st.last_source_timestamp
    BY <1>2, <2>1 DEF SoundState
  <2>3. \A i \in 1..Len(ids) : ids[i] <= d.ts
    BY <2>1, <2>2, HorizonAssumption DEF Windows
  <2> QED
    BY <2>3 DEF SoundState
<1>3. CASE ids = Streak(st, d)
  <2>1. \A i \in 1..Len(ids) : ids[i] <= d.ts
    BY <1>3, StreakExtended
  <2> QED
    BY <2>1 DEF SoundState
<1> QED
  BY <1>1, <1>2, <1>3

(* The types behind the comparisons below. *)
LEMMA SoundFields ==
  ASSUME NEW rows, Sound(rows), NEW st, st = load_alert_state(rows),
         NEW d \in Decision, st.last_source_timestamp < d.ts
  PROVE  /\ st \in AlertStates /\ SoundState(st) /\ SoundAlerts(rows.alerts, st)
         /\ rows \in SessionRows /\ LoadedRows(rows) = rows
         /\ rows.alerts \in [Windows -> AlertRows]
         /\ st.active_alert_id \in 0..Horizon
         /\ st.previous_alert_id \in 0..Horizon
         /\ st.first_detection \in 0..Horizon
         /\ st.last_detection \in 0..Horizon
         /\ st.last_source_timestamp \in 0..Horizon
         /\ st.first_detection <= st.last_detection
         /\ st.last_detection < d.ts
         /\ d.ts \in 1..Horizon
         /\ Windows = 1..Horizon /\ None = 0 /\ Horizon \in Nat
<1>1. st \in AlertStates /\ SoundState(st) /\ SoundAlerts(rows.alerts, st)
      /\ rows \in SessionRows /\ LoadedRows(rows) = rows
  BY SoundLoads DEF Sound
<1>2. rows.alerts \in [Windows -> AlertRows] /\ d.ts \in 1..Horizon
  BY <1>1 DEF SessionRows, Decision, Windows
<1>3. /\ st.active_alert_id \in 0..Horizon
      /\ st.previous_alert_id \in 0..Horizon
      /\ st.first_detection \in 0..Horizon
      /\ st.last_detection \in 0..Horizon
      /\ st.last_source_timestamp \in 0..Horizon
  BY <1>1, StateFields
<1>4. st.first_detection <= st.last_detection
      /\ st.last_detection <= st.last_source_timestamp
  BY <1>1 DEF SoundState
<1> QED
  BY <1>1, <1>2, <1>3, <1>4, HorizonAssumption DEF Windows, None

(* A decision that emits nothing and leaves the active alert as it is keeps    *)
(* the rows sound.                                                             *)
LEMMA CountedSound ==
  ASSUME NEW rows, Sound(rows), NEW st, st = load_alert_state(rows),
         NEW d \in Decision, st.last_source_timestamp < d.ts,
         NEW ids, ids = Streak(st, d),
         st.active_alert_id = None, NEW result,
         result = Counted(st, d, ids),
         NEW new, new = record_decision_transition(rows, d, result)
  PROVE  Sound(new) /\ result.event = NoEvent
<1> DEFINE next == result.state
<1>1. /\ st \in AlertStates /\ SoundState(st) /\ SoundAlerts(rows.alerts, st)
      /\ rows \in SessionRows
      /\ st.last_source_timestamp \in 0..Horizon
      /\ st.first_detection \in 0..Horizon
      /\ st.last_detection \in 0..Horizon
      /\ st.first_detection <= st.last_detection
      /\ st.last_detection < d.ts
      /\ d.ts \in 1..Horizon
      /\ Windows = 1..Horizon /\ Horizon \in Nat
  BY SoundFields
<1>2. /\ ids \in Seq(Windows)
      /\ Len(ids) = Len(st.anomaly_decision_ids) + 1
      /\ \A i \in 1..Len(st.anomaly_decision_ids) : ids[i] = st.anomaly_decision_ids[i]
      /\ ids[Len(st.anomaly_decision_ids) + 1] = d.ts
      /\ Len(st.anomaly_decision_ids) \in Nat
  BY <1>1, StreakExtended
<1>3. /\ next \in AlertStates
      /\ next.active_alert_id = st.active_alert_id
      /\ next.previous_alert_id = st.previous_alert_id
      /\ next.first_detection = st.first_detection
      /\ next.last_detection = st.last_detection
      /\ next.resolved_at = st.resolved_at
      /\ next.anomaly_decision_ids = ids
      /\ next.last_decision_id = d.ts
      /\ next.last_source_timestamp = d.ts
      /\ result.event = NoEvent
  <2>1. st \in AlertStates /\ ids \in Seq(Windows)
    BY <1>1, <1>2
  <2> QED
    BY <2>1, CountedFields
<1>4. /\ new \in SessionRows
      /\ new.runtime = next
      /\ new.alerts = rows.alerts
      /\ new.events = rows.events
  BY <1>1, <1>3, QuietRecord
<1> HIDE DEF next
<1>5. SoundState(next)
  <2>1. next.last_detection <= d.ts /\ next.first_detection <= next.last_detection
    BY <1>1, <1>3
  <2> QED
    BY <1>1, <1>3, <2>1, NextStateSound
<1>6. SoundAlerts(rows.alerts, next)
  <2>1. \A a \in Windows : rows.alerts[a].state # "ABSENT" => a < d.ts
    BY <1>1 DEF SoundAlerts
  <2>2. \A a \in Windows, i \in 1..Len(ids) :
          rows.alerts[a].state # "ABSENT" => a < ids[i]
    <3> SUFFICES ASSUME NEW a \in Windows, NEW i \in 1..Len(ids),
                        rows.alerts[a].state # "ABSENT"
                 PROVE  a < ids[i]
      OBVIOUS
    <3>1. CASE i \in 1..Len(st.anomaly_decision_ids)
      BY <1>1, <1>2, <3>1 DEF SoundAlerts
    <3>2. CASE i = Len(st.anomaly_decision_ids) + 1
      BY <1>2, <2>1, <3>2
    <3> QED
      BY <1>2, <3>1, <3>2
  <2>3. \A a \in Windows : rows.alerts[a].state # "ABSENT" => a <= d.ts
    BY <1>1, <2>1
  <2> QED
    BY <1>1, <1>3, <2>2, <2>3 DEF SoundAlerts
<1>7. \A e \in new.events : e.decision <= next.last_source_timestamp
  BY <1>3, <1>4, EventsBefore DEF Windows
<1> QED
  BY <1>3, <1>4, <1>5, <1>6, <1>7, StoredSound

(* A normal decision below the cooldown, or with no alert, keeps the rows sound. *)
LEMMA CalmSound ==
  ASSUME NEW rows, Sound(rows), NEW st, st = load_alert_state(rows),
         NEW d \in Decision, st.last_source_timestamp < d.ts,
         st.active_alert_id # None => st.normal_streak + 1 < Cooldown,
         NEW result, result = handle_normal(st, d),
         NEW new, new = record_decision_transition(rows, d, result)
  PROVE  Sound(new) /\ result.event = NoEvent
<1> DEFINE next == result.state
<1>1. /\ st \in AlertStates /\ SoundState(st) /\ SoundAlerts(rows.alerts, st)
      /\ rows \in SessionRows
      /\ st.last_source_timestamp \in 0..Horizon
      /\ st.first_detection \in 0..Horizon
      /\ st.last_detection \in 0..Horizon
      /\ st.first_detection <= st.last_detection
      /\ st.last_detection < d.ts
      /\ d.ts \in 1..Horizon
      /\ Windows = 1..Horizon /\ Horizon \in Nat
  BY SoundFields
<1>2. /\ next \in AlertStates
      /\ next.active_alert_id = st.active_alert_id
      /\ next.previous_alert_id = st.previous_alert_id
      /\ next.first_detection = st.first_detection
      /\ next.last_detection = st.last_detection
      /\ next.resolved_at = st.resolved_at
      /\ next.anomaly_decision_ids =
           IF st.active_alert_id = None THEN << >> ELSE st.anomaly_decision_ids
      /\ next.last_decision_id = d.ts
      /\ next.last_source_timestamp = d.ts
      /\ result.event = NoEvent
  BY <1>1, CalmFields
<1>3. /\ new \in SessionRows
      /\ new.runtime = next
      /\ new.alerts = rows.alerts
      /\ new.events = rows.events
  BY <1>1, <1>2, QuietRecord
<1> HIDE DEF next
<1>4. SoundState(next)
  <2>1. next.last_detection <= d.ts /\ next.first_detection <= next.last_detection
    BY <1>1, <1>2
  <2>2. next.active_alert_id # None =>
          next.anomaly_decision_ids # << >> /\ next.first_detection # None
    BY <1>1, <1>2 DEF SoundState
  <2> QED
    BY <1>1, <1>2, <2>1, <2>2, NextStateSound
<1>5. SoundAlerts(rows.alerts, next)
  <2>1. \A a \in Windows : rows.alerts[a].state # "ABSENT" => a <= d.ts
    BY <1>1 DEF SoundAlerts
  <2>2. next.active_alert_id = None => Len(next.anomaly_decision_ids) = 0
    BY <1>2
  <2> QED
    BY <1>1, <1>2, <2>1, <2>2 DEF SoundAlerts
<1>6. \A e \in new.events : e.decision <= next.last_source_timestamp
  BY <1>2, <1>3, EventsBefore DEF Windows
<1> QED
  BY <1>2, <1>3, <1>4, <1>5, <1>6, StoredSound

(* The columns the upsert of an alert row writes. *)
LEMMA UpsertFields ==
  ASSUME NEW row, NEW event, NEW d, NEW new, new = UpsertAlert(row, event, d)
  PROVE  /\ event.action = "RESOLVED" => new.state = "RESOLVED" /\ new.resolved_at = d.ts
         /\ event.action # "RESOLVED" => new.state = "OPEN"
         /\ row.state = "ABSENT" => new.first_detection = event.first
         /\ row.state # "ABSENT" => new.first_detection = row.first_detection
         /\ new.last_detection = event.last
  BY DEF UpsertAlert

(* The new event's key is new, so the foreign key holds; the event is valid    *)
(* when its detections are ordered and it references a decision.               *)
LEMMA EventAccepted ==
  ASSUME NEW rows, Sound(rows), NEW d \in Decision,
         load_alert_state(rows).last_source_timestamp < d.ts,
         NEW result
  PROVE  ~ForeignKeyFails(rows, d, result)
<1>1. \A e \in rows.events : e.decision < d.ts /\ e.decision \in Windows
  BY EventsBefore
<1>2. d.ts \in Windows
  BY EventsBefore
<1>3. KeyOf(result.event, d).decision = d.ts
  BY DEF KeyOf, decision_id
<1>4. KeyOf(result.event, d) \notin rows.events
  BY <1>1, <1>2, <1>3, HorizonAssumption DEF Windows
<1> QED
  BY <1>4 DEF ForeignKeyFails

(* An anomaly that opens, reopens or updates `alert` keeps the rows sound when *)
(* no other alert is active and the first detection it states is the row's.    *)
LEMMA EmitSound ==
  ASSUME NEW rows, Sound(rows), NEW st, st = load_alert_state(rows),
         NEW d \in Decision, st.last_source_timestamp < d.ts,
         NEW ids, ids = Streak(st, d),
         NEW action \in AlertActions, action # "RESOLVED",
         NEW alert \in Windows, alert <= d.ts,
         NEW first \in Windows, first <= d.ts,
         st.active_alert_id # None => alert = st.active_alert_id,
         \/ rows.alerts[alert].state = "ABSENT"
         \/ rows.alerts[alert].first_detection = first,
         NEW result, result = emit_anomaly_result(st, d, action, alert, first, ids),
         NEW new, new = record_decision_transition(rows, d, result)
  PROVE  Sound(new) /\ ValidEvent(result.event)
<1> DEFINE next == result.state
<1> DEFINE row == UpsertAlert(rows.alerts[alert], result.event, d)
<1> DEFINE key == KeyOf(result.event, d)
<1>1. /\ st \in AlertStates /\ SoundState(st) /\ SoundAlerts(rows.alerts, st)
      /\ rows \in SessionRows
      /\ rows.alerts \in [Windows -> AlertRows]
      /\ st.active_alert_id \in 0..Horizon
      /\ st.last_source_timestamp \in 0..Horizon
      /\ d.ts \in 1..Horizon
      /\ Windows = 1..Horizon /\ None = 0 /\ Horizon \in Nat
  BY SoundFields
<1>2. ids \in Seq(Windows) /\ ids # << >>
  BY <1>1, StreakExtended
<1>3. /\ next \in AlertStates
      /\ next.active_alert_id = alert
      /\ next.first_detection = first
      /\ next.last_detection = d.ts
      /\ next.anomaly_decision_ids = ids
      /\ next.last_decision_id = d.ts
      /\ next.last_source_timestamp = d.ts
      /\ result.event = Event(action, alert, first, d.ts, ids)
  <2>1. st \in AlertStates /\ ids \in Seq(Windows)
    BY <1>1, <1>2
  <2> QED
    BY <2>1, EmitFields
<1>4. d.ts \in Windows
  BY <1>1
<1>5. /\ new \in SessionRows
      /\ new.runtime = next
      /\ \A a \in Windows : new.alerts[a] = IF a = alert THEN row ELSE rows.alerts[a]
      /\ new.events = rows.events \cup {key}
  <2>1. /\ result.event.action \in AlertActions /\ result.event.alert = alert
        /\ result.event.first \in Windows /\ result.event.last \in Windows
    BY <1>3, <1>4, EventFields
  <2> QED
    BY <1>1, <1>3, <2>1, EventRecord
<1>6. /\ row.state = "OPEN"
      /\ row.first_detection = first
      /\ row.last_detection = d.ts
  <2>1. /\ result.event.action # "RESOLVED"
        /\ result.event.first = first
        /\ result.event.last = d.ts
    BY <1>3, EventFields
  <2> QED
    BY <2>1, UpsertFields
<1>7. ValidEvent(result.event)
  BY <1>2, <1>3, EventFields DEF ValidEvent
<1>8. key.decision = d.ts
  BY DEF KeyOf, decision_id
<1> HIDE DEF next, row, key
<1>9. SoundState(next)
  <2>1. next.last_detection <= d.ts /\ next.first_detection <= next.last_detection
    BY <1>1, <1>3
  <2>2. next.anomaly_decision_ids # << >> /\ next.first_detection # None
    BY <1>1, <1>2, <1>3
  <2> QED
    BY <1>1, <1>3, <2>1, <2>2, NextStateSound
<1>10. SoundAlerts(new.alerts, next)
  <2>1. \A a \in Windows : new.alerts[a] = IF a = alert THEN row ELSE rows.alerts[a]
    BY <1>1, <1>5
  <2>2. \A a \in Windows : rows.alerts[a].state = "OPEN" <=> a = st.active_alert_id
    BY <1>1 DEF SoundAlerts
  <2>3. \A a \in Windows : new.alerts[a].state = "OPEN" <=> a = next.active_alert_id
    BY <1>1, <1>3, <1>6, <2>1, <2>2
  <2>4. \A a \in Windows : new.alerts[a].state # "ABSENT" => a <= d.ts
    <3>1. \A a \in Windows : rows.alerts[a].state # "ABSENT" => a <= st.last_source_timestamp
      BY <1>1 DEF SoundAlerts
    <3> QED
      BY <1>1, <2>1, <3>1
  <2>5. next.active_alert_id # None
    BY <1>1, <1>3
  <2>6. /\ new.alerts[next.active_alert_id].first_detection = next.first_detection
        /\ new.alerts[next.active_alert_id].last_detection = next.last_detection
    BY <1>3, <1>6, <2>1
  <2> QED
    BY <1>3, <2>3, <2>4, <2>5, <2>6 DEF SoundAlerts
<1>11. \A e \in new.events : e.decision <= next.last_source_timestamp
  <2>1. \A e \in rows.events : e.decision < d.ts /\ e.decision \in Windows
    BY EventsBefore
  <2> QED
    BY <1>1, <1>3, <1>5, <1>8, <2>1
<1> QED
  BY <1>3, <1>5, <1>7, <1>9, <1>10, <1>11, StoredSound

(* The resolution of the active alert keeps the rows sound. *)
LEMMA ResolveSound ==
  ASSUME NEW rows, Sound(rows), NEW st, st = load_alert_state(rows),
         NEW d \in Decision, st.last_source_timestamp < d.ts,
         st.active_alert_id # None, NEW result, result = resolve(st, d),
         NEW new, new = record_decision_transition(rows, d, result)
  PROVE  Sound(new) /\ ValidEvent(result.event)
<1> DEFINE next == result.state
<1> DEFINE alert == st.active_alert_id
<1> DEFINE row == UpsertAlert(rows.alerts[alert], result.event, d)
<1> DEFINE key == KeyOf(result.event, d)
<1>1. /\ st \in AlertStates /\ SoundState(st) /\ SoundAlerts(rows.alerts, st)
      /\ rows \in SessionRows
      /\ rows.alerts \in [Windows -> AlertRows]
      /\ alert \in 0..Horizon
      /\ st.last_source_timestamp \in 0..Horizon
      /\ st.first_detection \in 0..Horizon
      /\ st.last_detection \in 0..Horizon
      /\ st.first_detection <= st.last_detection
      /\ st.last_detection < d.ts
      /\ d.ts \in 1..Horizon
      /\ Windows = 1..Horizon /\ None = 0 /\ Horizon \in Nat
  BY SoundFields
<1>2. /\ st.first_detection \in Windows /\ st.last_detection \in Windows
      /\ alert \in Windows /\ d.ts \in Windows
      /\ st.anomaly_decision_ids # << >>
      /\ OrElse(st.first_detection, d.ts) = st.first_detection
      /\ OrElse(st.last_detection, d.ts) = st.last_detection
  <2>1. st.first_detection # None /\ st.anomaly_decision_ids # << >>
    BY <1>1 DEF SoundState
  <2>2. st.first_detection \in 1..Horizon /\ st.last_detection \in 1..Horizon
        /\ alert \in 1..Horizon
    BY <1>1, <2>1
  <2>3. st.last_detection # None
    BY <1>1, <2>2
  <2> QED
    BY <1>1, <2>1, <2>2, <2>3 DEF OrElse
<1>3. /\ next \in AlertStates
      /\ next.active_alert_id = None
      /\ next.previous_alert_id = alert
      /\ next.first_detection = st.first_detection
      /\ next.last_detection = st.last_detection
      /\ next.resolved_at = d.ts
      /\ next.anomaly_decision_ids = << >>
      /\ next.last_decision_id = d.ts
      /\ next.last_source_timestamp = d.ts
      /\ result.event = Event("RESOLVED", alert, st.first_detection,
                              st.last_detection, st.anomaly_decision_ids)
  <2>1. /\ st \in AlertStates
        /\ OrElse(st.first_detection, d.ts) = st.first_detection
        /\ OrElse(st.last_detection, d.ts) = st.last_detection
    BY <1>1, <1>2
  <2> QED
    BY <2>1, ResolveFields
<1>4. "RESOLVED" \in AlertActions
  BY DEF AlertActions
<1>5. /\ new \in SessionRows
      /\ new.runtime = next
      /\ \A a \in Windows : new.alerts[a] = IF a = alert THEN row ELSE rows.alerts[a]
      /\ new.events = rows.events \cup {key}
  <2>1. /\ result.event.action \in AlertActions /\ result.event.alert = alert
        /\ result.event.first \in Windows /\ result.event.last \in Windows
    BY <1>2, <1>3, <1>4, EventFields
  <2> QED
    BY <1>1, <1>2, <1>3, <2>1, EventRecord
<1>6. /\ rows.alerts[alert].state = "OPEN"
      /\ rows.alerts[alert].first_detection = st.first_detection
  BY <1>1, <1>2 DEF SoundAlerts
<1>7. /\ row.state = "RESOLVED"
      /\ row.resolved_at = d.ts
      /\ row.first_detection = st.first_detection
      /\ row.last_detection = st.last_detection
  <2>1. result.event.action = "RESOLVED" /\ result.event.last = st.last_detection
    BY <1>3, EventFields
  <2> QED
    BY <1>6, <2>1, UpsertFields
<1>8. ValidEvent(result.event)
  BY <1>1, <1>2, <1>3, EventFields DEF ValidEvent
<1>9. key.decision = d.ts
  BY DEF KeyOf, decision_id
<1> HIDE DEF next, row, key, alert
<1>10. SoundState(next)
  <2>1. next.last_detection <= d.ts /\ next.first_detection <= next.last_detection
    BY <1>1, <1>3
  <2> QED
    BY <1>1, <1>3, <2>1, NextStateSound
<1>11. SoundAlerts(new.alerts, next)
  <2>1. \A a \in Windows : new.alerts[a] = IF a = alert THEN row ELSE rows.alerts[a]
    BY <1>1, <1>5
  <2>2. \A a \in Windows : rows.alerts[a].state = "OPEN" <=> a = alert
    BY <1>1 DEF SoundAlerts, alert
  <2>3. \A a \in Windows : new.alerts[a].state = "OPEN" <=> a = next.active_alert_id
    BY <1>1, <1>3, <1>7, <2>1, <2>2
  <2>4. \A a \in Windows : new.alerts[a].state # "ABSENT" => a <= d.ts
    <3>1. \A a \in Windows : rows.alerts[a].state # "ABSENT" => a <= st.last_source_timestamp
      BY <1>1 DEF SoundAlerts
    <3>2. rows.alerts[alert].state # "ABSENT"
      BY <1>6
    <3>3. alert <= st.last_source_timestamp
      BY <1>2, <3>1, <3>2
    <3> QED
      BY <1>1, <1>2, <2>1, <3>1, <3>3
  <2>5. Len(next.anomaly_decision_ids) = 0
    BY <1>3
  <2>6. /\ next.first_detection # None
        /\ new.alerts[alert].state = "RESOLVED"
        /\ new.alerts[alert].first_detection = next.first_detection
        /\ new.alerts[alert].last_detection = next.last_detection
        /\ new.alerts[alert].resolved_at = next.resolved_at
    BY <1>1, <1>2, <1>3, <1>7, <2>1
  <2> QED
    BY <1>3, <2>3, <2>4, <2>5, <2>6 DEF SoundAlerts
<1>12. \A e \in new.events : e.decision <= next.last_source_timestamp
  <2>1. \A e \in rows.events : e.decision < d.ts /\ e.decision \in Windows
    BY EventsBefore
  <2> QED
    BY <1>1, <1>3, <1>5, <1>9, <2>1
<1> QED
  BY <1>3, <1>5, <1>8, <1>10, <1>11, <1>12, StoredSound

(* A decision in order is accepted, and recording it keeps the rows sound. *)
LEMMA InOrderSound ==
  ASSUME NEW rows, Sound(rows), NEW st, st = load_alert_state(rows),
         NEW d \in Decision, st.last_source_timestamp < d.ts,
         NEW result, result = transition(st, d),
         NEW new, new = record_decision_transition(rows, d, result)
  PROVE  Sound(new) /\ ValidEvent(result.event)
<1> DEFINE ids == Streak(st, d)
<1>1. /\ SoundState(st) /\ SoundAlerts(rows.alerts, st)
      /\ st.active_alert_id \in 0..Horizon
      /\ st.previous_alert_id \in 0..Horizon
      /\ st.first_detection \in 0..Horizon
      /\ st.last_source_timestamp \in 0..Horizon
      /\ st.last_detection \in 0..Horizon
      /\ st.first_detection <= st.last_detection
      /\ st.last_detection < d.ts
      /\ d.ts \in 1..Horizon
      /\ Windows = 1..Horizon /\ None = 0 /\ Horizon \in Nat
  BY SoundFields
<1>2. ValidEvent(NoEvent)
  BY DEF ValidEvent, NoEvent, AlertActions
<1>3. CASE st.active_alert_id = None /\ result = Counted(st, d, ids)
  BY <1>2, <1>3, CountedSound
<1>4. CASE /\ st.active_alert_id = None /\ is_reopen(st, d)
           /\ result = emit_anomaly_result(st, d, "REOPENED", st.previous_alert_id,
                                           OrElse(st.first_detection, d.ts), ids)
  <2> DEFINE alert == st.previous_alert_id
  <2> DEFINE first == st.first_detection
  <2>1. alert # None
    BY <1>4 DEF is_reopen
  <2>2. /\ first # None
        /\ rows.alerts[alert].state = "RESOLVED"
        /\ rows.alerts[alert].first_detection = first
    BY <1>1, <1>4, <2>1 DEF SoundAlerts
  <2>3. alert \in Windows /\ first \in Windows /\ first <= d.ts
    BY <1>1, <2>1, <2>2
  <2>4. alert <= d.ts
    <3>1. alert <= st.last_source_timestamp
      BY <1>1, <2>2, <2>3 DEF SoundAlerts
    <3> QED
      BY <1>1, <2>3, <3>1
  <2>5. OrElse(st.first_detection, d.ts) = first
    BY <2>2 DEF OrElse
  <2>6. "REOPENED" \in AlertActions /\ "REOPENED" # "RESOLVED"
    BY DEF AlertActions
  <2>7. result = emit_anomaly_result(st, d, "REOPENED", alert, first, ids)
    BY <1>4, <2>5
  <2> HIDE DEF alert, first, ids
  <2> QED
    BY <1>4, <2>2, <2>3, <2>4, <2>6, <2>7, EmitSound DEF ids
<1>5. CASE /\ st.active_alert_id = None
           /\ result = emit_anomaly_result(st, d, "OPENED", ids[1], d.ts, ids)
  <2> DEFINE alert == ids[1]
  <2>1. /\ alert \in Windows
        /\ st.anomaly_decision_ids = << >> => alert = d.ts
        /\ st.anomaly_decision_ids # << >> =>
             /\ alert = st.anomaly_decision_ids[1]
             /\ 1 \in 1..Len(st.anomaly_decision_ids)
    BY <1>1, StreakExtended
  <2>2. alert <= d.ts
    <3>1. st.anomaly_decision_ids # << >> => alert <= st.last_source_timestamp
      BY <1>1, <2>1 DEF SoundState
    <3> QED
      BY <1>1, <2>1, <3>1
  <2>3. rows.alerts[alert].state = "ABSENT"
    <3>1. CASE st.anomaly_decision_ids = << >>
      <4>1. ~(alert <= st.last_source_timestamp)
        BY <1>1, <2>1, <3>1
      <4> QED
        BY <1>1, <2>1, <4>1 DEF SoundAlerts
    <3>2. CASE st.anomaly_decision_ids # << >>
      <4>1. rows.alerts[alert].state # "ABSENT" => alert < alert
        BY <1>1, <1>5, <2>1, <3>2 DEF SoundAlerts
      <4> QED
        BY <1>1, <2>1, <4>1
    <3> QED
      BY <3>1, <3>2
  <2>4. "OPENED" \in AlertActions /\ "OPENED" # "RESOLVED"
    BY DEF AlertActions
  <2>5. d.ts \in Windows /\ d.ts <= d.ts
    BY <1>1
  <2>6. result = emit_anomaly_result(st, d, "OPENED", alert, d.ts, ids)
    BY <1>5
  <2> HIDE DEF alert, ids
  <2> QED
    BY <1>5, <2>1, <2>2, <2>3, <2>4, <2>5, <2>6, EmitSound DEF ids
<1>6. CASE /\ st.active_alert_id # None
           /\ result = emit_anomaly_result(st, d, "UPDATED", st.active_alert_id,
                                           OrElse(st.first_detection, d.ts), ids)
  <2> DEFINE alert == st.active_alert_id
  <2> DEFINE first == st.first_detection
  <2>1. first # None
    BY <1>1, <1>6 DEF SoundState
  <2>2. alert \in Windows /\ first \in Windows /\ first <= d.ts
    BY <1>1, <1>6, <2>1
  <2>3. /\ rows.alerts[alert].state = "OPEN"
        /\ rows.alerts[alert].first_detection = first
    BY <1>1, <1>6, <2>2 DEF SoundAlerts
  <2>4. alert <= d.ts
    <3>1. alert <= st.last_source_timestamp
      BY <1>1, <2>2, <2>3 DEF SoundAlerts
    <3> QED
      BY <1>1, <2>2, <3>1
  <2>5. OrElse(st.first_detection, d.ts) = first
    BY <2>1 DEF OrElse
  <2>6. "UPDATED" \in AlertActions /\ "UPDATED" # "RESOLVED"
    BY DEF AlertActions
  <2>7. result = emit_anomaly_result(st, d, "UPDATED", alert, first, ids)
    BY <1>6, <2>5
  <2>8. alert = st.active_alert_id
    OBVIOUS
  <2> HIDE DEF alert, first, ids
  <2> QED
    BY <2>2, <2>3, <2>4, <2>6, <2>7, <2>8, EmitSound DEF ids
<1>7. CASE /\ st.active_alert_id # None => st.normal_streak + 1 < Cooldown
           /\ result = handle_normal(st, d)
  BY <1>2, <1>7, CalmSound
<1>8. CASE st.active_alert_id # None /\ result = resolve(st, d)
  BY <1>8, ResolveSound
<1>9. SoundState(st)
  BY <1>1
<1> HIDE DEF ids
<1> QED
  BY <1>9, <1>3, <1>4, <1>5, <1>6, <1>7, <1>8, Outcomes DEF ids

(* Every decision that is not refused for its order, the one handled last      *)
(* included, keeps the rows sound and yields a valid event.                    *)
LEMMA RecordSound ==
  ASSUME NEW rows, Sound(rows), NEW st, st = load_alert_state(rows),
         NEW d \in Decision, ~OrderingViolation(st, d),
         NEW result, result = transition(st, d),
         NEW new, new = record_decision_transition(LoadedRows(rows), d, result)
  PROVE  Sound(new) /\ ValidEvent(result.event)
<1>1. LoadedRows(rows) = rows /\ st \in AlertStates
  BY SoundLoads
<1>2. new = record_decision_transition(rows, d, result)
  BY <1>1
<1>3. CASE Redelivered(st, d)
  <2>1. result.state = st /\ result.event = NoEvent
    BY <1>3 DEF transition, Quiet
  <2>2. rows \in SessionRows
    BY DEF Sound
  <2>3. /\ new \in SessionRows
        /\ new.runtime = st
        /\ new.alerts = rows.alerts
        /\ new.events = rows.events
    BY <1>1, <1>2, <2>1, <2>2, QuietRecord
  <2>4. /\ SoundState(st) /\ SoundAlerts(new.alerts, st)
        /\ \A e \in new.events : e.decision <= st.last_source_timestamp
    BY <2>3 DEF Sound
  <2>5. ValidEvent(NoEvent)
    BY DEF ValidEvent, NoEvent, AlertActions
  <2> QED
    BY <2>1, <2>3, <2>4, <2>5, StoredSound
<1>4. CASE ~Redelivered(st, d)
  <2>1. st.last_source_timestamp \in 0..Horizon /\ d.ts \in 1..Horizon
    BY <1>1, StateFields DEF Decision, Windows
  <2>2. st.last_source_timestamp = None \/ ~(d.ts <= st.last_source_timestamp)
    BY <1>4 DEF OrderingViolation
  <2>3. st.last_source_timestamp < d.ts
    BY <2>1, <2>2, HorizonAssumption DEF None
  <2> QED
    BY <1>2, <2>3, InOrderSound
<1> QED
  BY <1>3, <1>4

(* Recording a decision forgets no event and publishes none. *)
LEMMA RecordKeepsOutbox ==
  ASSUME NEW rows, Sound(rows), NEW d, NEW result,
         NEW new, new = record_decision_transition(LoadedRows(rows), d, result)
  PROVE  /\ new.published = rows.published
         /\ rows.events \subseteq new.events
         /\ rows.outbox \subseteq rows.events => new.outbox \subseteq new.events
<1>1. rows \in SessionRows /\ LoadedRows(rows) = rows
  BY SoundLoads DEF Sound
<1> DEFINE kept == Kept(rows, d, result.state)
<1>2. /\ kept.events = rows.events
      /\ kept.outbox = rows.outbox
      /\ kept.published = rows.published
      /\ DOMAIN kept = DOMAIN rows
  BY <1>1 DEF Kept, SessionRows
<1>3. CASE result.event.action = "NONE"
  <2>1. new = kept
    BY <1>1, <1>3 DEF record_decision_transition, Kept
  <2> QED
    BY <1>2, <2>1
<1>4. CASE result.event.action # "NONE"
  <2>1. new = RecordEvent(kept, d, result)
    BY <1>1, <1>4 DEF record_decision_transition, Kept
  <2>2. /\ {"alerts", "events", "evidence", "outbox", "published"} \subseteq DOMAIN kept
    BY <1>1, <1>2 DEF SessionRows
  <2> HIDE DEF kept
  <2>3. /\ new.published = kept.published
        /\ new.events = kept.events \cup {KeyOf(result.event, d)}
        /\ new.outbox = kept.outbox \cup {KeyOf(result.event, d)}
    BY <2>1, <2>2 DEF RecordEvent
  <2> QED
    BY <1>2, <2>3
<1> QED
  BY <1>3, <1>4

(* Marking an outbox row leaves everything else alone. *)
LEMMA MarkSound ==
  ASSUME NEW rows, Sound(rows), NEW key \in EventKeys,
         NEW new, new = mark_outbox_published(rows, key)
  PROVE  /\ Sound(new)
         /\ new.published = rows.published \cup {key}
         /\ new.events = rows.events
         /\ new.outbox = rows.outbox
<1>1. rows \in SessionRows
  BY DEF Sound
<1>2. /\ new \in SessionRows
      /\ new.published = rows.published \cup {key}
      /\ new.events = rows.events
      /\ new.outbox = rows.outbox
      /\ new.decisions = rows.decisions
      /\ new.alerts = rows.alerts
      /\ new.runtime = rows.runtime
  BY <1>1 DEF mark_outbox_published, SessionRows
<1>3. load_alert_state(new) = load_alert_state(rows)
  BY <1>2 DEF load_alert_state
<1> QED
  BY <1>2, <1>3 DEF Sound

(* Failing a session changes only its status. *)
LEMMA FailSound ==
  ASSUME NEW rows, Sound(rows), NEW new, new = record_failed_status(rows)
  PROVE  /\ Sound(new)
         /\ new.published = rows.published
         /\ new.events = rows.events
         /\ new.outbox = rows.outbox
<1>1. rows \in SessionRows
  BY DEF Sound
<1>2. /\ new \in SessionRows
      /\ new.published = rows.published
      /\ new.events = rows.events
      /\ new.outbox = rows.outbox
      /\ new.decisions = rows.decisions
      /\ new.alerts = rows.alerts
      /\ new.runtime = rows.runtime
  BY <1>1 DEF record_failed_status, SessionRows
<1>3. load_alert_state(new) = load_alert_state(rows)
  BY <1>2 DEF load_alert_state
<1> QED
  BY <1>2, <1>3 DEF Sound

(* ------------------------- what soundness promises ------------------------- *)

(* The OPEN rows are the active alert. *)
LEMMA SoundOpenIsActive ==
  ASSUME NEW rows, Sound(rows)
  PROVE  OpenIsActive(rows)
  BY DEF Sound, SoundAlerts, OpenIsActive

(* A decision in order is never refused. *)
LEMMA SoundNeverRejected ==
  ASSUME NEW rows, Sound(rows)
  PROVE  NeverRejected(rows)
<1> SUFFICES ASSUME NEW d \in Decision,
                    d.ts > load_alert_state(rows).last_source_timestamp
             PROVE  /\ ValidEvent(transition(load_alert_state(rows), d).event)
                    /\ ~ForeignKeyFails(rows, d, transition(load_alert_state(rows), d))
  BY DEF NeverRejected
<1>1. load_alert_state(rows).last_source_timestamp \in 0..Horizon /\ d.ts \in 1..Horizon
  BY SoundLoads, StateFields DEF Decision, Windows
<1>2. load_alert_state(rows).last_source_timestamp < d.ts
  BY <1>1, HorizonAssumption
<1> QED
  BY <1>2, InOrderSound, EventAccepted

(* ------------------ what one transaction says of its decision -------------- *)

(* transition stamps the state with every decision it accepts. *)
LEMMA TransitionStamps ==
  ASSUME NEW st, SoundState(st), NEW d \in Decision, ~OrderingViolation(st, d),
         NEW result, result = transition(st, d)
  PROVE  /\ result.state \in AlertStates
         /\ result.state.last_source_timestamp = d.ts
<1>1. CASE Redelivered(st, d)
  <2>1. result.state = st
    BY <1>1 DEF transition, Quiet
  <2> QED
    BY <1>1, <2>1 DEF SoundState, Redelivered, decision_id
<1>2. CASE ~Redelivered(st, d)
  <2> DEFINE ids == Streak(st, d)
  <2>1. /\ st \in AlertStates
        /\ st.last_source_timestamp \in 0..Horizon /\ d.ts \in Windows
        /\ st.active_alert_id \in 0..Horizon /\ st.previous_alert_id \in 0..Horizon
        /\ st.first_detection \in 0..Horizon
    BY StateFields DEF SoundState, Decision
  <2>2. st.last_source_timestamp < d.ts
    BY <1>2, <2>1, HorizonAssumption DEF OrderingViolation, None, Windows
  <2>3. ids \in Seq(Windows) /\ ids[1] \in Windows
    BY <2>2, StreakExtended
  <2>4. OrElse(st.first_detection, d.ts) \in Windows
    BY <2>1, HorizonAssumption DEF OrElse, None, Windows
  <2>5. /\ st.active_alert_id # None => st.active_alert_id \in Windows
        /\ st.previous_alert_id # None => st.previous_alert_id \in Windows
    BY <2>1, HorizonAssumption DEF None, Windows
  <2> HIDE DEF ids
  <2>6. CASE result = Counted(st, d, ids)
    BY <2>1, <2>3, <2>6, CountedFields
  <2>7. CASE /\ is_reopen(st, d)
             /\ result = emit_anomaly_result(st, d, "REOPENED", st.previous_alert_id,
                                             OrElse(st.first_detection, d.ts), ids)
    <3>1. st.previous_alert_id \in Windows
      BY <2>5, <2>7 DEF is_reopen
    <3> QED
      BY <2>1, <2>3, <2>4, <2>7, <3>1, EmitFields
  <2>8. CASE result = emit_anomaly_result(st, d, "OPENED", ids[1], d.ts, ids)
    BY <2>1, <2>3, <2>8, EmitFields
  <2>9. CASE /\ st.active_alert_id # None
             /\ result = emit_anomaly_result(st, d, "UPDATED", st.active_alert_id,
                                             OrElse(st.first_detection, d.ts), ids)
    BY <2>1, <2>3, <2>4, <2>5, <2>9, EmitFields
  <2>10. CASE /\ st.active_alert_id # None => st.normal_streak + 1 < Cooldown
              /\ result = handle_normal(st, d)
    BY <2>1, <2>10, CalmFields
  <2>11. CASE st.active_alert_id # None /\ result = resolve(st, d)
    BY <2>1, <2>11, ResolveFields
  <2> QED
    BY <2>2, <2>6, <2>7, <2>8, <2>9, <2>10, <2>11, Outcomes DEF ids
<1> QED
  BY <1>1, <1>2

(* A recorded decision is stored, with those stored before; the session's row  *)
(* appears but is never taken out of FAILED or into it; the state is stored.   *)
LEMMA RecordStores ==
  ASSUME NEW rows \in SessionRows, NEW d, NEW result,
         NEW new, new = record_decision_transition(rows, d, result)
  PROVE  /\ \E x \in new.decisions : x.ts = d.ts
         /\ rows.decisions \subseteq new.decisions
         /\ (\E x \in rows.decisions : x.ts = d.ts) => new.decisions = rows.decisions
         /\ (\A x \in rows.decisions : x.ts # d.ts) =>
              new.decisions = rows.decisions \cup {d}
         /\ new.session = "FAILED" <=> rows.session = "FAILED"
         /\ new.runtime = result.state
<1> DEFINE kept == Kept(rows, d, result.state)
<1> DEFINE D == IF \E x \in rows.decisions : x.ts = d.ts
                  THEN rows.decisions ELSE rows.decisions \cup {d}
<1>1. (\E x \in D : x.ts = d.ts) /\ rows.decisions \subseteq D
  OBVIOUS
<1>2. /\ kept.decisions = D
      /\ kept.session = IF rows.session = "ABSENT" THEN "RUNNING" ELSE rows.session
      /\ kept.runtime = result.state
      /\ DOMAIN kept = DOMAIN rows
  BY DEF Kept, SessionRows, decision_id
<1> HIDE DEF D
<1>3. kept.session = "FAILED" <=> rows.session = "FAILED"
  BY <1>2
<1>4. new.decisions = kept.decisions /\ new.session = kept.session
      /\ new.runtime = kept.runtime
  <2>1. CASE result.event.action = "NONE"
    BY <2>1 DEF record_decision_transition, Kept
  <2>2. CASE result.event.action # "NONE"
    <3>1. new = RecordEvent(kept, d, result)
      BY <2>2 DEF record_decision_transition, Kept
    <3>2. {"session", "decisions", "alerts", "events", "evidence", "outbox", "runtime"}
            \subseteq DOMAIN kept
      BY <1>2 DEF SessionRows
    <3> HIDE DEF kept
    <3> QED
      BY <3>1, <3>2 DEF RecordEvent
  <2> QED
    BY <2>1, <2>2
<1> QED
  BY <1>1, <1>2, <1>3, <1>4 DEF D

(* Once a decision in order is recorded it is the last the session has seen.   *)
LEMMA RecordStamps ==
  ASSUME NEW rows, Sound(rows), NEW d \in Decision,
         ~OrderingViolation(load_alert_state(rows), d),
         NEW result, result = transition(load_alert_state(rows), d),
         NEW new, new = record_decision_transition(LoadedRows(rows), d, result)
  PROVE  /\ \E x \in new.decisions : x.ts = d.ts
         /\ rows.decisions \subseteq new.decisions
         /\ new.session = "FAILED" <=> rows.session = "FAILED"
         /\ load_alert_state(new).last_source_timestamp = d.ts
<1>1. LoadedRows(rows) = rows /\ rows \in SessionRows
      /\ SoundState(load_alert_state(rows))
  BY SoundLoads DEF Sound
<1>2. result.state \in AlertStates /\ result.state.last_source_timestamp = d.ts
  BY <1>1, TransitionStamps
<1>3. new = record_decision_transition(rows, d, result)
  BY <1>1
<1>4. /\ \E x \in new.decisions : x.ts = d.ts
      /\ rows.decisions \subseteq new.decisions
      /\ new.session = "FAILED" <=> rows.session = "FAILED"
      /\ new.runtime = result.state
  BY <1>1, <1>3, RecordStores
<1>5. load_alert_state(new) = result.state
  BY <1>2, <1>4, NoStateAssumption DEF load_alert_state
<1> QED
  BY <1>2, <1>4, <1>5

(* A decision no earlier than the last one of its session is accepted: a later *)
(* one in order, the last one again as a redelivery.                           *)
LEMMA NotEarlierAccepted ==
  ASSUME NEW rows, Sound(rows), NEW st, st = load_alert_state(rows),
         NEW d \in Decision, st.last_source_timestamp <= d.ts
  PROVE  /\ ~OrderingViolation(st, d)
         /\ ValidEvent(transition(st, d).event)
         /\ ~ForeignKeyFails(LoadedRows(rows), d, transition(st, d))
<1>1. LoadedRows(rows) = rows /\ st \in AlertStates /\ SoundState(st)
  BY SoundLoads DEF Sound
<1>2. st.last_source_timestamp \in 0..Horizon /\ d.ts \in Windows
  BY <1>1, StateFields DEF Decision
<1>3. CASE st.last_source_timestamp = d.ts
  <2>1. Redelivered(st, d)
    BY <1>1, <1>3 DEF Redelivered, SoundState, decision_id
  <2>2. transition(st, d).event = NoEvent
    BY <2>1 DEF transition, Quiet
  <2> QED
    BY <2>1, <2>2 DEF OrderingViolation, ValidEvent, ForeignKeyFails, NoEvent, AlertActions
<1>4. CASE st.last_source_timestamp # d.ts
  <2>1. st.last_source_timestamp < d.ts
    BY <1>2, <1>4, HorizonAssumption DEF Windows
  <2>2. ~OrderingViolation(st, d)
    BY <1>2, <2>1, HorizonAssumption DEF OrderingViolation, Windows
  <2>3. ValidEvent(transition(st, d).event)
        /\ ~ForeignKeyFails(rows, d, transition(st, d))
    BY <2>1, InOrderSound, EventAccepted
  <2> QED
    BY <1>1, <2>2, <2>3
<1> QED
  BY <1>3, <1>4

(* ----------------- the stored state is a replay of the decisions ----------- *)

(* The least number of a set of numbers. *)
LEMMA LeastNumber ==
  ASSUME NEW T \in SUBSET Nat, T # {}
  PROVE  \E n \in T : \A m \in T : n <= m
<1> DEFINE R == OpToRel(<, Nat)
<1>1. IsWellFoundedOn(R, Nat)
  BY NatLessThanWellFounded
<1>2. \A x, y \in Nat : x < y => <<x, y>> \in R
  BY DEF OpToRel
<1> HIDE DEF R
<1>3. PICK x \in T : \A y \in T : ~ (<<y, x>> \in R)
  BY <1>1, WFMin
<1>4. \A y \in T : ~(y < x)
  BY <1>2, <1>3
<1> QED
  BY <1>4

(* Induction over the windows, as a statement about sets. *)
LEMMA WindowInduction ==
  ASSUME NEW S, 0 \in S, \A n \in 1..Horizon : n - 1 \in S => n \in S
  PROVE  0..Horizon \subseteq S
<1> DEFINE T == {n \in 0..Horizon : n \notin S}
<1>1. SUFFICES ASSUME T # {} PROVE FALSE
  OBVIOUS
<1>2. T \in SUBSET Nat
  BY HorizonAssumption
<1>3. PICK n \in T : \A m \in T : n <= m
  BY <1>1, <1>2, LeastNumber
<1>4. n \in 1..Horizon
  BY <1>3, HorizonAssumption
<1>5. n - 1 \in 0..Horizon /\ ~(n <= n - 1)
  BY <1>4, HorizonAssumption
<1>6. n - 1 \in S
  BY <1>3, <1>5
<1> QED
  BY <1>3, <1>4, <1>6

(* One window of the replay: the decision of window w, if there is one, is     *)
(* applied to the state.                                                       *)
Step(D, w, st) ==
  IF \E d \in D : d.ts = w THEN transition(st, CHOOSE d \in D : d.ts = w).state ELSE st

(* f replays the decisions D up to window n. *)
Replays(f, D, n) ==
  /\ f = [w \in 0..n |-> f[w]]
  /\ f[0] = empty
  /\ \A w \in 1..n : f[w] = Step(D, w, f[w - 1])

(* There is a replay of any set of decisions, over all windows. *)
LEMMA ReplayExists ==
  ASSUME NEW D
  PROVE  \E f : Replays(f, D, Horizon)
<1> DEFINE S == {n \in 0..Horizon : \E f : Replays(f, D, n)}
<1>1. 0 \in S
  <2> DEFINE f == [w \in 0..0 |-> empty]
  <2>1. Replays(f, D, 0)
    BY DEF Replays
  <2> QED
    BY <2>1, HorizonAssumption
<1>2. ASSUME NEW n \in 1..Horizon, n - 1 \in S
      PROVE  n \in S
  <2>1. PICK f : Replays(f, D, n - 1)
    BY <1>2
  <2>2. n \in Nat /\ n >= 1 /\ n \in 0..Horizon
    BY HorizonAssumption
  <2> DEFINE g == [w \in 0..n |-> IF w = n THEN Step(D, n, f[n - 1]) ELSE f[w]]
  <2>3. g[0] = empty
    BY <2>1, <2>2 DEF Replays
  <2>4. ASSUME NEW w \in 1..n PROVE g[w] = Step(D, w, g[w - 1])
    <3>1. w \in 0..n /\ w - 1 \in 0..n /\ w - 1 # n
      BY <2>2
    <3>2. g[w - 1] = f[w - 1]
      BY <3>1
    <3>3. CASE w = n
      BY <3>1, <3>2, <3>3
    <3>4. CASE w # n
      <4>1. w \in 1..(n - 1)
        BY <2>2, <3>4
      <4>2. f[w] = Step(D, w, f[w - 1])
        BY <2>1, <4>1 DEF Replays
      <4> QED
        BY <3>1, <3>2, <3>4, <4>2
    <3> QED
      BY <3>3, <3>4
  <2>5. g = [w \in 0..n |-> g[w]]
    OBVIOUS
  <2> HIDE DEF g
  <2>6. Replays(g, D, n)
    BY <2>3, <2>4, <2>5 DEF Replays
  <2> QED
    BY <2>2, <2>6
<1>3. 0..Horizon \subseteq S
  <2> HIDE DEF S
  <2> QED
    BY <1>1, <1>2, WindowInduction
<1>4. Horizon \in 0..Horizon
  BY HorizonAssumption
<1> QED
  BY <1>3, <1>4

(* The state reconstruct_alert_state returns is the last of a replay. *)
LEMMA ReconstructReplays ==
  ASSUME NEW D
  PROVE  \E f : Replays(f, D, Horizon) /\ reconstruct_alert_state(D) = f[Horizon]
<1> DEFINE Body(f) == [w \in 0..Horizon |->
             IF w = 0 THEN empty
             ELSE IF \E d \in D : d.ts = w
               THEN transition(f[w - 1], CHOOSE d \in D : d.ts = w).state
               ELSE f[w - 1]]
<1> DEFINE F == CHOOSE f : f = Body(f)
<1>1. PICK f : Replays(f, D, Horizon)
  BY ReplayExists
<1>2. ASSUME NEW g PROVE g = Body(g) <=> Replays(g, D, Horizon)
  <2>1. ASSUME g = Body(g) PROVE Replays(g, D, Horizon)
    <3>1. 0 \in 0..Horizon /\ \A w \in 1..Horizon : w \in 0..Horizon /\ w # 0
      BY HorizonAssumption
    <3>2. g[0] = empty
      BY <2>1, <3>1
    <3>3. \A w \in 1..Horizon : g[w] = Step(D, w, g[w - 1])
      BY <2>1, <3>1 DEF Step
    <3>4. g = [w \in 0..Horizon |-> g[w]]
      BY <2>1
    <3> QED
      BY <3>2, <3>3, <3>4 DEF Replays
  <2>2. ASSUME Replays(g, D, Horizon) PROVE g = Body(g)
    <3>1. \A w \in 0..Horizon : w = 0 \/ w \in 1..Horizon
      BY HorizonAssumption
    <3>2. \A w \in 0..Horizon : g[w] = Body(g)[w]
      BY <2>2, <3>1 DEF Replays, Step
    <3>3. g = [w \in 0..Horizon |-> g[w]]
      BY <2>2 DEF Replays
    <3> QED
      BY <3>2, <3>3
  <2> QED
    BY <2>1, <2>2
<1>3. reconstruct_alert_state(D) = F[Horizon]
  BY DEF reconstruct_alert_state
<1>4. F = Body(F)
  <2>1. f = Body(f)
    BY <1>1, <1>2
  <2> HIDE DEF Body
  <2> QED
    BY <2>1
<1>5. Replays(F, D, Horizon)
  BY <1>2, <1>4
<1> QED
  BY <1>3, <1>5

(* No two decisions are of one window. *)
OnePerWindow(D) == \A x, y \in D : x.ts = y.ts => x = y

(* Replaying no decision gives the empty state. *)
LEMMA ReconstructNothing == reconstruct_alert_state({}) = empty
<1>1. PICK f : Replays(f, {}, Horizon) /\ reconstruct_alert_state({}) = f[Horizon]
  BY ReconstructReplays
<1> DEFINE S == {n \in 0..Horizon : f[n] = empty}
<1>2. 0 \in S
  <2>1. f[0] = empty
    BY <1>1 DEF Replays
  <2>2. 0 \in 0..Horizon
    BY HorizonAssumption
  <2> QED
    BY <2>1, <2>2
<1>3. ASSUME NEW n \in 1..Horizon, n - 1 \in S PROVE n \in S
  <2>1. f[n] = Step({}, n, f[n - 1])
    BY <1>1 DEF Replays
  <2>2. n \in 0..Horizon
    BY HorizonAssumption
  <2> QED
    BY <1>3, <2>1, <2>2 DEF Step
<1>4. 0..Horizon \subseteq S
  <2> HIDE DEF S
  <2> QED
    BY <1>2, <1>3, WindowInduction
<1>5. Horizon \in 0..Horizon
  BY HorizonAssumption
<1> QED
  BY <1>1, <1>4, <1>5

(* A decision later than those replayed is applied last. *)
LEMMA ReconstructExtends ==
  ASSUME NEW D \in SUBSET Decision, OnePerWindow(D), NEW d \in Decision,
         \A x \in D : x.ts < d.ts
  PROVE  reconstruct_alert_state(D \cup {d}) =
           transition(reconstruct_alert_state(D), d).state
<1> DEFINE E == D \cup {d}
<1>1. PICK f : Replays(f, D, Horizon) /\ reconstruct_alert_state(D) = f[Horizon]
  BY ReconstructReplays
<1>2. PICK g : Replays(g, E, Horizon) /\ reconstruct_alert_state(E) = g[Horizon]
  BY ReconstructReplays
<1>3. d.ts \in 1..Horizon /\ \A x \in D : x.ts \in 1..Horizon
  BY DEF Decision, Windows
<1>4. ASSUME NEW w \in 1..Horizon, w < d.ts, NEW st PROVE Step(E, w, st) = Step(D, w, st)
  <2>1. \A x \in E : x.ts = w => x \in D
    BY <1>3, <1>4
  <2>2. CASE \E x \in D : x.ts = w
    <3>1. PICK x \in D : x.ts = w
      BY <2>2
    <3>2. \A y \in E : y.ts = w => y = x
      BY <2>1, <3>1 DEF OnePerWindow
    <3>3. (CHOOSE y \in E : y.ts = w) = x
      BY <3>1, <3>2
    <3>4. (CHOOSE y \in D : y.ts = w) = x
      BY <3>1, <3>2
    <3>5. \E y \in E : y.ts = w
      BY <3>1
    <3> QED
      BY <2>2, <3>3, <3>4, <3>5 DEF Step
  <2>3. CASE ~\E x \in D : x.ts = w
    <3>1. ~\E x \in E : x.ts = w
      BY <2>1, <2>3
    <3> QED
      BY <2>3, <3>1 DEF Step
  <2> QED
    BY <2>2, <2>3
<1>5. ASSUME NEW w \in 1..Horizon, w > d.ts, NEW st
      PROVE  Step(E, w, st) = st /\ Step(D, w, st) = st
  <2>1. ~\E x \in E : x.ts = w
    BY <1>3, <1>5
  <2> QED
    BY <2>1 DEF Step
<1>6. ASSUME NEW st
      PROVE  Step(E, d.ts, st) = transition(st, d).state /\ Step(D, d.ts, st) = st
  <2>1. \A x \in E : x.ts = d.ts => x = d
    BY <1>3
  <2>2. (CHOOSE x \in E : x.ts = d.ts) = d
    BY <2>1
  <2>3. ~\E x \in D : x.ts = d.ts
    BY <1>3
  <2> QED
    BY <2>2, <2>3 DEF Step
<1> DEFINE st == f[d.ts - 1]
<1> DEFINE S == {n \in 0..Horizon :
                   /\ n < d.ts => f[n] = g[n]
                   /\ n >= d.ts => f[n] = st /\ g[n] = transition(st, d).state}
<1> HIDE DEF E
<1>7. 0 \in S
  <2>1. f[0] = g[0]
    BY <1>1, <1>2 DEF Replays
  <2>2. 0 \in 0..Horizon /\ 0 < d.ts /\ ~(0 >= d.ts)
    BY <1>3, HorizonAssumption
  <2> QED
    BY <2>1, <2>2
<1>8. ASSUME NEW n \in 1..Horizon, n - 1 \in S PROVE n \in S
  <2>1. /\ f[n] = Step(D, n, f[n - 1]) /\ g[n] = Step(E, n, g[n - 1])
    BY <1>1, <1>2 DEF Replays
  <2>2. n \in 0..Horizon /\ n \in Nat /\ d.ts \in Nat
    BY <1>3, HorizonAssumption
  <2>3. CASE n < d.ts
    <3>1. n - 1 < d.ts /\ ~(n >= d.ts)
      BY <2>2, <2>3
    <3>2. f[n - 1] = g[n - 1]
      BY <1>8, <3>1
    <3>3. f[n] = g[n]
      BY <1>4, <2>1, <2>3, <3>2
    <3> QED
      BY <2>2, <3>1, <3>3
  <2>4. CASE n = d.ts
    <3>1. n - 1 < d.ts /\ ~(n < d.ts)
      BY <2>2, <2>4
    <3>2. f[n - 1] = st /\ g[n - 1] = st
      BY <1>8, <2>4, <3>1
    <3>3. f[n] = st /\ g[n] = transition(st, d).state
      BY <1>6, <2>1, <2>4, <3>2
    <3> QED
      BY <2>2, <3>1, <3>3
  <2>5. CASE n > d.ts
    <3>1. n - 1 >= d.ts /\ ~(n < d.ts)
      BY <2>2, <2>5
    <3>2. f[n - 1] = st /\ g[n - 1] = transition(st, d).state
      BY <1>8, <3>1
    <3>3. f[n] = st /\ g[n] = transition(st, d).state
      BY <1>5, <2>1, <2>5, <3>2
    <3> QED
      BY <2>2, <3>1, <3>3
  <2> QED
    BY <2>2, <2>3, <2>4, <2>5
<1>9. 0..Horizon \subseteq S
  <2> HIDE DEF S
  <2> QED
    BY <1>7, <1>8, WindowInduction
<1>10. Horizon \in 0..Horizon /\ Horizon >= d.ts
  BY <1>3, HorizonAssumption
<1>11. f[Horizon] = st /\ g[Horizon] = transition(st, d).state
  BY <1>9, <1>10
<1> QED
  BY <1>1, <1>2, <1>11 DEF E

(* What the decisions say of the state: they are replayed to it, and it is     *)
(* stamped with the last of them.                                              *)
Replayed(rows) ==
  /\ OnePerWindow(rows.decisions)
  /\ \A x \in rows.decisions : x.ts <= load_alert_state(rows).last_source_timestamp
  /\ load_alert_state(rows).last_source_timestamp # None =>
       \E x \in rows.decisions : x.ts = load_alert_state(rows).last_source_timestamp
  /\ Reconstructs(rows)

(* The state that is loaded is the replay, stored or not. *)
LEMMA LoadedIsReplay ==
  ASSUME NEW rows, Reconstructs(rows)
  PROVE  load_alert_state(rows) = reconstruct_alert_state(rows.decisions)
  BY ReconstructNothing DEF Reconstructs, load_alert_state

(* A session the store has never written. *)
LEMMA NoRowsReplayed == Replayed(NoRows)
<1>1. NoRows.decisions = {} /\ NoRows.runtime = NoState
  BY DEF NoRows
<1>2. load_alert_state(NoRows) = empty /\ empty.last_source_timestamp = None
  BY <1>1 DEF load_alert_state, empty
<1> QED
  BY <1>1, <1>2 DEF Replayed, OnePerWindow, Reconstructs

(* Rows with the same decisions and state are replayed alike. *)
LEMMA SameReplayed ==
  ASSUME NEW rows, Replayed(rows), NEW new,
         new.decisions = rows.decisions, new.runtime = rows.runtime
  PROVE  Replayed(new)
<1>1. load_alert_state(new) = load_alert_state(rows)
  BY DEF load_alert_state
<1> QED
  BY <1>1 DEF Replayed, Reconstructs

(* A decision that is recorded is the last of the replay, one delivered again  *)
(* is in it already.                                                           *)
LEMMA RecordReplayed ==
  ASSUME NEW rows, Sound(rows), Replayed(rows), NEW d \in Decision,
         ~OrderingViolation(load_alert_state(rows), d),
         NEW result, result = transition(load_alert_state(rows), d),
         NEW new, new = record_decision_transition(LoadedRows(rows), d, result)
  PROVE  Replayed(new)
<1> DEFINE st == load_alert_state(rows)
<1>1. LoadedRows(rows) = rows /\ rows \in SessionRows /\ SoundState(st)
  BY SoundLoads DEF Sound
<1>2. result.state \in AlertStates /\ result.state.last_source_timestamp = d.ts
  BY <1>1, TransitionStamps
<1>3. new = record_decision_transition(rows, d, result)
  BY <1>1
<1>4. /\ (\E x \in rows.decisions : x.ts = d.ts) => new.decisions = rows.decisions
      /\ (\A x \in rows.decisions : x.ts # d.ts) =>
           new.decisions = rows.decisions \cup {d}
      /\ \E x \in new.decisions : x.ts = d.ts
      /\ new.runtime = result.state
  BY <1>1, <1>3, RecordStores
<1>5. load_alert_state(new) = result.state
  BY <1>2, <1>4, NoStateAssumption DEF load_alert_state
<1>6. rows.decisions \in SUBSET Decision
  BY <1>1 DEF SessionRows
<1>7. st = reconstruct_alert_state(rows.decisions)
  BY LoadedIsReplay DEF Replayed
<1>8. /\ OnePerWindow(rows.decisions)
      /\ \A x \in rows.decisions : x.ts <= st.last_source_timestamp
      /\ st.last_source_timestamp # None =>
           \E x \in rows.decisions : x.ts = st.last_source_timestamp
  BY DEF Replayed
<1>9. st \in AlertStates /\ st.last_decision_id = st.last_source_timestamp
  BY <1>1 DEF SoundState
<1>10. st.last_source_timestamp \in 0..Horizon /\ d.ts \in 1..Horizon
  BY <1>9, StateFields DEF Decision, Windows
<1> HIDE DEF st
<1>11. CASE Redelivered(st, d)
  <2>1. result.state = st
    BY <1>11 DEF transition, Quiet, st
  <2>2. d.ts = st.last_source_timestamp /\ d.ts # None
    BY <1>9, <1>10, <1>11, HorizonAssumption DEF Redelivered, decision_id, None
  <2>3. new.decisions = rows.decisions
    BY <1>4, <1>8, <2>2
  <2> QED
    BY <1>4, <1>5, <1>7, <1>8, <2>1, <2>3 DEF Replayed, Reconstructs
<1>12. CASE ~Redelivered(st, d)
  <2>1. st.last_source_timestamp < d.ts
    BY <1>10, <1>12, HorizonAssumption DEF OrderingViolation, None, st
  <2>2. \A x \in rows.decisions : x.ts \in 1..Horizon
    BY <1>6 DEF Decision, Windows
  <2>3. \A x \in rows.decisions : x.ts < d.ts
    BY <1>8, <1>10, <2>1, <2>2, HorizonAssumption
  <2>4. new.decisions = rows.decisions \cup {d}
    BY <1>4, <1>10, <2>2, <2>3, HorizonAssumption
  <2>5. reconstruct_alert_state(new.decisions) = transition(st, d).state
    BY <1>6, <1>7, <1>8, <2>3, <2>4, ReconstructExtends
  <2>6. Reconstructs(new)
    BY <1>4, <2>5 DEF Reconstructs, st
  <2>7. OnePerWindow(new.decisions)
    BY <1>8, <1>10, <2>2, <2>3, <2>4, HorizonAssumption DEF OnePerWindow
  <2>8. \A x \in new.decisions : x.ts <= d.ts
    BY <1>10, <2>2, <2>3, <2>4, HorizonAssumption
  <2> QED
    BY <1>2, <1>4, <1>5, <2>6, <2>7, <2>8 DEF Replayed
<1> QED
  BY <1>11, <1>12
===============================================================================
