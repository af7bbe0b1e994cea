------------------------------ MODULE AlertStream ------------------------------
(* One session's decisions, in timestamp order, fed both to the online alert   *)
(* state machine with its store and to the offline calibration simulation.     *)
(* The decision handled last may be redelivered at any time: that is what a    *)
(* death of the alert service between its transaction and its offset commit    *)
(* causes.                                                                     *)
EXTENDS AlertStore, AlertPolicy, FiniteSets

VARIABLES
  rows,     \* the session's rows in PostgreSQL
  sim,      \* the simulation's locals
  inAlert   \* the number of decisions after which an alert was active

vars == <<rows, sim, inAlert>>

State == load_alert_state(rows)

(* Type invariant: the rows and the locals of _simulate_alert_stream. *)
TypeOK ==
  /\ rows \in SessionRows
  /\ sim \in SimStates
  /\ inAlert \in Nat

Init ==
  /\ rows = NoRows
  /\ sim = SimStart
  /\ inAlert = 0

Deliver(d) ==
  /\ ~OrderingViolation(State, d)
  /\ ValidEvent(transition(State, d).event)
  /\ ~ForeignKeyFails(rows, d, transition(State, d))
  /\ rows' = record_decision_transition(LoadedRows(rows), d, transition(State, d))

Score(d) ==
  /\ ~Redelivered(State, d)
  /\ Deliver(d)
  /\ sim' = simulate_step(sim, d)
  /\ inAlert' = IF transition(State, d).state.active_alert_id # None
                  THEN inAlert + 1 ELSE inAlert

Redeliver(d) ==
  /\ Redelivered(State, d)
  /\ Deliver(d)
  /\ UNCHANGED <<sim, inAlert>>

Next == \E d \in Decision : Score(d) \/ Redeliver(d)

Spec == Init /\ [][Next]_vars

(* -------------------------------- properties ------------------------------- *)

Opened == {e \in rows.events : e.action = "OPENED"}

(* The calibration counts are the runtime's: after the same decisions the      *)
(* simulation is in alert exactly when the online machine has an active alert, *)
(* its streaks are the online ones, and while no alert is active it would      *)
(* merge the next trigger exactly when the online machine would reopen.        *)
CalibrationAgrees ==
  /\ sim.is_active <=> State.active_alert_id # None
  /\ sim.anomaly_streak = State.anomaly_streak
  /\ sim.normal_streak = State.normal_streak
  /\ sim.alert_window_count = inAlert
  /\ ~sim.is_active => sim.last_resolution = State.resolved_at

(* The episodes the simulation counts are the alerts the store holds. *)
EpisodesAreAlerts ==
  /\ sim.episodes = Cardinality({a \in Windows : rows.alerts[a].state # "ABSENT"})
  /\ sim.episodes = Cardinality(Opened)

(* Each alert's stored events spell a legal lifecycle. *)
AlertHistories == LegalHistories(rows)

(* The chain from decision to outbox row is complete. *)
TraceableAlerts == Traceable(rows)

(* The policy is chosen on the counts the runtime produces: states,        *)
(* streaks and episodes (_simulate_alert_stream, transition).              *)
SimulationAgrees == CalibrationAgrees /\ EpisodesAreAlerts
===============================================================================
