----------------------------- MODULE AlertUpgrade -----------------------------
(* Upgrading a database that predates migration 004: score_decisions, alerts   *)
(* and their events are there, alert_runtime_states is created empty, and the  *)
(* next load_alert_state must rebuild the state machine from the decisions.    *)
EXTENDS AlertStream

(* Migration 004 is applied to a database written by the earlier release. *)
Upgrade ==
  /\ rows' = [rows EXCEPT !.runtime = NoState]
  /\ UNCHANGED <<sim, inAlert>>

UpgradeSpec == Init /\ [][Next \/ Upgrade]_vars

(* The rebuilt state machine agrees with the alert rows: an alert open before  *)
(* the upgrade is the active alert after it, and no second one is opened.      *)
OpenAlertIsActive == OpenIsActive(rows)

(* Alerts, events, evidence, outbox and stored state machine tell one      *)
(* story, across redelivery and the upgrade (record_decision_transition,   *)
(* load_alert_state).                                                      *)
AlertRowsAgree == TypeOK /\ OpenAlertIsActive /\ AlertHistories /\ TraceableAlerts
===============================================================================
