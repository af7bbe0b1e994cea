------------------------------ MODULE AlertPolicy ------------------------------
(* The offline simulation that calibrates the alert policy (alert_policy.py):  *)
(* it counts the episodes a candidate policy would open on the calibration     *)
(* scores and the windows spent in alert.  The locked policy is chosen on      *)
(* these counts, so they must be what the online state machine produces.       *)
EXTENDS AlertState

SimStates ==
  [is_active : BOOLEAN,
   anomaly_streak : Nat,
   normal_streak : Nat,
   last_resolution : Windows \cup {None},
   episodes : Nat,
   alert_window_count : Nat]

SimStart ==
  [is_active |-> FALSE, anomaly_streak |-> 0, normal_streak |-> 0,
   last_resolution |-> None, episodes |-> 0, alert_window_count |-> 0]

(* Mutant: a strict merge gap. *)
is_merged_strict(sim, ts) ==
  /\ sim.last_resolution # None
  /\ MergeGap > 0
  /\ ts - sim.last_resolution < MergeGap

is_merged(sim, ts) ==
  /\ sim.last_resolution # None
  /\ MergeGap > 0
  /\ ts - sim.last_resolution <= MergeGap

step_anomaly(sim, ts) ==
  LET triggers == ~sim.is_active /\ sim.anomaly_streak + 1 >= Persistence
  IN [sim EXCEPT !.is_active = @ \/ triggers,
                 !.anomaly_streak = @ + 1,
                 !.normal_streak = 0,
                 !.episodes = IF triggers /\ ~is_merged(sim, ts) THEN @ + 1 ELSE @]

step_normal(sim, ts) ==
  LET resolves == sim.is_active /\ sim.normal_streak + 1 >= Cooldown
  IN [sim EXCEPT !.is_active = @ /\ ~resolves,
                 !.anomaly_streak = 0,
                 !.normal_streak = @ + 1,
                 !.last_resolution = IF resolves THEN ts ELSE @]

(* One iteration of _simulate_alert_stream. *)
simulate_step(sim, d) ==
  LET next == IF d.is_anomaly THEN step_anomaly(sim, d.ts)
                              ELSE step_normal(sim, d.ts)
  IN [next EXCEPT !.alert_window_count = IF next.is_active THEN @ + 1 ELSE @]
===============================================================================
