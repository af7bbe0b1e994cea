----------------------------- MODULE Calibration -----------------------------
(***************************************************************************)
(* What is computed twice, offline and at run time: the alert lifecycle    *)
(* and the calibration's simulation of it (AlertUpgrade), the grid of      *)
(* policies this simulation is run for (PolicyCalibration), and the        *)
(* episodes and the verdict of the offline evaluation (OfflineEvaluation). *)
(* They share no state.                                                    *)
(***************************************************************************)
EXTENDS AlertUpgrade

CONSTANTS MaxWindows, Span, Persistences, Cooldowns, Gaps, Day, AlertPercent,
          MaxTime, MaxScore, MaxCalibration, QuantilePercent, AnomalyInclusive, Stride,
          EventHorizon, MaxEvents, MinDetected, MaxFalse, EvaluationDay, MaxAlertPercent

ASSUME GridAssumption ==
  /\ Persistences \subseteq Nat \ {0} /\ Cooldowns \subseteq Nat \ {0}
  /\ Gaps \subseteq Nat /\ MaxWindows \in Nat

ASSUME EvaluationAssumption ==
  MaxTime \in Nat /\ Stride \in Nat \ {0} /\ EventHorizon \in Nat

VARIABLES research, split, count, start, end, sims, first, locked,
          stage, calibration, threshold, golden, holdout, events, left, open,
          episodes, result

Grid == INSTANCE PolicyCalibration

Offline == INSTANCE OfflineEvaluation WITH Horizon <- EventHorizon, Day <- EvaluationDay

gridVars == <<research, split, count, start, end, sims, first, locked>>
offlineVars == <<stage, calibration, threshold, golden, holdout, events, left,
                 open, episodes, result>>

-----------------------------------------------------------------------------
(* select_policy: the locked policy is the most sensitive that passes.     *)
(* Before the first row every candidate is where it starts.                *)
LockedIsMostSensitive == count > 0 => Grid!LockedIsMostSensitive

(* build_episodes, evaluate: the verdict counts what happened. *)
EvaluationIsExact == Offline!EvaluationIsExact
=============================================================================
