---------------------------- MODULE MCCalibration ----------------------------
(***************************************************************************)
(* What is computed twice, offline and at run time, checked on small       *)
(* instances: the alert lifecycle against the calibration's simulation     *)
(* (AlertUpgrade), the policy grid (PolicyCalibration), the threshold and  *)
(* the evaluation of a package (OfflineEvaluation) and the feature windows *)
(* (OnlineFeatures).  These do not interact: a behaviour is a behaviour of *)
(* one of them, chosen at the start, and the others stay where they begin. *)
(***************************************************************************)
EXTENDS Calibration

VARIABLES
  part,   \* the component this behaviour is of
  builder, out, segments, faults

(* All lists of five calibration scores, and no holdout to speak of. *)
Threshold == INSTANCE OfflineEvaluation
  WITH MaxTime <- 1, MaxScore <- 3, MaxCalibration <- 5,
       Horizon <- EventHorizon, Day <- EvaluationDay

(* Faults among five events. *)
Faulty == INSTANCE OnlineFeatures
  WITH Stride <- 2, Lookback <- 2, MinObs <- 1, MaxEvents <- 5, Horizon <- 5,
       Values <- {0, 1}, MaxFaults <- 2, MaxJump <- 0

(* Bins with too few observations and empty bins among eight events. *)
Sparse == INSTANCE OnlineFeatures
  WITH Stride <- 2, Lookback <- 2, MinObs <- 2, MaxEvents <- 8, Horizon <- 8,
       Values <- {0}, MaxFaults <- 0, MaxJump <- 1

featureVars == <<builder, out, segments, faults>>
allVars == <<vars, part, gridVars, offlineVars, featureVars>>

Parts == {"alerts", "grid", "threshold", "evaluation", "faulty", "sparse"}

(* A component that has no part in the behaviour. *)
NoGrid ==
  /\ research = FALSE /\ split = "none" /\ count = 0 /\ start = 0 /\ end = 0
  /\ sims = <<>> /\ first = <<>> /\ locked = {}
NoOffline ==
  /\ stage = "none" /\ calibration = <<>> /\ threshold = 0 /\ golden = <<>>
  /\ holdout = <<>> /\ events = <<>> /\ left = {} /\ open = {}
  /\ episodes = <<>> /\ result = {}

MCInit ==
  /\ part \in Parts
  /\ Init /\ Faulty!Init
  /\ IF part = "grid" THEN Grid!Init ELSE NoGrid
  /\ CASE part = "threshold" -> Threshold!Init
       [] part = "evaluation" -> Offline!Init
       [] OTHER -> NoOffline

MCNext ==
  /\ UNCHANGED part
  /\ \/ /\ part = "alerts" /\ (Next \/ Upgrade)
        /\ UNCHANGED <<gridVars, offlineVars, featureVars>>
     \/ /\ part = "grid" /\ Grid!Next
        /\ UNCHANGED <<vars, offlineVars, featureVars>>
     \/ /\ part = "threshold" /\ Threshold!Next
        /\ UNCHANGED <<vars, gridVars, featureVars>>
     \/ /\ part = "evaluation" /\ Offline!Next
        /\ UNCHANGED <<vars, gridVars, featureVars>>
     \/ /\ part = "faulty" /\ Faulty!Next
        /\ UNCHANGED <<vars, gridVars, offlineVars>>
     \/ /\ part = "sparse" /\ Sparse!Next
        /\ UNCHANGED <<vars, gridVars, offlineVars>>

MCSpec == MCInit /\ [][MCNext]_allVars

-----------------------------------------------------------------------------

(* calibrate_threshold, select_golden_cases: they describe their split. *)
ThresholdDescribesSplit == Threshold!ThresholdDescribesSplit

(* push, complete: with faults, every window is an offline window of one    *)
(* uninterrupted segment, and none of the open segment is missing; without  *)
(* faults only offline windows, and all of them where no bin is empty.      *)
WindowsMatchOffline ==
  /\ part = "faulty" => Faulty!NoWindowSpansABreak /\ Faulty!OpenSegmentIsScored
  /\ part = "sparse" => Sparse!MatchesOffline
=============================================================================
