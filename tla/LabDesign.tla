------------------------------ MODULE LabDesign ------------------------------
(***************************************************************************)
(* What is fixed when a virtual lab is drawn: the alert rules of a sensor  *)
(* (LabAnalysis) and the definition with its compilation (LabTopology).    *)
(* They share no state.                                                    *)
(***************************************************************************)
EXTENDS Integers

CONSTANTS Values, AlarmLow, AlarmHigh, Hysteresis, MaxSamples,
          AssetIds, PipeIds, SensorIds, Types, Ports, MaxAssets, MaxPipes, MaxSensors

(* Sensor.validate_sensor_rules; the hysteresis is a positive constant. *)
ASSUME SensorAssumption ==
  /\ Values \subseteq Int /\ {AlarmLow, AlarmHigh} \subseteq Int /\ Hysteresis \in Nat
  /\ AlarmLow + Hysteresis < AlarmHigh - Hysteresis

(* AssetType. *)
ASSUME TopologyAssumption ==
  Types \subseteq {"COMPRESSOR", "TANK", "ISOLATION_VALVE", "CONTROL_VALVE", "DEMAND"}

VARIABLES state, seen, alerts, lab

Rules == INSTANCE LabAnalysis
Topology == INSTANCE LabTopology

ruleVars == <<state, seen, alerts>>

-----------------------------------------------------------------------------
(* evaluate_sensor_observation: alerts open and resolve by their rules. *)
RulesObeyed == Rules!RulesObeyed

(* validate_lab, compile_lab, observe, clone_lab_definition: what is       *)
(* eligible runs as drawn, and so does its clone.                          *)
EligibleLabRuns == Topology!EligibleLabRuns
=============================================================================
