----------------------------- MODULE MCLabDesign -----------------------------
(***************************************************************************)
(* The rules of a virtual lab, checked on small instances: the alert rules *)
(* of a sensor (LabAnalysis), the definition and its compilation           *)
(* (LabTopology), and the setpoints and faults the solver obeys            *)
(* (LabControls).  A behaviour is a behaviour of one of them, chosen at    *)
(* the start, and the others stay where they begin.                        *)
(***************************************************************************)
EXTENDS LabDesign, TLC

CONSTANTS Valve, Compressor, Sensor

VARIABLES part,   \* the component this behaviour is of
          definition, setpoints, faults, log

(* A lab as it is drawn by default, and one half open and switched off. *)
Drawn ==
  {[opening |-> 2, enabled |-> 1, load |-> 2, load_factor |-> 2],
   [opening |-> 1, enabled |-> 0, load |-> 1, load_factor |-> 4]}

(* An opening out of range, and a bias that makes the pressure negative. *)
Controls == INSTANCE LabControls
  WITH Definitions <- Drawn, Levels <- {0, 3}, Biases <- {0, 2}, Truth <- 1, MaxCommands <- 4

controlVars == <<definition, setpoints, faults, log>>
allVars == <<part, ruleVars, lab, controlVars>>

MCInit ==
  /\ part \in {"rules", "topology", "controls"}
  /\ Rules!Init /\ Topology!Init /\ Controls!Init
  /\ part /= "controls" => definition.opening = 2

MCNext ==
  \/ part = "rules" /\ Rules!Next /\ UNCHANGED <<part, lab, controlVars>>
  \/ part = "topology" /\ Topology!Next /\ UNCHANGED <<part, ruleVars, controlVars>>
  \/ part = "controls" /\ Controls!Next /\ UNCHANGED <<part, ruleVars, lab>>

MCSpec == MCInit /\ [][MCNext]_allVars

(* Identifiers are only compared. *)
Symmetry == Permutations(AssetIds) \cup Permutations(PipeIds)

-----------------------------------------------------------------------------

(* execute_command_in_controls, observe: the commands are obeyed. *)
CommandsObeyed == part = "controls" => Controls!CommandsObeyed
=============================================================================
