---------------------------- MODULE LabControls ----------------------------
(***************************************************************************)
(* The control state of a virtual lab run: what operational commands make  *)
(* of it (execute_command_in_controls of lab/engine.py), what the solver   *)
(* makes of it and of the lab's definition for a valve, a compressor, a    *)
(* demand and a leak (lab/simulation/solver.py), and what a sensor reads   *)
(* from it (lab/simulation/sensors.py).  Openings and loads are in halves, *)
(* pressures are abstracted to Truth, and noise is left out.               *)
(***************************************************************************)
EXTENDS Integers, Sequences, SequencesExt

CONSTANTS Valve, Compressor, Sensor,   \* one target of each sort of fault
          Definitions,                 \* opening, enabled, load and load_factor as drawn
          Levels,                      \* openings commanded, out of range ones included
          Biases, Truth,               \* downward sensor biases and the true pressure
          MaxCommands                  \* bound: commands applied

VARIABLES definition,  \* the parameters of the assets of the run
          setpoints,   \* [setpoint -> the value set, if any]
          faults,      \* active_faults, oldest first
          log          \* history: the commands applied

vars == <<definition, setpoints, faults, log>>

(* What may be absent is a set of at most one member. *)
Get(option, default) == IF option = {} THEN default ELSE CHOOSE x \in option : TRUE
ValuesOf(fs) == {f.value : f \in fs}

FaultsOf(t) ==
  CASE t = Valve -> [target : {Valve}, kind : {"VALVE_STUCK"}, value : Levels] \cup
                    [target : {Valve}, kind : {"LEAK"}, value : {1}]
    [] t = Compressor -> [target : {Compressor}, kind : {"COMPRESSOR_UNAVAILABLE"}, value : {0}]
    [] t = Sensor -> [target : {Sensor}, kind : {"SENSOR_BIAS"}, value : Biases] \cup
                     [target : {Sensor}, kind : {"SENSOR_DROPOUT"}, value : {0}]

Faults == UNION {FaultsOf(t) : t \in {Valve, Compressor, Sensor}}

(* The setpoint a command sets: of the valve, the compressor and a demand. *)
SetpointOf == [SET_VALVE_OPENING |-> "opening", SET_COMPRESSOR_ENABLED |-> "enabled",
               SET_COMPRESSOR_LOAD |-> "load", SET_LOAD_FACTOR |-> "load_factor"]

Commands ==
  [action : {"SET_VALVE_OPENING", "SET_COMPRESSOR_LOAD", "SET_LOAD_FACTOR"}, value : Levels] \cup
  [action : {"SET_COMPRESSOR_ENABLED"}, value : {0, 1}] \cup
  [action : {"INJECT_FAULT"}, fault : Faults] \cup
  {[action |-> "CLEAR_FAULT", target |-> f.target, kind |-> f.kind] : f \in Faults}

Other(fs, target, kind) == SelectSeq(fs, LAMBDA f : ~(f.target = target /\ f.kind = kind))

(* Mutant: clearing a fault clears every fault of its target. *)
CLEAR_FAULT_any_kind(fs, target, kind) == SelectSeq(fs, LAMBDA f : f.target /= target)

CLEAR_FAULT(fs, target, kind) == Other(fs, target, kind)

INJECT_FAULT(fs, f) == Append(Other(fs, f.target, f.kind), f)

Init ==
  /\ definition \in Definitions
  /\ setpoints = [k \in {"opening", "enabled", "load", "load_factor"} |-> {}]
  /\ faults = <<>>
  /\ log = <<>>

execute_command_in_controls(c) ==
  /\ CASE c.action \in DOMAIN SetpointOf ->
            setpoints' = [setpoints EXCEPT ![SetpointOf[c.action]] = {c.value}] /\ UNCHANGED faults
       [] c.action = "INJECT_FAULT" ->
            faults' = INJECT_FAULT(faults, c.fault) /\ UNCHANGED setpoints
       [] c.action = "CLEAR_FAULT" ->
            faults' = CLEAR_FAULT(faults, c.target, c.kind) /\ UNCHANGED setpoints
  /\ log' = Append(log, c)
  /\ UNCHANGED definition

Next == \E c \in Commands : Len(log) < MaxCommands /\ execute_command_in_controls(c)

Spec == Init /\ [][Next]_vars

-----------------------------------------------------------------------------
(* The solver keeps the last active fault of every kind of a target. *)
faults_by_target(t, kind) ==
  LET of == SelectSeq(faults, LAMBDA f : f.target = t /\ f.kind = kind)
  IN  IF of = <<>> THEN {} ELSE {Last(of)}

(* Openings and loads are between none and full; a load factor goes up to *)
(* twice the nominal one.                                                  *)
Clamp(x, top) == IF x < 0 THEN 0 ELSE IF x > top THEN top ELSE x

(* compile_lab has multiplied the opening of the definition into the       *)
(* conductance of the valve.                                               *)
base_conductance == definition.opening

(* What a compressor and a demand do until they are commanded otherwise. *)
CompressorSource == [nominal_load |-> definition.load, enabled |-> definition.enabled]
DemandSink == [nominal_load_factor |-> definition.load_factor]

opening ==
  Clamp(Get(ValuesOf(faults_by_target(Valve, "VALVE_STUCK")), Get(setpoints.opening, 2)), 2)

conductance == base_conductance * opening

load == Clamp(Get(setpoints.load, CompressorSource.nominal_load), 2)
load_factor == Clamp(Get(setpoints.load_factor, DemandSink.nominal_load_factor), 4)

operating_mode ==
  IF faults_by_target(Compressor, "COMPRESSOR_UNAVAILABLE") /= {} THEN "UNAVAILABLE"
  ELSE IF Get(setpoints.enabled, CompressorSource.enabled) = 1 THEN "RUNNING" ELSE "OFF"

leaks(t) == Len(SelectSeq(faults, LAMBDA f : f.kind = "LEAK" /\ f.target = t))

(* observe keeps one fault per target: the one injected last, of any kind. *)
sensor_fault ==
  LET of == SelectSeq(faults, LAMBDA f : f.target = Sensor)
  IN  IF of = <<>> THEN {} ELSE {Last(of)}

observe ==
  IF "SENSOR_DROPOUT" \in {f.kind : f \in sensor_fault} THEN [quality |-> "MISSING", value |-> 0]
  ELSE LET m == Truth - Get(ValuesOf({f \in sensor_fault : f.kind = "SENSOR_BIAS"}), 0)
       IN  [quality |-> IF m < 0 THEN "INVALID" ELSE "GOOD", value |-> m]

-----------------------------------------------------------------------------
Injects(c, t, kind) == c.action = "INJECT_FAULT" /\ c.fault.target = t /\ c.fault.kind = kind
Clears(c, t, kind) == c.action = "CLEAR_FAULT" /\ c.target = t /\ c.kind = kind

LastOf(indices) == CHOOSE i \in indices : \A j \in indices : j <= i

(* The injection of a kind of fault that the commands leave in force: the  *)
(* last one, unless it was cleared since.                                  *)
InForceAt(t, kind) ==
  LET of == {i \in DOMAIN log : Injects(log[i], t, kind) \/ Clears(log[i], t, kind)}
  IN  IF of = {} \/ ~Injects(log[LastOf(of)], t, kind) THEN {} ELSE {LastOf(of)}

InForce(t, kind) == {log[i].fault : i \in InForceAt(t, kind)}

Commanded(key) ==
  LET of == {i \in DOMAIN log : log[i].action \in DOMAIN SetpointOf /\ SetpointOf[log[i].action] = key}
  IN  IF of = {} THEN {} ELSE {log[LastOf(of)].value}

(* A valve lets through what its definition does, in proportion to where   *)
(* the last fault in force stuck it, and otherwise to where the last       *)
(* command put it, also when the command came while it was stuck; loads    *)
(* follow the last command for them and no other, and the definition until *)
(* there is one; a compressor that becomes available again is on or off as *)
(* last commanded or defined.                                              *)
SetpointsObeyed ==
  /\ conductance = definition.opening *
       Clamp(Get(ValuesOf(InForce(Valve, "VALVE_STUCK")), Get(Commanded("opening"), 2)), 2)
  /\ load = Clamp(Get(Commanded("load"), definition.load), 2)
  /\ load_factor = Clamp(Get(Commanded("load_factor"), definition.load_factor), 4)
  /\ operating_mode /= "UNAVAILABLE" =>
       (operating_mode = "RUNNING" <=> Get(Commanded("enabled"), definition.enabled) = 1)

(* Faults of different kinds and targets do not disturb one another in the *)
(* solver, and one injected again replaces itself: at most one leak, a     *)
(* compressor that is unavailable exactly while its fault is in force.     *)
FaultsAreIndependent ==
  /\ \A f \in FaultsOf(Valve) \cup FaultsOf(Compressor) :
       faults_by_target(f.target, f.kind) = InForce(f.target, f.kind)
  /\ leaks(Valve) = (IF InForce(Valve, "LEAK") = {} THEN 0 ELSE 1)
  /\ operating_mode = "UNAVAILABLE" <=> InForce(Compressor, "COMPRESSOR_UNAVAILABLE") /= {}

(* A sensor shows one fault at a time: of those in force, the one injected *)
(* last, so that clearing it brings back the one before.                   *)
SensorShowsLastFault ==
  LET injections == UNION {InForceAt(Sensor, f.kind) : f \in FaultsOf(Sensor)}
  IN  sensor_fault = IF injections = {} THEN {} ELSE {log[LastOf(injections)].fault}

(* A pressure below zero is never reported as GOOD. *)
ImpossibleIsInvalid ==
  observe.quality = "GOOD" => observe.value >= 0

(* What the solver and the sensors read back is what the commands so far   *)
(* ask for (execute_command_in_controls, observe).                         *)
CommandsObeyed ==
  SetpointsObeyed /\ FaultsAreIndependent /\ SensorShowsLastFault /\ ImpossibleIsInvalid
=============================================================================
