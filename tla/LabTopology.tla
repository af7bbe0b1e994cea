---------------------------- MODULE LabTopology ----------------------------
(***************************************************************************)
(* Lab definitions of the virtual lab: what an editor may draw             *)
(* (lab/contracts.py), what validate_lab accepts for a run, what           *)
(* compile_lab makes of it (lab/simulation/network.py), where observe      *)
(* looks a sensor up (lab/simulation/sensors.py) and what                  *)
(* clone_lab_definition copies (lab/catalog.py).  Physical parameters are  *)
(* left out.                                                               *)
(***************************************************************************)
EXTENDS Naturals, Sequences, FiniteSets, SequencesExt

CONSTANTS AssetIds, PipeIds, SensorIds,   \* disjoint sets of identifiers
          Types,                          \* the asset types drawn
          Ports,                          \* the port names used
          MaxAssets, MaxPipes, MaxSensors \* bounds: the elements of a lab

VARIABLE lab   \* LabDefinition: sequences of assets, pipes and sensors

vars == <<lab>>

Valves == {"ISOLATION_VALVE", "CONTROL_VALVE"}
None == <<>>

VALID_PORTS_BY_ASSET_TYPE(type) ==
  CASE type = "COMPRESSOR" -> {"OUT"}
    [] type = "TANK" -> {"A", "B"}
    [] type \in Valves -> {"A", "B"}
    [] type = "DEMAND" -> {"IN"}

PortRef == [asset : AssetIds, port : Ports]
Asset == [id : AssetIds, type : Types]
(* A pipe from a port to itself is refused when the pipe is constructed.   *)
Pipe == {p \in [id : PipeIds, from : PortRef, to : PortRef] : p.from /= p.to}
(* A PRESSURE sensor targets a port, a FLOW sensor a pipe.                 *)
SensorDef == [id : SensorIds, kind : {"PRESSURE"}, target : PortRef] \cup
             [id : SensorIds, kind : {"FLOW"}, target : PipeIds]

Ids(s) == {s[i].id : i \in DOMAIN s}

Duplicated(s) == \E i, j \in DOMAIN s : i /= j /\ s[i].id = s[j].id

(* asset_map: the last asset of an identifier. *)
asset_map(d, id) ==
  LET of == {i \in DOMAIN d.assets : d.assets[i].id = id}
  IN  IF of = {} THEN None ELSE d.assets[CHOOSE i \in of : \A j \in of : j <= i]

ValidRef(d, ref) ==
  /\ asset_map(d, ref.asset) /= None
  /\ ref.port \in VALID_PORTS_BY_ASSET_TYPE(asset_map(d, ref.asset).type)

pair_key(p) == {p.from, p.to}

pipe_errors(d) ==
  {c \in {"DUPLICATE_PIPE_ID"} : Duplicated(d.pipes)} \cup
  {c \in {"INVALID_PORT_REF"} : \E i \in DOMAIN d.pipes :
       ~ValidRef(d, d.pipes[i].from) \/ ~ValidRef(d, d.pipes[i].to)} \cup
  {c \in {"SELF_LOOP_PIPE"} : \E i \in DOMAIN d.pipes : Cardinality(pair_key(d.pipes[i])) = 1} \cup
  {c \in {"DUPLICATE_PIPE"} : \E i, j \in DOMAIN d.pipes :
                                i < j /\ pair_key(d.pipes[i]) = pair_key(d.pipes[j])}

sensor_errors(d) ==
  {c \in {"DUPLICATE_SENSOR_ID"} : Duplicated(d.sensors)} \cup
  {c \in {"INVALID_SENSOR_TARGET"} : \E i \in DOMAIN d.sensors :
       IF d.sensors[i].kind = "PRESSURE" THEN ~ValidRef(d, d.sensors[i].target)
       ELSE d.sensors[i].target \notin Ids(d.pipes)}

(* The codes validate_lab reports; a lab is run eligible when there is none. *)
validate_lab(d) ==
  IF d.assets = <<>> THEN {"EMPTY_LAB"}
  ELSE {c \in {"DUPLICATE_ASSET_ID"} : Duplicated(d.assets)} \cup pipe_errors(d) \cup sensor_errors(d)

run_eligible(d) == validate_lab(d) = {}

-----------------------------------------------------------------------------
(* compile_lab.  A node is named by the asset, and by the port where the   *)
(* asset is a valve; a tank's two ports are one node.                      *)
port_nodes(a) ==
  LET at(p, node) == [ref |-> [asset |-> a.id, port |-> p], node |-> node]
  IN  CASE a.type = "TANK" -> {at("A", <<a.id>>), at("B", <<a.id>>)}
        [] a.type = "COMPRESSOR" -> {at("OUT", <<a.id>>)}
        [] a.type = "DEMAND" -> {at("IN", <<a.id>>)}
        [] a.type \in Valves -> {at("A", <<a.id, "A">>), at("B", <<a.id, "B">>)}

(* Identifiers are unique in the labs that are compiled. *)
port_to_node(d) == UNION {port_nodes(d.assets[i]) : i \in DOMAIN d.assets}

NodeOf(d, ref) == {pn.node : pn \in {q \in port_to_node(d) : q.ref = ref}}

(* The edges: one per pipe and one inside every valve. *)
edges(d) ==
  {[id |-> <<d.pipes[i].id>>, from |-> NodeOf(d, d.pipes[i].from), to |-> NodeOf(d, d.pipes[i].to)]
     : i \in DOMAIN d.pipes} \cup
  {[id |-> <<a.id, "internal">>, from |-> {<<a.id, "A">>}, to |-> {<<a.id, "B">>}]
     : a \in {b \in ToSet(d.assets) : b.type \in Valves}}

sources(d) == {[asset |-> a.id, node |-> NodeOf(d, [asset |-> a.id, port |-> "OUT"])]
                 : a \in {b \in ToSet(d.assets) : b.type = "COMPRESSOR"}}
sinks(d) == {[asset |-> a.id, node |-> NodeOf(d, [asset |-> a.id, port |-> "IN"])]
                 : a \in {b \in ToSet(d.assets) : b.type = "DEMAND"}}

(* The node or the edge the compiler binds a sensor to. *)
sensor_targets(d, s) ==
  IF s.kind = "PRESSURE" THEN NodeOf(d, s.target)
  ELSE {e.id : e \in {f \in edges(d) : f.id = <<s.target>>}}

(* The lookups of compile_lab that raise when they find nothing. *)
CompileFails(d) ==
  \/ d.assets = <<>>
  \/ \E e \in edges(d) : e.from = {} \/ e.to = {}
  \/ \E s \in sources(d) \cup sinks(d) : s.node = {}
  \/ \E i \in DOMAIN d.sensors : sensor_targets(d, d.sensors[i]) = {}

(* Mutant: the node of a valve's port is looked up by the valve alone. *)
node_key_by_asset(d, s) ==
  IF s.kind = "PRESSURE" THEN <<s.target.asset>> ELSE <<s.target>>

(* The key observe reads the pressures or flows by.  It looks for the      *)
(* first asset of the identifier.                                          *)
node_key(d, s) ==
  LET of == {i \in DOMAIN d.assets : d.assets[i].id = s.target.asset}
      a  == d.assets[CHOOSE i \in of : \A j \in of : i <= j]
  IN  IF s.kind = "FLOW" THEN <<s.target>>
      ELSE IF of = {} THEN None
      ELSE IF a.type \in Valves THEN <<s.target.asset, s.target.port>>
      ELSE <<s.target.asset>>

(* The keys of the physical state one step of the solver leaves. *)
pressures(d) == {pn.node : pn \in port_to_node(d)}
flows(d) == {e.id : e \in edges(d)}

-----------------------------------------------------------------------------
(* clone_lab_definition draws a fresh identifier for every asset and every *)
(* pipe and raises for a reference to none of them.                        *)
new_id(id) == <<"new", id>>

CloneTarget(s) ==
  IF s.kind = "PRESSURE" THEN [s.target EXCEPT !.asset = new_id(@)] ELSE new_id(s.target)

clone_lab_definition(d) ==
  [assets  |-> [i \in DOMAIN d.assets |-> [d.assets[i] EXCEPT !.id = new_id(@)]],
   pipes   |-> [i \in DOMAIN d.pipes |-> [d.pipes[i] EXCEPT !.id = new_id(@),
                                            !.from.asset = new_id(@), !.to.asset = new_id(@)]],
   sensors |-> [i \in DOMAIN d.sensors |-> [d.sensors[i] EXCEPT !.id = <<"fresh", i>>,
                                              !.target = CloneTarget(d.sensors[i])]]]

-----------------------------------------------------------------------------
Init == lab = [assets |-> <<>>, pipes |-> <<>>, sensors |-> <<>>]

(* The editor saves drafts: nothing but the elements' own rules is checked, *)
(* and the elements come in any order.                                      *)
AddAsset == \E a \in Asset :
  /\ Len(lab.assets) < MaxAssets
  /\ lab' = [lab EXCEPT !.assets = Append(@, a)]

AddPipe == \E p \in Pipe :
  /\ Len(lab.pipes) < MaxPipes
  /\ lab' = [lab EXCEPT !.pipes = Append(@, p)]

AddSensor == \E s \in SensorDef :
  /\ Len(lab.sensors) < MaxSensors
  /\ lab' = [lab EXCEPT !.sensors = Append(@, s)]

Next == AddAsset \/ AddPipe \/ AddSensor

Spec == Init /\ [][Next]_vars

-----------------------------------------------------------------------------
(* A definition validate_lab finds run eligible compiles: none of          *)
(* compile_lab's lookups raises, whatever was drawn.                       *)
EligibleCompiles == run_eligible(lab) => ~CompileFails(lab)

(* In an eligible lab observe reads every sensor from the node or edge the *)
(* compiler bound it to: a sensor never reads MISSING for want of a key,   *)
(* and never reads another place's value.                                  *)
SensorsReadTheirTarget ==
  run_eligible(lab) =>
    \A i \in DOMAIN lab.sensors :
      LET s == lab.sensors[i]
      IN  /\ sensor_targets(lab, s) = {node_key(lab, s)}
          /\ node_key(lab, s) \in (IF s.kind = "PRESSURE" THEN pressures(lab) ELSE flows(lab))

(* In an eligible lab the nodes and the edges of the network have names   *)
(* of their own: no two assets share a pressure, no two pipes a flow.      *)
NamesAreUnique ==
  run_eligible(lab) =>
    LET valves == Cardinality({i \in DOMAIN lab.assets : lab.assets[i].type \in Valves})
    IN  /\ Cardinality(pressures(lab)) = Len(lab.assets) + valves
        /\ Cardinality(edges(lab)) = Len(lab.pipes) + valves

(* A clone of an eligible lab is eligible, shares no identifier with it    *)
(* and has its network, renamed: it can be edited and run on its own.      *)
CloneIsIndependent ==
  run_eligible(lab) =>
    LET c  == clone_lab_definition(lab)
        up(n) == [n EXCEPT ![1] = new_id(@)]
    IN  /\ run_eligible(c)
        /\ pressures(c) = {up(n) : n \in pressures(lab)}
        /\ edges(c) = {[id |-> up(e.id), from |-> {up(n) : n \in e.from},
                        to |-> {up(n) : n \in e.to}] : e \in edges(lab)}
        /\ \A i \in DOMAIN lab.sensors :
             sensor_targets(c, c.sensors[i]) = {up(n) : n \in sensor_targets(lab, lab.sensors[i])}

(* What validate_lab lets run does run: it compiles, under names of its    *)
(* own, is read where its sensors are mounted, and so is its clone.        *)
EligibleLabRuns ==
  EligibleCompiles /\ NamesAreUnique /\ SensorsReadTheirTarget /\ CloneIsIndependent
=============================================================================
