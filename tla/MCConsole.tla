------------------------------ MODULE MCConsole ------------------------------
(***************************************************************************)
(* What the operator reads, checked on small instances.  A behaviour is a  *)
(* behaviour of the live stream or of the root-cause route, chosen at the  *)
(* start, and the other stays where it begins.                             *)
(***************************************************************************)
EXTENDS Console

VARIABLE part   \* the component this behaviour is of

allVars == <<part, vars, rcaVars>>

MCInit ==
  /\ part \in {"stream", "rca"}
  /\ Init /\ Rca!Init
  /\ part = "stream" => provider = "none"

MCNext ==
  \/ part = "stream" /\ Next /\ UNCHANGED <<part, rcaVars>>
  \/ part = "rca" /\ Rca!Next /\ UNCHANGED <<part, vars>>

MCSpec == MCInit /\ [][MCNext]_allVars

Symmetry == Permutations(Requests)
=============================================================================
