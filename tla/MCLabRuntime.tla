---------------------------- MODULE MCLabRuntime ----------------------------
(***************************************************************************)
(* The virtual lab at run time, checked on small instances.  A behaviour   *)
(* is a behaviour of the engines and workers or of the store, chosen at    *)
(* the start, and the other stays where it begins.                         *)
(***************************************************************************)
EXTENDS LabRuntime

VARIABLE part   \* the component this behaviour is of

MCInit ==
  /\ part \in {"engine", "store"}
  /\ Init /\ Store!Init

MCNext ==
  \/ part = "engine" /\ Next /\ UNCHANGED <<part, storeVars>>
  \/ part = "store" /\ Store!Next /\ UNCHANGED <<part, vars>>

Engine(A) == part = "engine" /\ A

(* The fairness of LabEngine, in its behaviours. *)
MCSpec ==
  /\ MCInit /\ [][MCNext]_<<part, vars, storeVars>>
  /\ WF_vars(Engine(KafkaReturns))
  /\ \A e \in Engines : WF_vars(Engine(load_checkpoint(e))) /\ WF_vars(Engine(run_once(e)))
  /\ \A w \in Workers : /\ WF_vars(Engine(start(w))) /\ WF_vars(Engine(heartbeat_loop(w)))
                        /\ WF_vars(Engine(dispatch_batch(w)))
=============================================================================
