----------------------------- MODULE LabRuntime -----------------------------
(***************************************************************************)
(* The virtual lab at run time: the engines and workers that advance a run *)
(* (LabEngine), and beside them the store under the requests of several    *)
(* API processes (LabStore), which does not depend on how a run advances.  *)
(***************************************************************************)
EXTENDS LabEngine

CONSTANTS Processes, CommandIds, Payloads,
          MaxRevisions, MaxCommands, MaxRunTicks, MaxRequests

VARIABLES revisions, run, commands, request, isolation, answers, requests

Store == INSTANCE LabStore WITH MaxTicks <- MaxRunTicks

storeVars == <<revisions, run, commands, request, isolation, answers, requests>>

-----------------------------------------------------------------------------
(* The store's requests come out as if made one after another. *)
RequestsAreSerial == Store!RequestsAreSerial
=============================================================================
