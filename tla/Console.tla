------------------------------ MODULE Console -------------------------------
(***************************************************************************)
(* What the operator reads: the live stream (ConsoleStream) and, beside    *)
(* it, the root-cause analysis of an alert (RcaReports).  They do not      *)
(* interact.                                                               *)
(***************************************************************************)
EXTENDS ConsoleStream

CONSTANTS Requests, MaxEvents, MaxChanges, MaxReports, Drafts, StoreFails

VARIABLES alert, provider, changes, reports, call, made, served

Rca == INSTANCE RcaReports

rcaVars == <<alert, provider, changes, reports, call, made, served>>

-----------------------------------------------------------------------------
(* The root-cause route: one stored, grounded report per evidence. *)
ReportsAreGrounded == Rca!ReportsAreGrounded
=============================================================================
