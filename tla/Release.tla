------------------------------- MODULE Release -------------------------------
(***************************************************************************)
(* From a trained model to a release: the gate and the promotion           *)
(* (ModelLifecycle), and beside them the package builders (ModelPackage),  *)
(* the migrations every stack start runs (Migrations) and the evidence of  *)
(* a release (ReleaseCertification).  They share no state.                 *)
(***************************************************************************)
EXTENDS ModelLifecycle

CONSTANTS
  ChampionBuilders, ResearchBuilders, FeasibleRuns, NotFeasibleRuns, MaxTime,
  Migrators, Numbers, MaxEdits, MaxCalls,
  MaxCommits, MaxGateRuns

VARIABLES
  clock, temps, output, builder, shared,
  migration_files, edits, calls, table, ledger, schema, history, call,
  git_head, up, broken, evidence_files, log, gate8, gate9, cert, certificate

Package == INSTANCE ModelPackage

Migration == INSTANCE Migrations WITH files <- migration_files

Certification == INSTANCE ReleaseCertification
  WITH MaxRuns <- MaxGateRuns, head <- git_head, files <- evidence_files

packageVars == <<clock, temps, output, builder, shared>>
migrationVars == <<migration_files, edits, calls, table, ledger, schema, history, call>>
releaseVars == <<git_head, up, broken, evidence_files, log, gate8, gate9, cert, certificate>>

-----------------------------------------------------------------------------
(* The package builders: a package in place is whole and the one reported, *)
(* unless two builders at work shared a temporary directory.               *)
PublishedIsWhole == Package!PublishedIsWhole

(* apply_migrations: calls that overlap come out as one after another. *)
MigrationsAreSerial == Migration!MigrationsAreSerial

(* certify: a certificate rests on two passing runs labelled with its       *)
(* commit.                                                                  *)
CertifiedIsBacked == Certification!CertifiedIsBacked

(* The drills: a service is down only during its own drill, or broken. *)
StackRestored == Certification!StackRestored
=============================================================================
