------------------------------ MODULE MCRelease ------------------------------
(***************************************************************************)
(* The parts of a release, checked on small instances.  A behaviour is a   *)
(* behaviour of one of them, chosen at the start, and the others stay      *)
(* where they begin.  The lifecycle of a model is looked at within three   *)
(* scopes, the package builders up to the point where two share a          *)
(* directory, where PublishedIsWhole ends.                                 *)
(***************************************************************************)
EXTENDS Release

VARIABLE part   \* the component this behaviour is of

(* One promotion at a commit, its receipt in the package, and an operator  *)
(* who swaps packages: two champions no test of the gate tells apart and a *)
(* research candidate that can not be reproduced.                          *)
GateScope ==
  /\ head = "c1" /\ changes <= 3 /\ scorer = Idle
  /\ gate.pc = "read" => gate.policy = Placeholder
  /\ promoter["p2"] = Idle
  /\ promoter["p1"] = Idle \/ promoter["p1"].output = InPackage

(* One champion, two promotions at once, two commits, a policy file, and   *)
(* receipts in and beside the package.                                     *)
PromotionScope == scorer = Idle /\ \A d \in package : d.manifest = "champ1"

(* The scoring API alone, while packages are swapped and damaged. *)
ApiScope == gate = Idle /\ \A p \in Promoters : promoter[p] = Idle

(* Two champion builders of different runs, or one and a research builder. *)
PackageScope ==
  /\ builder["b1"].run # "run2" /\ builder["b2"].run # "run1"
  /\ builder["b2"].pc = "idle" \/ builder["r1"].pc = "idle"
  /\ ~shared

(* One service at a time does not come back, and no gate runs three times. *)
(* The certification neither sees the drills nor is seen by them, so it    *)
(* runs between them or while their report is written.                     *)
CertificationScope ==
  /\ Cardinality(broken) <= 1
  /\ gate8.pc \in {"idle", "write"} \/ cert.pc = "idle"
  /\ \A g \in {8, 9} : Cardinality({i \in DOMAIN log : log[i].gate = g}) <= 2

MCInit ==
  /\ part \in {"gate", "promotion", "api", "package", "migration", "certification"}
  /\ Init /\ Package!Init /\ Migration!Init /\ Certification!Init
  /\ part # "promotion" => head = "c1"
  /\ part # "migration" => \A n \in Numbers : migration_files[n] = 1

MCNext ==
  /\ UNCHANGED part
  /\ \/ /\ part = "gate" /\ Next /\ GateScope'
        /\ UNCHANGED <<packageVars, migrationVars, releaseVars>>
     \/ /\ part = "promotion" /\ Next /\ PromotionScope'
        /\ UNCHANGED <<packageVars, migrationVars, releaseVars>>
     \/ /\ part = "api" /\ Next /\ ApiScope'
        /\ UNCHANGED <<packageVars, migrationVars, releaseVars>>
     \/ /\ part = "package" /\ Package!Next /\ PackageScope'
        /\ UNCHANGED <<vars, migrationVars, releaseVars>>
     \/ /\ part = "migration" /\ Migration!Next
        /\ UNCHANGED <<vars, packageVars, releaseVars>>
     \/ /\ part = "certification" /\ Certification!Next /\ CertificationScope'
        /\ UNCHANGED <<vars, packageVars, migrationVars>>

MCSpec == MCInit /\ [][MCNext]_<<part, vars, packageVars, migrationVars, releaseVars>>
=============================================================================
