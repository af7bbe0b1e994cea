--------------------------- MODULE ReleaseProofs ----------------------------
(***************************************************************************)
(* Proofs about the way of a model to a release: the registry, its alias   *)
(* and receipts (ModelLifecycle), the package directory (ModelPackage),    *)
(* the migrations every stack start runs (Migrations) and, at the end of   *)
(* the module, the evidence a release rests on (ReleaseCertification).     *)
(*                                                                         *)
(* All of it is files and tables that several processes read and write in  *)
(* several steps, any of which may be the last one.  Each invariant says   *)
(* of every process in mid-course what it has seen and nobody can undo:    *)
(* the run a promotion was given has a reproduction run (Promotes), the    *)
(* files a builder wrote are still its own (PackInv), and the rows a call  *)
(* has not committed are nobody else's (HeldOnce).  Where somebody can,    *)
(* because a file is looked at twice or a directory is shared, a history   *)
(* variable remembers it (disturbed, shared) and the claim ends there.     *)
(***************************************************************************)
EXTENDS Release, TLAPS

(* ------------------------- the registry and its runs ------------------------ *)

Shas == Commits \cup {ZeroSha}
TagRecord == [state : {"candidate", "reproduction"}, package : Manifests,
              identity : Manifests \cup {"siblings"}, commit : Shas,
              policy : Policies \cup {Placeholder}]
PackageRecord == [manifest : Manifests, intact : BOOLEAN]
Results == Manifests \cup {"none", "twins", "drifted"}
RunRecord == [tags : TagRecord, model : SUBSET PackageRecord, result : Results]

(* There is one package directory, and so at most one package. *)
LifecycleType ==
  /\ package \in SUBSET PackageRecord
  /\ \A d, e \in package : d = e
  /\ head \in Commits
  /\ runs \in Seq(RunRecord)
  /\ disturbed \in BOOLEAN

(* A call of the gate: what it keeps, the runs it has made, and, as long as    *)
(* nobody changed the package under a call reading it, that all it saw is one  *)
(* package, the one that is still there.                                       *)
Tagged == {"tagged", "imported", "opened", "pinned", "anchored", "reproduced"}
Uploaded == Tagged \ {"tagged"}

GateFields(g) ==
  /\ g = [pc |-> g.pc, policy |-> g.policy, expected |-> g.expected, golden |-> g.golden,
          sha |-> g.sha, content |-> g.content, commit |-> g.commit, cand |-> g.cand,
          repro |-> g.repro]
  /\ g.pc \in {"read", "golden", "hashed"} \cup Tagged
  /\ g.policy \in Policies \cup {Placeholder} /\ g.commit \in Shas
  /\ {g.expected, g.golden, g.sha, g.content} \subseteq Manifests

GateRuns(g) ==
  /\ g.pc \in Tagged => g.cand \in 1..Len(runs) /\ runs[g.cand].tags.state = "candidate"
  /\ g.pc \in Uploaded => runs[g.cand].model # {}
  /\ g.pc = "reproduced" =>
       g.repro \in 1..Len(runs) /\ runs[g.repro].tags.state = "reproduction"

GateSaw(g) ==
  ~disturbed =>
    /\ g.sha = g.expected
    /\ \A d \in package : d.manifest = g.expected
    /\ g.pc \in Tagged => runs[g.cand].tags.package = g.expected

GateInv == gate = Idle \/ (GateFields(gate) /\ GateRuns(gate) /\ GateSaw(gate))

(* A candidate run whose model is uploaded and which has a reproduction run;   *)
(* undisturbed, one whose calibration came out the same.                       *)
Confirmed(run) ==
  /\ run \in 1..Len(runs)
  /\ runs[run].tags.state = "candidate"
  /\ runs[run].model # {}
  /\ Attested(run)
  /\ ~disturbed => Reproduced(run)

(* A report that passed is about such a run. *)
ReportInv ==
  /\ reports = [c \in DOMAIN reports |-> reports[c]]
  /\ \A c \in DOMAIN reports : \A a \in reports[c] : a.verdict = "PASS" => Confirmed(a.run)

(* A run that may be registered: undisturbed, one of a champion package. *)
Registrable(run) == Confirmed(run) /\ (~disturbed => runs[run].tags.package \in Champions)

(* What a promotion rests on. *)
Promotes(r) ==
  /\ Registrable(r.run)
  /\ runs[r.run].tags.package = r.package /\ runs[r.run].tags.commit = r.commit

(* A promotion that has read the content of the manifest and not its hash. *)
Reads(r) ==
  /\ r = [pc |-> r.pc, run |-> r.run, output |-> r.output, package |-> r.package,
          commit |-> r.commit]
  /\ Confirmed(r.run) /\ runs[r.run].tags.commit = r.commit
  /\ r.package \in Champions
  /\ ~disturbed => \A d \in package : d.manifest = r.package

(* A promotion that has passed its checks, and one that has a version. *)
Checked(r) ==
  /\ r = [pc |-> r.pc, run |-> r.run, output |-> r.output, package |-> r.package,
          commit |-> r.commit]
  /\ Promotes(r)

Versioned(r) ==
  /\ r = [pc |-> r.pc, run |-> r.run, output |-> r.output, package |-> r.package,
          commit |-> r.commit, version |-> r.version]
  /\ Promotes(r)
  /\ r.version \in 1..Len(versions) /\ versions[r.version] = r.run

PromoterInv ==
  /\ promoter = [p \in Promoters |-> promoter[p]]
  /\ \A p \in Promoters :
       \/ promoter[p].pc = "idle"
       \/ promoter[p].pc = "read" /\ Reads(promoter[p])
       \/ promoter[p].pc \in {"checked", "refused", "registered"} /\ Checked(promoter[p])
       \/ promoter[p].pc \in {"versioned", "aliased"} /\ Versioned(promoter[p])

(* The one call that created the registered model. *)
Registering(p) == promoter[p].pc \in {"registered", "versioned", "aliased"}

(* The model is created once, so nobody moves the alias of a receipt. *)
RegistryInv ==
  /\ versions \in Seq(Nat) /\ model \in BOOLEAN
  /\ receipts = [o \in Outputs |-> receipts[o]]
  /\ \A v \in 1..Len(versions) : Registrable(versions[v])
  /\ alias \subseteq 1..Len(versions)
  /\ \A p \in Promoters : Registering(p) =>
       /\ model = TRUE
       /\ \A o \in Promoters : Registering(o) => o = p
       /\ promoter[p].pc # "aliased" => alias = {} /\ \A o \in Outputs : receipts[o] = {}
       /\ promoter[p].pc = "aliased" => alias = {promoter[p].version}
  /\ model # TRUE => alias = {} /\ \A o \in Outputs : receipts[o] = {}
  /\ \A o \in Outputs : \A r \in receipts[o] :
       /\ r.version \in 1..Len(versions) /\ alias = {r.version}
       /\ versions[r.version] = r.run
       /\ runs[r.run].tags.package = r.package
       /\ runs[r.run].tags.commit = r.commit

LifecycleInv == LifecycleType /\ GateInv /\ ReportInv /\ PromoterInv /\ RegistryInv

(* A run keeps its tags and its result, an uploaded model stays, and who       *)
(* changes the package under a call that reads it leaves a mark.               *)
RunsKept ==
  /\ runs' \in Seq(RunRecord) /\ Len(runs) <= Len(runs')
  /\ \A i \in 1..Len(runs) :
       /\ runs'[i].tags = runs[i].tags /\ runs'[i].result = runs[i].result
       /\ runs[i].model # {} => runs'[i].model # {}
  /\ disturbed' \in BOOLEAN /\ (disturbed => disturbed')
  /\ package' = package \/ (Reading => disturbed')

(* Steps that do not write to MLflow's runs. *)
LEMMA SameRuns == ASSUME LifecycleType, UNCHANGED <<runs, package, disturbed>> PROVE RunsKept
  BY DEF LifecycleType, RunsKept

(* The indexes of runs stay indexes. *)
LEMMA RunIndexes ==
  ASSUME LifecycleType, RunsKept
  PROVE  /\ Len(runs) \in Nat /\ Len(runs') \in Nat
         /\ \A i \in 1..Len(runs) : i \in 1..Len(runs')
<1>1. Len(runs) \in Nat /\ Len(runs') \in Nat /\ Len(runs) <= Len(runs')
  BY DEF LifecycleType, RunsKept
<1> QED
  BY <1>1

(* What was confirmed stays confirmed. *)
LEMMA ConfirmedKept ==
  ASSUME LifecycleType, RunsKept, NEW run, Confirmed(run)
  PROVE  Confirmed(run)' /\ runs'[run].tags = runs[run].tags
<1>1. \A i \in 1..Len(runs) : i \in 1..Len(runs')
  BY RunIndexes
<1>2. /\ run \in 1..Len(runs) /\ runs'[run].tags = runs[run].tags
      /\ runs'[run].model # {}
  BY DEF Confirmed, RunsKept
<1>3. \A i \in 1..Len(runs) : /\ i \in 1..Len(runs')
                              /\ runs'[i].tags = runs[i].tags
                              /\ runs'[i].result = runs[i].result
  BY <1>1 DEF RunsKept
<1>4. ASSUME NEW r \in 1..Len(runs), Confirms(r, run) PROVE r \in 1..Len(runs') /\ Confirms(r, run)'
  BY <1>2, <1>3, <1>4 DEF Confirms
<1>5. Attested(run)'
  BY <1>4 DEF Confirmed, Attested, Last
<1>6. ASSUME Reproduced(run) PROVE Reproduced(run)'
  <2>1. PICK r \in 1..Len(runs) : Confirms(r, run) /\ runs[r].result = Calibration(runs[run].tags.package)
    BY <1>6 DEF Reproduced, Last
  <2>2. r \in 1..Len(runs') /\ Confirms(r, run)'
    BY <1>4, <2>1
  <2>3. runs'[r].result = Calibration(runs'[run].tags.package)
    BY <1>2, <1>3, <2>1
  <2>4. (runs[r].result = Calibration(runs[run].tags.package))'
    BY <2>3 DEF Calibration
  <2> QED
    BY <2>2, <2>4 DEF Reproduced, Last
<1>7. ~disturbed' => Reproduced(run)'
  BY <1>6 DEF Confirmed, RunsKept
<1> QED
  BY <1>1, <1>2, <1>5, <1>7 DEF Confirmed

(* A gate call that pauses. *)
LEMMA GateKept ==
  ASSUME LifecycleType, GateInv, RunsKept, UNCHANGED gate
  PROVE  GateInv'
<1>1. \A i \in 1..Len(runs) : i \in 1..Len(runs')
  BY RunIndexes
<1>2. CASE gate = Idle
  BY <1>2 DEF GateInv, Idle
<1>3. CASE gate # Idle
  <2>1. GateFields(gate) /\ GateRuns(gate) /\ GateSaw(gate)
    BY <1>3 DEF GateInv
  <2>2. GateFields(gate)'
    BY <2>1 DEF GateFields, Tagged
  <2>3. GateRuns(gate)'
    BY <1>1, <2>1 DEF GateRuns, RunsKept, Tagged, Uploaded
  <2>4. GateSaw(gate)'
    <3>1. ~disturbed' => package' = package /\ ~disturbed
      BY <1>3 DEF RunsKept, Reading
    <3>2. gate.pc \in Tagged => runs'[gate.cand].tags = runs[gate.cand].tags
      BY <2>1 DEF GateRuns, RunsKept
    <3> QED
      BY <2>1, <3>1, <3>2 DEF GateSaw, Tagged
  <2> QED
    BY <2>2, <2>3, <2>4 DEF GateInv
<1> QED
  BY <1>2, <1>3

(* Reports nobody writes. *)
LEMMA ReportKept ==
  ASSUME LifecycleType, ReportInv, RunsKept, UNCHANGED reports
  PROVE  ReportInv'
  BY ConfirmedKept DEF ReportInv

(* What may be registered, and what a promotion rests on, stays. *)
LEMMA RegistrableKept ==
  ASSUME LifecycleType, RunsKept, NEW run, Registrable(run)
  PROVE  Registrable(run)' /\ runs'[run].tags = runs[run].tags
<1>1. Confirmed(run)' /\ runs'[run].tags = runs[run].tags
  BY ConfirmedKept DEF Registrable
<1> QED
  BY <1>1 DEF Registrable, RunsKept

LEMMA PromotesKept ==
  ASSUME LifecycleType, RunsKept, NEW r, Promotes(r)
  PROVE  Promotes(r)'
<1>1. Registrable(r.run)' /\ runs'[r.run].tags = runs[r.run].tags
  BY RegistrableKept DEF Promotes
<1> QED
  BY <1>1 DEF Promotes

(* A promotion that is reading while nobody changes the package unseen. *)
LEMMA ReadsKept ==
  ASSUME LifecycleType, RunsKept, NEW r, Reads(r), package' = package \/ disturbed'
  PROVE  Reads(r)'
<1>1. Confirmed(r.run)' /\ runs'[r.run].tags = runs[r.run].tags
  BY ConfirmedKept DEF Reads
<1>2. ~disturbed' => package' = package /\ ~disturbed
  BY DEF RunsKept
<1> QED
  BY <1>1, <1>2 DEF Reads

(* Promotions that pause. *)
LEMMA PromoterKept ==
  ASSUME LifecycleType, PromoterInv, RunsKept, UNCHANGED <<promoter, versions>>
  PROVE  PromoterInv'
<1>1. \A r : Checked(r) => Checked(r)'
  BY PromotesKept DEF Checked
<1>2. \A r : Versioned(r) => Versioned(r)'
  BY PromotesKept DEF Versioned
<1>3. ASSUME NEW p \in Promoters, promoter[p].pc = "read", Reads(promoter[p]) PROVE Reads(promoter[p])'
  <2>1. PICK r : r = promoter[p]
    OBVIOUS
  <2>2. package' = package \/ disturbed'
    BY <1>3 DEF RunsKept, Reading
  <2>3. Reads(r)'
    BY <1>3, <2>1, <2>2, ReadsKept
  <2> QED
    BY <2>1, <2>3
<1> QED
  BY <1>1, <1>2, <1>3 DEF PromoterInv

(* The registry under steps that do not write to it. *)
LEMMA RegistryKept ==
  ASSUME LifecycleType, RegistryInv, RunsKept,
         UNCHANGED <<promoter, versions, alias, model, receipts>>
  PROVE  RegistryInv'
<1>1. \A v \in 1..Len(versions) : Registrable(versions[v])' /\ runs'[versions[v]].tags = runs[versions[v]].tags
  BY RegistrableKept DEF RegistryInv
<1>2. \A o \in Outputs : \A r \in receipts[o] : runs'[r.run].tags = runs[r.run].tags
  BY <1>1 DEF RegistryInv
<1>3. \A p \in Promoters : Registering(p)' <=> Registering(p)
  BY DEF Registering
<1>4. \A o \in Outputs : \A r \in receipts'[o] :
        /\ r.version \in 1..Len(versions') /\ alias' = {r.version}
        /\ versions'[r.version] = r.run
        /\ runs'[r.run].tags.package = r.package
        /\ runs'[r.run].tags.commit = r.commit
  BY <1>2 DEF RegistryInv
<1>5. \A p \in Promoters : Registering(p)' =>
        /\ model' = TRUE
        /\ \A o \in Promoters : Registering(o)' => o = p
        /\ promoter'[p].pc # "aliased" => alias' = {} /\ \A o \in Outputs : receipts'[o] = {}
        /\ promoter'[p].pc = "aliased" => alias' = {promoter'[p].version}
  BY <1>3 DEF RegistryInv
<1> QED
  BY <1>1, <1>4, <1>5 DEF RegistryInv

(* A gate call adds a run. *)
LEMMA RunAppended ==
  ASSUME LifecycleType, NEW run \in RunRecord, runs' = Append(runs, run),
         UNCHANGED <<package, disturbed>>
  PROVE  /\ RunsKept /\ Len(runs') = Len(runs) + 1 /\ Len(runs) + 1 \in 1..Len(runs')
         /\ runs'[Len(runs) + 1] = run
<1>1. /\ runs' \in Seq(RunRecord) /\ Len(runs') = Len(runs) + 1 /\ Len(runs) \in Nat
      /\ \A i \in 1..Len(runs) : runs'[i] = runs[i]
      /\ runs'[Len(runs) + 1] = run /\ disturbed \in BOOLEAN
  BY DEF LifecycleType
<1> QED
  BY <1>1 DEF RunsKept

(* The operator's hands: a change under a call that reads is remembered.       *)
LEMMA OperatorKeeps ==
  ASSUME LifecycleInv,
         (\E m \in Manifests : ReplacePackage(m)) \/ DamagePackage \/ Commit
  PROVE  LifecycleInv'
<1>1. ASSUME NEW m \in Manifests, ReplacePackage(m) PROVE LifecycleInv'
  <2>1. /\ package' = {[manifest |-> m, intact |-> TRUE]}
        /\ receipts' = [receipts EXCEPT ![InPackage] = {}]
        /\ disturbed' = (disturbed \/ Reading)
        /\ UNCHANGED <<head, runs, gate, reports, model, versions, alias, promoter>>
    BY <1>1 DEF ReplacePackage
  <2>2. [manifest |-> m, intact |-> TRUE] \in PackageRecord
    BY DEF PackageRecord
  <2>3. disturbed' \in BOOLEAN /\ (disturbed => disturbed') /\ (Reading => disturbed')
    BY <2>1, Zenon
  <2>4. LifecycleType'
    BY <2>1, <2>2, <2>3 DEF LifecycleInv, LifecycleType
  <2>5. RunsKept
    BY <2>1, <2>3 DEF LifecycleInv, LifecycleType, RunsKept
  <2>6. receipts' = [o \in Outputs |-> receipts'[o]] /\ \A o \in Outputs : receipts'[o] \subseteq receipts[o]
    BY <2>1 DEF LifecycleInv, RegistryInv
  <2>7. \A v \in 1..Len(versions) : Registrable(versions[v])'
    BY <2>1, <2>5, RegistrableKept DEF LifecycleInv, RegistryInv
  <2>9. \A p \in Promoters : Registering(p)' <=> Registering(p)
    BY <2>1 DEF Registering
  <2>10. \A p \in Promoters : Registering(p)' =>
           /\ model' = TRUE
           /\ \A o \in Promoters : Registering(o)' => o = p
           /\ promoter'[p].pc # "aliased" => alias' = {} /\ \A o \in Outputs : receipts'[o] = {}
           /\ promoter'[p].pc = "aliased" => alias' = {promoter'[p].version}
    BY <2>1, <2>6, <2>9 DEF LifecycleInv, RegistryInv
  <2>11. model' # TRUE => alias' = {} /\ \A o \in Outputs : receipts'[o] = {}
    BY <2>1, <2>6 DEF LifecycleInv, RegistryInv
  <2>12. \A o \in Outputs : \A r \in receipts'[o] :
           /\ r.version \in 1..Len(versions') /\ alias' = {r.version}
           /\ versions'[r.version] = r.run
           /\ runs'[r.run].tags.package = r.package
           /\ runs'[r.run].tags.commit = r.commit
    BY <2>1, <2>6 DEF LifecycleInv, RegistryInv
  <2>8. RegistryInv'
    BY <2>1, <2>6, <2>7, <2>10, <2>11, <2>12 DEF LifecycleInv, RegistryInv
  <2> QED
    BY <2>1, <2>4, <2>5, <2>8, GateKept, ReportKept, PromoterKept DEF LifecycleInv
<1>2. ASSUME DamagePackage PROVE LifecycleInv'
  <2>1. /\ UNCHANGED <<head, runs, gate, reports, model, versions, alias, promoter, receipts>>
        /\ package' = {[p EXCEPT !.intact = FALSE] : p \in package}
        /\ disturbed' = (disturbed \/ Reading)
    BY <1>2 DEF DamagePackage, mlflow
  <2>2. \A p \in package : [p EXCEPT !.intact = FALSE] \in PackageRecord
    BY DEF LifecycleInv, LifecycleType, PackageRecord
  <2>3. package' \in SUBSET PackageRecord /\ \A d, e \in package' : d = e
    BY <2>1, <2>2 DEF LifecycleInv, LifecycleType
  <2>4. disturbed' \in BOOLEAN /\ (disturbed => disturbed') /\ (Reading => disturbed')
    BY <2>1, Zenon
  <2>5. LifecycleType'
    BY <2>1, <2>3, <2>4 DEF LifecycleInv, LifecycleType
  <2>6. RunsKept
    BY <2>1, <2>4 DEF LifecycleInv, LifecycleType, RunsKept
  <2> QED
    BY <2>1, <2>5, <2>6, GateKept, ReportKept, PromoterKept, RegistryKept DEF LifecycleInv
<1>3. ASSUME Commit PROVE LifecycleInv'
  <2>1. /\ UNCHANGED <<package, disturbed, runs, gate, reports, model, versions, alias, promoter, receipts>>
        /\ head' \in Commits
    BY <1>3 DEF Commit, mlflow
  <2>2. LifecycleType' /\ RunsKept
    BY <2>1, SameRuns DEF LifecycleInv, LifecycleType
  <2> QED
    BY <2>1, <2>2, GateKept, ReportKept, PromoterKept, RegistryKept DEF LifecycleInv
<1> QED
  BY <1>1, <1>2, <1>3

(* What the gate's steps leave alone but for the runs and the reports. *)
LEMMA GateLeaves ==
  ASSUME LifecycleInv, RunsKept,
         UNCHANGED <<package, head, disturbed, model, versions, alias, promoter, receipts>>,
         GateInv', ReportInv'
  PROVE  LifecycleInv'
<1>1. LifecycleType'
  BY DEF LifecycleInv, LifecycleType, RunsKept
<1> QED
  BY <1>1, PromoterKept, RegistryKept DEF LifecycleInv

(* The gate's first step, and its end without a verdict. *)
LEMMA GateBegins ==
  ASSUME LifecycleInv, (\E policy \in Policies \cup {Placeholder} : RunGate(policy)) \/ GateStops
  PROVE  LifecycleInv'
<1>1. UNCHANGED <<package, head, disturbed, runs, reports, model, versions, alias, promoter, receipts>>
  BY DEF RunGate, GateStops, files, mlflow
<1>2. RunsKept
  BY <1>1, SameRuns DEF LifecycleInv
<1>3. ReportInv'
  BY <1>1, <1>2, ReportKept DEF LifecycleInv
<1>4. GateInv'
  <2>1. CASE GateStops
    BY <2>1 DEF GateStops, GateInv, Idle
  <2>2. ASSUME NEW policy \in Policies \cup {Placeholder}, RunGate(policy) PROVE GateInv'
    <3>1. PICK p \in package :
            gate' = [pc |-> "read", policy |-> policy, expected |-> p.manifest, golden |-> p.manifest,
                     sha |-> p.manifest, content |-> p.manifest, commit |-> ZeroSha,
                     cand |-> 0, repro |-> 0]
      BY <2>2 DEF RunGate
    <3>2. p.manifest \in Manifests /\ \A d \in package : d = p
      BY DEF LifecycleInv, LifecycleType, PackageRecord
    <3>3. PICK g : g = gate'
      OBVIOUS
    <3>4. /\ g.pc = "read" /\ g.policy = policy /\ g.expected = p.manifest /\ g.golden = p.manifest
          /\ g.sha = p.manifest /\ g.content = p.manifest /\ g.commit = ZeroSha
          /\ g.cand = 0 /\ g.repro = 0
          /\ g = [pc |-> g.pc, policy |-> g.policy, expected |-> g.expected, golden |-> g.golden,
                  sha |-> g.sha, content |-> g.content, commit |-> g.commit, cand |-> g.cand,
                  repro |-> g.repro]
      BY <3>1, <3>3
    <3>5. GateFields(g)'
      BY <3>2, <3>4 DEF GateFields, Shas
    <3>6. GateRuns(g)'
      BY <3>4 DEF GateRuns, Tagged, Uploaded
    <3>7. GateSaw(g)'
      BY <1>1, <3>2, <3>4 DEF GateSaw, Tagged
    <3> QED
      BY <3>3, <3>5, <3>6, <3>7 DEF GateInv
  <2> QED
    BY <2>1, <2>2
<1> QED
  BY <1>1, <1>2, <1>3, <1>4, GateLeaves

(* A step of the gate that looks at the package, or that adds a run: the call  *)
(* goes on with what it keeps.                                                 *)
LEMMA GateGoesOn ==
  ASSUME LifecycleInv, RunsKept, gate # Idle,
         UNCHANGED <<package, head, disturbed, reports, model, versions, alias, promoter, receipts>>,
         NEW g, gate' = g,
         g = [pc |-> g.pc, policy |-> g.policy, expected |-> g.expected, golden |-> g.golden,
              sha |-> g.sha, content |-> g.content, commit |-> g.commit, cand |-> g.cand,
              repro |-> g.repro],
         g.pc \in {"read", "golden", "hashed"} \cup Tagged,
         g.policy = gate.policy, g.expected = gate.expected,
         {g.golden, g.sha, g.content} \subseteq Manifests, g.commit \in Shas,
         g.sha = gate.sha \/ \E d \in package : g.sha = d.manifest,
         GateRuns(g)',
         g.pc \in Tagged /\ ~disturbed => runs'[g.cand].tags.package = g.expected
  PROVE  LifecycleInv'
<1>1. GateFields(gate) /\ GateSaw(gate)
  BY DEF LifecycleInv, GateInv
<1>2. GateFields(g)'
  BY <1>1 DEF GateFields
<1>3. GateSaw(g)'
  BY <1>1 DEF GateSaw
<1>4. GateInv'
  BY <1>2, <1>3 DEF GateInv
<1>5. ReportInv'
  BY ReportKept DEF LifecycleInv
<1> QED
  BY <1>4, <1>5, GateLeaves

(* The fields of a call. *)
LEMMA GateShape ==
  ASSUME LifecycleInv, gate.pc # "idle"
  PROVE  gate # Idle /\ GateFields(gate) /\ GateRuns(gate) /\ GateSaw(gate)
<1>1. gate # Idle
  BY DEF Idle
<1> QED
  BY <1>1 DEF LifecycleInv, GateInv

(* Looks at the package. *)
LEMMA LookKeeps ==
  ASSUME LifecycleInv, ReadGolden \/ HashCandidate \/ ReadContent \/ HashReproduced \/ CheckAnchor
  PROVE  LifecycleInv'
<1>1. /\ UNCHANGED <<package, head, disturbed, reports, runs, model, versions, alias, promoter, receipts>>
      /\ gate.pc # "idle"
  BY DEF ReadGolden, HashCandidate, ReadContent, HashReproduced, CheckAnchor, Look, files, mlflow
<1>2. RunsKept
  BY <1>1, SameRuns DEF LifecycleInv
<1>3. gate # Idle /\ GateFields(gate) /\ GateRuns(gate) /\ GateSaw(gate)
  BY <1>1, GateShape
<1>4. PICK f : f = gate
  OBVIOUS
<1>5. f = [pc |-> f.pc, policy |-> f.policy, expected |-> f.expected, golden |-> f.golden,
           sha |-> f.sha, content |-> f.content, commit |-> f.commit, cand |-> f.cand,
           repro |-> f.repro]
  BY <1>3, <1>4 DEF GateFields
<1>6. \A d \in package : d.manifest \in Manifests
  BY DEF LifecycleInv, LifecycleType, PackageRecord
<1>7. {head, ZeroSha} \subseteq Shas
  BY DEF LifecycleInv, LifecycleType, Shas
<1>8. PICK g : g = gate'
  OBVIOUS
<1>9. /\ g = [pc |-> g.pc, policy |-> g.policy, expected |-> g.expected, golden |-> g.golden,
              sha |-> g.sha, content |-> g.content, commit |-> g.commit, cand |-> g.cand,
              repro |-> g.repro]
      /\ g.policy = f.policy /\ g.expected = f.expected /\ g.cand = f.cand /\ g.repro = f.repro
      /\ {g.golden, g.sha, g.content} \subseteq Manifests
      /\ g.sha = f.sha \/ \E d \in package : g.sha = d.manifest
      /\ g.commit \in Shas
      /\ \/ f.pc = "read" /\ g.pc = "golden"
         \/ f.pc = "golden" /\ g.pc = "hashed"
         \/ f.pc = "imported" /\ g.pc = "opened"
         \/ f.pc = "opened" /\ g.pc = "pinned"
         \/ f.pc = "pinned" /\ g.pc = "anchored"
  <2>1. f.commit \in Shas /\ {f.golden, f.sha, f.content} \subseteq Manifests
    BY <1>3, <1>4 DEF GateFields
  <2>2. CASE ReadGolden
    <3>1. PICK p \in package : f.pc = "read" /\ g = [f EXCEPT !.pc = "golden", !.golden = p.manifest]
      BY <1>4, <1>8, <2>2 DEF ReadGolden, Look
    <3> QED
      BY <1>5, <1>6, <2>1, <3>1
  <2>3. CASE HashCandidate
    <3>1. PICK p \in package : f.pc = "golden" /\ g = [f EXCEPT !.pc = "hashed", !.sha = p.manifest]
      BY <1>4, <1>8, <2>3 DEF HashCandidate, Look
    <3> QED
      BY <1>5, <1>6, <2>1, <3>1
  <2>4. CASE ReadContent
    <3>1. PICK p \in package : f.pc = "imported" /\ g = [f EXCEPT !.pc = "opened", !.content = p.manifest]
      BY <1>4, <1>8, <2>4 DEF ReadContent, Look
    <3> QED
      BY <1>5, <1>6, <2>1, <3>1
  <2>5. CASE HashReproduced
    <3>1. PICK p \in package, commit \in {head, ZeroSha} :
            f.pc = "opened" /\ g = [f EXCEPT !.pc = "pinned", !.sha = p.manifest, !.commit = commit]
      BY <1>4, <1>8, <2>5 DEF HashReproduced, get_current_git_sha
    <3> QED
      BY <1>5, <1>6, <1>7, <2>1, <3>1
  <2>6. CASE CheckAnchor
    <3>1. f.pc = "pinned" /\ g = [f EXCEPT !.pc = "anchored"]
      BY <1>4, <1>8, <2>6 DEF CheckAnchor
    <3> QED
      BY <1>5, <2>1, <3>1
  <2> QED
    BY <2>2, <2>3, <2>4, <2>5, <2>6
<1>10. g.pc \in {"read", "golden", "hashed"} \cup Tagged /\ g.pc # "reproduced"
       /\ (g.pc \in Tagged => f.pc \in Tagged) /\ (g.pc \in Uploaded => f.pc \in Uploaded)
  BY <1>9 DEF Tagged, Uploaded
<1>11. GateRuns(g)'
  BY <1>1, <1>3, <1>4, <1>9, <1>10 DEF GateRuns, Tagged, Uploaded
<1>12. g.pc \in Tagged /\ ~disturbed => runs'[g.cand].tags.package = g.expected
  BY <1>1, <1>3, <1>4, <1>9, <1>10 DEF GateSaw
<1> QED
  BY <1>1, <1>2, <1>3, <1>4, <1>8, <1>9, <1>10, <1>11, <1>12, GateGoesOn

(* The candidate run: tagged with the hash, and with what the content says.    *)
LEMMA ImportKeeps ==
  ASSUME LifecycleInv, import_candidate
  PROVE  LifecycleInv'
<1>1. /\ gate.pc = "hashed"
      /\ UNCHANGED <<package, head, disturbed, reports, model, versions, alias, promoter, receipts>>
      /\ gate' = [gate EXCEPT !.pc = "tagged", !.cand = Len(runs) + 1]
  BY DEF import_candidate, files, Last
<1>2. PICK p \in package, commit \in {head, ZeroSha} :
        runs' = Append(runs, [tags |-> Tags("candidate", gate.sha, p.manifest, commit, gate.policy),
                              model |-> {}, result |-> "none"])
  BY DEF import_candidate, get_current_git_sha
<1>3. gate # Idle /\ GateFields(gate) /\ GateSaw(gate)
  BY <1>1, GateShape
<1> DEFINE tags == Tags("candidate", gate.sha, p.manifest, commit, gate.policy)
<1> DEFINE run == [tags |-> tags, model |-> {}, result |-> "none"]
<1>4. gate.policy \in Policies \cup {Placeholder} /\ gate.sha \in Manifests /\ p.manifest \in Manifests
  BY <1>3 DEF GateFields, LifecycleInv, LifecycleType, PackageRecord
<1>5. tags \in TagRecord /\ tags.state = "candidate" /\ tags.package = gate.sha
  BY <1>4 DEF Tags, Identity, TagRecord, Shas, LifecycleInv, LifecycleType
<1> HIDE DEF tags
<1>6. run \in RunRecord /\ run.tags = tags
  BY <1>5 DEF RunRecord, Results
<1> HIDE DEF run
<1>7. runs' = Append(runs, run)
  BY <1>2 DEF run, tags
<1>8. RunsKept /\ Len(runs) + 1 \in 1..Len(runs') /\ runs'[Len(runs) + 1] = run
  BY <1>1, <1>6, <1>7, RunAppended DEF LifecycleInv
<1>9. PICK f : f = gate
  OBVIOUS
<1>10. PICK g : g = gate'
  OBVIOUS
<1>11. PICK n : n = Len(runs) + 1
  OBVIOUS
<1>12. g = [f EXCEPT !.pc = "tagged", !.cand = n]
  BY <1>1, <1>9, <1>10, <1>11
<1>13. f = [pc |-> f.pc, policy |-> f.policy, expected |-> f.expected, golden |-> f.golden,
           sha |-> f.sha, content |-> f.content, commit |-> f.commit, cand |-> f.cand,
           repro |-> f.repro]
  BY <1>3, <1>9 DEF GateFields
<1>14. /\ g = [pc |-> g.pc, policy |-> g.policy, expected |-> g.expected, golden |-> g.golden,
               sha |-> g.sha, content |-> g.content, commit |-> g.commit, cand |-> g.cand,
               repro |-> g.repro]
       /\ g.pc = "tagged" /\ g.policy = f.policy /\ g.expected = f.expected /\ g.golden = f.golden
       /\ g.sha = f.sha /\ g.content = f.content /\ g.commit = f.commit /\ g.cand = n
  BY <1>12, <1>13
<1>15. {g.golden, g.sha, g.content} \subseteq Manifests /\ g.commit \in Shas
  BY <1>3, <1>9, <1>14 DEF GateFields
<1>16. GateRuns(g)'
  BY <1>5, <1>6, <1>8, <1>11, <1>14 DEF GateRuns, Tagged, Uploaded
<1>17. ~disturbed => runs'[g.cand].tags.package = g.expected
  BY <1>3, <1>5, <1>6, <1>8, <1>9, <1>11, <1>14 DEF GateSaw
<1>18. g.pc \in {"read", "golden", "hashed"} \cup Tagged
  BY <1>14 DEF Tagged
<1> QED
  BY <1>1, <1>3, <1>8, <1>9, <1>10, <1>14, <1>15, <1>16, <1>17, <1>18, GateGoesOn

(* The model of the candidate run. *)
LEMMA LogKeeps ==
  ASSUME LifecycleInv, log_model
  PROVE  LifecycleInv'
<1>1. /\ gate.pc = "tagged"
      /\ UNCHANGED <<package, head, disturbed, reports, model, versions, alias, promoter, receipts>>
      /\ gate' = [gate EXCEPT !.pc = "imported"]
  BY DEF log_model, files
<1>2. PICK p \in package : runs' = [runs EXCEPT ![gate.cand].model = {p}]
  BY DEF log_model
<1>3. /\ gate # Idle /\ GateFields(gate) /\ GateRuns(gate) /\ GateSaw(gate)
      /\ gate.cand \in 1..Len(runs) /\ runs[gate.cand].tags.state = "candidate"
  BY <1>1, GateShape DEF GateRuns, Tagged
<1>4. p \in PackageRecord /\ runs \in Seq(RunRecord) /\ runs[gate.cand] \in RunRecord /\ disturbed \in BOOLEAN
  BY <1>3 DEF LifecycleInv, LifecycleType
<1> DEFINE run == [runs[gate.cand] EXCEPT !.model = {p}]
<1>5. /\ run \in RunRecord /\ run.model = {p} /\ run.tags = runs[gate.cand].tags
      /\ run.result = runs[gate.cand].result
  BY <1>4 DEF RunRecord
<1>6. runs' = [runs EXCEPT ![gate.cand] = run]
  BY <1>2
<1> HIDE DEF run
<1>7. /\ runs' \in Seq(RunRecord) /\ Len(runs') = Len(runs) /\ Len(runs) \in Nat
      /\ \A i \in 1..Len(runs) : runs'[i] = IF i = gate.cand THEN run ELSE runs[i]
  BY <1>3, <1>4, <1>5, <1>6
<1>8. /\ RunsKept /\ runs'[gate.cand].model # {} /\ runs'[gate.cand].tags = runs[gate.cand].tags
      /\ gate.cand \in 1..Len(runs')
  <2>1. runs'[gate.cand] = run /\ {p} # {}
    BY <1>3, <1>7
  <2>2. ASSUME NEW i \in 1..Len(runs)
        PROVE  /\ runs'[i].tags = runs[i].tags /\ runs'[i].result = runs[i].result
               /\ runs[i].model # {} => runs'[i].model # {}
    <3>1. CASE i = gate.cand
      BY <1>5, <2>1, <3>1
    <3>2. CASE i # gate.cand
      BY <1>7, <3>2
    <3> QED
      BY <3>1, <3>2
  <2>3. Len(runs) <= Len(runs')
    BY <1>7
  <2> QED
    BY <1>1, <1>3, <1>4, <1>5, <1>7, <2>1, <2>2, <2>3 DEF RunsKept
<1>9. PICK f : f = gate
  OBVIOUS
<1>10. PICK g : g = gate'
  OBVIOUS
<1>11. g = [f EXCEPT !.pc = "imported"]
  BY <1>1, <1>9, <1>10
<1>12. f = [pc |-> f.pc, policy |-> f.policy, expected |-> f.expected, golden |-> f.golden,
           sha |-> f.sha, content |-> f.content, commit |-> f.commit, cand |-> f.cand,
           repro |-> f.repro]
  BY <1>3, <1>9 DEF GateFields
<1>13. /\ g = [pc |-> g.pc, policy |-> g.policy, expected |-> g.expected, golden |-> g.golden,
               sha |-> g.sha, content |-> g.content, commit |-> g.commit, cand |-> g.cand,
               repro |-> g.repro]
       /\ g.pc = "imported" /\ g.policy = f.policy /\ g.expected = f.expected /\ g.golden = f.golden
       /\ g.sha = f.sha /\ g.content = f.content /\ g.commit = f.commit /\ g.cand = f.cand
  BY <1>11, <1>12
<1>14. {g.golden, g.sha, g.content} \subseteq Manifests /\ g.commit \in Shas
  BY <1>3, <1>9, <1>13 DEF GateFields
<1>15. GateRuns(g)'
  BY <1>3, <1>8, <1>9, <1>13 DEF GateRuns, Tagged, Uploaded
<1>16. ~disturbed => runs'[g.cand].tags.package = g.expected
  BY <1>1, <1>3, <1>8, <1>9, <1>13 DEF GateSaw, Tagged
<1>17. g.pc \in {"read", "golden", "hashed"} \cup Tagged
  BY <1>13 DEF Tagged
<1> QED
  BY <1>1, <1>3, <1>8, <1>9, <1>10, <1>13, <1>14, <1>15, <1>16, <1>17, GateGoesOn

(* The reproduction run. *)
LEMMA ReproduceKeeps ==
  ASSUME LifecycleInv, reproduce_candidate
  PROVE  LifecycleInv'
<1>1. /\ gate.pc = "anchored"
      /\ UNCHANGED <<package, head, disturbed, reports, model, versions, alias, promoter, receipts>>
      /\ gate' = [gate EXCEPT !.pc = "reproduced", !.repro = Len(runs) + 1]
  BY DEF reproduce_candidate, files, Last
<1>2. PICK p \in package :
        runs' = Append(runs, [tags |-> Tags("reproduction", gate.sha, gate.content, gate.commit,
                                            Placeholder),
                              model |-> {}, result |-> Recomputed(p.manifest)])
  BY DEF reproduce_candidate
<1>3. /\ gate # Idle /\ GateFields(gate) /\ GateRuns(gate) /\ GateSaw(gate)
      /\ gate.cand \in 1..Len(runs) /\ runs[gate.cand].tags.state = "candidate"
      /\ runs[gate.cand].model # {}
  BY <1>1, GateShape DEF GateRuns, Tagged, Uploaded
<1> DEFINE tags == Tags("reproduction", gate.sha, gate.content, gate.commit, Placeholder)
<1> DEFINE run == [tags |-> tags, model |-> {}, result |-> Recomputed(p.manifest)]
<1>4. p.manifest \in Manifests /\ gate.sha \in Manifests /\ gate.content \in Manifests /\ gate.commit \in Shas
  BY <1>3 DEF GateFields, LifecycleInv, LifecycleType, PackageRecord
<1>5. tags \in TagRecord /\ tags.state = "reproduction"
  BY <1>4 DEF Tags, Identity, TagRecord
<1> HIDE DEF tags
<1>6. Recomputed(p.manifest) \in Results
  BY <1>4 DEF Recomputed, Calibration, Results
<1>7. run \in RunRecord /\ run.tags = tags
  BY <1>5, <1>6 DEF RunRecord
<1> HIDE DEF run
<1>8. runs' = Append(runs, run)
  BY <1>2 DEF run, tags
<1>9. RunsKept /\ Len(runs) + 1 \in 1..Len(runs') /\ runs'[Len(runs) + 1] = run
  BY <1>1, <1>7, <1>8, RunAppended DEF LifecycleInv
<1>10. /\ gate.cand \in 1..Len(runs') /\ runs'[gate.cand].tags = runs[gate.cand].tags
       /\ runs'[gate.cand].model # {}
  BY <1>3, <1>9, RunIndexes DEF LifecycleInv, RunsKept
<1>11. PICK f : f = gate
  OBVIOUS
<1>12. PICK g : g = gate'
  OBVIOUS
<1>13. PICK n : n = Len(runs) + 1
  OBVIOUS
<1>14. g = [f EXCEPT !.pc = "reproduced", !.repro = n]
  BY <1>1, <1>11, <1>12, <1>13
<1>15. f = [pc |-> f.pc, policy |-> f.policy, expected |-> f.expected, golden |-> f.golden,
           sha |-> f.sha, content |-> f.content, commit |-> f.commit, cand |-> f.cand,
           repro |-> f.repro]
  BY <1>3, <1>11 DEF GateFields
<1>16. /\ g = [pc |-> g.pc, policy |-> g.policy, expected |-> g.expected, golden |-> g.golden,
               sha |-> g.sha, content |-> g.content, commit |-> g.commit, cand |-> g.cand,
               repro |-> g.repro]
       /\ g.pc = "reproduced" /\ g.policy = f.policy /\ g.expected = f.expected /\ g.golden = f.golden
       /\ g.sha = f.sha /\ g.content = f.content /\ g.commit = f.commit /\ g.cand = f.cand
       /\ g.repro = n
  BY <1>14, <1>15
<1>17. {g.golden, g.sha, g.content} \subseteq Manifests /\ g.commit \in Shas
  BY <1>3, <1>11, <1>16 DEF GateFields
<1>18. GateRuns(g)'
  BY <1>3, <1>5, <1>7, <1>9, <1>10, <1>11, <1>13, <1>16 DEF GateRuns, Tagged, Uploaded
<1>19. ~disturbed => runs'[g.cand].tags.package = g.expected
  BY <1>1, <1>3, <1>10, <1>11, <1>16 DEF GateSaw, Tagged
<1>20. g.pc \in {"read", "golden", "hashed"} \cup Tagged
  BY <1>16 DEF Tagged
<1> QED
  BY <1>1, <1>3, <1>9, <1>11, <1>12, <1>16, <1>17, <1>18, <1>19, <1>20, GateGoesOn

(* Attest: a verdict of PASS confirms the candidate run; the calibration it    *)
(* was compared with is the candidate's unless the package changed meanwhile.  *)
LEMMA AttestKeeps ==
  ASSUME LifecycleInv, Attest
  PROVE  LifecycleInv'
<1> DEFINE verdict == evaluate_phase7_gate(gate.cand, gate.repro, gate.expected, gate.golden)
<1> DEFINE a == [verdict |-> verdict, run |-> gate.cand, repro |-> gate.repro,
                 hashes |-> runs[gate.cand].tags]
<1>1. /\ gate.pc = "reproduced" /\ gate' = Idle
      /\ UNCHANGED <<package, head, disturbed, runs, model, versions, alias, promoter, receipts>>
      /\ reports' = [reports EXCEPT ![runs[gate.cand].tags.commit] = {a}]
  BY DEF Attest, mlflow
<1>2. /\ gate.cand \in 1..Len(runs) /\ runs[gate.cand].tags.state = "candidate"
      /\ runs[gate.cand].model # {}
      /\ gate.repro \in 1..Len(runs) /\ runs[gate.repro].tags.state = "reproduction"
      /\ ~disturbed => runs[gate.cand].tags.package = gate.expected
  BY <1>1, GateShape DEF GateRuns, GateSaw, Tagged, Uploaded
<1>3. ASSUME verdict = "PASS" PROVE Confirmed(gate.cand)
  <2> DEFINE c == runs[gate.cand].tags
  <2> DEFINE r == runs[gate.repro].tags
  <2>1. /\ r.package = c.package /\ r.identity = c.identity /\ r.commit = c.commit
        /\ r.policy = c.policy
        /\ runs[gate.repro].result = Calibration(gate.expected)
    BY <1>3 DEF evaluate_phase7_gate
  <2>2. c \in TagRecord /\ r \in TagRecord
    <3>1. runs[gate.cand] \in RunRecord /\ runs[gate.repro] \in RunRecord
      BY <1>2 DEF LifecycleInv, LifecycleType
    <3> QED
      BY <3>1 DEF RunRecord
  <2>3. r.state = "reproduction"
    BY <1>2
  <2>4. r = [c EXCEPT !.state = "reproduction"]
    <3> HIDE DEF c, r
    <3> QED
      BY <2>1, <2>2, <2>3 DEF TagRecord
  <2>5. Confirms(gate.repro, gate.cand)
    BY <2>4 DEF Confirms
  <2>6. Attested(gate.cand)
    BY <1>2, <2>5 DEF Attested, Last
  <2>7. ~disturbed => Reproduced(gate.cand)
    BY <1>2, <2>1, <2>5 DEF Reproduced, Last
  <2> QED
    BY <1>2, <2>6, <2>7 DEF Confirmed
<1>4. a.verdict = verdict /\ a.run = gate.cand
  OBVIOUS
<1> HIDE DEF a, verdict
<1>5. RunsKept
  BY <1>1, SameRuns DEF LifecycleInv
<1>6. /\ reports' = [c \in DOMAIN reports' |-> reports'[c]] /\ DOMAIN reports' = DOMAIN reports
      /\ \A c \in DOMAIN reports : reports'[c] = {a} \/ reports'[c] = reports[c]
  BY <1>1 DEF LifecycleInv, ReportInv
<1>7. \A c \in DOMAIN reports' : \A b \in reports'[c] : b.verdict = "PASS" => Confirmed(b.run)
  BY <1>3, <1>4, <1>6 DEF LifecycleInv, ReportInv
<1>8. \A c \in DOMAIN reports' : \A b \in reports'[c] : b.verdict = "PASS" => Confirmed(b.run)'
  BY <1>5, <1>7, ConfirmedKept DEF LifecycleInv
<1>9. ReportInv'
  BY <1>6, <1>8 DEF ReportInv
<1>10. GateInv'
  BY <1>1 DEF GateInv, Idle
<1> QED
  BY <1>1, <1>5, <1>9, <1>10, GateLeaves

(* One promotion moves: it is left to look at that one. *)
LEMMA OnePromotion ==
  ASSUME LifecycleInv, NEW p \in Promoters, NEW new, promoter' = [promoter EXCEPT ![p] = new],
         UNCHANGED <<package, head, disturbed, runs, gate, reports>>,
         versions' \in Seq(Nat), Len(versions) <= Len(versions'),
         \A v \in 1..Len(versions) : versions'[v] = versions[v],
         \/ new.pc = "idle"
         \/ new.pc = "read" /\ Reads(new)
         \/ new.pc \in {"checked", "refused", "registered"} /\ Checked(new)
         \/ new.pc \in {"versioned", "aliased"} /\ Versioned(new)'
  PROVE  /\ LifecycleType' /\ GateInv' /\ ReportInv' /\ PromoterInv'
         /\ promoter'[p] = new
         /\ \A o \in Promoters \ {p} : promoter'[o] = promoter[o]
<1>1. RunsKept
  BY SameRuns DEF LifecycleInv
<1>2. LifecycleType' /\ GateInv' /\ ReportInv'
  BY <1>1, GateKept, ReportKept DEF LifecycleInv, LifecycleType
<1>3. /\ promoter' = [o \in Promoters |-> promoter'[o]] /\ promoter'[p] = new
      /\ \A o \in Promoters \ {p} : promoter'[o] = promoter[o]
  BY DEF LifecycleInv, PromoterInv
<1>4. \A r : Checked(r) => Checked(r)'
  BY <1>1, PromotesKept DEF Checked, LifecycleInv
<1>5. \A r : Versioned(r) => Versioned(r)'
  <2>1. Len(versions) \in Nat /\ Len(versions') \in Nat
    BY DEF LifecycleInv, RegistryInv
  <2>2. \A v \in 1..Len(versions) : v \in 1..Len(versions')
    BY <2>1
  <2> QED
    BY <1>1, <2>2, PromotesKept DEF Versioned, LifecycleInv
<1>8. \A r : Reads(r) => Reads(r)'
  BY <1>1, ReadsKept DEF LifecycleInv
<1>6. ASSUME NEW o \in Promoters
      PROVE  \/ promoter'[o].pc = "idle"
             \/ promoter'[o].pc = "read" /\ Reads(promoter[o])'
             \/ promoter'[o].pc \in {"checked", "refused", "registered"} /\ Checked(promoter[o])'
             \/ promoter'[o].pc \in {"versioned", "aliased"} /\ Versioned(promoter[o])'
  <2>1. CASE o = p
    BY <1>3, <1>4, <1>8, <2>1
  <2>2. CASE o # p
    BY <1>3, <1>4, <1>5, <1>8, <2>2 DEF LifecycleInv, PromoterInv
  <2> QED
    BY <2>1, <2>2
<1>7. PromoterInv'
  BY <1>3, <1>6 DEF PromoterInv
<1> QED
  BY <1>2, <1>3, <1>7

(* The registry when a promotion moves and registers nothing. *)
LEMMA RegistryUntouched ==
  ASSUME LifecycleInv, NEW p \in Promoters, NEW new,
         promoter'[p] = new, \A o \in Promoters \ {p} : promoter'[o] = promoter[o],
         UNCHANGED <<package, disturbed, runs, versions, alias, receipts>>,
         new.pc \notin {"registered", "versioned", "aliased"},
         model' \in BOOLEAN, model = TRUE => model' = TRUE
  PROVE  RegistryInv'
<1>1. \A o \in Promoters : Registering(o)' => Registering(o) /\ promoter'[o] = promoter[o]
  BY DEF Registering
<1>2. RunsKept
  BY SameRuns DEF LifecycleInv
<1>3. \A v \in 1..Len(versions') : Registrable(versions[v])'
  BY <1>2, RegistrableKept DEF LifecycleInv, RegistryInv
<1>4. ASSUME NEW o \in Promoters, Registering(o)'
      PROVE  /\ model' = TRUE
             /\ \A q \in Promoters : Registering(q)' => q = o
             /\ promoter'[o].pc # "aliased" => alias' = {} /\ \A w \in Outputs : receipts'[w] = {}
             /\ promoter'[o].pc = "aliased" => alias' = {promoter'[o].version}
  BY <1>1, <1>4 DEF LifecycleInv, RegistryInv
<1>5. model' # TRUE => alias' = {} /\ \A o \in Outputs : receipts'[o] = {}
  BY DEF LifecycleInv, RegistryInv
<1>6. \A o \in Outputs : \A r \in receipts'[o] :
       /\ r.version \in 1..Len(versions') /\ alias' = {r.version}
       /\ versions'[r.version] = r.run
       /\ runs'[r.run].tags.package = r.package
       /\ runs'[r.run].tags.commit = r.commit
  BY DEF LifecycleInv, RegistryInv
<1> QED
  BY <1>3, <1>4, <1>5, <1>6 DEF LifecycleInv, RegistryInv

(* promote_candidate's checks. *)
LEMMA PromoteBegins ==
  ASSUME LifecycleInv, NEW p \in Promoters, NEW run, NEW out, promote_candidate(p, run, out)
  PROVE  LifecycleInv'
<1>1. /\ UNCHANGED <<package, head, disturbed, runs, gate, reports, versions, alias, model, receipts>>
  BY DEF promote_candidate, files, mlflow
<1>2. PICK c \in DOMAIN reports : \E attested \in reports[c], d \in package :
        /\ Promotable(run, attested, d.manifest)
        /\ promoter' = [promoter EXCEPT ![p] =
             [pc |-> "read", run |-> run, output |-> out,
              package |-> d.manifest, commit |-> attested.hashes.commit]]
  BY DEF promote_candidate
<1>3. PICK attested \in reports[c], d \in package :
        /\ Promotable(run, attested, d.manifest)
        /\ promoter' = [promoter EXCEPT ![p] =
             [pc |-> "read", run |-> run, output |-> out,
              package |-> d.manifest, commit |-> attested.hashes.commit]]
  BY <1>2
<1>4. PICK new : new = [pc |-> "read", run |-> run, output |-> out,
                        package |-> d.manifest, commit |-> attested.hashes.commit]
  OBVIOUS
<1>5. /\ new.pc = "read" /\ new.run = run /\ new.output = out /\ new.package = d.manifest
      /\ new.commit = attested.hashes.commit
      /\ new = [pc |-> new.pc, run |-> new.run, output |-> new.output, package |-> new.package,
                commit |-> new.commit]
  BY <1>4
<1>6. /\ attested.verdict = "PASS" /\ attested.run = run
      /\ runs[run].tags = attested.hashes /\ d.manifest \in Champions
  BY <1>3 DEF Promotable, _validate_promotion_identity
<1>7. Confirmed(run)
  BY <1>6 DEF LifecycleInv, ReportInv
<1>8. \A e \in package : e = d
  BY DEF LifecycleInv, LifecycleType
<1>13. Reads(new)
  BY <1>5, <1>6, <1>7, <1>8 DEF Reads
<1>9. promoter' = [promoter EXCEPT ![p] = new]
  BY <1>3, <1>4
<1>10. versions' \in Seq(Nat) /\ Len(versions) <= Len(versions') /\ model' \in BOOLEAN
       /\ \A v \in 1..Len(versions) : versions'[v] = versions[v]
  BY <1>1 DEF LifecycleInv, RegistryInv
<1>11. /\ LifecycleType' /\ GateInv' /\ ReportInv' /\ PromoterInv' /\ promoter'[p] = new
       /\ \A o \in Promoters \ {p} : promoter'[o] = promoter[o]
  BY <1>1, <1>5, <1>9, <1>10, <1>13, OnePromotion
<1>12. RegistryInv'
  BY <1>1, <1>5, <1>10, <1>11, RegistryUntouched
<1> QED
  BY <1>11, <1>12 DEF LifecycleInv

(* The hash of the manifest is the one of the run; undisturbed, it is the hash *)
(* of the content that was read.                                               *)
LEMMA CheckKeeps ==
  ASSUME LifecycleInv, NEW p \in Promoters, CheckManifest(p)
  PROVE  LifecycleInv'
<1>1. /\ UNCHANGED <<package, head, disturbed, runs, gate, reports, versions, alias, model, receipts>>
      /\ promoter[p].pc = "read"
  BY DEF CheckManifest, At, files, mlflow
<1>2. PICK d \in package :
        /\ runs[promoter[p].run].tags.package = d.manifest
        /\ promoter' = [promoter EXCEPT ![p].pc = "checked", ![p].package = d.manifest]
  BY DEF CheckManifest
<1>3. PICK r : r = promoter[p]
  OBVIOUS
<1>4. PICK new : new = [r EXCEPT !.pc = "checked", !.package = d.manifest]
  OBVIOUS
<1>5. promoter' = [promoter EXCEPT ![p] = new]
  BY <1>2, <1>3, <1>4 DEF LifecycleInv, PromoterInv
<1>6. Reads(r)
  BY <1>1, <1>3 DEF LifecycleInv, PromoterInv
<1>7. /\ new.pc = "checked" /\ new.run = r.run /\ new.output = r.output /\ new.package = d.manifest
      /\ new.commit = r.commit
      /\ new = [pc |-> new.pc, run |-> new.run, output |-> new.output, package |-> new.package,
                commit |-> new.commit]
  BY <1>4, <1>6 DEF Reads
<1>8. Checked(new)
  BY <1>2, <1>3, <1>6, <1>7 DEF Reads, Checked, Promotes, Registrable
<1>9. versions' \in Seq(Nat) /\ Len(versions) <= Len(versions') /\ model' \in BOOLEAN
      /\ \A v \in 1..Len(versions) : versions'[v] = versions[v]
  BY <1>1 DEF LifecycleInv, RegistryInv
<1>10. /\ LifecycleType' /\ GateInv' /\ ReportInv' /\ PromoterInv' /\ promoter'[p] = new
       /\ \A o \in Promoters \ {p} : promoter'[o] = promoter[o]
  BY <1>1, <1>5, <1>7, <1>8, <1>9, OnePromotion
<1>11. RegistryInv'
  BY <1>1, <1>7, <1>9, <1>10, RegistryUntouched
<1> QED
  BY <1>10, <1>11 DEF LifecycleInv

(* A call that is refused, fails or is killed. *)
LEMMA PromoteStops ==
  ASSUME LifecycleInv, NEW p \in Promoters, PromoterStops(p)
  PROVE  LifecycleInv'
<1>1. /\ UNCHANGED <<package, head, disturbed, runs, gate, reports, versions, alias, model, receipts>>
      /\ promoter' = [promoter EXCEPT ![p] = Idle]
  BY DEF PromoterStops, files, mlflow
<1>2. PICK new : new = Idle
  OBVIOUS
<1>6. new.pc = "idle"
  BY <1>2 DEF Idle
<1>3. versions' \in Seq(Nat) /\ Len(versions) <= Len(versions') /\ model' \in BOOLEAN
      /\ \A v \in 1..Len(versions) : versions'[v] = versions[v]
  BY <1>1 DEF LifecycleInv, RegistryInv
<1>4. /\ LifecycleType' /\ GateInv' /\ ReportInv' /\ PromoterInv' /\ promoter'[p] = new
      /\ \A o \in Promoters \ {p} : promoter'[o] = promoter[o]
  BY <1>1, <1>2, <1>3, <1>6, OnePromotion
<1>5. RegistryInv'
  BY <1>1, <1>3, <1>4, <1>6, RegistryUntouched
<1> QED
  BY <1>4, <1>5 DEF LifecycleInv

(* create_registered_model: the model is created once. *)
LEMMA RegisterKeeps ==
  ASSUME LifecycleInv, NEW p \in Promoters, create_registered_model(p)
  PROVE  LifecycleInv'
<1>1. /\ UNCHANGED <<package, head, disturbed, runs, gate, reports, versions, alias, receipts>>
      /\ promoter[p].pc = "checked" /\ model' = TRUE
      /\ promoter' = [promoter EXCEPT ![p].pc = IF model THEN "refused" ELSE "registered"]
  BY DEF create_registered_model, files, At, Step
<1>2. Checked(promoter[p])
  BY <1>1 DEF LifecycleInv, PromoterInv
<1>3. PICK r : r = promoter[p]
  OBVIOUS
<1>4. PICK pc : pc = IF model THEN "refused" ELSE "registered"
  OBVIOUS
<1>5. PICK new : new = [r EXCEPT !.pc = pc]
  OBVIOUS
<1>6. promoter' = [promoter EXCEPT ![p] = new]
  BY <1>1, <1>3, <1>4, <1>5
<1>7. /\ r = [pc |-> r.pc, run |-> r.run, output |-> r.output, package |-> r.package,
              commit |-> r.commit]
      /\ Promotes(r)
  BY <1>2, <1>3 DEF Checked
<1>8. /\ new.pc = pc /\ new.run = r.run /\ new.output = r.output /\ new.package = r.package
      /\ new.commit = r.commit
      /\ new = [pc |-> new.pc, run |-> new.run, output |-> new.output, package |-> new.package,
                commit |-> new.commit]
  BY <1>5, <1>7
<1>9. Checked(new)
  BY <1>7, <1>8 DEF Checked, Promotes
<1>10. versions' \in Seq(Nat) /\ Len(versions) <= Len(versions') /\ model \in BOOLEAN
       /\ \A v \in 1..Len(versions) : versions'[v] = versions[v]
  BY <1>1 DEF LifecycleInv, RegistryInv
<1>11. pc \in {"refused", "registered"} /\ (pc = "registered" => model = FALSE)
  BY <1>4, <1>10
<1>12. /\ LifecycleType' /\ GateInv' /\ ReportInv' /\ PromoterInv' /\ promoter'[p] = new
       /\ \A o \in Promoters \ {p} : promoter'[o] = promoter[o]
  BY <1>1, <1>6, <1>8, <1>9, <1>10, <1>11, OnePromotion
<1>13. RegistryInv'
  <2>1. CASE pc = "refused"
    BY <1>1, <1>8, <1>12, <2>1, RegistryUntouched
  <2>2. CASE pc = "registered"
    <3>1. model # TRUE
      BY <1>11, <2>2
    <3>2. alias' = {} /\ \A o \in Outputs : receipts'[o] = {}
      BY <1>1, <3>1 DEF LifecycleInv, RegistryInv
    <3>3. \A o \in Promoters : Registering(o)' => o = p
      BY <1>12, <3>1 DEF LifecycleInv, RegistryInv, Registering
    <3>4. promoter'[p].pc = "registered"
      BY <1>8, <1>12, <2>2
    <3>5. RunsKept
      BY <1>1, SameRuns DEF LifecycleInv
    <3>6. \A v \in 1..Len(versions') : Registrable(versions[v])'
      BY <1>1, <3>5, RegistrableKept DEF LifecycleInv, RegistryInv
    <3> QED
      BY <1>1, <3>2, <3>3, <3>4, <3>6 DEF LifecycleInv, RegistryInv
  <2> QED
    BY <1>11, <2>1, <2>2
<1> QED
  BY <1>12, <1>13 DEF LifecycleInv

(* create_model_version: the version is of the promoted run. *)
LEMMA VersionKeeps ==
  ASSUME LifecycleInv, NEW p \in Promoters, create_model_version(p)
  PROVE  LifecycleInv'
<1>1. /\ UNCHANGED <<package, head, disturbed, runs, gate, reports, alias, receipts, model>>
      /\ promoter[p].pc = "registered"
      /\ versions' = Append(versions, promoter[p].run)
      /\ promoter' = [promoter EXCEPT ![p] =
           [pc |-> "versioned", run |-> promoter[p].run, output |-> promoter[p].output,
            package |-> promoter[p].package, commit |-> promoter[p].commit,
            version |-> Len(versions) + 1]]
  BY DEF create_model_version, files, At
<1>2. Checked(promoter[p]) /\ Registering(p)
  BY <1>1 DEF LifecycleInv, PromoterInv, Registering
<1>3. PICK r : r = promoter[p]
  OBVIOUS
<1>4. PICK n : n = Len(versions) + 1
  OBVIOUS
<1>5. PICK new : new = [pc |-> "versioned", run |-> r.run, output |-> r.output,
                        package |-> r.package, commit |-> r.commit, version |-> n]
  OBVIOUS
<1>6. promoter' = [promoter EXCEPT ![p] = new]
  BY <1>1, <1>3, <1>4, <1>5
<1>7. Promotes(r)
  BY <1>2, <1>3 DEF Checked
<1>8. /\ new.pc = "versioned" /\ new.run = r.run /\ new.output = r.output
      /\ new.package = r.package /\ new.commit = r.commit /\ new.version = n
      /\ new = [pc |-> new.pc, run |-> new.run, output |-> new.output, package |-> new.package,
                commit |-> new.commit, version |-> new.version]
  BY <1>5
<1>9. r.run \in Nat /\ versions \in Seq(Nat) /\ Len(versions) \in Nat
  BY <1>7 DEF LifecycleInv, RegistryInv, Promotes, Registrable, Confirmed
<1>10. /\ versions' \in Seq(Nat) /\ Len(versions') = n
       /\ Len(versions) <= Len(versions') /\ n \in 1..Len(versions')
       /\ \A v \in 1..Len(versions) : versions'[v] = versions[v]
       /\ versions'[n] = r.run
  BY <1>1, <1>3, <1>4, <1>9
<1>11. RunsKept
  BY <1>1, SameRuns DEF LifecycleInv
<1>12. Promotes(new)'
  <2>1. Promotes(new)
    BY <1>7, <1>8 DEF Promotes
  <2> QED
    BY <1>11, <2>1, PromotesKept DEF LifecycleInv
<1>13. Versioned(new)'
  BY <1>8, <1>10, <1>12 DEF Versioned
<1>14. /\ LifecycleType' /\ GateInv' /\ ReportInv' /\ PromoterInv' /\ promoter'[p] = new
       /\ \A o \in Promoters \ {p} : promoter'[o] = promoter[o]
  BY <1>1, <1>6, <1>8, <1>10, <1>13, OnePromotion
<1>15. RegistryInv'
  <2>1. /\ model = TRUE /\ alias = {} /\ \A o \in Outputs : receipts[o] = {}
        /\ \A o \in Promoters : Registering(o) => o = p
    BY <1>1, <1>2 DEF LifecycleInv, RegistryInv
  <2>2. \A o \in Promoters : Registering(o)' => o = p
    BY <1>14, <2>1 DEF Registering
  <2>3. ASSUME NEW v \in 1..Len(versions')
        PROVE  Registrable(versions[v])'
    <3>1. v \in 1..Len(versions) \/ v = n
      BY <1>4, <1>9, <1>10
    <3>2. \E run : versions'[v] = run /\ Registrable(run)
      <4>1. CASE v \in 1..Len(versions)
        BY <1>10, <4>1 DEF LifecycleInv, RegistryInv
      <4>2. CASE v = n
        BY <1>7, <1>10, <4>2 DEF Promotes
      <4> QED
        BY <3>1, <4>1, <4>2
    <3>3. PICK run : versions'[v] = run /\ Registrable(run)
      BY <3>2
    <3>4. Registrable(run)'
      BY <1>11, <3>3, RegistrableKept DEF LifecycleInv
    <3> QED
      BY <3>3, <3>4
  <2>4. promoter'[p].pc = "versioned"
    BY <1>8, <1>14
  <2>5. alias' \subseteq 1..Len(versions')
    BY <1>1, <2>1
  <2> QED
    BY <1>1, <1>10, <2>1, <2>2, <2>3, <2>4, <2>5 DEF LifecycleInv, RegistryInv
<1> QED
  BY <1>14, <1>15 DEF LifecycleInv

(* set_registered_model_alias: no receipt is left that names another version. *)
LEMMA AliasKeeps ==
  ASSUME LifecycleInv, NEW p \in Promoters, set_registered_model_alias(p)
  PROVE  LifecycleInv'
<1>1. /\ UNCHANGED <<package, head, disturbed, runs, gate, reports, versions, receipts, model>>
      /\ promoter[p].pc = "versioned" /\ alias' = {promoter[p].version}
      /\ promoter' = [promoter EXCEPT ![p].pc = "aliased"]
  BY DEF set_registered_model_alias, files, At, Step
<1>2. Versioned(promoter[p]) /\ Registering(p)
  BY <1>1 DEF LifecycleInv, PromoterInv, Registering
<1>3. PICK r : r = promoter[p]
  OBVIOUS
<1>4. PICK new : new = [r EXCEPT !.pc = "aliased"]
  OBVIOUS
<1>5. promoter' = [promoter EXCEPT ![p] = new]
  BY <1>1, <1>3, <1>4
<1>6. /\ r = [pc |-> r.pc, run |-> r.run, output |-> r.output, package |-> r.package,
              commit |-> r.commit, version |-> r.version]
      /\ Promotes(r) /\ r.version \in 1..Len(versions) /\ versions[r.version] = r.run
  BY <1>2, <1>3 DEF Versioned
<1>7. /\ new.pc = "aliased" /\ new.run = r.run /\ new.output = r.output
      /\ new.package = r.package /\ new.commit = r.commit /\ new.version = r.version
      /\ new = [pc |-> new.pc, run |-> new.run, output |-> new.output, package |-> new.package,
                commit |-> new.commit, version |-> new.version]
  BY <1>4, <1>6
<1>8. versions' \in Seq(Nat) /\ Len(versions) <= Len(versions') /\ model' \in BOOLEAN
      /\ \A v \in 1..Len(versions) : versions'[v] = versions[v]
  BY <1>1 DEF LifecycleInv, RegistryInv
<1>9. RunsKept
  BY <1>1, SameRuns DEF LifecycleInv
<1>10. Versioned(new)'
  <2>1. Promotes(new)
    BY <1>6, <1>7 DEF Promotes
  <2>2. Promotes(new)'
    BY <1>9, <2>1, PromotesKept DEF LifecycleInv
  <2> QED
    BY <1>1, <1>6, <1>7, <2>2 DEF Versioned
<1>11. /\ LifecycleType' /\ GateInv' /\ ReportInv' /\ PromoterInv' /\ promoter'[p] = new
       /\ \A o \in Promoters \ {p} : promoter'[o] = promoter[o]
  BY <1>1, <1>5, <1>7, <1>8, <1>10, OnePromotion
<1>12. RegistryInv'
  <2>1. /\ model = TRUE /\ \A o \in Outputs : receipts[o] = {}
        /\ \A o \in Promoters : Registering(o) => o = p
    BY <1>1, <1>2 DEF LifecycleInv, RegistryInv
  <2>2. \A o \in Promoters : Registering(o)' => o = p
    BY <1>11, <2>1 DEF Registering
  <2>4. \A v \in 1..Len(versions') : Registrable(versions[v])'
    BY <1>1, <1>9, RegistrableKept DEF LifecycleInv, RegistryInv
  <2>5. promoter'[p].pc = "aliased" /\ alias' = {promoter'[p].version} /\ alias' \subseteq 1..Len(versions')
    BY <1>1, <1>3, <1>6, <1>7, <1>11
  <2> QED
    BY <1>1, <1>8, <2>1, <2>2, <2>4, <2>5 DEF LifecycleInv, RegistryInv
<1> QED
  BY <1>11, <1>12 DEF LifecycleInv

(* The receipt says what the alias says. *)
LEMMA ReceiptKeeps ==
  ASSUME LifecycleInv, NEW p \in Promoters, WriteReceipt(p)
  PROVE  LifecycleInv'
<1>1. /\ UNCHANGED <<package, head, disturbed, runs, gate, reports, versions, alias, model>>
      /\ promoter[p].pc = "aliased"
      /\ receipts' = [receipts EXCEPT ![promoter[p].output] = {PromotionReceipt(p)}]
      /\ promoter' = [promoter EXCEPT ![p] = Idle]
  BY DEF WriteReceipt, mlflow, At
<1>2. Versioned(promoter[p]) /\ Registering(p)
  BY <1>1 DEF LifecycleInv, PromoterInv, Registering
<1>3. PICK new : new = Idle
  OBVIOUS
<1>4. new.pc = "idle"
  BY <1>3 DEF Idle
<1>5. versions' \in Seq(Nat) /\ Len(versions) <= Len(versions') /\ model' \in BOOLEAN
      /\ \A v \in 1..Len(versions) : versions'[v] = versions[v]
  BY <1>1 DEF LifecycleInv, RegistryInv
<1>6. /\ LifecycleType' /\ GateInv' /\ ReportInv' /\ PromoterInv' /\ promoter'[p] = new
      /\ \A o \in Promoters \ {p} : promoter'[o] = promoter[o]
  BY <1>1, <1>3, <1>4, <1>5, OnePromotion
<1>7. PICK receipt : receipt = PromotionReceipt(p)
  OBVIOUS
<1>8. /\ receipt.run = promoter[p].run /\ receipt.version = promoter[p].version
      /\ receipt.package = promoter[p].package /\ receipt.commit = promoter[p].commit
  BY <1>7 DEF PromotionReceipt
<1>9. /\ receipt.version \in 1..Len(versions) /\ alias = {receipt.version}
      /\ versions[receipt.version] = receipt.run
      /\ runs[receipt.run].tags.package = receipt.package
      /\ runs[receipt.run].tags.commit = receipt.commit
  BY <1>1, <1>2, <1>8 DEF LifecycleInv, RegistryInv, Versioned, Promotes
<1>10. /\ receipts' = [o \in Outputs |-> receipts'[o]]
       /\ \A o \in Outputs : receipts'[o] = {receipt} \/ receipts'[o] = receipts[o]
  BY <1>1, <1>7 DEF LifecycleInv, RegistryInv
<1>11. \A o \in Outputs : \A r \in receipts'[o] :
         /\ r.version \in 1..Len(versions') /\ alias' = {r.version}
         /\ versions'[r.version] = r.run
         /\ runs'[r.run].tags.package = r.package
         /\ runs'[r.run].tags.commit = r.commit
  <2> SUFFICES ASSUME NEW o \in Outputs, NEW r \in receipts'[o]
               PROVE  /\ r.version \in 1..Len(versions) /\ alias = {r.version}
                      /\ versions[r.version] = r.run
                      /\ runs[r.run].tags.package = r.package
                      /\ runs[r.run].tags.commit = r.commit
    BY <1>1
  <2>1. CASE r = receipt
    BY <1>9, <2>1
  <2>2. CASE r \in receipts[o]
    BY <2>2 DEF LifecycleInv, RegistryInv
  <2> QED
    BY <1>10, <2>1, <2>2
<1>12. \A o \in Promoters : ~Registering(o)'
  BY <1>2, <1>4, <1>6 DEF LifecycleInv, RegistryInv, Registering
<1>13. RunsKept
  BY <1>1, SameRuns DEF LifecycleInv
<1>14. \A v \in 1..Len(versions') : Registrable(versions[v])'
  BY <1>1, <1>13, RegistrableKept DEF LifecycleInv, RegistryInv
<1>15. model' = TRUE
  BY <1>1, <1>2 DEF LifecycleInv, RegistryInv
<1>16. RegistryInv'
  BY <1>1, <1>5, <1>10, <1>11, <1>12, <1>14, <1>15 DEF LifecycleInv, RegistryInv
<1> QED
  BY <1>6, <1>16 DEF LifecycleInv

(* Nothing is registered at the start. *)
LEMMA LifecycleInit == Init => LifecycleInv
<1> SUFFICES ASSUME Init PROVE LifecycleInv
  OBVIOUS
<1>1. gate = Idle /\ \A p \in Promoters : promoter[p].pc = "idle"
  BY DEF Init, Idle
<1>2. GateInv /\ PromoterInv
  BY <1>1 DEF Init, GateInv, PromoterInv
<1>3. ReportInv
  BY DEF Init, ReportInv
<1>4. LifecycleType
  <2>1. package = {} /\ head \in Commits /\ runs = << >> /\ disturbed = FALSE
    BY DEF Init
  <2>2. disturbed \in BOOLEAN
    BY <2>1, Zenon
  <2> QED
    BY <2>1, <2>2 DEF LifecycleType
<1>5. RegistryInv
  <2>1. Len(versions) = 0 /\ 1..0 = {} /\ versions \in Seq(Nat)
    BY DEF Init
  <2> QED
    BY <1>1, <2>1 DEF Init, RegistryInv, Registering
<1> QED
  BY <1>2, <1>3, <1>4, <1>5 DEF LifecycleInv

(* Every step keeps the invariant. *)
LEMMA LifecycleStep ==
  ASSUME LifecycleInv, [Next]_vars
  PROVE  LifecycleInv'
<1>1. ASSUME NEW p \in Promoters, Promotion(p) PROVE LifecycleInv'
  BY <1>1, PromoteBegins, CheckKeeps, RegisterKeeps, VersionKeeps, AliasKeeps, ReceiptKeeps, PromoteStops
     DEF Promotion
<1>2. ASSUME \/ create_app_from_env \/ LoadScorer \/ AppStops \/ readyz \/ score \/ LoadRegistered
             \/ UNCHANGED vars
      PROVE  LifecycleInv'
  <2>1. UNCHANGED <<package, head, disturbed, runs, gate, reports, versions, alias, model, receipts, promoter>>
    BY <1>2 DEF create_app_from_env, LoadScorer, AppStops, readyz, score, LoadRegistered, vars, files, mlflow
  <2>2. RunsKept
    BY <2>1, SameRuns DEF LifecycleInv
  <2> QED
    BY <2>1, <2>2, GateKept, ReportKept, PromoterKept, RegistryKept DEF LifecycleInv, LifecycleType
<1> QED
  BY <1>1, <1>2, OperatorKeeps, GateBegins, LookKeeps, ImportKeeps, LogKeeps, ReproduceKeeps, AttestKeeps
     DEF Next

(* Every receipt on disk names the version the champion alias names, and its   *)
(* run, package and commit, for any number of promotions, killed wherever.     *)
THEOREM ReceiptAlwaysNamesChampion == Spec => []ReceiptNamesChampion
<1>1. LifecycleInv => ReceiptNamesChampion
  BY DEF LifecycleInv, RegistryInv, ReceiptNamesChampion
<1>2. LifecycleInv /\ [Next]_vars => LifecycleInv'
  BY LifecycleStep
<1> QED
  BY LifecycleInit, <1>1, <1>2, PTL DEF Spec

(* What the API and the registry's users load: undisturbed, the package whose  *)
(* hash the API compared is still there when it is loaded.                     *)
AnswerInv ==
  /\ LoadedIsAttested
  /\ ~disturbed =>
       /\ scorer.pc = "hashed" => \A d \in package : d.manifest = scorer.anchor
       /\ ScorerAnchored

(* load_context: what is loaded is what the promoted run was tagged with.      *)
LEMMA LoadAnswers ==
  ASSUME LifecycleInv, AnswerInv, LoadRegistered
  PROVE  AnswerInv'
<1>1. UNCHANGED <<package, disturbed, scorer, runs, alias, versions>> /\ answer' = "loaded"
  BY DEF LoadRegistered, files, mlflow
<1>2. PICK v \in alias : load_context(versions[v])
  BY DEF LoadRegistered
<1>3. PICK d \in runs[versions[v]].model :
        d.manifest = runs[versions[v]].tags.package /\ d.intact /\ d.manifest \notin Research
  BY <1>2 DEF load_context, HasAnchor, Loads
<1>4. v \in 1..Len(versions)
  BY DEF LifecycleInv, RegistryInv
<1>5. PICK run : run = versions[v] /\ Confirmed(run)
  BY <1>4 DEF LifecycleInv, RegistryInv, Registrable
<1>6. PICK r \in 1..Len(runs) : runs[r].tags = [runs[run].tags EXCEPT !.state = "reproduction"]
  BY <1>5 DEF Confirmed, Attested, Confirms, Last
<1>7. runs[run].tags \in TagRecord /\ runs[run].model \in SUBSET PackageRecord
  <2>1. runs[run] \in RunRecord
    BY <1>5 DEF LifecycleInv, LifecycleType, Confirmed
  <2> QED
    BY <2>1 DEF RunRecord
<1>8. runs[r].tags.state = "reproduction" /\ runs[r].tags.package = runs[run].tags.package
  BY <1>6, <1>7 DEF TagRecord
<1>9. d.manifest \in Champions
  BY <1>3, <1>5, <1>7 DEF PackageRecord, Manifests
<1>10. LoadedIsAttested'
  BY <1>1, <1>3, <1>5, <1>8, <1>9 DEF LoadedIsAttested, Last
<1> QED
  BY <1>1, <1>10 DEF AnswerInv, ScorerAnchored

(* Loading the package into the API: the hash first, then the content. *)
LEMMA ScorerAnswers ==
  ASSUME LifecycleInv, AnswerInv, create_app_from_env \/ LoadScorer \/ AppStops
  PROVE  AnswerInv'
<1>1. UNCHANGED <<package, disturbed>> /\ answer' = "none"
  BY DEF create_app_from_env, LoadScorer, AppStops, files
<1>2. LoadedIsAttested'
  BY <1>1 DEF LoadedIsAttested
<1>3. CASE create_app_from_env
  <2>1. PICK p \in package : scorer' = [pc |-> "hashed", anchor |-> p.manifest]
    BY <1>3 DEF create_app_from_env, HasAnchor
  <2>2. \A d \in package : d = p
    BY DEF LifecycleInv, LifecycleType
  <2>3. scorer'.pc = "hashed" /\ scorer'.anchor = p.manifest
    BY <2>1
  <2> QED
    BY <1>1, <1>2, <2>2, <2>3 DEF AnswerInv, ScorerAnchored
<1>4. CASE LoadScorer
  <2>1. PICK p \in package : scorer' = [pc |-> "loaded", anchor |-> scorer.anchor, manifest |-> p.manifest]
    BY <1>4 DEF LoadScorer
  <2>2. scorer'.pc = "loaded" /\ scorer'.anchor = scorer.anchor /\ scorer'.manifest = p.manifest
    BY <2>1
  <2>3. ~disturbed => p.manifest = scorer.anchor
    BY <1>4 DEF LoadScorer, AnswerInv
  <2> QED
    BY <1>1, <1>2, <2>2, <2>3 DEF AnswerInv, ScorerAnchored
<1>5. CASE AppStops
  <2>1. scorer'.pc = "idle"
    BY <1>5 DEF AppStops, Idle
  <2> QED
    BY <1>2, <2>1 DEF AnswerInv, ScorerAnchored
<1> QED
  BY <1>3, <1>4, <1>5

(* The operator: a change of a package that is being loaded is remembered. *)
LEMMA OperatorAnswers ==
  ASSUME AnswerInv, LifecycleInv, NEW m, ReplacePackage(m) \/ DamagePackage
  PROVE  AnswerInv'
<1>1. answer' = "none" /\ UNCHANGED scorer /\ disturbed' = (disturbed \/ Reading)
  BY DEF ReplacePackage, DamagePackage
<1>2. (disturbed => disturbed') /\ (Reading => disturbed')
  BY <1>1, Zenon
<1>3. scorer.pc = "hashed" => Reading
  BY DEF Reading
<1> QED
  BY <1>1, <1>2, <1>3 DEF AnswerInv, LoadedIsAttested, ScorerAnchored

(* Every step keeps the answers true. *)
LEMMA AnswerStep ==
  ASSUME LifecycleInv, AnswerInv, [Next]_vars
  PROVE  AnswerInv'
<1>1. ASSUME answer' # "loaded", UNCHANGED <<package, disturbed, scorer>> PROVE AnswerInv'
  BY <1>1 DEF AnswerInv, LoadedIsAttested, ScorerAnchored
<1>2. CASE Commit
  BY <1>1, <1>2 DEF Commit
<1>3. ASSUME NEW policy \in Policies \cup {Placeholder}, RunGate(policy) PROVE AnswerInv'
  BY <1>1, <1>3 DEF RunGate, files
<1>4. CASE ReadGolden \/ HashCandidate \/ ReadContent \/ HashReproduced \/ CheckAnchor
  BY <1>1, <1>4 DEF ReadGolden, HashCandidate, ReadContent, HashReproduced, CheckAnchor, Look, files
<1>5. CASE import_candidate \/ log_model \/ reproduce_candidate \/ Attest \/ GateStops
  BY <1>1, <1>5 DEF import_candidate, log_model, reproduce_candidate, Attest, GateStops, files
<1>6. ASSUME NEW p \in Promoters, Promotion(p) PROVE AnswerInv'
  <2>1. UNCHANGED <<package, disturbed, scorer>> /\ answer' = "none"
    BY <1>6 DEF Promotion, promote_candidate, CheckManifest, create_registered_model,
                create_model_version, set_registered_model_alias, WriteReceipt, PromoterStops, files
  <2> QED
    BY <1>1, <2>1
<1>7. CASE readyz \/ score
  BY <1>1, <1>7 DEF readyz, score, files
<1>8. CASE UNCHANGED vars
  BY <1>8 DEF vars, AnswerInv, LoadedIsAttested, ScorerAnchored, Last
<1> QED
  BY <1>2, <1>3, <1>4, <1>5, <1>6, <1>7, <1>8, OperatorAnswers, ScorerAnswers, LoadAnswers DEF Next

(* What is promoted has a reproduction run of the same identities, and what    *)
(* loads through the champion alias is an intact champion with one, for any    *)
(* packages, commits, gate calls and promotions.  As long as no package is     *)
(* changed under a call that is reading it, what is promoted is a feasible     *)
(* champion whose calibration came out the same again, and the API serves what *)
(* its anchor names.                                                           *)
THEOREM ServedAlwaysReproduced == Spec => []ServedIsReproduced
<1>1. Init => AnswerInv
  BY DEF Init, AnswerInv, LoadedIsAttested, ScorerAnchored, Idle
<1>2. LifecycleInv /\ AnswerInv /\ [Next]_vars => LifecycleInv' /\ AnswerInv'
  BY LifecycleStep, AnswerStep
<1>3. LifecycleInv /\ AnswerInv => ServedIsReproduced
  <2> SUFFICES ASSUME LifecycleInv, AnswerInv PROVE ServedIsReproduced
    OBVIOUS
  <2>1. \A v \in alias : Registrable(versions[v])
    BY DEF LifecycleInv, RegistryInv
  <2>2. ChampionAttested
    BY <2>1 DEF ChampionAttested, Registrable, Confirmed
  <2>3. ~disturbed => ChampionReproduced
    BY <2>1 DEF ChampionReproduced, Registrable, Confirmed
  <2> QED
    BY <2>2, <2>3 DEF AnswerInv, ServedIsReproduced
<1> QED
  BY LifecycleInit, <1>1, <1>2, <1>3, PTL DEF Spec

(* --------------------------- the package builders --------------------------- *)

Contents == Package!Runs \cup {""}
FileMap == [Package!Artifacts -> Contents]
PackManifest == [run : Contents, hashes : FileMap]
Directory == [files : FileMap, manifest : PackManifest]
BuilderRecord ==
  [pc : {"idle", "verified", "copying", "hashed", "written", "anchored", "done"},
   run : Contents, temp : Package!Names \cup {Package!NoTemp}, copied : 0..Len(Package!Order),
   hashes : FileMap, anchor : PackManifest]

PackType ==
  /\ clock \in 1..MaxTime
  /\ temps \in [Package!Names -> SUBSET Directory]
  /\ output \in SUBSET Directory
  /\ builder \in [Package!Builders -> BuilderRecord]

(* A builder at work in a directory, and one no other builder is at work in. *)
InDir(b) == builder[b].pc \in {"copying", "hashed", "written", "anchored"}
Apart(b, name) == \A a \in Package!Builders \ {b} : InDir(a) => builder[a].temp # name

(* A directory that holds the artifacts of one run, and one whose manifest     *)
(* says so.                                                                    *)
Copied(d, run, k) == \A i \in 1..k : d.files[Package!Order[i]] = run
Whole(files_, run) == \A a \in Package!Artifacts : files_[a] = run
Sealed(d, run) == Whole(d.files, run) /\ d.manifest.run = run /\ Whole(d.manifest.hashes, run)

(* What a builder has made so far of its own directory. *)
BuilderOK(b) ==
  LET x == builder[b]
  IN  /\ x.pc # "idle" => x.run \in Package!Runs
      /\ x.pc \in {"idle", "verified"} => x.copied = 0 /\ x.temp = Package!NoTemp
      /\ x.pc \in {"copying", "hashed", "written", "anchored"} =>
           /\ x.temp \in Package!Names
           /\ \A d \in temps[x.temp] :
                /\ Copied(d, x.run, x.copied)
                /\ x.pc # "copying" => Whole(d.files, x.run)
                /\ x.pc \in {"written", "anchored"} => Sealed(d, x.run)
                /\ x.pc = "anchored" => d.manifest = x.anchor
      /\ x.pc = "hashed" => Whole(x.hashes, x.run)
      /\ x.pc = "done" => output # {} /\ \A d \in output : d.manifest = x.anchor

PackInv ==
  /\ PackType
  /\ \A b \in Package!Builders : BuilderOK(b) /\ (InDir(b) => Apart(b, builder[b].temp))
  /\ \A d \in output : d.manifest.run \in Package!Runs /\ Sealed(d, d.manifest.run)

(* A builder moves: it writes to no directory, or only to one that no other    *)
(* builder is at work in, and that is its own from then on.                    *)
Moves(b) ==
  \/ temps' = temps /\ ~InDir(b)'
  \/ \E name \in Package!Names :
       /\ Apart(b, name)
       /\ \A n \in Package!Names \ {name} : temps'[n] = temps[n]
       /\ InDir(b)' => builder'[b].temp = name

(* It disturbs no other. *)
LEMMA OthersUndisturbed ==
  ASSUME PackInv, NEW b \in Package!Builders,
         \A a \in Package!Builders \ {b} : builder'[a] = builder[a],
         Moves(b),
         output' = output \/ output = {},
         NEW a \in Package!Builders \ {b}
  PROVE  BuilderOK(a)'
<1>1. BuilderOK(a) /\ builder'[a] = builder[a]
  BY DEF PackInv
<1>2. InDir(a) => temps'[builder[a].temp] = temps[builder[a].temp]
  BY <1>1 DEF Moves, Apart, BuilderOK, InDir
<1>3. builder[a].pc = "done" => output' = output
  BY <1>1 DEF BuilderOK
<1> QED
  BY <1>1, <1>2, <1>3 DEF BuilderOK, Copied, Whole, Sealed, InDir

(* Nobody is where it is. *)
LEMMA StillApart ==
  ASSUME PackInv, NEW b \in Package!Builders,
         \A a \in Package!Builders \ {b} : builder'[a] = builder[a], Moves(b),
         NEW c \in Package!Builders, InDir(c)'
  PROVE  Apart(c, builder[c].temp)'
<1>1. \A a \in Package!Builders \ {b} : (InDir(a)' <=> InDir(a)) /\ builder'[a].temp = builder[a].temp
  BY DEF InDir
<1>2. \A a, d \in Package!Builders : InDir(a) /\ InDir(d) /\ a # d => builder[a].temp # builder[d].temp
  BY DEF PackInv, Apart
<1>3. \A a \in Package!Builders \ {b} : InDir(a) /\ InDir(b)' => builder'[b].temp # builder[a].temp
  BY DEF Moves, Apart
<1>4. \A a \in Package!Builders \ {c} : InDir(a)' => builder'[a].temp # builder'[c].temp
  BY <1>1, <1>2, <1>3
<1> QED
  BY <1>4 DEF Apart

(* What the idle builder is. *)
LEMMA IdleBuilder ==
  /\ Package!Idle \in BuilderRecord
  /\ Package!Idle.pc = "idle" /\ Package!Idle.copied = 0 /\ Package!Idle.temp = Package!NoTemp
  /\ Package!EmptyDir \in Directory
<1>1. Len(Package!Order) = 4
  BY DEF Package!Order
<1>2. "" \in Contents /\ Package!NoFile.hashes \in FileMap /\ Package!NoFile \in PackManifest
  BY DEF Contents, FileMap, PackManifest, Package!NoFile
<1>3. Package!Idle \in BuilderRecord
  <2> DEFINE hashes == Package!NoFile.hashes
  <2>1. Package!Idle = [pc |-> "idle", run |-> "", temp |-> Package!NoTemp, copied |-> 0,
                     hashes |-> hashes, anchor |-> Package!NoFile]
    BY DEF Package!Idle
  <2>2. 0 \in 0..Len(Package!Order) /\ Package!NoTemp \in Package!Names \cup {Package!NoTemp}
    BY <1>1
  <2>3. hashes \in FileMap
    BY <1>2
  <2> HIDE DEF hashes
  <2> QED
    BY <1>2, <2>1, <2>2, <2>3 DEF BuilderRecord
<1>4. Package!Idle.pc = "idle" /\ Package!Idle.copied = 0 /\ Package!Idle.temp = Package!NoTemp
  BY DEF Package!Idle
<1>5. Package!EmptyDir \in Directory
  BY <1>2 DEF Package!EmptyDir, Directory, FileMap
<1> QED
  BY <1>3, <1>4, <1>5

(* One builder moves: it is left to look at that one. *)
LEMMA OneBuilder ==
  ASSUME PackInv, NEW b \in Package!Builders,
         builder' \in [Package!Builders -> BuilderRecord],
         \A a \in Package!Builders \ {b} : builder'[a] = builder[a],
         temps' \in [Package!Names -> SUBSET Directory],
         Moves(b), output' = output, UNCHANGED clock,
         BuilderOK(b)'
  PROVE  PackInv'
<1>1. PackType'
  BY DEF PackInv, PackType
<1>2. \A a \in Package!Builders : BuilderOK(a)' /\ (InDir(a)' => Apart(a, builder[a].temp)')
  BY OthersUndisturbed, StillApart
<1> QED
  BY <1>1, <1>2 DEF PackInv, Sealed, Whole

(* A builder gives up, with or without its directory. *)
LEMMA BuilderGivesUp ==
  ASSUME PackInv, NEW b \in Package!Builders, Package!Fail(b) \/ Package!Kill(b)
  PROVE  PackInv'
<1>1. /\ builder' = [builder EXCEPT ![b] = Package!Idle] /\ UNCHANGED <<clock, output>>
      /\ \/ temps' = temps
         \/ temps' = [temps EXCEPT ![builder[b].temp] = {}] /\ builder[b].temp # Package!NoTemp
      /\ Package!Busy(b)
  BY DEF Package!Fail, Package!Kill
<1>2. builder[b] \in BuilderRecord /\ BuilderOK(b)
  BY DEF PackInv, PackType
<1>3. builder[b].temp # Package!NoTemp =>
        builder[b].temp \in Package!Names /\ Apart(b, builder[b].temp)
  BY <1>1, <1>2 DEF BuilderOK, BuilderRecord, Package!Busy, InDir, PackInv
<1>4. temps' \in [Package!Names -> SUBSET Directory]
  BY <1>1, <1>3 DEF PackInv, PackType
<1>5. /\ builder' \in [Package!Builders -> BuilderRecord] /\ builder'[b] = Package!Idle
      /\ \A a \in Package!Builders \ {b} : builder'[a] = builder[a]
  BY <1>1, IdleBuilder DEF PackInv, PackType
<1>6. BuilderOK(b)' /\ ~InDir(b)'
  BY <1>5, IdleBuilder DEF BuilderOK, InDir
<1>7. Moves(b)
  <2>1. CASE temps' = temps
    BY <1>6, <2>1 DEF Moves
  <2>2. CASE temps' = [temps EXCEPT ![builder[b].temp] = {}] /\ builder[b].temp # Package!NoTemp
    <3>1. \A n \in Package!Names \ {builder[b].temp} : temps'[n] = temps[n]
      BY <2>2 DEF PackInv, PackType
    <3> QED
      BY <1>3, <1>6, <2>2, <3>1 DEF Moves
  <2> QED
    BY <1>1, <2>1, <2>2
<1> QED
  BY <1>1, <1>4, <1>5, <1>6, <1>7, OneBuilder

(* A builder takes a run. *)
LEMMA BuilderBegins ==
  ASSUME PackInv, NEW b \in Package!Builders, Package!Begin(b)
  PROVE  PackInv'
<1>1. PICK run \in Package!Accepts(b) :
        builder' = [builder EXCEPT ![b].pc = "verified", ![b].run = run]
  BY DEF Package!Begin
<1>2. builder[b].pc = "idle" /\ UNCHANGED <<clock, temps, output>>
  BY DEF Package!Begin
<1>3. builder \in [Package!Builders -> BuilderRecord] /\ builder[b] \in BuilderRecord /\ BuilderOK(b)
  BY DEF PackInv, PackType
<1>4. run \in Package!Runs
  BY DEF Package!Accepts, Package!Runs
<1>5. builder' \in [Package!Builders -> BuilderRecord]
  BY <1>1, <1>3, <1>4 DEF BuilderRecord, Contents
<1>6. \A a \in Package!Builders \ {b} : builder'[a] = builder[a]
  BY <1>1, <1>3
<1>7. /\ builder'[b].pc = "verified" /\ builder'[b].run = run
      /\ builder'[b].copied = builder[b].copied /\ builder'[b].temp = builder[b].temp
  BY <1>1, <1>3 DEF BuilderRecord
<1>8. BuilderOK(b)' /\ ~InDir(b)'
  BY <1>2, <1>3, <1>4, <1>7 DEF BuilderOK, InDir
<1>9. temps' \in [Package!Names -> SUBSET Directory]
  BY <1>2 DEF PackInv, PackType
<1>10. Moves(b)
  BY <1>2, <1>8 DEF Moves
<1> QED
  BY <1>2, <1>5, <1>6, <1>8, <1>9, <1>10, OneBuilder

(* A builder makes its directory, or takes the one it finds; unless it shares  *)
(* it, nobody is at work there.                                                *)
LEMMA BuilderMakes ==
  ASSUME PackInv, NEW b \in Package!Builders, Package!MakeTemp(b), ~shared'
  PROVE  PackInv'
<1>1. PICK name : name = Package!TempName(b)
  OBVIOUS
<1>2. /\ builder[b].pc = "verified" /\ UNCHANGED <<clock, output>>
      /\ \/ /\ temps' = [temps EXCEPT ![name] = {Package!EmptyDir}]
            /\ builder' = [builder EXCEPT ![b].pc = "copying", ![b].temp = name]
         \/ /\ temps' = temps
            /\ builder' = [builder EXCEPT ![b] = [builder[b] EXCEPT !.pc = "copying", !.temp = name]]
         \/ /\ temps' = temps
            /\ builder' = [builder EXCEPT ![b] = Package!Idle]
  BY <1>1 DEF Package!MakeTemp
<1>3. builder \in [Package!Builders -> BuilderRecord] /\ builder[b] \in BuilderRecord /\ BuilderOK(b)
  BY DEF PackInv, PackType
<1>4. name \in Package!Names
  BY <1>1 DEF Package!TempName, Package!Names, PackInv, PackType
<1>11. Apart(b, name)
  <2>1. shared' = (shared \/ \E o \in Package!Builders \ {b} : Package!Busy(o) /\ builder[o].temp = name)
    BY <1>1 DEF Package!MakeTemp
  <2>2. ~ \E o \in Package!Builders \ {b} : Package!Busy(o) /\ builder[o].temp = name
    BY <2>1, Zenon
  <2> QED
    BY <2>2 DEF Apart, InDir, Package!Busy
<1>5. temps' \in [Package!Names -> SUBSET Directory]
  BY <1>2, <1>4, IdleBuilder DEF PackInv, PackType
<1>6. \A n \in Package!Names \ {name} : temps'[n] = temps[n]
  BY <1>2, <1>4 DEF PackInv, PackType
<1>7. builder' \in [Package!Builders -> BuilderRecord]
  <2>1. CASE builder' = [builder EXCEPT ![b] = Package!Idle]
    BY <1>3, <2>1, IdleBuilder
  <2>2. CASE builder' = [builder EXCEPT ![b].pc = "copying", ![b].temp = name]
    BY <1>3, <1>4, <2>2 DEF BuilderRecord
  <2>3. CASE builder' = [builder EXCEPT ![b] = [builder[b] EXCEPT !.pc = "copying", !.temp = name]]
    BY <1>3, <1>4, <2>3 DEF BuilderRecord
  <2> QED
    BY <1>2, <2>1, <2>2, <2>3
<1>8. \A a \in Package!Builders \ {b} : builder'[a] = builder[a]
  BY <1>2, <1>3
<1>9. \/ builder'[b] = Package!Idle
      \/ /\ builder'[b].pc = "copying" /\ builder'[b].temp = name
         /\ builder'[b].copied = builder[b].copied /\ builder'[b].run = builder[b].run
  <2>1. builder'[b] = Package!Idle \/ builder'[b] = [builder[b] EXCEPT !.pc = "copying", !.temp = name]
    BY <1>2, <1>3
  <2> QED
    BY <1>3, <2>1 DEF BuilderRecord
<1>10. BuilderOK(b)'
  <2>1. CASE builder'[b] = Package!Idle
    BY <2>1, IdleBuilder DEF BuilderOK
  <2>2. CASE /\ builder'[b].pc = "copying" /\ builder'[b].temp = name
             /\ builder'[b].copied = builder[b].copied /\ builder'[b].run = builder[b].run
    <3>1. builder'[b].copied = 0 /\ builder'[b].run \in Package!Runs
      BY <1>2, <1>3, <2>2 DEF BuilderOK
    <3>2. \A d : Copied(d, builder[b].run, builder[b].copied)'
      BY <3>1 DEF Copied
    <3> QED
      BY <1>4, <2>2, <3>1, <3>2 DEF BuilderOK
  <2> QED
    BY <1>9, <2>1, <2>2
<1>12. Moves(b)
  <2>1. InDir(b)' => builder'[b].temp = name
    BY <1>9, IdleBuilder DEF InDir
  <2> QED
    BY <1>4, <1>6, <1>11, <2>1 DEF Moves
<1> QED
  BY <1>2, <1>5, <1>7, <1>8, <1>10, <1>12, OneBuilder

(* A builder at work: what it knows of its directory. *)
LEMMA AtWork ==
  ASSUME PackInv, NEW b \in Package!Builders,
         builder[b].pc \in {"copying", "hashed", "written", "anchored"}
  PROVE  /\ builder \in [Package!Builders -> BuilderRecord] /\ builder[b] \in BuilderRecord
         /\ BuilderOK(b) /\ builder[b].run \in Package!Runs /\ builder[b].run \in Contents
         /\ builder[b].temp \in Package!Names /\ Apart(b, builder[b].temp)
         /\ temps \in [Package!Names -> SUBSET Directory]
         /\ \A d \in Package!Dir(b) : d \in Directory
<1>1. builder \in [Package!Builders -> BuilderRecord] /\ builder[b] \in BuilderRecord
      /\ BuilderOK(b) /\ temps \in [Package!Names -> SUBSET Directory]
  BY DEF PackInv, PackType
<1>2. builder[b].run \in Package!Runs /\ builder[b].temp \in Package!Names
  BY <1>1 DEF BuilderOK
<1>3. Apart(b, builder[b].temp)
  BY DEF PackInv, InDir
<1> QED
  BY <1>1, <1>2, <1>3 DEF Contents, Package!Dir

(* It stays in its directory. *)
LEMMA InPlace ==
  ASSUME PackInv, NEW b \in Package!Builders,
         builder[b].pc \in {"copying", "hashed", "written", "anchored"},
         \A n \in Package!Names \ {builder[b].temp} : temps'[n] = temps[n],
         InDir(b)' => builder'[b].temp = builder[b].temp
  PROVE  Moves(b)
  BY AtWork DEF Moves

(* Its directory is written anew. *)
LEMMA OneDirectory ==
  ASSUME PackInv, NEW b \in Package!Builders,
         builder[b].pc \in {"copying", "hashed", "written", "anchored"},
         NEW e \in Directory, temps' = [temps EXCEPT ![builder[b].temp] = {e}]
  PROVE  /\ temps' \in [Package!Names -> SUBSET Directory]
         /\ temps'[builder[b].temp] = {e}
         /\ \A n \in Package!Names \ {builder[b].temp} : temps'[n] = temps[n]
  BY AtWork

(* One more artifact is copied. *)
LEMMA BuilderCopies ==
  ASSUME PackInv, NEW b \in Package!Builders, Package!CopyArtifact(b)
  PROVE  PackInv'
<1>1. PICK k : k = builder[b].copied + 1
  OBVIOUS
<1>2. /\ builder[b].pc = "copying" /\ k <= Len(Package!Order) /\ UNCHANGED <<clock, output>>
      /\ builder' = [builder EXCEPT ![b].copied = k]
  BY <1>1 DEF Package!CopyArtifact
<1>3. PICK d \in Package!Dir(b) : temps' = [temps EXCEPT ![builder[b].temp] =
        {[d EXCEPT !.files[Package!Order[k]] = builder[b].run]}]
  BY <1>1 DEF Package!CopyArtifact
<1>4. /\ builder \in [Package!Builders -> BuilderRecord] /\ builder[b] \in BuilderRecord
      /\ BuilderOK(b) /\ builder[b].run \in Package!Runs /\ builder[b].run \in Contents
      /\ builder[b].temp \in Package!Names /\ d \in Directory
  BY <1>2, AtWork
<1>5. /\ builder[b].copied \in 0..Len(Package!Order) /\ Len(Package!Order) \in Nat
      /\ k \in 1..Len(Package!Order)
  <2>1. Len(Package!Order) \in Nat
    BY DEF Package!Order
  <2>2. builder[b].copied \in 0..Len(Package!Order)
    BY <1>4 DEF BuilderRecord
  <2> QED
    BY <1>1, <1>2, <2>1, <2>2
<1>6. PICK run : run = builder[b].run
  OBVIOUS
<1>7. PICK new : new = [d.files EXCEPT ![Package!Order[k]] = run]
  OBVIOUS
<1>8. \A i \in 1..Len(Package!Order) : Package!Order[i] \in Package!Artifacts
  BY DEF Package!Artifacts
<1>9. /\ new \in FileMap
      /\ \A i \in 1..Len(Package!Order) :
           new[Package!Order[i]] = run \/ (i # k /\ new[Package!Order[i]] = d.files[Package!Order[i]])
  <2>1. d.files \in [Package!Artifacts -> Contents]
    BY <1>4 DEF Directory, FileMap
  <2> QED
    BY <1>4, <1>5, <1>6, <1>7, <1>8, <2>1 DEF FileMap
<1>10. PICK e : e = [d EXCEPT !.files[Package!Order[k]] = builder[b].run]
  OBVIOUS
<1>11. e \in Directory /\ e.files = new
  <2>1. e = [d EXCEPT !.files = new]
    BY <1>4, <1>6, <1>7, <1>10 DEF Directory
  <2> QED
    BY <1>4, <1>9, <2>1 DEF Directory
<1>12. /\ temps' \in [Package!Names -> SUBSET Directory]
       /\ temps'[builder[b].temp] = {e}
       /\ \A n \in Package!Names \ {builder[b].temp} : temps'[n] = temps[n]
  BY <1>2, <1>3, <1>10, <1>11, OneDirectory
<1>13. builder' \in [Package!Builders -> BuilderRecord]
  BY <1>2, <1>4, <1>5 DEF BuilderRecord
<1>14. \A a \in Package!Builders \ {b} : builder'[a] = builder[a]
  BY <1>2, <1>4
<1>15. /\ builder'[b].pc = "copying" /\ builder'[b].run = run /\ builder'[b].copied = k
       /\ builder'[b].temp = builder[b].temp
  BY <1>2, <1>4, <1>6 DEF BuilderRecord
<1>16. Copied(e, run, k)
  <2>1. Copied(d, run, builder[b].copied)
    BY <1>2, <1>4, <1>6 DEF BuilderOK, Package!Dir
  <2>2. \A i \in 1..k : i \in 1..Len(Package!Order) /\ (i # k => i \in 1..builder[b].copied)
    BY <1>1, <1>5
  <2> QED
    BY <1>9, <1>11, <2>1, <2>2 DEF Copied
<1>17. BuilderOK(b)'
  BY <1>4, <1>6, <1>12, <1>15, <1>16 DEF BuilderOK, Copied
<1>18. Moves(b)
  BY <1>2, <1>12, <1>15, InPlace
<1> QED
  BY <1>2, <1>12, <1>13, <1>14, <1>17, <1>18, OneBuilder

(* The artifacts are all there and hashed. *)
LEMMA BuilderHashes ==
  ASSUME PackInv, NEW b \in Package!Builders, Package!HashArtifacts(b)
  PROVE  PackInv'
<1>1. /\ builder[b].pc = "copying" /\ builder[b].copied = Len(Package!Order)
      /\ UNCHANGED <<clock, temps, output>>
  BY DEF Package!HashArtifacts
<1>2. PICK d \in Package!Dir(b) :
        builder' = [builder EXCEPT ![b].pc = "hashed", ![b].hashes = d.files]
  BY DEF Package!HashArtifacts
<1>3. /\ builder \in [Package!Builders -> BuilderRecord] /\ builder[b] \in BuilderRecord
      /\ BuilderOK(b) /\ builder[b].run \in Package!Runs
      /\ builder[b].temp \in Package!Names /\ d \in Directory
      /\ temps \in [Package!Names -> SUBSET Directory]
  BY <1>1, AtWork
<1>4. d.files \in FileMap
  BY <1>3 DEF Directory
<1>5. builder' \in [Package!Builders -> BuilderRecord]
  BY <1>2, <1>3, <1>4 DEF BuilderRecord
<1>6. \A a \in Package!Builders \ {b} : builder'[a] = builder[a]
  BY <1>2, <1>3
<1>7. /\ builder'[b].pc = "hashed" /\ builder'[b].run = builder[b].run
      /\ builder'[b].copied = builder[b].copied /\ builder'[b].temp = builder[b].temp
      /\ builder'[b].hashes = d.files
  BY <1>2, <1>3 DEF BuilderRecord
<1>8. \A e \in temps[builder[b].temp] : Copied(e, builder[b].run, Len(Package!Order))
  BY <1>1, <1>3 DEF BuilderOK
<1>9. \A e \in temps[builder[b].temp] : Whole(e.files, builder[b].run)
  BY <1>8 DEF Copied, Whole, Package!Artifacts
<1>10. BuilderOK(b)'
  BY <1>1, <1>3, <1>7, <1>8, <1>9 DEF BuilderOK, Copied, Whole, Package!Dir
<1>11. Moves(b)
  BY <1>1, <1>7, InPlace
<1> QED
  BY <1>1, <1>3, <1>5, <1>6, <1>10, <1>11, OneBuilder

(* The manifest is written. *)
LEMMA BuilderSeals ==
  ASSUME PackInv, NEW b \in Package!Builders, Package!WriteManifest(b)
  PROVE  PackInv'
<1>1. /\ builder[b].pc = "hashed" /\ UNCHANGED <<clock, output>>
      /\ builder' = [builder EXCEPT ![b].pc = "written"]
  BY DEF Package!WriteManifest, Package!To
<1>2. PICK m : m = [run |-> builder[b].run, hashes |-> builder[b].hashes]
  OBVIOUS
<1>3. PICK d \in Package!Dir(b) : temps' = [temps EXCEPT ![builder[b].temp] = {[d EXCEPT !.manifest = m]}]
  BY <1>2 DEF Package!WriteManifest
<1>4. /\ builder \in [Package!Builders -> BuilderRecord] /\ builder[b] \in BuilderRecord
      /\ BuilderOK(b) /\ builder[b].run \in Package!Runs /\ builder[b].run \in Contents
      /\ builder[b].temp \in Package!Names /\ d \in Directory
  BY <1>1, AtWork
<1>5. m \in PackManifest /\ m.run = builder[b].run /\ m.hashes = builder[b].hashes
  BY <1>2, <1>4 DEF PackManifest, BuilderRecord
<1>6. PICK e : e = [d EXCEPT !.manifest = m]
  OBVIOUS
<1>7. e \in Directory /\ e.manifest = m /\ e.files = d.files
  BY <1>4, <1>5, <1>6 DEF Directory
<1>8. /\ temps' \in [Package!Names -> SUBSET Directory]
      /\ temps'[builder[b].temp] = {e}
      /\ \A n \in Package!Names \ {builder[b].temp} : temps'[n] = temps[n]
  BY <1>1, <1>3, <1>6, <1>7, OneDirectory
<1>9. /\ builder' \in [Package!Builders -> BuilderRecord]
      /\ \A a \in Package!Builders \ {b} : builder'[a] = builder[a]
  BY <1>1, <1>4 DEF BuilderRecord
<1>10. /\ builder'[b].pc = "written" /\ builder'[b].run = builder[b].run
       /\ builder'[b].copied = builder[b].copied /\ builder'[b].temp = builder[b].temp
  BY <1>1, <1>4 DEF BuilderRecord
<1>11. /\ Copied(d, builder[b].run, builder[b].copied) /\ Whole(d.files, builder[b].run)
       /\ Whole(builder[b].hashes, builder[b].run)
  BY <1>1, <1>4 DEF BuilderOK, Package!Dir
<1>12. /\ Copied(e, builder[b].run, builder[b].copied) /\ Whole(e.files, builder[b].run)
       /\ Sealed(e, builder[b].run)
  BY <1>5, <1>7, <1>11 DEF Copied, Sealed
<1>13. BuilderOK(b)'
  BY <1>4, <1>8, <1>10, <1>12 DEF BuilderOK, Copied, Whole, Sealed
<1>14. Moves(b)
  BY <1>1, <1>8, <1>10, InPlace
<1> QED
  BY <1>1, <1>8, <1>9, <1>13, <1>14, OneBuilder

(* The anchor is the manifest that is there. *)
LEMMA BuilderAnchors ==
  ASSUME PackInv, NEW b \in Package!Builders, Package!HashManifest(b)
  PROVE  PackInv'
<1>1. builder[b].pc = "written" /\ UNCHANGED <<clock, temps, output>>
  BY DEF Package!HashManifest
<1>2. PICK d \in Package!Dir(b) :
        builder' = [builder EXCEPT ![b].pc = "anchored", ![b].anchor = d.manifest]
  BY DEF Package!HashManifest
<1>3. /\ builder \in [Package!Builders -> BuilderRecord] /\ builder[b] \in BuilderRecord
      /\ BuilderOK(b) /\ builder[b].run \in Package!Runs
      /\ builder[b].temp \in Package!Names /\ d \in Directory
      /\ temps \in [Package!Names -> SUBSET Directory]
      /\ \A e \in Package!Dir(b) : e \in Directory
  BY <1>1, AtWork
<1>4. d.manifest \in PackManifest
  BY <1>3 DEF Directory
<1>5. builder' \in [Package!Builders -> BuilderRecord]
  BY <1>2, <1>3, <1>4 DEF BuilderRecord
<1>6. \A a \in Package!Builders \ {b} : builder'[a] = builder[a]
  BY <1>2, <1>3
<1>7. /\ builder'[b].pc = "anchored" /\ builder'[b].run = builder[b].run
      /\ builder'[b].copied = builder[b].copied /\ builder'[b].temp = builder[b].temp
      /\ builder'[b].anchor = d.manifest
  BY <1>2, <1>3 DEF BuilderRecord
<1>8. \A e \in Package!Dir(b) : Sealed(e, builder[b].run)
  BY <1>1, <1>3 DEF BuilderOK, Package!Dir
<1>9. \A e \in Package!Dir(b) : e.manifest = d.manifest
  <2> SUFFICES ASSUME NEW e \in Package!Dir(b) PROVE e.manifest = d.manifest
    OBVIOUS
  <2>1. e.manifest \in PackManifest /\ d.manifest \in PackManifest
    BY <1>3 DEF Directory
  <2>2. e.manifest.run = d.manifest.run
    BY <1>8 DEF Sealed
  <2>3. e.manifest.hashes = d.manifest.hashes
    <3>1. e.manifest.hashes \in FileMap /\ d.manifest.hashes \in FileMap
      BY <2>1 DEF PackManifest
    <3>2. \A a \in Package!Artifacts : e.manifest.hashes[a] = d.manifest.hashes[a]
      BY <1>8 DEF Sealed, Whole
    <3> QED
      BY <3>1, <3>2 DEF FileMap
  <2> QED
    BY <2>1, <2>2, <2>3 DEF PackManifest
<1>10. BuilderOK(b)'
  BY <1>1, <1>3, <1>7, <1>9 DEF BuilderOK, Copied, Whole, Sealed, Package!Dir
<1>11. Moves(b)
  BY <1>1, <1>7, InPlace
<1> QED
  BY <1>1, <1>3, <1>5, <1>6, <1>10, <1>11, OneBuilder

(* The directory becomes the package. *)
LEMMA BuilderPublishes ==
  ASSUME PackInv, NEW b \in Package!Builders, Package!Rename(b)
  PROVE  PackInv'
<1>1. /\ builder[b].pc = "anchored" /\ Package!Dir(b) # {} /\ output = {} /\ output' = Package!Dir(b)
      /\ temps' = [temps EXCEPT ![builder[b].temp] = {}]
      /\ builder' = [builder EXCEPT ![b].pc = "done"] /\ UNCHANGED clock
  BY DEF Package!Rename, Package!To
<1>2. /\ builder \in [Package!Builders -> BuilderRecord] /\ builder[b] \in BuilderRecord
      /\ BuilderOK(b) /\ builder[b].run \in Package!Runs
      /\ builder[b].temp \in Package!Names
      /\ temps \in [Package!Names -> SUBSET Directory]
      /\ \A d \in Package!Dir(b) : d \in Directory
  BY <1>1, AtWork
<1>3. /\ builder' \in [Package!Builders -> BuilderRecord]
      /\ \A a \in Package!Builders \ {b} : builder'[a] = builder[a]
  BY <1>1, <1>2 DEF BuilderRecord
<1>4. /\ builder'[b].pc = "done" /\ builder'[b].run = builder[b].run
      /\ builder'[b].anchor = builder[b].anchor
  BY <1>1, <1>2 DEF BuilderRecord
<1>5. /\ temps' \in [Package!Names -> SUBSET Directory]
      /\ \A n \in Package!Names \ {builder[b].temp} : temps'[n] = temps[n]
  BY <1>1, <1>2
<1>6. \A d \in output' : Sealed(d, builder[b].run) /\ d.manifest = builder[b].anchor
  BY <1>1, <1>2 DEF BuilderOK, Package!Dir
<1>7. PackType'
  BY <1>1, <1>2, <1>3, <1>5 DEF PackInv, PackType
<1>8. BuilderOK(b)' /\ ~InDir(b)'
  BY <1>1, <1>2, <1>4, <1>6 DEF BuilderOK, InDir
<1>11. Moves(b)
  BY <1>1, <1>5, <1>8, InPlace
<1>9. \A a \in Package!Builders : BuilderOK(a)' /\ (InDir(a)' => Apart(a, builder[a].temp)')
  BY <1>1, <1>3, <1>8, <1>11, OthersUndisturbed, StillApart
<1>10. \A d \in output' : d.manifest.run \in Package!Runs /\ Sealed(d, d.manifest.run)
  BY <1>2, <1>6 DEF Sealed
<1> QED
  BY <1>7, <1>9, <1>10 DEF PackInv, Sealed, Whole

(* Nothing is there at the start. *)
LEMMA PackInit ==
  ASSUME MaxTime \in Nat \ {0}, Package!Init
  PROVE  PackInv
<1>1. 1 \in 1..MaxTime
  OBVIOUS
<1>2. PackType
  BY <1>1, IdleBuilder DEF Package!Init, PackType
<1>3. \A b \in Package!Builders : BuilderOK(b) /\ ~InDir(b)
  BY IdleBuilder DEF Package!Init, BuilderOK, InDir
<1> QED
  BY <1>2, <1>3 DEF Package!Init, PackInv

(* Every step that ends unshared keeps the invariant. *)
LEMMA PackStep ==
  ASSUME MaxTime \in Nat \ {0}, PackInv, [Package!Next]_(Package!vars), ~shared'
  PROVE  PackInv'
<1>1. ASSUME NEW b \in Package!Builders, Package!Build(b) PROVE PackInv'
  BY <1>1, BuilderBegins, BuilderMakes, BuilderCopies, BuilderHashes, BuilderSeals,
     BuilderAnchors, BuilderPublishes, BuilderGivesUp DEF Package!Build
<1>2. ASSUME UNCHANGED <<temps, output, builder>>, clock' \in 1..MaxTime PROVE PackInv'
  <2>1. PackType'
    BY <1>2 DEF PackInv, PackType
  <2>2. \A b \in Package!Builders : BuilderOK(b)'
    BY <1>2 DEF PackInv, BuilderOK, Copied, Whole, Sealed
  <2>3. \A b \in Package!Builders : InDir(b)' => Apart(b, builder[b].temp)'
    BY <1>2 DEF PackInv, InDir, Apart
  <2> QED
    BY <1>2, <2>1, <2>2, <2>3 DEF PackInv, Sealed, Whole
<1>3. CASE Package!Tick
  <2>1. clock' \in 1..MaxTime
    BY <1>3 DEF Package!Tick, PackInv, PackType
  <2> QED
    BY <1>2, <1>3, <2>1 DEF Package!Tick
<1>4. CASE UNCHANGED Package!vars
  BY <1>2, <1>4 DEF Package!vars, PackInv, PackType
<1> QED
  BY <1>1, <1>3, <1>4 DEF Package!Next

(* Sharing is never forgotten. *)
LEMMA SharedStays ==
  ASSUME [Package!Next]_(Package!vars), shared
  PROVE  shared'
<1>1. ASSUME NEW b \in Package!Builders, Package!Build(b) PROVE shared'
  <2>1. CASE Package!MakeTemp(b)
    <3>1. shared' = (shared \/ \E o \in Package!Builders \ {b} : Package!Busy(o) /\ builder[o].temp = Package!TempName(b))
      BY <2>1 DEF Package!MakeTemp
    <3> QED
      BY <3>1, Zenon
  <2>2. CASE ~Package!MakeTemp(b)
    BY <1>1, <2>2 DEF Package!Build, Package!Begin, Package!CopyArtifact, Package!HashArtifacts,
       Package!WriteManifest, Package!HashManifest, Package!Rename, Package!Fail, Package!Kill
  <2> QED
    BY <2>1, <2>2
<1>2. CASE Package!Tick \/ UNCHANGED Package!vars
  BY <1>2 DEF Package!Tick, Package!vars
<1> QED
  BY <1>1, <1>2 DEF Package!Next

(* As long as no two builders at work had one temporary directory, a package   *)
(* in place is whole, of one run, and the one whose anchor its builder         *)
(* reported, for any runs and any number of builders of both kinds that fail   *)
(* or are killed anywhere.                                                     *)
THEOREM PublishedAlwaysWhole ==
  ASSUME MaxTime \in Nat \ {0}, "" \notin Package!Runs
  PROVE  Package!Spec => []PublishedIsWhole
<1>1. (shared \/ PackInv) => PublishedIsWhole
  <2> SUFFICES ASSUME PackInv PROVE Package!PublishedIsWhole
    BY DEF PublishedIsWhole, Package!PublishedIsWhole
  <2>1. ASSUME NEW d \in output
        PROVE  /\ Package!verify_package_files(d)
               /\ \A a \in Package!Artifacts : d.files[a] = d.manifest.run
    <3>1. d.manifest.run \in Package!Runs /\ Sealed(d, d.manifest.run)
      BY DEF PackInv
    <3>2. d.manifest.run # ""
      BY <3>1
    <3>3. Package!NoFile.run = ""
      BY DEF Package!NoFile
    <3> QED
      BY <3>1, <3>2, <3>3 DEF Sealed, Whole, Package!verify_package_files
  <2>2. Package!AnchorIsPublished
    BY DEF PackInv, BuilderOK, Package!AnchorIsPublished
  <2> QED
    BY <2>1, <2>2 DEF Package!PublishedIsWhole, Package!PublishedVerifies
<1>2. Package!Init => (shared \/ PackInv)
  BY PackInit
<1>3. (shared \/ PackInv) /\ [Package!Next]_(Package!vars) => (shared \/ PackInv)'
  BY PackStep, SharedStays
<1> QED
  BY <1>1, <1>2, <1>3, PTL DEF Package!Spec

(* ------------------------------- the migrations ------------------------------ *)

RowRecord == [name : Numbers, hash : Nat, sql : Nat]
CallRecord ==
  [pc : {"idle", "create", "discover", "next", "apply", "insert"}, plan : SUBSET Numbers,
   hashes : [Numbers -> Nat], name : Nat, sql : Nat, created : BOOLEAN, done : Seq(RowRecord)]

MigType ==
  /\ migration_files \in [Numbers -> Nat] /\ edits \in Nat
  /\ ledger \in [Numbers -> Nat] /\ history \in Seq(Numbers)
  /\ schema = [n \in Numbers |-> schema[n]]
  /\ call \in [Migrators -> CallRecord]

(* What a call has done and not committed. *)
Did(x, k) == \E i \in 1..Len(x.done) : x.done[i].name = k
Applying(x) == x.pc \in {"apply", "insert"}
Holds(x, k) == Did(x, k) \/ (x.pc = "insert" /\ x.name = k)

(* x works through the names upwards, and what it has recorded nobody has      *)
(* committed.                                                                  *)
CallOK(x) ==
  /\ x.pc \in {"idle", "create", "discover"} => x.done = << >>
  /\ \A i \in 1..Len(x.done) :
       /\ ledger[x.done[i].name] = 0 /\ x.done[i].hash # 0
       /\ \A j \in 1..Len(x.done) : i < j => x.done[i].name < x.done[j].name
       /\ \A n \in x.plan : x.done[i].name < n
       /\ Applying(x) => x.done[i].name < x.name
  /\ \A n \in x.plan : x.hashes[n] # 0
  /\ Applying(x) => /\ x.name \in Numbers /\ x.hashes[x.name] # 0
                    /\ \A n \in x.plan : x.name < n

HeldOnce == \A a, b \in Migrators : a # b => \A k : ~(Holds(call[a], k) /\ Holds(call[b], k))

(* Ledger, schema and history tell the same. *)
LedgerInv ==
  /\ \A n \in Numbers : schema[n] # {} <=> ledger[n] # 0
  /\ \A n \in Numbers : ledger[n] # 0 <=> \E i \in 1..Len(history) : history[i] = n
  /\ \A i, j \in 1..Len(history) : history[i] = history[j] => i = j

(* As long as the directory stays as it is: x has seen every file, unless some *)
(* were committed before.                                                      *)
CallOrder(x) ==
  x.pc \in {"next", "apply", "insert"} =>
    /\ \A n \in x.plan : migration_files[n] # 0
    /\ Applying(x) => migration_files[x.name] # 0
    /\ \A i \in 1..Len(x.done) : migration_files[x.done[i].name] # 0
    /\ history = << >> =>
         \A n \in Numbers : migration_files[n] # 0 =>
           n \in x.plan \/ (Applying(x) /\ x.name = n) \/ Did(x, n)

(* Then one call commits them all. *)
OrderInv == edits = 0 =>
  /\ \A m \in Migrators : CallOrder(call[m])
  /\ history # << >> => \A n \in Numbers : migration_files[n] # 0 => ledger[n] # 0
  /\ \A i, j \in 1..Len(history) : i < j => history[i] < history[j]

MigInv ==
  /\ MigType
  /\ \A m \in Migrators : CallOK(call[m])
  /\ HeldOnce /\ LedgerInv /\ OrderInv

(* What a call holds, said of its record (HeldBy).                         *)
LEMMA HoldsMeans ==
  ASSUME MigType, NEW m \in Migrators, NEW k
  PROVE  Migration!HeldBy(m, k) <=> Holds(call[m], k)
<1>1. call[m] \in CallRecord
  BY DEF MigType
<1>2. DOMAIN call[m].done = 1..Len(call[m].done)
  BY <1>1 DEF CallRecord
<1> QED
  BY <1>2 DEF Migration!HeldBy, Migration!DoneNames, Migration!At, Holds, Did

(* A step that changes one call and leaves the database and the directory  *)
(* alone: what is left to show about the call's new record x.              *)
LEMMA OneCall ==
  ASSUME Numbers \subseteq Nat, MigInv, NEW m \in Migrators, NEW x \in CallRecord,
         call' \in [Migrators -> CallRecord], call'[m] = x,
         \A o \in Migrators : o # m => call'[o] = call[o],
         migration_files' = migration_files, edits' = edits, ledger' = ledger,
         schema' = schema, history' = history,
         CallOK(x),
         \A o \in Migrators : o # m => \A k : Holds(x, k) => ~Holds(call[o], k),
         edits = 0 => CallOrder(x)
  PROVE  MigInv'
<1>1. MigType'
  BY DEF MigInv, MigType
<1>2. ASSUME NEW a \in Migrators PROVE CallOK(call[a])'
  <2>1. PICK y : y = call'[a]
    OBVIOUS
  <2>2. CallOK(y)
    BY <2>1, <1>2 DEF MigInv
  <2>3. CallOK(y)'
    BY <2>2 DEF CallOK, Applying
  <2> QED
    BY <2>1, <2>3 DEF CallOK, Applying
<1>3. HeldOnce'
  <2>1. ASSUME NEW a \in Migrators, NEW b \in Migrators, a # b, NEW k
        PROVE  ~(Holds(call'[a], k) /\ Holds(call'[b], k))
    BY <2>1 DEF MigInv, HeldOnce
  <2> QED
    BY <2>1 DEF HeldOnce, Holds, Did
<1>4. LedgerInv'
  BY DEF MigInv, LedgerInv
<1>5. OrderInv'
  <2>1. ASSUME NEW a \in Migrators, edits = 0 PROVE CallOrder(call[a])'
    <3>1. PICK y : y = call'[a]
      OBVIOUS
    <3>2. CallOrder(y)
      BY <3>1, <2>1 DEF MigInv, OrderInv
    <3>3. CallOrder(y)'
      BY <3>2 DEF CallOrder, Applying, Did
    <3> QED
      BY <3>1, <3>3 DEF CallOrder, Applying, Did
  <2> QED
    BY <2>1 DEF MigInv, OrderInv
<1> QED
  BY <1>1, <1>2, <1>3, <1>4, <1>5 DEF MigInv

(* A call that is rolled back holds nothing (Abort).                       *)
LEMMA AbortStep ==
  ASSUME Numbers \subseteq Nat, MigInv, NEW m \in Migrators, Migration!Abort(m),
         migration_files' = migration_files, edits' = edits, ledger' = ledger,
         schema' = schema, history' = history
  PROVE  MigInv'
<1>1. Migration!Idle \in CallRecord
  BY DEF Migration!Idle, CallRecord
<1>2. /\ call' \in [Migrators -> CallRecord] /\ call'[m] = Migration!Idle
      /\ \A o \in Migrators : o # m => call'[o] = call[o]
  BY <1>1 DEF Migration!Abort, MigInv, MigType
<1>3. /\ Migration!Idle.pc = "idle" /\ Migration!Idle.done = << >> /\ Len(Migration!Idle.done) = 0
      /\ Migration!Idle.plan = {}
  BY DEF Migration!Idle
<1>4. CallOK(Migration!Idle) /\ CallOrder(Migration!Idle) /\ \A k : ~Holds(Migration!Idle, k)
  <2> HIDE DEF Migration!Idle
  <2> QED BY <1>3 DEF CallOK, CallOrder, Holds, Did, Applying
<1>5. PICK x \in CallRecord : x = Migration!Idle
  BY <1>1
<1> QED
  BY <1>2, <1>4, <1>5, OneCall

(* The steps before the first file (connect, create_table).                *)
LEMMA StartStep ==
  ASSUME Numbers \subseteq Nat, MigInv, NEW m \in Migrators,
         Migration!connect(m) \/ Migration!create_table(m)
  PROVE  MigInv'
<1>1. CASE Migration!Abort(m)
  BY <1>1, AbortStep DEF Migration!connect, Migration!create_table, Migration!database
<1>2. CASE ~Migration!Abort(m)
  <2>1. /\ call[m] \in CallRecord /\ call[m].pc \in {"idle", "create"}
        /\ CallOK(call[m])
    BY DEF MigInv, MigType, Migration!connect, Migration!create_table, Migration!At
  <2>2. /\ call' \in [Migrators -> CallRecord]
        /\ \A o \in Migrators : o # m => call'[o] = call[o]
        /\ call'[m].pc \in {"create", "discover"} /\ call'[m].done = call[m].done
        /\ call'[m].plan = call[m].plan /\ call'[m].hashes = call[m].hashes
    <3>1. call \in [Migrators -> CallRecord]
      BY DEF MigInv, MigType
    <3>2. CASE Migration!connect(m)
      <4>1. PICK p \in {"create", "discover"} : call' = [call EXCEPT ![m].pc = p]
        BY <3>2 DEF Migration!connect, Migration!To
      <4> QED
        BY <2>1, <3>1, <4>1 DEF CallRecord
    <3>3. CASE Migration!create_table(m)
      <4>1. call' = [call EXCEPT ![m].created = TRUE, ![m].pc = "discover"]
        BY <1>2, <3>3 DEF Migration!create_table
      <4> QED
        BY <2>1, <3>1, <4>1 DEF CallRecord
    <3> QED
      BY <3>2, <3>3
  <2>3. PICK x \in CallRecord : x = call'[m]
    BY <2>2
  <2>4. CallOK(x) /\ CallOrder(x) /\ \A k : ~Holds(x, k)
    BY <2>1, <2>2, <2>3 DEF CallOK, CallOrder, Holds, Did, Applying
  <2>5. /\ migration_files' = migration_files /\ edits' = edits /\ ledger' = ledger
        /\ schema' = schema /\ history' = history
    BY DEF Migration!connect, Migration!create_table, Migration!database
  <2> QED
    BY <2>2, <2>3, <2>4, <2>5, OneCall
<1> QED
  BY <1>1, <1>2

(* The plan is the directory of this moment (discover_migrations).         *)
LEMMA DiscoverStep ==
  ASSUME Numbers \subseteq Nat, MigInv, NEW m \in Migrators, Migration!discover_migrations(m)
  PROVE  MigInv'
<1>1. /\ call[m] \in CallRecord /\ call[m].pc = "discover" /\ CallOK(call[m])
  BY DEF MigInv, MigType, Migration!discover_migrations, Migration!At
<1>2. Migration!Present \in SUBSET Numbers /\ migration_files \in [Numbers -> Nat]
  BY DEF Migration!Present, MigInv, MigType
<1>3. /\ call' \in [Migrators -> CallRecord]
      /\ \A o \in Migrators : o # m => call'[o] = call[o]
      /\ call'[m].pc = "next" /\ call'[m].done = call[m].done
      /\ call'[m].plan = Migration!Present /\ call'[m].hashes = migration_files
  BY <1>1, <1>2 DEF MigInv, MigType, Migration!discover_migrations, CallRecord
<1>4. PICK x \in CallRecord : x = call'[m]
  BY <1>3
<1>5. x.done = << >> /\ Len(x.done) = 0
  BY <1>1, <1>3, <1>4 DEF CallOK
<1>6. CallOK(x) /\ CallOrder(x) /\ \A k : ~Holds(x, k)
  BY <1>3, <1>4, <1>5 DEF CallOK, CallOrder, Holds, Did, Applying, Migration!Present
<1>7. /\ migration_files' = migration_files /\ edits' = edits /\ ledger' = ledger
      /\ schema' = schema /\ history' = history
  BY DEF Migration!discover_migrations, Migration!database
<1> QED
  BY <1>3, <1>4, <1>6, <1>7, OneCall

(* The next file is skipped or taken up; those that are left have greater  *)
(* names (select_sha256).                                                  *)
LEMMA SelectStep ==
  ASSUME Numbers \subseteq Nat, MigInv, NEW m \in Migrators, Migration!select_sha256(m)
  PROVE  MigInv'
<1>1. /\ call[m] \in CallRecord /\ call[m].pc = "next" /\ CallOK(call[m])
      /\ edits = 0 => CallOrder(call[m])
      /\ call \in [Migrators -> CallRecord]
  BY DEF MigInv, MigType, OrderInv, Migration!select_sha256, Migration!At
<1>2. /\ migration_files' = migration_files /\ edits' = edits /\ ledger' = ledger
      /\ schema' = schema /\ history' = history
  BY DEF Migration!select_sha256, Migration!database
<1>3. PICK n \in Migration!First(call[m].plan) :
        IF ledger[n] \notin {0, call[m].hashes[n]} THEN Migration!Abort(m)
        ELSE IF ledger[n] # 0 THEN call' = [call EXCEPT ![m].plan = @ \ {n}]
        ELSE call' = [call EXCEPT ![m].pc = "apply", ![m].plan = @ \ {n}, ![m].name = n]
  BY DEF Migration!select_sha256
<1>4. PICK old \in CallRecord : old = call[m]
  BY <1>1
<1>5. n \in old.plan /\ n \in Numbers /\ n \in Nat /\ \A k \in old.plan \ {n} : k \in Nat /\ n < k
  BY <1>3, <1>4 DEF Migration!First, CallRecord
<1>6. CASE Migration!Abort(m)
  BY <1>2, <1>6, AbortStep
<1>7. CASE /\ ledger[n] # 0 /\ call' = [call EXCEPT ![m].plan = @ \ {n}]
  <2>1. /\ call' \in [Migrators -> CallRecord]
        /\ \A o \in Migrators : o # m => call'[o] = call[o]
        /\ call'[m].pc = "next" /\ call'[m].done = old.done
        /\ call'[m].plan = old.plan \ {n} /\ call'[m].hashes = old.hashes
    BY <1>1, <1>4, <1>7 DEF CallRecord
  <2>2. PICK x \in CallRecord : x = call'[m]
    BY <2>1
  <2>3. CallOK(x)
    BY <1>1, <1>4, <2>1, <2>2 DEF CallOK, Applying
  <2>4. \A k : Holds(x, k) => Holds(call[m], k)
    BY <1>4, <2>1, <2>2 DEF Holds, Did
  <2>5. ASSUME edits = 0 PROVE CallOrder(x)
    <3>1. history # << >>
      <4>1. LedgerInv
        BY DEF MigInv
      <4>2. \E i \in 1..Len(history) : history[i] = n
        BY <1>5, <1>7, <4>1 DEF LedgerInv
      <4> QED
        BY <4>2
    <3>2. CallOrder(old)
      BY <1>1, <1>4, <2>5
    <3> QED
      BY <1>1, <1>4, <2>1, <2>2, <3>1, <3>2 DEF CallOrder, Applying
  <2>6. \A o \in Migrators : o # m => \A k : Holds(x, k) => ~Holds(call[o], k)
    BY <2>4 DEF MigInv, HeldOnce
  <2> QED
    BY <1>2, <2>1, <2>2, <2>3, <2>5, <2>6, OneCall
<1>8. CASE call' = [call EXCEPT ![m].pc = "apply", ![m].plan = @ \ {n}, ![m].name = n]
  <2>1. /\ call' \in [Migrators -> CallRecord]
        /\ \A o \in Migrators : o # m => call'[o] = call[o]
        /\ call'[m].pc = "apply" /\ call'[m].done = old.done /\ call'[m].name = n
        /\ call'[m].plan = old.plan \ {n} /\ call'[m].hashes = old.hashes
    BY <1>1, <1>4, <1>5, <1>8 DEF CallRecord
  <2>2. PICK x \in CallRecord : x = call'[m]
    BY <2>1
  <2>3. CallOK(x)
    BY <1>1, <1>4, <1>5, <2>1, <2>2 DEF CallOK, Applying
  <2>4. \A k : Holds(x, k) => Holds(call[m], k)
    BY <1>4, <2>1, <2>2 DEF Holds, Did
  <2>5. ASSUME edits = 0 PROVE CallOrder(x)
    <3>2. CallOrder(old)
      BY <1>1, <1>4, <2>5
    <3> QED
      BY <1>1, <1>4, <1>5, <2>1, <2>2, <3>2 DEF CallOrder, Applying, Did
  <2>6. \A o \in Migrators : o # m => \A k : Holds(x, k) => ~Holds(call[o], k)
    BY <2>4 DEF MigInv, HeldOnce
  <2> QED
    BY <1>2, <2>1, <2>2, <2>3, <2>5, <2>6, OneCall
<1> QED
  BY <1>3, <1>6, <1>7, <1>8

(* A file is executed when no other call holds it (execute_file).          *)
LEMMA ExecuteStep ==
  ASSUME Numbers \subseteq Nat, MigInv, NEW m \in Migrators, Migration!execute_file(m)
  PROVE  MigInv'
<1>1. /\ call[m] \in CallRecord /\ call[m].pc = "apply" /\ CallOK(call[m])
      /\ edits = 0 => CallOrder(call[m])
      /\ call \in [Migrators -> CallRecord]
  BY DEF MigInv, MigType, OrderInv, Migration!execute_file, Migration!At
<1>2. /\ migration_files' = migration_files /\ edits' = edits /\ ledger' = ledger
      /\ schema' = schema /\ history' = history
  BY DEF Migration!execute_file, Migration!database
<1>3. PICK old \in CallRecord : old = call[m]
  BY <1>1
<1>4. old.name \in Numbers /\ migration_files[old.name] \in Nat
  BY <1>1, <1>3 DEF CallOK, Applying, MigInv, MigType
<1>5. /\ call' \in [Migrators -> CallRecord]
      /\ \A o \in Migrators : o # m => call'[o] = call[o]
      /\ call'[m].pc = "insert" /\ call'[m].done = old.done /\ call'[m].name = old.name
      /\ call'[m].plan = old.plan /\ call'[m].hashes = old.hashes
  BY <1>1, <1>3, <1>4 DEF CallRecord, Migration!execute_file
<1>6. PICK x \in CallRecord : x = call'[m]
  BY <1>5
<1>7. CallOK(x)
  BY <1>1, <1>3, <1>5, <1>6 DEF CallOK, Applying
<1>8. ASSUME edits = 0 PROVE CallOrder(x)
  <2>1. CallOrder(old)
    BY <1>1, <1>3, <1>8
  <2> QED
    BY <1>1, <1>3, <1>5, <1>6, <2>1 DEF CallOrder, Applying, Did
<1>9. ASSUME NEW o \in Migrators, o # m, NEW k, Holds(x, k) PROVE ~Holds(call[o], k)
  <2>1. CASE k = old.name
    <3>1. ~Migration!HeldBy(o, k)
      BY <1>3, <1>9, <2>1 DEF Migration!execute_file, Migration!HeldByOther
    <3> QED
      BY <3>1, HoldsMeans DEF MigInv
  <2>2. CASE Holds(call[m], k)
    BY <1>9, <2>2 DEF MigInv, HeldOnce
  <2> QED
    BY <1>3, <1>5, <1>6, <1>9, <2>1, <2>2 DEF Holds, Did
<1> QED
  BY <1>2, <1>5, <1>6, <1>7, <1>8, <1>9, OneCall

(* The row joins the others of the transaction, unless the name was        *)
(* committed meanwhile (insert_row).                                       *)
LEMMA InsertStep ==
  ASSUME Numbers \subseteq Nat, MigInv, NEW m \in Migrators, Migration!insert_row(m)
  PROVE  MigInv'
<1>1. /\ call[m] \in CallRecord /\ call[m].pc = "insert" /\ CallOK(call[m])
      /\ edits = 0 => CallOrder(call[m])
      /\ call \in [Migrators -> CallRecord]
  BY DEF MigInv, MigType, OrderInv, Migration!insert_row, Migration!At
<1>2. /\ migration_files' = migration_files /\ edits' = edits /\ ledger' = ledger
      /\ schema' = schema /\ history' = history
  BY DEF Migration!insert_row, Migration!database
<1>3. CASE ledger[call[m].name] # 0
  BY <1>2, <1>3, AbortStep DEF Migration!insert_row
<1>4. CASE ledger[call[m].name] = 0
  <2>1. PICK old \in CallRecord : old = call[m]
    BY <1>1
  <2>2. /\ old.name \in Numbers /\ old.name \in Nat /\ old.hashes[old.name] \in Nat \ {0}
        /\ old.sql \in Nat /\ old.done \in Seq(RowRecord) /\ ledger[old.name] = 0
    BY <1>1, <1>4, <2>1 DEF CallOK, Applying, CallRecord
  <2>3. PICK row : row = Migration!Row(m)
    OBVIOUS
  <2>4. row \in RowRecord /\ row.name = old.name /\ row.hash # 0
    BY <2>1, <2>2, <2>3 DEF Migration!Row, RowRecord
  <2>5. Append(old.done, row) \in Seq(RowRecord)
    BY <2>2, <2>4
  <2>6. /\ call' \in [Migrators -> CallRecord]
        /\ \A o \in Migrators : o # m => call'[o] = call[o]
        /\ call'[m].pc = "next" /\ call'[m].done = Append(old.done, row)
        /\ call'[m].plan = old.plan /\ call'[m].hashes = old.hashes
    BY <1>1, <1>4, <2>1, <2>3, <2>5 DEF CallRecord, Migration!insert_row
  <2>7. PICK x \in CallRecord : x = call'[m]
    BY <2>6
  <2>8. /\ Len(x.done) = Len(old.done) + 1 /\ Len(old.done) \in Nat
        /\ \A i \in 1..Len(old.done) : x.done[i] = old.done[i]
        /\ x.done[Len(old.done) + 1] = row
    BY <2>2, <2>4, <2>6, <2>7
  <2>9. /\ \A i \in 1..Len(x.done) : i \in 1..Len(old.done) \/ i = Len(old.done) + 1
        /\ \A i \in 1..Len(old.done) : i \in 1..Len(x.done)
    BY <2>8
  <2>10. \A i \in 1..Len(old.done) : old.done[i].name < old.name
    BY <1>1, <2>1 DEF CallOK, Applying
  <2>11. CallOK(x)
    <3>1. ASSUME NEW i \in 1..Len(x.done)
          PROVE  /\ ledger[x.done[i].name] = 0 /\ x.done[i].hash # 0
                 /\ \A n \in x.plan : x.done[i].name < n
      <4>1. CASE i \in 1..Len(old.done)
        <5>1. x.done[i] = old.done[i] /\ x.plan = old.plan
          BY <2>6, <2>7, <2>8, <4>1
        <5> QED
          BY <1>1, <2>1, <4>1, <5>1 DEF CallOK
      <4>2. CASE i = Len(old.done) + 1
        <5>1. x.done[i].name = old.name /\ x.done[i].hash # 0 /\ x.plan = old.plan
          BY <2>4, <2>6, <2>7, <2>8, <4>2
        <5>2. \A n \in old.plan : old.name < n
          BY <1>1, <2>1 DEF CallOK, Applying
        <5> QED
          BY <2>2, <5>1, <5>2
      <4> QED
        BY <2>9, <4>1, <4>2
    <3>2. ASSUME NEW i \in 1..Len(x.done), NEW j \in 1..Len(x.done), i < j
          PROVE  x.done[i].name < x.done[j].name
      <4>1. i \in 1..Len(old.done)
        BY <2>8, <3>2
      <4>2. CASE j = Len(old.done) + 1
        BY <2>4, <2>8, <2>10, <4>1, <4>2
      <4>3. CASE j \in 1..Len(old.done)
        BY <1>1, <2>1, <2>8, <3>2, <4>1, <4>3 DEF CallOK
      <4> QED
        BY <2>9, <4>2, <4>3
    <3>3. x.pc = "next" /\ \A n \in x.plan : x.hashes[n] # 0
      BY <1>1, <2>1, <2>6, <2>7 DEF CallOK
    <3> QED
      BY <3>1, <3>2, <3>3 DEF CallOK, Applying
  <2>12. \A k : Did(x, k) <=> Did(old, k) \/ k = old.name
    <3>1. ASSUME NEW k, Did(old, k) PROVE Did(x, k)
      BY <2>8, <2>9, <3>1 DEF Did
    <3>2. Did(x, old.name)
      <4>1. Len(old.done) + 1 \in 1..Len(x.done)
        BY <2>8
      <4> QED
        BY <2>4, <2>8, <4>1 DEF Did
    <3>3. ASSUME NEW k, Did(x, k) PROVE Did(old, k) \/ k = old.name
      <4>1. PICK i \in 1..Len(x.done) : x.done[i].name = k
        BY <3>3 DEF Did
      <4> QED
        BY <2>4, <2>8, <2>9, <4>1 DEF Did
    <3> QED
      BY <3>1, <3>2, <3>3
  <2>13. \A k : Holds(x, k) => Holds(call[m], k)
    BY <1>1, <2>1, <2>6, <2>7, <2>12 DEF Holds
  <2>14. ASSUME edits = 0 PROVE CallOrder(x)
    <3>1. CallOrder(old)
      BY <1>1, <2>1, <2>14
    <3>2. \A i \in 1..Len(x.done) : migration_files[x.done[i].name] # 0
      BY <1>1, <2>1, <2>4, <2>8, <2>9, <3>1 DEF CallOrder, Applying
    <3> QED
      BY <1>1, <2>1, <2>6, <2>7, <2>12, <3>1, <3>2 DEF CallOrder, Applying
  <2>15. \A o \in Migrators : o # m => \A k : Holds(x, k) => ~Holds(call[o], k)
    BY <2>13 DEF MigInv, HeldOnce
  <2> QED
    BY <1>2, <2>6, <2>7, <2>11, <2>14, <2>15, OneCall
<1> QED
  BY <1>3, <1>4

(* What a call commits: its rows are new to the ledger, each has one       *)
(* place in the history, and nobody else has them (commit).                *)
LEMMA CommitStep ==
  ASSUME Numbers \subseteq Nat, MigInv, NEW m \in Migrators, Migration!commit(m)
  PROVE  MigInv'
<1>1. /\ call[m] \in CallRecord /\ call[m].pc = "next" /\ call[m].plan = {}
      /\ CallOK(call[m])
      /\ edits = 0 => CallOrder(call[m])
      /\ call \in [Migrators -> CallRecord]
  BY DEF MigInv, MigType, OrderInv, Migration!commit, Migration!At
<1>2. migration_files' = migration_files /\ edits' = edits
  BY DEF Migration!commit
<1>3. PICK old \in CallRecord : old = call[m]
  BY <1>1
<1>4. /\ old.done \in Seq(RowRecord) /\ Len(old.done) \in Nat
      /\ DOMAIN old.done = 1..Len(old.done)
      /\ \A i \in 1..Len(old.done) :
           old.done[i] \in RowRecord /\ old.done[i].name \in Numbers /\ old.done[i].hash \in Nat
  <2>1. old.done \in Seq(RowRecord)
    BY DEF CallRecord
  <2>2. ASSUME NEW i \in 1..Len(old.done)
        PROVE  old.done[i] \in RowRecord /\ old.done[i].name \in Numbers /\ old.done[i].hash \in Nat
    <3>1. old.done[i] \in RowRecord
      BY <2>1
    <3> QED
      BY <3>1 DEF RowRecord
  <2> QED
    BY <2>1, <2>2
<1>5. /\ \A i \in 1..Len(old.done) : ledger[old.done[i].name] = 0 /\ old.done[i].hash # 0
      /\ \A i, j \in 1..Len(old.done) : i < j => old.done[i].name < old.done[j].name
  BY <1>1, <1>3 DEF CallOK
<1>6. PICK names : names = [i \in 1..Len(old.done) |-> old.done[i].name]
  OBVIOUS
<1>7. /\ names \in Seq(Numbers) /\ Len(names) = Len(old.done)
      /\ \A i \in 1..Len(old.done) : names[i] = old.done[i].name
  BY <1>4, <1>6
<1>8. history \in Seq(Numbers) /\ Len(history) \in Nat
  BY DEF MigInv, MigType
<1>9. history' = history \o names
  BY <1>3, <1>4, <1>6 DEF Migration!commit
<1>10. /\ history' \in Seq(Numbers) /\ Len(history') = Len(history) + Len(old.done)
       /\ \A i \in 1..Len(history) : history'[i] = history[i]
       /\ \A i \in 1..Len(old.done) : history'[Len(history) + i] = old.done[i].name
  <2>1. names \in Seq(Numbers)
    BY <1>7
  <2>2. history \o names \in Seq(Numbers)
    BY <1>8, <2>1
  <2>3. Len(history \o names) = Len(history) + Len(names)
    BY <1>8, <2>1
  <2>4. \A i \in 1..Len(history) : history'[i] = history[i]
    BY <1>7, <1>8, <1>9
  <2>5. ASSUME NEW i \in 1..Len(names) PROVE history'[Len(history) + i] = names[i]
    <3>1. PICK k \in 1..(Len(history) + Len(names)) :
            k = Len(history) + i /\ k > Len(history) /\ k - Len(history) = i
      BY <1>4, <1>7, <1>8
    <3>2. history'[k] = names[k - Len(history)]
      BY <1>7, <1>8, <1>9, <3>1
    <3> QED
      BY <3>1, <3>2
  <2> QED
    BY <1>7, <1>9, <2>2, <2>3, <2>4, <2>5
<1>11. ASSUME NEW i \in 1..Len(history')
       PROVE  \/ i \in 1..Len(history) /\ history'[i] = history[i]
              \/ /\ i - Len(history) \in 1..Len(old.done) /\ i > Len(history)
                 /\ history'[i] = old.done[i - Len(history)].name
  <2>1. CASE i <= Len(history)
    BY <1>4, <1>8, <1>10, <2>1
  <2>2. CASE i > Len(history)
    <3>1. i - Len(history) \in 1..Len(old.done) /\ i = Len(history) + (i - Len(history))
      BY <1>4, <1>8, <1>10, <2>2
    <3> QED
      BY <1>10, <2>2, <3>1
  <2> QED
    BY <1>4, <1>8, <1>10, <2>1, <2>2
<1>12. \A n \in Numbers : Migration!Recorded(m, n) # {} <=> Did(old, n)
  BY <1>3, <1>4 DEF Migration!Recorded, Did
<1>13. /\ ledger' \in [Numbers -> Nat]
       /\ \A n \in Numbers : ledger'[n] # 0 <=> ledger[n] # 0 \/ Did(old, n)
  <2>1. ledger' = [n \in Numbers |->
          IF Migration!Recorded(m, n) = {} THEN ledger[n]
          ELSE old.done[CHOOSE i \in Migration!Recorded(m, n) : TRUE].hash]
    BY <1>3 DEF Migration!commit
  <2>2. ASSUME NEW n \in Numbers
        PROVE  ledger'[n] \in Nat /\ (ledger'[n] # 0 <=> ledger[n] # 0 \/ Did(old, n))
    <3>1. CASE Migration!Recorded(m, n) = {}
      BY <1>12, <2>1, <3>1 DEF MigInv, MigType
    <3>2. CASE Migration!Recorded(m, n) # {}
      <4>1. PICK i : i = CHOOSE j \in Migration!Recorded(m, n) : TRUE
        OBVIOUS
      <4>2. i \in 1..Len(old.done)
        BY <1>3, <1>4, <3>2, <4>1 DEF Migration!Recorded
      <4>3. ledger'[n] = old.done[i].hash
        BY <2>1, <3>2, <4>1
      <4> QED
        BY <1>4, <1>5, <1>12, <3>2, <4>2, <4>3
    <3> QED
      BY <3>1, <3>2
  <2> QED
    BY <2>1, <2>2
<1>14. /\ schema' = [n \in Numbers |-> schema'[n]]
       /\ \A n \in Numbers : schema'[n] # {} <=> schema[n] # {} \/ Did(old, n)
  <2>1. schema' = [n \in Numbers |-> schema[n] \cup {old.done[i].sql : i \in Migration!Recorded(m, n)}]
    BY <1>3 DEF Migration!commit
  <2> QED
    BY <1>12, <2>1
<1>15. /\ Migration!Idle \in CallRecord /\ Migration!Idle.pc = "idle" /\ Migration!Idle.done = << >>
       /\ Len(Migration!Idle.done) = 0 /\ Migration!Idle.plan = {}
  BY DEF Migration!Idle, CallRecord
<1>16. /\ call' \in [Migrators -> CallRecord] /\ call'[m] = Migration!Idle
       /\ \A o \in Migrators : o # m => call'[o] = call[o]
  BY <1>1, <1>15 DEF Migration!commit, Migration!Abort
<1> HIDE DEF Migration!Idle
<1>17. MigType'
  BY <1>2, <1>10, <1>13, <1>14, <1>16 DEF MigInv, MigType
<1>18. ASSUME NEW a \in Migrators PROVE CallOK(call[a])'
  <2>1. PICK y \in CallRecord : y = call'[a]
    BY <1>16
  <2>2. CASE a = m
    <3>1. y.pc = "idle" /\ y.done = << >> /\ Len(y.done) = 0 /\ y.plan = {}
      BY <1>15, <1>16, <2>1, <2>2
    <3>2. CallOK(y)'
      BY <3>1 DEF CallOK, Applying
    <3> QED
      BY <2>1, <3>2 DEF CallOK, Applying
  <2>3. CASE a # m
    <3>1. y = call[a] /\ CallOK(y)
      BY <1>16, <2>1, <2>3 DEF MigInv
    <3>2. \A k : ~(Holds(y, k) /\ Holds(old, k))
      BY <1>3, <2>3, <3>1 DEF MigInv, HeldOnce
    <3>3. ASSUME NEW i \in 1..Len(y.done) PROVE ledger'[y.done[i].name] = 0
      <4>1. y.done[i].name \in Numbers
        <5>1. y.done \in Seq(RowRecord)
          BY DEF CallRecord
        <5>2. y.done[i] \in RowRecord
          BY <5>1
        <5> QED
          BY <5>2 DEF RowRecord
      <4>2. ~Did(old, y.done[i].name)
        BY <3>2 DEF Holds, Did
      <4> QED
        BY <1>13, <3>1, <4>1, <4>2 DEF CallOK
    <3>4. CallOK(y)'
      BY <3>1, <3>3 DEF CallOK, Applying
    <3> QED
      BY <2>1, <3>4 DEF CallOK, Applying
  <2> QED
    BY <2>2, <2>3
<1>19. HeldOnce'
  <2>1. \A k : ~Holds(call'[m], k)
    BY <1>15, <1>16 DEF Holds, Did
  <2>2. ASSUME NEW a \in Migrators, NEW b \in Migrators, a # b, NEW k
        PROVE  ~(Holds(call'[a], k) /\ Holds(call'[b], k))
    BY <1>16, <2>1, <2>2 DEF MigInv, HeldOnce
  <2> QED
    BY <2>2 DEF HeldOnce, Holds, Did
<1>20. LedgerInv
  BY DEF MigInv
<1>21. ASSUME NEW i \in 1..Len(history) PROVE history[i] \in Numbers /\ ledger[history[i]] # 0
  <2>1. history[i] \in Numbers
    BY <1>8
  <2> QED
    BY <1>20, <2>1 DEF LedgerInv
<1>22. LedgerInv'
  <2>1. \A n \in Numbers : schema'[n] # {} <=> ledger'[n] # 0
    BY <1>13, <1>14, <1>20 DEF LedgerInv
  <2>2. ASSUME NEW n \in Numbers, ledger'[n] # 0
        PROVE  \E i \in 1..Len(history') : history'[i] = n
    <3>1. CASE ledger[n] # 0
      <4>1. PICK i \in 1..Len(history) : history[i] = n
        BY <1>20, <3>1 DEF LedgerInv
      <4>2. i \in 1..Len(history')
        BY <1>4, <1>8, <1>10
      <4> QED
        BY <1>10, <4>1, <4>2
    <3>2. CASE Did(old, n)
      <4>1. PICK i \in 1..Len(old.done) : old.done[i].name = n
        BY <3>2 DEF Did
      <4>2. Len(history) + i \in 1..Len(history')
        BY <1>4, <1>8, <1>10
      <4> QED
        BY <1>10, <4>1, <4>2
    <3> QED
      BY <1>13, <2>2, <3>1, <3>2
  <2>3. ASSUME NEW i \in 1..Len(history') PROVE ledger'[history'[i]] # 0
    <3>1. CASE i \in 1..Len(history) /\ history'[i] = history[i]
      BY <1>13, <1>21, <3>1
    <3>2. CASE /\ i - Len(history) \in 1..Len(old.done)
               /\ history'[i] = old.done[i - Len(history)].name
      BY <1>4, <1>13, <3>2 DEF Did
    <3> QED
      BY <1>11, <3>1, <3>2
  <2>4. ASSUME NEW i \in 1..Len(history'), NEW j \in 1..Len(history'), i < j
        PROVE  history'[i] # history'[j]
    <3>1. CASE j \in 1..Len(history) /\ history'[j] = history[j]
      <4>1. i \in 1..Len(history) /\ history'[i] = history[i]
        BY <1>8, <1>10, <2>4, <3>1
      <4> QED
        BY <1>20, <2>4, <3>1, <4>1 DEF LedgerInv
    <3>2. CASE /\ j - Len(history) \in 1..Len(old.done)
               /\ history'[j] = old.done[j - Len(history)].name
      <4>1. CASE i \in 1..Len(history) /\ history'[i] = history[i]
        BY <1>5, <1>21, <3>2, <4>1
      <4>2. CASE /\ i - Len(history) \in 1..Len(old.done)
                 /\ history'[i] = old.done[i - Len(history)].name
        <5>1. i - Len(history) < j - Len(history)
          BY <1>8, <1>10, <2>4
        <5>2. old.done[i - Len(history)].name < old.done[j - Len(history)].name
          BY <1>5, <3>2, <4>2, <5>1
        <5>3. /\ old.done[i - Len(history)].name \in Nat
              /\ old.done[j - Len(history)].name \in Nat
          BY <1>4, <3>2, <4>2
        <5> QED
          BY <3>2, <4>2, <5>2, <5>3
      <4> QED
        BY <1>11, <4>1, <4>2
    <3> QED
      BY <1>11, <3>1, <3>2
  <2>5. \A i, j \in 1..Len(history') : history'[i] = history'[j] => i = j
    <3>1. \A i, j \in 1..Len(history') : i < j \/ i = j \/ j < i
      BY <1>4, <1>8, <1>10
    <3> QED
      BY <2>4, <3>1
  <2> QED
    BY <2>1, <2>2, <2>3, <2>5 DEF LedgerInv
<1>23. OrderInv'
  <2> SUFFICES ASSUME edits' = 0
               PROVE  /\ \A a \in Migrators : CallOrder(call[a])'
                      /\ history' # << >> =>
                           \A n \in Numbers : migration_files[n] # 0 => ledger'[n] # 0
                      /\ \A i, j \in 1..Len(history') : i < j => history'[i] < history'[j]
    BY <1>2 DEF OrderInv
  <2>1. edits = 0 /\ OrderInv
    BY <1>2 DEF MigInv
  <2>2. CallOrder(old)
    BY <1>1, <1>3, <2>1
  <2>3. ASSUME NEW a \in Migrators PROVE CallOrder(call[a])'
    <3>1. PICK y \in CallRecord : y = call'[a]
      BY <1>16
    <3>2. CallOrder(y)
      <4>1. CASE a = m
        BY <1>15, <1>16, <3>1, <4>1 DEF CallOrder
      <4>2. CASE a # m
        BY <1>16, <2>1, <3>1, <4>2 DEF OrderInv
      <4> QED
        BY <4>1, <4>2
    <3>3. history' = << >> => history = << >>
      BY <1>4, <1>8, <1>10
    <3>4. CallOrder(y)'
      BY <1>2, <3>2, <3>3 DEF CallOrder, Applying, Did
    <3> QED
      BY <3>1, <3>4 DEF CallOrder, Applying, Did
  <2>4. ASSUME history' # << >>, NEW n \in Numbers, migration_files[n] # 0
        PROVE  ledger'[n] # 0
    <3>1. CASE history # << >>
      BY <1>13, <2>1, <2>4, <3>1 DEF OrderInv
    <3>2. CASE history = << >>
      <4>1. Did(old, n)
        BY <1>1, <1>3, <2>2, <2>4, <3>2 DEF CallOrder, Applying
      <4> QED
        BY <1>13, <4>1
    <3> QED
      BY <3>1, <3>2
  <2>5. ASSUME NEW i \in 1..Len(history'), NEW j \in 1..Len(history'), i < j
        PROVE  history'[i] < history'[j]
    <3>1. CASE j \in 1..Len(history) /\ history'[j] = history[j]
      <4>1. i \in 1..Len(history) /\ history'[i] = history[i]
        BY <1>8, <1>10, <2>5, <3>1
      <4> QED
        BY <2>1, <2>5, <3>1, <4>1 DEF OrderInv
    <3>2. CASE /\ j - Len(history) \in 1..Len(old.done)
               /\ history'[j] = old.done[j - Len(history)].name
      <4>1. CASE i \in 1..Len(history)
        <5>1. history # << >>
          BY <4>1
        <5>2. migration_files[old.done[j - Len(history)].name] # 0
          BY <1>1, <1>3, <2>2, <3>2 DEF CallOrder
        <5>3. ledger[old.done[j - Len(history)].name] # 0
          BY <1>4, <2>1, <3>2, <5>1, <5>2 DEF OrderInv
        <5> QED
          BY <1>5, <3>2, <5>3
      <4>2. CASE /\ i - Len(history) \in 1..Len(old.done)
                 /\ history'[i] = old.done[i - Len(history)].name
        <5>1. i - Len(history) < j - Len(history)
          BY <1>8, <1>10, <2>5
        <5> QED
          BY <1>5, <3>2, <4>2, <5>1
      <4> QED
        BY <1>11, <4>1, <4>2
    <3> QED
      BY <1>11, <3>1, <3>2
  <2> QED
    BY <2>3, <2>4, <2>5
<1> QED
  BY <1>17, <1>18, <1>19, <1>22, <1>23 DEF MigInv

(* A change to the directory touches no call (Edit).                       *)
LEMMA EditStep ==
  ASSUME MigInv, NEW n \in Numbers, Migration!Edit(n)
  PROVE  MigInv'
<1>1. /\ call' = call /\ ledger' = ledger /\ schema' = schema /\ history' = history
      /\ edits' = edits + 1
  BY DEF Migration!Edit, Migration!database
<1>2. MigType'
  BY <1>1 DEF MigInv, MigType, Migration!Edit
<1>3. (\A m \in Migrators : CallOK(call[m]))' /\ HeldOnce' /\ LedgerInv'
  BY <1>1 DEF MigInv, CallOK, Applying, HeldOnce, Holds, Did, LedgerInv
<1>4. OrderInv'
  BY <1>1 DEF MigInv, MigType, OrderInv
<1> QED
  BY <1>2, <1>3, <1>4 DEF MigInv

(* Every step of a deployment or a call keeps the invariant.               *)
LEMMA MigStep ==
  ASSUME Numbers \subseteq Nat, MigInv, [Migration!Next]_(Migration!vars)
  PROVE  MigInv'
<1>1. CASE UNCHANGED Migration!vars
  BY <1>1 DEF Migration!vars, MigInv, MigType, CallOK, Applying, HeldOnce, Holds, Did, LedgerInv,
              OrderInv, CallOrder
<1>2. ASSUME NEW m \in Migrators, Migration!Break(m) PROVE MigInv'
  BY <1>2, AbortStep DEF Migration!Break, Migration!database
<1>3. ASSUME NEW m \in Migrators, Migration!apply_migrations(m) PROVE MigInv'
  BY <1>3, StartStep, DiscoverStep, SelectStep, ExecuteStep, InsertStep, CommitStep
  DEF Migration!apply_migrations
<1> QED
  BY <1>1, <1>2, <1>3, EditStep DEF Migration!Next

(* The invariant says what the project promises of the migrations.         *)
LEMMA MigInvGives ==
  ASSUME Numbers \subseteq Nat, MigInv
  PROVE  Migration!MigrationsAreSerial
<1>1. history \in Seq(Numbers) /\ DOMAIN history = 1..Len(history) /\ LedgerInv
  BY DEF MigInv, MigType
<1>2. Migration!AppliedOnce
  BY <1>1 DEF Migration!AppliedOnce, LedgerInv
<1>3. Migration!AppliedInOrder
  BY <1>1 DEF Migration!AppliedInOrder, MigInv, OrderInv
<1>4. Migration!NoMutualWait
  <2> SUFFICES ASSUME NEW a \in Migrators, NEW b \in Migrators, a # b,
                      call[a].pc = "apply", Migration!HeldBy(b, call[a].name),
                      call[b].pc = "apply", Migration!HeldBy(a, call[b].name)
               PROVE  FALSE
    BY DEF Migration!NoMutualWait, Migration!At
  <2>1. Did(call[b], call[a].name) /\ Did(call[a], call[b].name)
    BY HoldsMeans DEF Holds, MigInv
  <2>2. CallOK(call[a]) /\ CallOK(call[b])
    BY DEF MigInv
  <2>3. call[a].name < call[b].name /\ call[b].name < call[a].name
    BY <2>1, <2>2 DEF CallOK, Applying, Did
  <2>4. call[a].name \in Nat /\ call[b].name \in Nat
    BY DEF MigInv, MigType, CallRecord
  <2> QED
    BY <2>3, <2>4
<1> QED
  BY <1>2, <1>3, <1>4 DEF Migration!MigrationsAreSerial

(* For any number of calls, files and edits: overlapping, failing and      *)
(* killed calls of apply_migrations execute each migration once, record    *)
(* exactly what they executed, in the order of the numbers as long as the  *)
(* directory stays as it is, and never wait for each other.                *)
THEOREM MigrationsAlwaysSerial ==
  ASSUME Numbers \subseteq Nat
  PROVE  Migration!Spec => []MigrationsAreSerial
<1>1. Migration!Init => MigInv
  <2> SUFFICES ASSUME Migration!Init PROVE MigInv
    OBVIOUS
  <2>1. /\ Migration!Idle \in CallRecord /\ Migration!Idle.pc = "idle" /\ Migration!Idle.done = << >>
        /\ Len(Migration!Idle.done) = 0 /\ Migration!Idle.plan = {}
    BY DEF Migration!Idle, CallRecord
  <2>2. /\ edits = 0 /\ ledger = [n \in Numbers |-> 0] /\ schema = [n \in Numbers |-> {}]
        /\ history = << >> /\ Len(history) = 0 /\ call = [m \in Migrators |-> Migration!Idle]
        /\ migration_files \in [Numbers -> {0, 1}]
    BY DEF Migration!Init
  <2> HIDE DEF Migration!Idle
  <2>3. MigType
    BY <2>1, <2>2 DEF MigType
  <2>4. \A m \in Migrators : CallOK(call[m]) /\ CallOrder(call[m]) /\ \A k : ~Holds(call[m], k)
    BY <2>1, <2>2 DEF CallOK, CallOrder, Holds, Did, Applying
  <2>5. HeldOnce /\ LedgerInv /\ OrderInv
    BY <2>2, <2>4 DEF HeldOnce, LedgerInv, OrderInv
  <2> QED
    BY <2>3, <2>4, <2>5 DEF MigInv
<1>2. MigInv /\ [Migration!Next]_(Migration!vars) => MigInv'
  BY MigStep
<1>3. MigInv => MigrationsAreSerial
  BY MigInvGives DEF MigrationsAreSerial
<1> QED
  BY <1>1, <1>2, <1>3, PTL DEF Migration!Spec

(* ------------------------ the evidence of a release ------------------------- *)

(***************************************************************************)
(* A certificate is two readings away from the files and these are one     *)
(* write away from the runs, so the invariant follows the evidence back:   *)
(* what the certification has read (ReadingsBacked), what the files say    *)
(* (FilesBacked), what a gate is about to write (WritersTruthful).  Each   *)
(* is about a run in `log`, and stays true because a run that passed is    *)
(* never made to fail (LogKept): a gate writes the outcome of its own run  *)
(* only, which until then has not passed.                                  *)
(***************************************************************************)

GateRunRecord ==
  [gate : {8, 9}, sha : Nat, passed : BOOLEAN, round_trip : BOOLEAN]
ReportRecord ==
  [run : Nat, sha : Nat, verdict : {"PASS", "FAIL"},
   level : {"INTEGRATION", "LIVE", "IN_PROCESS"}, simulated : BOOLEAN]

CertRecord ==
  [pc : {"idle", "phase8", "phase9", "fallback", "write"}, sha : Nat,
   passed8 : BOOLEAN, profiles : SUBSET {"openai", "fallback"}]

CertType ==
  /\ git_head \in Nat /\ up \subseteq Certification!Services
  /\ evidence_files \in [Certification!Names -> SUBSET ReportRecord]
  /\ log \in Seq(GateRunRecord)
  /\ gate8 \in [pc : {"idle", "broker", "kafka", "database", "postgres", "malformed",
                      "abnormal", "write"},
                run : Nat, sha : Nat, passed : BOOLEAN]
  /\ gate9 \in [pc : {"idle", "write", "fill"}, name : {"openai", "fallback"},
                report : SUBSET ReportRecord]
  /\ cert \in CertRecord

(* A Phase 8 run, and a Phase 9 run with its round trip, labelled with a       *)
(* commit, passed.                                                             *)
Backed8(sha) == \E i \in DOMAIN log :
  log[i].gate = 8 /\ log[i].sha = sha /\ log[i].passed = TRUE
Backed9(sha) == \E i \in DOMAIN log :
  /\ log[i].gate = 9 /\ log[i].sha = sha /\ log[i].passed = TRUE
  /\ log[i].round_trip = TRUE

(* A Phase 9 report that could certify was written by such a run. *)
Truthful9(r) == r.verdict = "PASS" /\ r.simulated = FALSE => Backed9(r.sha)

WritersTruthful ==
  /\ gate8.pc # "idle" =>
       /\ gate8.run \in DOMAIN log
       /\ log[gate8.run].gate = 8 /\ log[gate8.run].sha = gate8.sha
       /\ log[gate8.run].passed = FALSE
  /\ \A r \in gate9.report : Truthful9(r)

FilesBacked ==
  /\ \A r \in evidence_files["drills"] : r.verdict = "PASS" => Backed8(r.sha)
  /\ \A n \in {"openai", "fallback"} : \A r \in evidence_files[n] : Truthful9(r)

ReadingsBacked ==
  /\ cert.passed8 = TRUE => Backed8(cert.sha)
  /\ cert.profiles # {} => Backed9(cert.sha)
  /\ \A sha \in certificate : Backed8(sha) /\ Backed9(sha)

CertInv == CertType /\ WritersTruthful /\ FilesBacked /\ ReadingsBacked /\ Certification!StackRestored

(* No run loses what it achieved. *)
LogKept == \A i \in DOMAIN log :
  /\ i \in DOMAIN log'
  /\ log'[i].gate = log[i].gate /\ log'[i].sha = log[i].sha
  /\ log'[i].round_trip = log[i].round_trip
  /\ log[i].passed = TRUE => log'[i].passed = TRUE

-----------------------------------------------------------------------------
(* What is backed by the runs stays backed. *)
LEMMA BackedKept ==
  ASSUME LogKept
  PROVE  /\ \A sha : Backed8(sha) => Backed8(sha)'
         /\ \A sha : Backed9(sha) => Backed9(sha)'
  BY DEF LogKept, Backed8, Backed9

(* A gate that starts adds its run after those there were. *)
LEMMA RunAdded ==
  ASSUME NEW S, NEW s \in Seq(S), NEW e \in S
  PROVE  /\ Append(s, e) \in Seq(S) /\ Len(Append(s, e)) = Len(s) + 1
         /\ Len(s) + 1 \in DOMAIN Append(s, e) /\ Append(s, e)[Len(s) + 1] = e
         /\ \A i \in DOMAIN s : i \in DOMAIN Append(s, e) /\ Append(s, e)[i] = s[i]
         /\ Len(s) + 1 \in Nat
  OBVIOUS

(* Nothing has been written, and the stack is up. *)
LEMMA CertInitInv == Certification!Init => CertInv
<1> SUFFICES ASSUME Certification!Init PROVE CertInv
  OBVIOUS
<1>1. CertType
  BY DEF Certification!Init, CertType, Certification!Idle8, Certification!Idle9,
         Certification!Idle, Certification!Names, CertRecord
<1>2. WritersTruthful /\ FilesBacked /\ ReadingsBacked /\ Certification!StackRestored
  BY DEF Certification!Init, WritersTruthful, FilesBacked, ReadingsBacked,
         Certification!StackRestored, Certification!Idle8, Certification!Idle9,
         Certification!Idle, Certification!Names
<1> QED BY <1>1, <1>2 DEF CertInv

(* Commits and deployments: no evidence is touched. *)
LEMMA OutsideStep ==
  ASSUME CertInv, Certification!Commit \/ Certification!Deploy
  PROVE  CertInv'
<1>1. /\ UNCHANGED <<Certification!evidence, gate8, gate9, cert, certificate>>
      /\ git_head' \in Nat /\ up' \subseteq Certification!Services
      /\ Certification!StackRestored'
  BY DEF Certification!Commit, Certification!Deploy, CertInv, CertType, Certification!stack,
         Certification!StackRestored
<1>2. CertType'
  BY <1>1 DEF CertInv, CertType, Certification!evidence
<1>3. LogKept
  BY <1>1 DEF LogKept, Certification!evidence
<1> QED
  BY <1>1, <1>2, <1>3 DEF CertInv, WritersTruthful, FilesBacked, ReadingsBacked,
                          Certification!evidence, Truthful9, Backed8, Backed9

(* A Phase 8 run is logged as not passed before its first drill. *)
LEMMA Start8Step ==
  ASSUME CertInv, NEW sha \in Certification!resolve_git_sha, Certification!run_phase8_live_gate(sha)
  PROVE  CertInv'
<1> DEFINE e == [gate |-> 8, sha |-> sha, passed |-> FALSE, round_trip |-> FALSE]
<1>10. sha \in Nat /\ git_head \in Nat
  BY DEF Certification!resolve_git_sha, CertInv, CertType
<1>1. e \in GateRunRecord /\ e.gate = 8 /\ e.sha = sha /\ e.passed = FALSE
  BY <1>10 DEF GateRunRecord
<1>2. /\ log' = Append(log, e) /\ log \in Seq(GateRunRecord) /\ git_head \in Nat
      /\ gate8.pc = "idle"
      /\ UNCHANGED <<git_head, up, broken, evidence_files, gate9, cert, certificate>>
  BY DEF Certification!run_phase8_live_gate, Certification!stack, CertInv, CertType
<1> HIDE DEF e
<1>3. /\ log' \in Seq(GateRunRecord) /\ Len(log') \in DOMAIN log' /\ log'[Len(log')] = e
      /\ Len(log') \in Nat
      /\ \A i \in DOMAIN log : i \in DOMAIN log' /\ log'[i] = log[i]
  BY <1>1, <1>2, RunAdded
<1>4. LogKept
  BY <1>3 DEF LogKept
<1>5. /\ gate8'.run = Len(log') /\ gate8'.sha = sha
      /\ gate8' \in [pc : {"broker", "write"}, run : Nat, sha : Nat, passed : BOOLEAN]
  BY <1>3, <1>10 DEF Certification!run_phase8_live_gate, Certification!Idle8
<1>6. CertType'
  BY <1>2, <1>3, <1>5 DEF CertInv, CertType
<1>7. WritersTruthful'
  BY <1>1, <1>2, <1>3, <1>4, <1>5, BackedKept DEF CertInv, WritersTruthful, Truthful9
<1>8. FilesBacked' /\ ReadingsBacked'
  BY <1>2, <1>4, BackedKept DEF CertInv, FilesBacked, ReadingsBacked, Truthful9
<1>9. Certification!StackRestored'
  BY <1>2 DEF CertInv, Certification!StackRestored, Certification!Services
<1> QED BY <1>6, <1>7, <1>8, <1>9 DEF CertInv

(* The drills: a service that is stopped is in its own drill, and leaves   *)
(* it started or broken; one stopped by a stop that failed is broken.      *)
LEMMA DrillStep ==
  ASSUME CertInv, Certification!_execute_runtime_drills
  PROVE  CertInv'
<1>1. /\ UNCHANGED <<git_head, Certification!evidence, gate9, cert, certificate>>
      /\ up' \subseteq Certification!Services
      /\ gate8.pc # "idle"
      /\ Certification!StackRestored'
  BY DEF Certification!_execute_runtime_drills, Certification!DrillRaises,
         Certification!StopService, Certification!StartService, Certification!SimpleDrill,
         Certification!Fails, Certification!Observe, CertInv, CertType, Certification!stack,
         Certification!StackRestored, Certification!Services
<1>2. /\ gate8'.run = gate8.run /\ gate8'.sha = gate8.sha
      /\ gate8' \in [pc : {"kafka", "database", "postgres", "malformed", "abnormal", "write"},
                     run : Nat, sha : Nat, passed : BOOLEAN]
  <2>1. \E next \in {"kafka", "database", "postgres", "malformed", "abnormal", "write"},
           passed \in BOOLEAN :
          \/ gate8' = [gate8 EXCEPT !.pc = next]
          \/ gate8' = [gate8 EXCEPT !.pc = next, !.passed = passed]
    <3>1. ASSUME NEW next, Certification!Observe(next)
          PROVE  \E passed \in BOOLEAN : gate8' = [gate8 EXCEPT !.pc = next, !.passed = passed]
      BY <3>1 DEF Certification!Observe
    <3> QED
      BY <3>1 DEF Certification!_execute_runtime_drills, Certification!DrillRaises,
                  Certification!StopService, Certification!StartService,
                  Certification!SimpleDrill, Certification!Fails
  <2> QED BY <2>1 DEF CertInv, CertType
<1>3. CertType'
  BY <1>1, <1>2 DEF CertInv, CertType, Certification!evidence
<1>4. WritersTruthful' /\ FilesBacked' /\ ReadingsBacked'
  BY <1>1, <1>2
  DEF CertInv, WritersTruthful, FilesBacked, ReadingsBacked, Certification!evidence, Truthful9,
      Backed8, Backed9
<1> QED BY <1>1, <1>3, <1>4 DEF CertInv

(* The report of a Phase 8 run says PASS exactly when the run passed. *)
LEMMA Report8Step ==
  ASSUME CertInv, Certification!_write_live_report
  PROVE  CertInv'
<1> DEFINE r == Certification!Report(gate8.run, gate8.sha, IF gate8.passed THEN "PASS" ELSE "FAIL",
                       "INTEGRATION", FALSE)
<1>1. /\ r \in ReportRecord /\ r.sha = gate8.sha
      /\ r.verdict = "PASS" => gate8.passed = TRUE
  BY DEF CertInv, CertType, Certification!Report, ReportRecord
<1>2. /\ gate8.pc = "write" /\ gate8' = Certification!Idle8
      /\ evidence_files' = [evidence_files EXCEPT !["drills"] = {r}]
      /\ log' = [log EXCEPT ![gate8.run].passed = gate8.passed]
      /\ UNCHANGED <<git_head, up, broken, gate9, cert, certificate>>
  BY DEF Certification!_write_live_report, Certification!stack
<1> HIDE DEF r
<1>3. /\ gate8.run \in DOMAIN log /\ log \in Seq(GateRunRecord) /\ gate8.passed \in BOOLEAN
      /\ log[gate8.run].gate = 8 /\ log[gate8.run].sha = gate8.sha
      /\ log[gate8.run].passed = FALSE
  BY <1>2 DEF CertInv, CertType, WritersTruthful
<1>4. /\ DOMAIN log' = DOMAIN log
      /\ \A i \in DOMAIN log : i # gate8.run => log'[i] = log[i]
      /\ log'[gate8.run] = [log[gate8.run] EXCEPT !.passed = gate8.passed]
  BY <1>2, <1>3
<1>5. /\ log[gate8.run] \in GateRunRecord /\ log'[gate8.run] \in GateRunRecord
      /\ log'[gate8.run].gate = 8 /\ log'[gate8.run].sha = gate8.sha
      /\ log'[gate8.run].passed = gate8.passed
      /\ log'[gate8.run].round_trip = log[gate8.run].round_trip
  <2>1. log[gate8.run] \in GateRunRecord
    BY <1>3
  <2>2. ASSUME NEW x \in GateRunRecord, NEW b \in BOOLEAN
        PROVE  /\ [x EXCEPT !.passed = b] \in GateRunRecord
               /\ [x EXCEPT !.passed = b].gate = x.gate
               /\ [x EXCEPT !.passed = b].sha = x.sha
               /\ [x EXCEPT !.passed = b].passed = b
               /\ [x EXCEPT !.passed = b].round_trip = x.round_trip
    BY DEF GateRunRecord
  <2> QED BY <1>3, <1>4, <2>1, <2>2
<1>6. LogKept
  BY <1>3, <1>4, <1>5 DEF LogKept
<1>7. log' \in Seq(GateRunRecord)
  BY <1>2, <1>3, <1>4, <1>5
<1>8. CertType' /\ Certification!StackRestored'
  <2>1. CertType'
    BY <1>1, <1>2, <1>7 DEF CertInv, CertType, Certification!Idle8
  <2>2. Certification!StackRestored'
    BY <1>2 DEF CertInv, Certification!StackRestored, Certification!Services
  <2> QED BY <2>1, <2>2
<1>9. \A sha : gate8.passed = TRUE /\ sha = gate8.sha => Backed8(sha)'
  BY <1>3, <1>4, <1>5 DEF Backed8
<1>10. evidence_files' \in [Certification!Names -> SUBSET ReportRecord] /\ evidence_files'["drills"] = {r}
       /\ evidence_files'["openai"] = evidence_files["openai"] /\ evidence_files'["fallback"] = evidence_files["fallback"]
  BY <1>1, <1>2 DEF CertInv, CertType, Certification!Names
<1>11. FilesBacked'
  BY <1>1, <1>6, <1>9, <1>10, BackedKept DEF CertInv, FilesBacked, Truthful9
<1>12. WritersTruthful' /\ ReadingsBacked'
  BY <1>2, <1>6, BackedKept DEF CertInv, WritersTruthful, ReadingsBacked, Truthful9,
                                Certification!Idle8
<1> QED BY <1>8, <1>11, <1>12 DEF CertInv

(* A gate that is killed leaves its service broken and writes nothing. *)
LEMMA KillStep ==
  ASSUME CertInv, Certification!Kill8 \/ Certification!Kill9
  PROVE  CertInv'
<1>1. /\ UNCHANGED <<git_head, up, evidence_files, log, cert, certificate>>
      /\ gate8' = Certification!Idle8 \/ gate8' = gate8
      /\ gate9' = Certification!Idle9 \/ gate9' = gate9
  BY DEF Certification!Kill8, Certification!Kill9, Certification!evidence,
         Certification!stack
<1>2. Certification!StackRestored'
  BY DEF Certification!Kill8, Certification!Kill9, Certification!stack, CertInv,
         Certification!StackRestored, Certification!Idle8
<1>3. CertType'
  <2>1. /\ Certification!Idle8 \in [pc : {"idle"}, run : Nat, sha : Nat, passed : BOOLEAN]
        /\ Certification!Idle9 \in [pc : {"idle"}, name : {"openai", "fallback"},
                      report : SUBSET ReportRecord]
    BY DEF Certification!Idle8, Certification!Idle9
  <2> QED BY <1>1, <2>1 DEF CertInv, CertType
<1>4. WritersTruthful' /\ FilesBacked' /\ ReadingsBacked'
  BY <1>1 DEF CertInv, WritersTruthful, FilesBacked, ReadingsBacked, Truthful9, Backed8,
              Backed9, Certification!Idle8, Certification!Idle9
<1> QED BY <1>2, <1>3, <1>4 DEF CertInv

(* A Phase 9 report without simulated parts says PASS only of a run that   *)
(* made the round trip and passed.                                         *)
LEMMA Start9Step ==
  ASSUME CertInv, NEW kind \in Certification!Kinds, NEW ok \in BOOLEAN,
         NEW sha \in Certification!resolve_git_sha, Certification!run_phase9_live_gate(kind, ok, sha)
  PROVE  CertInv'
<1> DEFINE e == [gate |-> 9, sha |-> sha, passed |-> ok,
                 round_trip |-> ~kind.simulated]
           r == Certification!Report(Len(log'), sha, IF ok THEN "PASS" ELSE "FAIL", kind.level,
                       kind.simulated)
<1>1. /\ kind.name \in {"openai", "fallback"} /\ kind.simulated \in BOOLEAN
      /\ kind.level \in {"INTEGRATION", "LIVE", "IN_PROCESS"}
  <2>1. ASSUME NEW n \in {"openai", "fallback"}, NEW s \in BOOLEAN, NEW m \in BOOLEAN,
               NEW l \in {"INTEGRATION", "LIVE", "IN_PROCESS"},
               kind = [name |-> n, level |-> l, simulated |-> s, may |-> m]
        PROVE  /\ kind.name \in {"openai", "fallback"} /\ kind.simulated \in BOOLEAN
               /\ kind.level \in {"INTEGRATION", "LIVE", "IN_PROCESS"}
    BY <2>1
  <2>2. \/ kind = [name |-> "openai", level |-> "LIVE", simulated |-> FALSE, may |-> TRUE]
        \/ kind = [name |-> "fallback", level |-> "INTEGRATION", simulated |-> FALSE,
                   may |-> TRUE]
        \/ kind = [name |-> "openai", level |-> "LIVE", simulated |-> TRUE, may |-> TRUE]
        \/ kind = [name |-> "fallback", level |-> "IN_PROCESS", simulated |-> TRUE,
                   may |-> TRUE]
        \/ kind = [name |-> "fallback", level |-> "IN_PROCESS", simulated |-> TRUE,
                   may |-> FALSE]
    BY Zenon DEF Certification!Kinds
  <2> QED BY <2>1, <2>2
<1>2. /\ log \in Seq(GateRunRecord) /\ git_head \in Nat
      /\ UNCHANGED <<git_head, up, broken, evidence_files, gate8, cert, certificate>>
  BY DEF Certification!run_phase9_live_gate, Certification!stack, CertInv, CertType
<1>14. sha \in Nat
  BY <1>2 DEF Certification!resolve_git_sha
<1>3. log' = Append(log, e)
  BY DEF Certification!run_phase9_live_gate
<1>4. gate9' = [pc |-> "write", name |-> kind.name, report |-> {r}]
  BY DEF Certification!run_phase9_live_gate
<1>5. /\ e \in GateRunRecord /\ e.gate = 9 /\ e.sha = sha /\ e.passed = ok
      /\ e.round_trip = TRUE <=> kind.simulated = FALSE
  BY <1>1, <1>2, <1>14 DEF GateRunRecord
<1>6. /\ log' \in Seq(GateRunRecord) /\ Len(log') \in DOMAIN log' /\ log'[Len(log')] = e
      /\ Len(log') \in Nat
      /\ \A i \in DOMAIN log : i \in DOMAIN log' /\ log'[i] = log[i]
  <2> HIDE DEF e
  <2> QED BY <1>2, <1>3, <1>5, RunAdded
<1>7. /\ r \in ReportRecord /\ r.sha = sha /\ r.simulated = kind.simulated
      /\ r.verdict = "PASS" => ok = TRUE
  BY <1>1, <1>14, <1>6 DEF Certification!Report, ReportRecord
<1> HIDE DEF e, r
<1>8. LogKept
  BY <1>6 DEF LogKept
<1>9. CertType'
  BY <1>1, <1>2, <1>4, <1>6, <1>7 DEF CertInv, CertType
<1>10. \A x : x = r => Truthful9(x)'
  BY <1>5, <1>6, <1>7 DEF Truthful9, Backed9
<1>11. WritersTruthful'
  <2>1. gate9'.report = {r}
    BY <1>4
  <2>2. (\A x \in gate9.report : Truthful9(x))'
    BY <1>10, <2>1
  <2>3. gate8.pc # "idle" => /\ gate8.run \in DOMAIN log'
                             /\ log'[gate8.run] = log[gate8.run]
    BY <1>6 DEF CertInv, WritersTruthful
  <2> QED BY <1>2, <2>2, <2>3 DEF CertInv, WritersTruthful
<1>12. FilesBacked' /\ ReadingsBacked'
  BY <1>2, <1>8, BackedKept DEF CertInv, FilesBacked, ReadingsBacked, Truthful9
<1>13. Certification!StackRestored'
  BY <1>2 DEF CertInv, Certification!StackRestored
<1> QED BY <1>9, <1>11, <1>12, <1>13 DEF CertInv

(* The Phase 9 report is emptied and then filled: no reader finds in it    *)
(* what the gate did not hand over.                                        *)
LEMMA Write9Step ==
  ASSUME CertInv, Certification!Truncate9 \/ Certification!Fill9
  PROVE  CertInv'
<1>1. /\ UNCHANGED <<git_head, up, broken, log, gate8, cert, certificate>>
      /\ gate9' \in [pc : {"idle", "write", "fill"}, name : {"openai", "fallback"},
                     report : SUBSET ReportRecord]
      /\ gate9'.report \subseteq gate9.report
  BY DEF Certification!Truncate9, Certification!Fill9, Certification!stack, CertInv, CertType,
         Certification!Idle9
<1>2. /\ evidence_files' \in [Certification!Names -> SUBSET ReportRecord]
      /\ evidence_files'["drills"] = evidence_files["drills"]
      /\ \A n \in {"openai", "fallback"} : evidence_files'[n] \subseteq evidence_files[n] \cup gate9.report
  BY DEF Certification!Truncate9, Certification!Fill9, CertInv, CertType, Certification!Names
<1>3. CertType'
  BY <1>1, <1>2 DEF CertInv, CertType
<1>4. WritersTruthful' /\ ReadingsBacked' /\ Certification!StackRestored'
  BY <1>1 DEF CertInv, WritersTruthful, ReadingsBacked, Certification!StackRestored, Truthful9,
              Backed8, Backed9
<1>5. FilesBacked'
  BY <1>1, <1>2 DEF CertInv, FilesBacked, WritersTruthful, Truthful9, Backed8, Backed9
<1> QED BY <1>3, <1>4, <1>5 DEF CertInv

(* The certification keeps what it read of each phase, and certifies on    *)
(* both.                                                                   *)
LEMMA CertifyStep ==
  ASSUME CertInv, Certification!evaluate
  PROVE  CertInv'
<1>1. UNCHANGED <<git_head, up, broken, evidence_files, log, gate8, gate9>>
  BY DEF Certification!evaluate, Certification!CertifyStart, Certification!ReadPhase8,
         Certification!ReadPhase9, Certification!ReadProfile, Certification!WriteCertificate,
         Certification!Certifying, Certification!evidence, Certification!stack
<1>2. CertType' /\ ReadingsBacked'
  <2>1. CASE \E sha \in 1..MaxCommits : Certification!CertifyStart(sha)
    <3>1. PICK sha \in 1..MaxCommits : Certification!CertifyStart(sha)
      BY <2>1
    <3>2. sha \in Nat /\ UNCHANGED certificate
      BY <3>1 DEF Certification!CertifyStart, CertInv, CertType
    <3>3. cert' \in CertRecord /\ cert'.passed8 = FALSE /\ cert'.profiles = {}
      BY <3>1, <3>2 DEF Certification!CertifyStart, Certification!Idle, CertRecord
    <3> QED BY <1>1, <3>2, <3>3 DEF CertInv, CertType, ReadingsBacked, Backed8, Backed9
  <2>2. CASE Certification!ReadPhase8
    <3>1. Certification!Valid("drills", cert.sha) # {} => Backed8(cert.sha)
      BY DEF Certification!Valid, Certification!_verify_release_evidence,
             Certification!_report_matches_git_sha, CertInv, FilesBacked
    <3> DEFINE valid == Certification!Valid("drills", cert.sha) # {}
    <3>2. /\ cert' = [cert EXCEPT !.passed8 = valid, !.pc = IF valid THEN "phase9" ELSE "write"]
          /\ UNCHANGED certificate
      BY <2>2 DEF Certification!ReadPhase8
    <3>3. valid \in BOOLEAN
      OBVIOUS
    <3> HIDE DEF valid
    <3>4. /\ cert' \in CertRecord
          /\ cert'.sha = cert.sha /\ cert'.profiles = cert.profiles /\ cert'.passed8 = valid
      BY <3>2, <3>3 DEF CertInv, CertType, CertRecord
    <3>5. cert'.passed8 = TRUE => Backed8(cert.sha)
      BY <3>1, <3>4 DEF valid
    <3> QED BY <1>1, <3>2, <3>4, <3>5
            DEF CertInv, CertType, ReadingsBacked, Backed8, Backed9
  <2>3. CASE Certification!ReadPhase9
    <3>1. PICK name \in {"openai", "fallback"}, next \in {"fallback", "write"} :
            /\ cert' = [cert EXCEPT !.pc = next,
                 !.profiles = IF Certification!Valid(name, cert.sha) # {} THEN @ \cup {name} ELSE @]
            /\ UNCHANGED certificate
      BY <2>3 DEF Certification!ReadPhase9, Certification!ReadProfile
    <3>2. Certification!Valid(name, cert.sha) # {} => Backed9(cert.sha)
      BY DEF Certification!Valid, Certification!_verify_release_evidence,
             Certification!_report_matches_git_sha, CertInv, FilesBacked, Truthful9, CertType,
             ReportRecord, Certification!Names
    <3>3. PICK found : found = IF Certification!Valid(name, cert.sha) # {}
                               THEN cert.profiles \cup {name} ELSE cert.profiles
      OBVIOUS
    <3>4. cert' = [cert EXCEPT !.pc = next, !.profiles = found]
      BY <3>1, <3>3
    <3>5. found \subseteq {"openai", "fallback"} /\ (found # {} => Backed9(cert.sha))
      BY <3>2, <3>3 DEF CertInv, CertType, CertRecord, ReadingsBacked
    <3>6. /\ cert' \in CertRecord
          /\ cert'.sha = cert.sha /\ cert'.passed8 = cert.passed8 /\ cert'.profiles = found
      BY <3>4, <3>5 DEF CertInv, CertType, CertRecord
    <3> QED BY <1>1, <3>1, <3>5, <3>6 DEF CertInv, CertType, ReadingsBacked, Backed8, Backed9
  <2>4. CASE Certification!WriteCertificate
    <3>1. cert' = Certification!Idle /\ certificate' \subseteq {cert.sha}
          /\ (certificate' # {} => cert.passed8 = TRUE /\ cert.profiles # {})
      BY <2>4 DEF Certification!WriteCertificate, Certification!Unambiguous, CertInv, CertType, CertRecord
    <3>2. cert' \in CertRecord /\ cert'.passed8 = FALSE /\ cert'.profiles = {}
      BY <3>1 DEF Certification!Idle, CertRecord
    <3> QED BY <1>1, <3>1, <3>2 DEF CertInv, CertType, ReadingsBacked, Backed8, Backed9
  <2> QED BY <2>1, <2>2, <2>3, <2>4 DEF Certification!evaluate
<1>3. WritersTruthful' /\ FilesBacked' /\ Certification!StackRestored'
  BY <1>1 DEF CertInv, WritersTruthful, FilesBacked, Certification!StackRestored, Truthful9,
              Backed8, Backed9
<1> QED BY <1>2, <1>3 DEF CertInv

-----------------------------------------------------------------------------
(* The evidence is followed back to the runs in every reachable state. *)
LEMMA CertAlwaysInv == Certification!Spec => []CertInv
<1>1. CertInv /\ [Certification!Next]_(Certification!vars) => CertInv'
  <2> SUFFICES ASSUME CertInv, [Certification!Next]_(Certification!vars) PROVE CertInv'
    OBVIOUS
  <2>1. CASE UNCHANGED Certification!vars
    BY <2>1 DEF Certification!vars, CertInv, CertType, WritersTruthful, FilesBacked,
                ReadingsBacked, Certification!StackRestored, Truthful9, Backed8, Backed9
  <2>2. CASE Certification!Next
    BY <2>2, OutsideStep, Start8Step, DrillStep, Report8Step, KillStep, Start9Step, Write9Step,
       CertifyStep DEF Certification!Next
  <2> QED BY <2>1, <2>2
<1> QED BY CertInitInv, <1>1, PTL DEF Certification!Spec

(* A certificate rests on a Phase 8 run in which every drill passed and a  *)
(* Phase 9 run that made the round trip and passed, both labelled with its *)
(* commit by whoever started them, however many runs, kills, commits and   *)
(* deployments lie between                                                 *)
(* (release_certification.py, phase8_live_gate.py, phase9_live_gate.py).   *)
THEOREM CertifiedAlwaysBacked == Certification!Spec => []CertifiedIsBacked
<1>1. CertInv => CertifiedIsBacked
  BY DEF CertInv, ReadingsBacked, CertifiedIsBacked, Certification!CertifiedIsBacked, Backed8,
         Backed9
<1> QED BY CertAlwaysInv, <1>1, PTL

(* The finally clauses of the drills: a service is down only during its    *)
(* own drill, or because it did not start again, a stop that failed had    *)
(* stopped it, or the gate was killed.                                     *)
THEOREM StackAlwaysRestored == Certification!Spec => []StackRestored
<1>1. CertInv => StackRestored
  BY DEF CertInv, StackRestored
<1> QED BY CertAlwaysInv, <1>1, PTL

=============================================================================
