--------------------------- MODULE ModelLifecycle ---------------------------
(***************************************************************************)
(* The life of a model package after it was built: the Phase 7 gate        *)
(* imports it into MLflow as a candidate run, recomputes its calibration   *)
(* in a reproduction run and writes an attestation; an operator promotes   *)
(* the candidate, which registers it, points the `champion' alias at it    *)
(* and leaves a receipt; the scoring API loads a package, and its          *)
(* readiness probe compares package, receipt and alias.                    *)
(*                                                                         *)
(* Each of these is a process of its own (a command line call, the API),   *)
(* and all of them read files an operator may replace meanwhile, so every  *)
(* look at the manifest, for its content or for its SHA-256, and every     *)
(* write to MLflow is a step; the artifacts of a package are looked at     *)
(* together, with the content that lists their hashes.  A manifest stands  *)
(* for its own SHA-256.                                                    *)
(***************************************************************************)
EXTENDS Naturals, Sequences, FiniteSets, TLC

CONSTANTS
  Champions,      \* manifests of FEASIBLE champion packages
  Research,       \* manifests of research-only packages
  Twins,          \* manifests with the same threshold and golden scores
  Siblings,       \* manifests of the same data, contract and feature schema
  Drifted,        \* manifests whose calibration can not be reproduced
  Commits,        \* Git commits the working tree may be at
  Policies,       \* alert policy files a gate run may be given
  Outputs,        \* receipt paths; InPackage is the one of the README
  InPackage,
  Promoters,      \* concurrent calls of `promote'
  AllowResearch,  \* ALLOW_RESEARCH_CANDIDATE of the API
  MaxChanges,     \* bound: changes an operator makes to package and tree
  MaxRuns,        \* bound: MLflow runs
  MaxVersions     \* bound: registered model versions

Manifests == Champions \cup Research
ZeroSha == "0000000"
Placeholder == "default-locked-policy"

VARIABLES
  package,    \* the champion package directory: {} or one package
  head,       \* the commit the working tree is at
  changes,    \* changes made by the operator so far
  runs,       \* MLflow runs, in order of creation
  gate,       \* the running call of run_phase7_gate
  reports,    \* phase7-gate.json of each commit: {} or one attestation
  model,      \* the registered model exists
  versions,   \* the run of each registered model version
  alias,      \* the version the champion alias names: {} or one
  receipts,   \* the promotion receipt at each path: {} or one
  promoter,   \* the running calls of promote_candidate
  scorer,     \* the package the API loads or has loaded
  answer,     \* the API's (or the model registry's) last answer
  disturbed   \* history: a package was changed under a call reading it

vars == <<package, head, changes, runs, gate, reports, model, versions, alias,
          receipts, promoter, scorer, answer, disturbed>>
mlflow == <<runs, model, versions, alias>>
files == <<package, head, changes, reports, receipts, disturbed>>

(* The data set, contract and feature schema a manifest's content names. *)
Identity(m) == IF m \in Siblings THEN "siblings" ELSE m

(* The identity tags of a run: the SHA-256 of a manifest, and what the     *)
(* content of a manifest says, which may be another one by then.           *)
Tags(state, sha, content, commit, policy) ==
  [state |-> state, package |-> sha, identity |-> Identity(content),
   commit |-> commit, policy |-> policy]

(* What the packaged threshold and golden scores are, and what the packaged *)
(* detector computes when it is run again.                                 *)
Calibration(m) == IF m \in Twins THEN "twins" ELSE m
Recomputed(m) == IF m \in Drifted THEN "drifted" ELSE Calibration(m)

Idle == [pc |-> "idle"]
Last == Len(runs)

Init ==
  /\ package = {} /\ head \in Commits /\ changes = 0
  /\ runs = << >> /\ gate = Idle
  /\ reports = [c \in Commits \cup {ZeroSha} |-> {}]
  /\ model = FALSE /\ versions = << >> /\ alias = {}
  /\ receipts = [o \in Outputs |-> {}]
  /\ promoter = [p \in Promoters |-> Idle]
  /\ scorer = Idle /\ answer = "none" /\ disturbed = FALSE

-----------------------------------------------------------------------------
Change == changes < MaxChanges /\ changes' = changes + 1

(* A call is between two looks at the package. *)
Reading ==
  \/ gate # Idle \/ scorer.pc = "hashed"
  \/ \E p \in Promoters : promoter[p].pc = "read"

(* The operator's hands: build_champion_package and its research twin       *)
(* refuse an existing directory, so replacing a package removes it with     *)
(* the receipt inside; an artifact may be damaged; the tree may move.       *)
ReplacePackage(m) ==
  /\ Change
  /\ package' = {[manifest |-> m, intact |-> TRUE]}
  /\ package' # package
  /\ receipts' = [receipts EXCEPT ![InPackage] = {}]
  /\ disturbed' = (disturbed \/ Reading)
  /\ answer' = "none"
  /\ UNCHANGED <<head, runs, gate, reports, model, versions, alias, promoter,
                 scorer>>

DamagePackage ==
  /\ Change
  /\ \E p \in package : p.intact
  /\ package' = {[p EXCEPT !.intact = FALSE] : p \in package}
  /\ disturbed' = (disturbed \/ Reading)
  /\ answer' = "none"
  /\ UNCHANGED <<head, reports, receipts, mlflow, gate, promoter, scorer>>

Commit ==
  /\ Change
  /\ head' \in Commits \ {head}
  /\ answer' = "none"
  /\ UNCHANGED <<package, reports, receipts, disturbed, mlflow, gate, promoter, scorer>>

(* get_current_git_sha falls back to zeros when git can not answer. *)
get_current_git_sha == {head, ZeroSha}

-----------------------------------------------------------------------------
(* run_phase7_gate reads the threshold it will compare against ... *)
RunGate(policy) ==
  /\ gate = Idle
  /\ \E p \in package :
       gate' = [pc |-> "read", policy |-> policy, expected |-> p.manifest, golden |-> p.manifest,
                sha |-> p.manifest, content |-> p.manifest, commit |-> ZeroSha,
                cand |-> 0, repro |-> 0]
  /\ answer' = "none"
  /\ UNCHANGED <<files, mlflow, promoter, scorer>>

(* The call looks at the package again and keeps what it sees. *)
Look(from, to, field) ==
  /\ gate.pc = from
  /\ \E p \in package : gate' = [gate EXCEPT !.pc = to, ![field] = p.manifest]
  /\ answer' = "none"
  /\ UNCHANGED <<files, mlflow, promoter, scorer>>

(* ... and the golden scores, and imports the package: the SHA-256 of its   *)
(* manifest first ...                                                       *)
ReadGolden == Look("read", "golden", "golden")
HashCandidate == Look("golden", "hashed", "sha")

(* ... then its content; no artifact is verified; the run is tagged ...     *)
import_candidate ==
  /\ gate.pc = "hashed" /\ Last < MaxRuns
  /\ \E p \in package, commit \in get_current_git_sha :
       runs' = Append(runs, [tags |-> Tags("candidate", gate.sha, p.manifest, commit,
                                           gate.policy),
                             model |-> {}, result |-> "none"])
  /\ gate' = [gate EXCEPT !.pc = "tagged", !.cand = Last + 1]
  /\ answer' = "none"
  /\ UNCHANGED <<files, model, versions, alias, promoter, scorer>>

(* ... and the package directory uploaded as it is by then. *)
log_model ==
  /\ gate.pc = "tagged"
  /\ \E p \in package :
       runs' = [runs EXCEPT ![gate.cand].model = {p}]
  /\ gate' = [gate EXCEPT !.pc = "imported"]
  /\ answer' = "none"
  /\ UNCHANGED <<files, model, versions, alias, promoter, scorer>>

(* load_champion: the manifest has the expected SHA-256; then, from its     *)
(* content, a research package needs leave, and every artifact its hash.    *)
HasAnchor(p, expected) == p.manifest = expected
Loads(p, allow) == (p.manifest \in Research => allow) /\ p.intact

(* The reproduction reads the content of the manifest, then its SHA-256     *)
(* and the commit; load_champion takes that SHA-256 for its anchor ...      *)
ReadContent == Look("imported", "opened", "content")

HashReproduced ==
  /\ gate.pc = "opened"
  /\ \E p \in package, commit \in get_current_git_sha :
       gate' = [gate EXCEPT !.pc = "pinned", !.sha = p.manifest, !.commit = commit]
  /\ answer' = "none"
  /\ UNCHANGED <<files, mlflow, promoter, scorer>>

CheckAnchor ==
  /\ gate.pc = "pinned"
  /\ \E p \in package : HasAnchor(p, gate.sha)
  /\ gate' = [gate EXCEPT !.pc = "anchored"]
  /\ answer' = "none"
  /\ UNCHANGED <<files, mlflow, promoter, scorer>>

(* ... and the calibration is computed again with the detector it loads;    *)
(* the run is tagged with the placeholder policy whatever policy the call   *)
(* was given.                                                               *)
reproduce_candidate ==
  /\ gate.pc = "anchored" /\ Last < MaxRuns
  /\ \E p \in package :
       /\ Loads(p, TRUE)
       /\ runs' = Append(runs, [tags |-> Tags("reproduction", gate.sha, gate.content,
                                              gate.commit, Placeholder),
                                model |-> {},
                                result |-> Recomputed(p.manifest)])
  /\ gate' = [gate EXCEPT !.pc = "reproduced", !.repro = Last + 1]
  /\ answer' = "none"
  /\ UNCHANGED <<files, model, versions, alias, promoter, scorer>>

(* evaluate_phase7_gate: same identities, and the recomputed threshold and  *)
(* golden scores are the ones expected when the call began.                 *)
evaluate_phase7_gate(cand, repro, expected, golden) ==
  LET c == runs[cand].tags
      r == runs[repro].tags
  IN  IF /\ c.state = "candidate" /\ r.state = "reproduction"
         /\ r.package = c.package /\ r.identity = c.identity
         /\ r.commit = c.commit /\ r.policy = c.policy
         /\ runs[repro].result = Calibration(expected)
         /\ runs[repro].result = Calibration(golden)
      THEN "PASS" ELSE "FAIL"

Attest ==
  /\ gate.pc = "reproduced"
  /\ reports' = [reports EXCEPT ![runs[gate.cand].tags.commit] =
       {[verdict |-> evaluate_phase7_gate(gate.cand, gate.repro,
                                          gate.expected, gate.golden),
         run |-> gate.cand, repro |-> gate.repro,
         hashes |-> runs[gate.cand].tags]}]
  /\ gate' = Idle
  /\ answer' = "none"
  /\ UNCHANGED <<package, head, changes, receipts, disturbed, mlflow, promoter, scorer>>

(* The call raises or is killed; what it wrote to MLflow stays. *)
GateStops ==
  /\ gate # Idle /\ gate' = Idle
  /\ answer' = "none"
  /\ UNCHANGED <<files, mlflow, promoter, scorer>>

-----------------------------------------------------------------------------
(* _validate_promotion_identity: the tags, the attested hashes and the      *)
(* manifest, its SHA-256 and its content, name the same things.             *)
_validate_promotion_identity(tags, attested, sha, content) ==
  /\ tags = attested.hashes
  /\ tags.package = sha
  /\ tags.identity = Identity(content)

(* What promote_candidate requires of the run, its attestation and the      *)
(* content of the manifest.  The commit the caller expects is the attested  *)
(* one.                                                                     *)
Promotable(run, attested, content) ==
  /\ runs[run].tags.state = "candidate"
  /\ attested.verdict = "PASS"
  /\ attested.run = run
  /\ _validate_promotion_identity(runs[run].tags, attested, attested.hashes.package, content)
  /\ content \in Champions

At(p, pc) == promoter[p].pc = pc
Step(p, pc) == promoter' = [promoter EXCEPT ![p].pc = pc]

(* The call reads the content of the manifest.  One whose preconditions     *)
(* fail raises and leaves everything alone.                                 *)
promote_candidate(p, run, output) ==
  /\ promoter[p] = Idle
  /\ \E c \in DOMAIN reports : \E attested \in reports[c], d \in package :
       /\ Promotable(run, attested, d.manifest)
       /\ promoter' = [promoter EXCEPT ![p] =
            [pc |-> "read", run |-> run, output |-> output,
             package |-> d.manifest, commit |-> attested.hashes.commit]]
  /\ answer' = "none"
  /\ UNCHANGED <<files, mlflow, gate, scorer>>

(* The SHA-256 of the manifest comes from a second look at the file; the    *)
(* receipt's path is free; from here on the registry is written.            *)
CheckManifest(p) ==
  /\ At(p, "read")
  /\ \E d \in package :
       /\ runs[promoter[p].run].tags.package = d.manifest
       /\ receipts[promoter[p].output] = {}
       /\ promoter' = [promoter EXCEPT ![p].pc = "checked", ![p].package = d.manifest]
  /\ answer' = "none"
  /\ UNCHANGED <<files, mlflow, gate, scorer>>

(* MLflow refuses to create a registered model that exists. *)
create_registered_model(p) ==
  /\ At(p, "checked")
  /\ model' = TRUE
  /\ Step(p, IF model THEN "refused" ELSE "registered")
  /\ answer' = "none"
  /\ UNCHANGED <<files, runs, versions, alias, gate, scorer>>

create_model_version(p) ==
  /\ At(p, "registered") /\ Len(versions) < MaxVersions
  /\ versions' = Append(versions, promoter[p].run)
  /\ promoter' = [promoter EXCEPT ![p] =
       [pc |-> "versioned", run |-> @.run, output |-> @.output,
        package |-> @.package, commit |-> @.commit,
        version |-> Len(versions) + 1]]
  /\ answer' = "none"
  /\ UNCHANGED <<files, runs, model, alias, gate, scorer>>

(* The receipt waits in a temporary file while the alias is moved. *)
set_registered_model_alias(p) ==
  /\ At(p, "versioned")
  /\ alias' = {promoter[p].version}
  /\ Step(p, "aliased")
  /\ answer' = "none"
  /\ UNCHANGED <<files, runs, model, versions, gate, scorer>>

PromotionReceipt(p) ==
  [run |-> promoter[p].run, version |-> promoter[p].version,
   package |-> promoter[p].package, commit |-> promoter[p].commit]

(* Mutant: the receipt is put in place before the alias is moved. *)
WriteReceipt_First(p) ==
  /\ At(p, "versioned")
  /\ receipts' = [receipts EXCEPT ![promoter[p].output] =
                                    {PromotionReceipt(p)}]
  /\ answer' = "none"
  /\ UNCHANGED <<package, head, changes, reports, disturbed, mlflow, gate, promoter, scorer>>

(* The temporary file replaces whatever is at the path by now. *)
WriteReceipt(p) ==
  /\ At(p, "aliased")
  /\ receipts' = [receipts EXCEPT ![promoter[p].output] =
                                    {PromotionReceipt(p)}]
  /\ promoter' = [promoter EXCEPT ![p] = Idle]
  /\ answer' = "none"
  /\ UNCHANGED <<package, head, changes, reports, disturbed, mlflow, gate, scorer>>

(* The call fails or is killed between two steps, or has been refused. *)
PromoterStops(p) ==
  /\ promoter[p] # Idle
  /\ promoter' = [promoter EXCEPT ![p] = Idle]
  /\ answer' = "none"
  /\ UNCHANGED <<files, mlflow, gate, scorer>>

-----------------------------------------------------------------------------
(* create_app_from_env: the trust anchor of the environment is the manifest *)
(* the operator means to serve.  Its SHA-256 is checked first ...           *)
create_app_from_env ==
  /\ \E p \in package : \E anchor \in Manifests :
       HasAnchor(p, anchor) /\ scorer' = [pc |-> "hashed", anchor |-> anchor]
  /\ answer' = "none"
  /\ UNCHANGED <<files, mlflow, gate, promoter>>

(* ... and the package loaded from its content and artifacts. *)
LoadScorer ==
  /\ scorer.pc = "hashed"
  /\ \E p \in package :
       /\ Loads(p, AllowResearch)
       /\ scorer' = [pc |-> "loaded", anchor |-> scorer.anchor, manifest |-> p.manifest]
  /\ answer' = "none"
  /\ UNCHANGED <<files, mlflow, gate, promoter>>

(* Loading raises, or the API is stopped. *)
AppStops ==
  /\ scorer # Idle /\ scorer' = Idle
  /\ answer' = "none"
  /\ UNCHANGED <<files, mlflow, gate, promoter>>

(* create_app is given no provenance verifier by create_app_from_env, so    *)
(* only the database has a say.                                             *)
readyz ==
  /\ scorer.pc = "loaded"
  /\ \E database \in {"up", "down"} :
       answer' = IF database = "down" THEN "database" ELSE "ready"
  /\ UNCHANGED <<files, mlflow, gate, promoter, scorer>>

score ==
  /\ scorer.pc = "loaded"
  /\ answer' = "scored"
  /\ UNCHANGED <<files, mlflow, gate, promoter, scorer>>

(* Mutant: the uploaded package vouches for itself. *)
load_context_Unpinned(run) ==
  \E d \in runs[run].model : Loads(d, FALSE)

(* PackagedChampionPyFunc.load_context: the registered model knows the      *)
(* manifest its run was tagged with; nobody replaces MLflow's own copy.     *)
load_context(run) ==
  \E d \in runs[run].model : HasAnchor(d, runs[run].tags.package) /\ Loads(d, FALSE)

(* Somebody loads models:/...@champion from the registry. *)
LoadRegistered ==
  /\ \E v \in alias : load_context(versions[v])
  /\ answer' = "loaded"
  /\ UNCHANGED <<files, mlflow, gate, promoter, scorer>>

Promotion(p) ==
  \/ \E run \in 1..Last, output \in Outputs : promote_candidate(p, run, output)
  \/ CheckManifest(p) \/ create_registered_model(p) \/ create_model_version(p)
  \/ set_registered_model_alias(p) \/ WriteReceipt(p) \/ PromoterStops(p)

Next ==
  \/ \E m \in Manifests : ReplacePackage(m)
  \/ DamagePackage \/ Commit
  \/ \E policy \in Policies \cup {Placeholder} : RunGate(policy)
  \/ ReadGolden \/ HashCandidate \/ import_candidate \/ log_model
  \/ ReadContent \/ HashReproduced \/ CheckAnchor \/ reproduce_candidate
  \/ Attest \/ GateStops
  \/ \E p \in Promoters : Promotion(p)
  \/ create_app_from_env \/ LoadScorer \/ AppStops \/ readyz \/ score \/ LoadRegistered

Spec == Init /\ [][Next]_vars

-----------------------------------------------------------------------------
(* A second, independent run has the same package, data, contract, feature  *)
(* schema, commit and policy ...                                            *)
Confirms(r, run) == runs[r].tags = [runs[run].tags EXCEPT !.state = "reproduction"]
Attested(run) == \E r \in 1..Last : Confirms(r, run)

(* ... and the calibration came out as packaged. *)
Reproduced(run) ==
  \E r \in 1..Last : Confirms(r, run) /\ runs[r].result = Calibration(runs[run].tags.package)

(* The champion alias only ever names a candidate run with an uploaded      *)
(* model and a reproduction run of the same identities, however package     *)
(* directory, tree and calls interleave (promote_candidate's checks).       *)
ChampionAttested ==
  \A v \in alias :
    LET run == versions[v]
    IN  runs[run].tags.state = "candidate" /\ runs[run].model # {} /\ Attested(run)

(* It is of a feasible champion package whose calibration came out the same *)
(* again (promote_candidate, evaluate_phase7_gate).                         *)
ChampionReproduced ==
  \A v \in alias :
    runs[versions[v]].tags.package \in Champions /\ Reproduced(versions[v])

(* What the API has loaded is what its trust anchor names (load_champion). *)
ScorerAnchored == scorer.pc = "loaded" => scorer.manifest = scorer.anchor

(* Every receipt on disk names the version the alias names, and that        *)
(* version's run, package and commit, whichever call crashed in between     *)
(* (promote_candidate's alias, then receipt).                               *)
ReceiptNamesChampion ==
  \A o \in Outputs : \A r \in receipts[o] :
    /\ alias = {r.version}
    /\ versions[r.version] = r.run
    /\ runs[r.run].tags.package = r.package
    /\ runs[r.run].tags.commit = r.commit

(* Whatever loads through the champion alias is an intact champion package  *)
(* of which there is a reproduction run, even if the directory changed      *)
(* between any two looks of the gate or of the promotion                    *)
(* (PackagedChampionPyFunc.load_context).                                   *)
LoadedIsAttested ==
  answer = "loaded" =>
    \E v \in alias : \E d \in runs[versions[v]].model :
      /\ d.intact
      /\ d.manifest \in Champions
      /\ \E r \in 1..Last : /\ runs[r].tags.state = "reproduction"
                            /\ runs[r].tags.package = d.manifest

(* What is promoted is attested and what loads through the alias is an      *)
(* attested champion, whatever happens to the package directory.  As long   *)
(* as nobody changed it under a call that was reading it, what is promoted  *)
(* is a feasible champion whose calibration was reproduced, and what the    *)
(* API serves is what its anchor names.  Two calls apart, packages, tree    *)
(* and policy may change at will.                                           *)
ServedIsReproduced ==
  /\ ChampionAttested /\ LoadedIsAttested
  /\ ~disturbed => ChampionReproduced /\ ScorerAnchored
=============================================================================
