---------------------------- MODULE ModelPackage ----------------------------
(***************************************************************************)
(* Building a model package: build_champion_package and                    *)
(* build_research_candidate_package copy the artifacts of a run into a     *)
(* temporary directory, hash them, write the manifest and rename the       *)
(* directory into place.  The champion builder names its temporary         *)
(* directory by the second and takes one that exists; the research builder *)
(* names it by its process and insists on a new one.                       *)
(*                                                                         *)
(* A file is what it was made from: an artifact is the run it came from    *)
(* ("" when there is no such file), a manifest the run it describes and    *)
(* the content it recorded for each artifact.                              *)
(***************************************************************************)
EXTENDS Naturals, Sequences, FiniteSets

CONSTANTS
  ChampionBuilders,  \* calls of build_champion_package
  ResearchBuilders,  \* calls of build_research_candidate_package
  FeasibleRuns,      \* runs with a FEASIBLE champion manifest
  NotFeasibleRuns,   \* runs with a NOT FEASIBLE run manifest
  MaxTime            \* bound: seconds of the clock

Builders == ChampionBuilders \cup ResearchBuilders
Runs == FeasibleRuns \cup NotFeasibleRuns
Order == <<"detector", "baseline", "golden", "drift">>
Artifacts == {Order[i] : i \in 1..Len(Order)}
NoFile == [run |-> "", hashes |-> [a \in Artifacts |-> ""]]
EmptyDir == [files |-> [a \in Artifacts |-> ""], manifest |-> NoFile]

VARIABLES
  clock,    \* the current second
  temps,    \* the temporary directories: name -> {} or one directory
  output,   \* the package directory: {} or one directory
  builder,  \* the builders
  shared    \* history: two builders at work had one temporary directory

vars == <<clock, temps, output, builder, shared>>

NoTemp == <<0, "none">>
Names == ((1..MaxTime) \X {"second"}) \cup ({0} \X Builders)
Idle == [pc |-> "idle", run |-> "", temp |-> NoTemp, copied |-> 0,
         hashes |-> NoFile.hashes, anchor |-> NoFile]

Init ==
  /\ clock = 1
  /\ temps = [n \in Names |-> {}]
  /\ output = {}
  /\ builder = [b \in Builders |-> Idle]
  /\ shared = FALSE

Tick == clock < MaxTime /\ clock' = clock + 1
        /\ UNCHANGED <<temps, output, builder, shared>>

To(b, pc) == builder' = [builder EXCEPT ![b].pc = pc]

(* Which runs a builder takes; the artifacts of a champion run are verified *)
(* against its manifest, and the golden cases are chosen.                   *)
Accepts(b) == IF b \in ChampionBuilders THEN FeasibleRuns ELSE NotFeasibleRuns

(* The destination is looked at once, before anything is written. *)
Begin(b) ==
  /\ builder[b].pc = "idle"
  /\ output = {}
  /\ \E run \in Accepts(b) :
       builder' = [builder EXCEPT ![b].pc = "verified", ![b].run = run]
  /\ UNCHANGED <<clock, temps, output, shared>>

TempName(b) ==
  IF b \in ChampionBuilders THEN <<clock, "second">> ELSE <<0, b>>

Busy(b) == builder[b].pc \notin {"idle", "done"}

(* mkdir: exist_ok for the champion builder only, which so enters the       *)
(* directory of a builder of the same second, dead or alive.                *)
MakeTemp(b) ==
  LET name == TempName(b)
  IN  /\ builder[b].pc = "verified"
      /\ IF temps[name] = {}
         THEN /\ temps' = [temps EXCEPT ![name] = {EmptyDir}]
              /\ builder' = [builder EXCEPT ![b].pc = "copying",
                                            ![b].temp = name]
         ELSE /\ temps' = temps
              /\ builder' = [builder EXCEPT
                   ![b] = IF b \in ChampionBuilders
                          THEN [@ EXCEPT !.pc = "copying", !.temp = name]
                          ELSE Idle]
      /\ shared' = (shared \/ \E o \in Builders \ {b} : Busy(o) /\ builder[o].temp = name)
      /\ UNCHANGED <<clock, output>>

Dir(b) == temps[builder[b].temp]

(* Each artifact is copied or written, one after the other. *)
CopyArtifact(b) ==
  LET next == builder[b].copied + 1
  IN  /\ builder[b].pc = "copying" /\ next <= Len(Order)
      /\ \E d \in Dir(b) : temps' = [temps EXCEPT ![builder[b].temp] =
           {[d EXCEPT !.files[Order[next]] = builder[b].run]}]
      /\ builder' = [builder EXCEPT ![b].copied = next]
      /\ UNCHANGED <<clock, output, shared>>

(* Mutant: the hashes are taken before the drift reference is written. *)
HashArtifacts_Early(b) ==
  /\ builder[b].pc = "copying" /\ builder[b].copied >= 3
  /\ \E d \in Dir(b) :
       builder' = [builder EXCEPT ![b].pc = "hashed", ![b].hashes = d.files]
  /\ UNCHANGED <<clock, temps, output, shared>>

(* All artifacts are there and are hashed where they lie. *)
HashArtifacts(b) ==
  /\ builder[b].pc = "copying" /\ builder[b].copied = Len(Order)
  /\ \E d \in Dir(b) :
       /\ \A a \in Artifacts : d.files[a] # ""
       /\ builder' = [builder EXCEPT ![b].pc = "hashed",
                                     ![b].hashes = d.files]
  /\ UNCHANGED <<clock, temps, output, shared>>

WriteManifest(b) ==
  /\ builder[b].pc = "hashed"
  /\ \E d \in Dir(b) :
       temps' = [temps EXCEPT ![builder[b].temp] =
         {[d EXCEPT !.manifest = [run |-> builder[b].run,
                                  hashes |-> builder[b].hashes]]}]
  /\ To(b, "written")
  /\ UNCHANGED <<clock, output, shared>>

(* The manifest's own hash is the trust anchor the builder will report. *)
HashManifest(b) ==
  /\ builder[b].pc = "written"
  /\ \E d \in Dir(b) :
       builder' = [builder EXCEPT ![b].pc = "anchored",
                                  ![b].anchor = d.manifest]
  /\ UNCHANGED <<clock, temps, output, shared>>

(* Renaming onto a directory with files in it fails. *)
Rename(b) ==
  /\ builder[b].pc = "anchored"
  /\ Dir(b) # {} /\ output = {}
  /\ output' = Dir(b)
  /\ temps' = [temps EXCEPT ![builder[b].temp] = {}]
  /\ To(b, "done")
  /\ UNCHANGED <<clock, shared>>

(* An operation raises: a file or directory is gone, the destination is     *)
(* taken, the disk is full.  The temporary directory is removed.            *)
Fail(b) ==
  /\ Busy(b) /\ builder[b].temp # NoTemp
  /\ temps' = [temps EXCEPT ![builder[b].temp] = {}]
  /\ builder' = [builder EXCEPT ![b] = Idle]
  /\ UNCHANGED <<clock, output, shared>>

(* The process is killed; its temporary directory stays. *)
Kill(b) ==
  /\ Busy(b)
  /\ builder' = [builder EXCEPT ![b] = Idle]
  /\ UNCHANGED <<clock, temps, output, shared>>

Build(b) ==
  \/ Begin(b) \/ MakeTemp(b) \/ CopyArtifact(b)
  \/ HashArtifacts(b) \/ WriteManifest(b) \/ HashManifest(b)
  \/ Rename(b) \/ Fail(b) \/ Kill(b)

Next == Tick \/ \E b \in Builders : Build(b)

Spec == Init /\ [][Next]_vars

-----------------------------------------------------------------------------
(* verify_package_files, and load_champion's loop over the artifacts. *)
verify_package_files(d) ==
  /\ d.manifest # NoFile
  /\ \A a \in Artifacts : d.files[a] # "" /\ d.files[a] = d.manifest.hashes[a]

(* A published package verifies and is made of one run only (both           *)
(* builders).                                                               *)
PublishedVerifies ==
  \A d \in output :
    /\ verify_package_files(d)
    /\ \A a \in Artifacts : d.files[a] = d.manifest.run

(* The trust anchor a builder reports is the manifest of the package in     *)
(* place (both builders return the hash they took before the rename).       *)
AnchorIsPublished ==
  \A b \in Builders : builder[b].pc = "done" =>
    output # {} /\ \A d \in output : d.manifest = builder[b].anchor

(* As long as no two builders at work had one temporary directory, a        *)
(* package in place is whole, of one run, and the one whose anchor its      *)
(* builder reported, whoever fails, is killed, finds the destination taken  *)
(* or takes over the directory of a builder that was killed (both builders).*)
PublishedIsWhole == ~shared => PublishedVerifies /\ AnchorIsPublished
=============================================================================
