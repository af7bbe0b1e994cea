------------------------ MODULE ReleaseCertification ------------------------
(***************************************************************************)
(* The evidence chain of a release: the Phase 8 gate injects faults into   *)
(* the deployed stack and reports its drills, the Phase 9 gate checks the  *)
(* deployed root-cause analysis (or only in-process doubles of it), and    *)
(* the certification reads both reports for one commit.  The three are     *)
(* separate command lines over one evidence directory and may overlap;     *)
(* meanwhile commits are made, the stack is deployed again and services    *)
(* fail to come back.                                                      *)
(*                                                                         *)
(* A commit is its number.  A report names the run that wrote it and the   *)
(* commit the caller gave it; `log` is what the runs really did.           *)
(***************************************************************************)
EXTENDS Naturals, Sequences

CONSTANTS
  MaxCommits,  \* bound: commits
  MaxRuns      \* bound: gate runs

Services == {"kafka", "postgres"}
Names == {"drills", "openai", "fallback"}

VARIABLES
  head,         \* git HEAD
  up,           \* the services that run
  broken,       \* services whose start failed, whose failing stop worked,
                \* or whose drill was killed
  files,        \* name -> {} (none, or not readable) or {report}
  log,          \* the runs: number -> what the run did
  gate8, gate9, \* the two gates
  cert,         \* the certification
  certificate   \* {}, or the commit of the last one written if it says is_certified

vars == <<head, up, broken, files, log, gate8, gate9, cert,
          certificate>>
stack == <<up, broken>>
evidence == <<files, log>>

Idle8 == [pc |-> "idle", run |-> 0, sha |-> 0, passed |-> TRUE]
Idle9 == [pc |-> "idle", name |-> "fallback", report |-> {}]
Idle == [pc |-> "idle", sha |-> 0, passed8 |-> FALSE, profiles |-> {}]

Init ==
  /\ head = 1 /\ up = Services /\ broken = {}
  /\ files = [n \in Names |-> {}] /\ log = << >>
  /\ gate8 = Idle8 /\ gate9 = Idle9 /\ cert = Idle /\ certificate = {}

Commit ==
  /\ head < MaxCommits /\ head' = head + 1
  /\ UNCHANGED <<stack, evidence, gate8, gate9, cert, certificate>>

(* docker compose up --build, between the gates' runs. *)
Deploy ==
  /\ gate8.pc = "idle" /\ gate9.pc = "idle"
  /\ up' = Services /\ broken' = {}
  /\ UNCHANGED <<head, evidence, gate8, gate9, cert, certificate>>

-----------------------------------------------------------------------------
(* The commit of a report is the caller's argument, which nobody compares   *)
(* with anything, or else HEAD; the stack is not asked what it runs.        *)
resolve_git_sha == 1..head

(* Phase 8. *)
Fails(next) == gate8' = [gate8 EXCEPT !.pc = next, !.passed = FALSE]

run_phase8_live_gate(sha) ==
  /\ gate8.pc = "idle" /\ Len(log) < MaxRuns
  /\ log' = Append(log, [gate |-> 8, sha |-> sha,
                         passed |-> FALSE, round_trip |-> FALSE])
  /\ gate8' = [Idle8 EXCEPT !.run = Len(log'), !.sha = sha,
                 !.pc = IF up = Services THEN "broker" ELSE "write",
                 !.passed = (up = Services)]
  /\ UNCHANGED <<head, stack, files, gate9, cert, certificate>>

(* A drill's observations decide; none passes without its dependencies. *)
Observe(next) ==
  \E ok \in BOOLEAN :
    /\ ok => up' = Services
    /\ gate8' = [gate8 EXCEPT !.pc = next, !.passed = @ /\ ok]

(* Something raises before the try: docker compose stop may have failed and *)
(* stopped the service all the same.                                        *)
DrillRaises(drill, service, next) ==
  /\ gate8.pc = drill /\ Fails(next)
  /\ \/ UNCHANGED stack
     \/ up' = up \ {service} /\ broken' = broken \cup {service}
  /\ UNCHANGED <<head, evidence, gate9, cert, certificate>>

StopService(drill, service) ==
  /\ gate8.pc = drill /\ gate8' = [gate8 EXCEPT !.pc = service]
  /\ up' = up \ {service}
  /\ UNCHANGED <<head, broken, evidence, gate9, cert, certificate>>

(* Mutant: the service is started only when the outage went as expected. *)
StartService_NoFinally(service, next) ==
  /\ gate8.pc = service
  /\ \/ up' = up \cup {service} /\ Observe(next)
     \/ up' = up /\ Fails(next)
  /\ broken' = broken
  /\ UNCHANGED <<head, evidence, gate9, cert, certificate>>

(* The finally clause: docker compose start, whatever the outage did. *)
StartService(service, next) ==
  /\ gate8.pc = service
  /\ \/ up' = up \cup {service} /\ broken' = broken /\ Observe(next)
     \/ up' = up /\ broken' = broken \cup {service} /\ Fails(next)
  /\ UNCHANGED <<head, evidence, gate9, cert, certificate>>

SimpleDrill(drill, next) ==
  /\ gate8.pc = drill
  /\ up' = up /\ Observe(next)
  /\ UNCHANGED <<head, broken, evidence, gate9, cert, certificate>>

(* The four drills, in order; the report is written after the last. *)
_execute_runtime_drills ==
  \/ DrillRaises("broker", "kafka", "database") \/ StopService("broker", "kafka")
  \/ StartService("kafka", "database")
  \/ DrillRaises("database", "postgres", "malformed") \/ StopService("database", "postgres")
  \/ StartService("postgres", "malformed")
  \/ SimpleDrill("malformed", "abnormal") \/ SimpleDrill("abnormal", "write")

(* A report as its file shows it. *)
Report(run, sha, verdict, level, simulated) ==
  [run |-> run, sha |-> sha, verdict |-> verdict, level |-> level,
   simulated |-> simulated]

(* BLOCKED and FAIL reports replace an earlier PASS; the file is renamed     *)
(* into place.                                                               *)
_write_live_report ==
  /\ gate8.pc = "write"
  /\ files' = [files EXCEPT !["drills"] = {Report(gate8.run, gate8.sha,
       IF gate8.passed THEN "PASS" ELSE "FAIL", "INTEGRATION", FALSE)}]
  /\ log' = [log EXCEPT ![gate8.run].passed = gate8.passed]
  /\ gate8' = Idle8
  /\ UNCHANGED <<head, stack, gate9, cert, certificate>>

Kill8 ==
  /\ gate8.pc # "idle" /\ gate8' = Idle8
  /\ broken' = broken \cup ({gate8.pc} \cap Services)
  /\ UNCHANGED <<head, up, evidence, gate9, cert, certificate>>

-----------------------------------------------------------------------------
(* Phase 9.  What the run could verify: the deployed report of a live or of  *)
(* a fallback provider, a provider call alone, or nothing outside the        *)
(* process; a round trip that was asked for and failed fails the run.        *)
Kinds ==
  {[name |-> "openai", level |-> "LIVE", simulated |-> FALSE, may |-> TRUE],
   [name |-> "fallback", level |-> "INTEGRATION", simulated |-> FALSE,
    may |-> TRUE],
   [name |-> "openai", level |-> "LIVE", simulated |-> TRUE, may |-> TRUE],
   [name |-> "fallback", level |-> "IN_PROCESS", simulated |-> TRUE,
    may |-> TRUE],
   [name |-> "fallback", level |-> "IN_PROCESS", simulated |-> TRUE,
    may |-> FALSE]}

run_phase9_live_gate(kind, ok, sha) ==
  /\ gate9.pc = "idle" /\ Len(log) < MaxRuns
  /\ ok => kind.may
  /\ ~kind.simulated => up = Services
  /\ log' = Append(log, [gate |-> 9, sha |-> sha,
                         passed |-> ok,
                         round_trip |-> ~kind.simulated])
  /\ gate9' = [pc |-> "write", name |-> kind.name, report |->
       {Report(Len(log'), sha, IF ok THEN "PASS" ELSE "FAIL", kind.level,
               kind.simulated)}]
  /\ UNCHANGED <<head, stack, files, gate8, cert, certificate>>

(* write_text empties the file before it fills it. *)
Truncate9 ==
  /\ gate9.pc = "write" /\ gate9' = [gate9 EXCEPT !.pc = "fill"]
  /\ files' = [files EXCEPT ![gate9.name] = {}]
  /\ UNCHANGED <<head, stack, log, gate8, cert, certificate>>

Fill9 ==
  /\ gate9.pc = "fill" /\ gate9' = Idle9
  /\ files' = [files EXCEPT ![gate9.name] = gate9.report]
  /\ UNCHANGED <<head, stack, log, gate8, cert, certificate>>

Kill9 ==
  /\ gate9.pc # "idle" /\ gate9' = Idle9
  /\ UNCHANGED <<head, stack, evidence, gate8, cert, certificate>>

-----------------------------------------------------------------------------
_report_matches_git_sha(report, sha) == report.sha = sha

(* Mutant: simulated components are not looked at. *)
_verify_release_evidence_Simulated(report, sha) ==
  /\ report.verdict = "PASS" /\ report.level \in {"INTEGRATION", "LIVE"}
  /\ _report_matches_git_sha(report, sha)

(* A PASS report has its drills or checks complete; self-hashes are exact.   *)
_verify_release_evidence(report, sha) ==
  /\ report.verdict = "PASS" /\ report.level \in {"INTEGRATION", "LIVE"}
  /\ _report_matches_git_sha(report, sha)
  /\ ~report.simulated

Valid(name, sha) == {r \in files[name] : _verify_release_evidence(r, sha)}

Certifying(pc) == cert.pc = pc /\ UNCHANGED <<head, stack, evidence, gate8, gate9>>

(* The commit is HEAD or an argument. *)
CertifyStart(sha) ==
  /\ Certifying("idle") /\ sha \in 1..head
  /\ cert' = [Idle EXCEPT !.pc = "phase8", !.sha = sha]
  /\ UNCHANGED certificate

(* Without it the verdict is INVALID, whatever Phase 9 says.  The hash the  *)
(* certificate names is that of a second reading, and left out.             *)
ReadPhase8 ==
  /\ Certifying("phase8") /\ UNCHANGED certificate
  /\ LET valid == Valid("drills", cert.sha) # {}
     IN  cert' = [cert EXCEPT !.passed8 = valid, !.pc = IF valid THEN "phase9" ELSE "write"]

(* The two profiles are read one after the other ... *)
ReadProfile(pc, name, next) ==
  /\ Certifying(pc) /\ UNCHANGED certificate
  /\ cert' = [cert EXCEPT !.pc = next,
       !.profiles = IF Valid(name, cert.sha) # {} THEN @ \cup {name} ELSE @]

ReadPhase9 == ReadProfile("phase9", "openai", "fallback") \/ ReadProfile("fallback", "fallback", "write")

(* ... and exactly one valid provider profile is required. *)
Unambiguous == \E n \in Names : cert.profiles = {n}

(* The authoritative Phase 1B metrics may be missing from the directory. *)
WriteCertificate ==
  /\ Certifying("write") /\ cert' = Idle
  /\ \E metrics \in BOOLEAN : certificate' =
       IF metrics /\ cert.passed8 /\ Unambiguous THEN {cert.sha} ELSE {}

evaluate ==
  \/ \E sha \in 1..MaxCommits : CertifyStart(sha)
  \/ ReadPhase8 \/ ReadPhase9 \/ WriteCertificate

Next ==
  \/ Commit \/ Deploy
  \/ \E sha \in resolve_git_sha : run_phase8_live_gate(sha)
  \/ _execute_runtime_drills \/ _write_live_report \/ Kill8
  \/ \E kind \in Kinds, ok \in BOOLEAN, sha \in resolve_git_sha : run_phase9_live_gate(kind, ok, sha)
  \/ Truncate9 \/ Fill9 \/ Kill9
  \/ evaluate

Spec == Init /\ [][Next]_vars

-----------------------------------------------------------------------------
(* A certificate rests on two runs labelled with its commit: a Phase 8 run   *)
(* in which all four drills passed, and a Phase 9 run that passed and made   *)
(* the round trip through the deployed API (_verify_release_evidence),       *)
(* whatever runs, crashes and commits lie between.                           *)
CertifiedIsBacked ==
  \A sha \in certificate : \E i, j \in DOMAIN log :
    /\ log[i].gate = 8 /\ log[i].sha = sha /\ log[i].passed
    /\ log[j].gate = 9 /\ log[j].sha = sha /\ log[j].passed
    /\ log[j].round_trip

(* A service is down only during its own drill, or because it did not start  *)
(* again, a stop that failed had stopped it, or the gate was killed in the   *)
(* drill (the finally clauses).                                              *)
StackRestored ==
  \A s \in Services \ up : gate8.pc = s \/ s \in broken
=============================================================================
