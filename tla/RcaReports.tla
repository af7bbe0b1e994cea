---------------------------- MODULE RcaReports ------------------------------
(***************************************************************************)
(* The root-cause analysis of one alert: POST /v1/alerts/{id}/rca in       *)
(* api.py, the evidence it gathers (rca_evidence.py), the provider it asks *)
(* (rca_openai.py) and the reports it stores (persistence.py).  The route  *)
(* is a plain function, so requests run in the threads of the server's     *)
(* pool, while the alert service goes on changing the alert.  Statements   *)
(* of get_alert_detail see what is committed when each of them runs.       *)
(***************************************************************************)
EXTENDS Naturals

CONSTANTS Requests,     \* the threads that serve the route
          MaxEvents,    \* bound: events of the alert
          MaxChanges,   \* bound: times the provider goes away or comes back
          MaxReports,   \* bound: reports generated
          Drafts,       \* the drafts of the provider: see Observations
          StoreFails    \* BOOLEAN: the database may refuse a report

VARIABLES alert,      \* the alert's rows: see Absent
          provider,   \* "none" if not configured, "down" or "up"
          changes,    \* of the provider, so far
          reports,    \* rca_reports
          call,       \* the request a thread is serving
          made,       \* reports generated so far, in the order of emitted_at
          served      \* history: reports answered with 200

vars == <<alert, provider, changes, reports, call, made, served>>
env == <<alert, provider, changes>>

(* events counts the committed transitions, detections those that moved    *)
(* last_detection; action is the action of the event with the least random *)
(* message_id, evidence the snapshot with the least evidence_id.           *)
Absent == [state |-> "NONE", events |-> 0, detections |-> 0, action |-> "OPENED", evidence |-> 0]
Idle == [at |-> "idle"]

Init ==
  /\ alert = Absent
  /\ provider \in {"none", "down", "up"}
  /\ changes = 0
  /\ reports = {}
  /\ call = [r \in Requests |-> Idle]
  /\ made = 0
  /\ served = {}

-----------------------------------------------------------------------------
NextActions(state) ==
  CASE state = "NONE" -> {"OPENED"} [] state = "OPEN" -> {"UPDATED", "RESOLVED"} [] state = "RESOLVED" -> {"REOPENED"}

(* The alert service commits an event of the alert and, unless it resolves, *)
(* a snapshot.  They sort before those stored, or after them.               *)
Transition == \E action \in NextActions(alert.state), first, ahead \in BOOLEAN :
  /\ alert.events < MaxEvents
  /\ LET detection == action /= "RESOLVED"
         detections == alert.detections + (IF detection THEN 1 ELSE 0)
     IN  alert' = [state |-> IF detection THEN "OPEN" ELSE "RESOLVED",
                   events |-> alert.events + 1,
                   detections |-> detections,
                   action |-> IF first \/ alert = Absent THEN action ELSE alert.action,
                   evidence |-> IF detection /\ (ahead \/ alert = Absent) THEN detections ELSE alert.evidence]
  /\ UNCHANGED <<provider, changes, reports, call, made, served>>

(* The provider fails or recovers, or is configured by a restart of the    *)
(* API (external).                                                         *)
ProviderChanges ==
  /\ changes < MaxChanges
  /\ \E p \in {"none", "down", "up"} \ {provider} : provider' = p
  /\ changes' = changes + 1
  /\ UNCHANGED <<alert, reports, call, made, served>>

-----------------------------------------------------------------------------
(* An evidence id is a digest of the tool's facts, so it stands for them.  *)
get_alert_evidence(c) == <<"get_alert", c.state, c.detections, c.action, c.decisions>>
get_score_evidence(c) == <<"get_score_evidence", c.evidence>>
get_model_provenance_evidence(c) == <<"get_model_provenance">>
get_system_health_evidence(c) == <<"get_system_health", c.evidence>>

gather_evidence(c) ==
  {get_alert_evidence(c), get_score_evidence(c),
   get_model_provenance_evidence(c), get_system_health_evidence(c)}

Goto(r, c) == call' = [call EXCEPT ![r] = c]

(* The route and gather_evidence look the alert up; it is never deleted.   *)
generate_alert_rca(r) ==
  /\ call[r] = Idle /\ alert /= Absent
  /\ Goto(r, [at |-> "events", state |-> alert.state, detections |-> alert.detections])
  /\ UNCHANGED <<env, reports, made, served>>

ReadEvents(r) ==
  /\ call[r].at = "events"
  /\ Goto(r, [at |-> "evidence", state |-> call[r].state, detections |-> call[r].detections,
              action |-> alert.action])
  /\ UNCHANGED <<env, reports, made, served>>

ReadEvidence(r) ==
  /\ call[r].at = "evidence"
  /\ Goto(r, [at |-> "decisions", state |-> call[r].state, detections |-> call[r].detections,
              action |-> call[r].action, evidence |-> alert.evidence])
  /\ UNCHANGED <<env, reports, made, served>>

(* The route holds the evidence, in the order gather_evidence returns it.  *)
Gathered(at, bundle, first, second) ==
  [at |-> at, bundle |-> bundle, first |-> first, second |-> second]

ReadDecisions(r) ==
  /\ call[r].at = "decisions"
  /\ LET c == [state |-> call[r].state, detections |-> call[r].detections,
               action |-> call[r].action, evidence |-> call[r].evidence,
               decisions |-> alert.events]
     IN  Goto(r, Gathered("lookup", gather_evidence(c), get_alert_evidence(c), get_score_evidence(c)))
  /\ UNCHANGED <<env, reports, made, served>>

Stored(bundle) == {x \in reports : x.bundle = bundle}

get_rca(r) ==
  /\ call[r].at = "lookup"
  /\ LET found == Stored(call[r].bundle)
     IN  /\ IF found = {}
            THEN Goto(r, Gathered("generate", call[r].bundle, call[r].first, call[r].second))
            ELSE Goto(r, Idle)
         /\ served' = served \cup found
  /\ UNCHANGED <<env, reports, made>>

-----------------------------------------------------------------------------
Unknown == <<"an id that is not in the bundle">>

(* An observation is the set of the evidence ids it cites.                 *)
Report(c, status, observations) ==
  [id |-> made + 1, bundle |-> c.bundle, status |-> status, observations |-> observations]

evidence_only_report(c) == Report(c, "UNAVAILABLE", {{c.first}, {c.second}})

(* The draft is taken only if every observation cites, and cites nothing   *)
(* but the bundle; it may have none.  The RcaReportV1 built from it checks *)
(* the citations again.                                                    *)
generate(c, observations) ==
  IF \A cited \in observations : cited /= {} /\ cited \subseteq c.bundle
  THEN Report(c, "COMPLETE", observations) ELSE evidence_only_report(c)

Observations(c, draft) ==
  CASE draft = "silent"  -> {}
    [] draft = "uncited" -> {{c.first}, {}}
    [] draft = "bundle"  -> {{c.first}, {c.first, c.second}}
    [] draft = "unknown" -> {{c.first}, {c.second, Unknown}}

(* A provider that answers, fails (any exception) or is not configured.    *)
Generate(r) ==
  /\ call[r].at = "generate" /\ made < MaxReports
  /\ \/ /\ provider = "up"
        /\ \E draft \in Drafts :
              Goto(r, [at |-> "save", report |-> generate(call[r], Observations(call[r], draft))])
     \/ /\ provider /= "up"
        /\ Goto(r, [at |-> "save", report |-> evidence_only_report(call[r])])
  /\ made' = made + 1
  /\ UNCHANGED <<env, reports, served>>

(* INSERT ... ON CONFLICT (alert_id, evidence_bundle_sha256) DO NOTHING.   *)
Inserted(report) == IF Stored(report.bundle) = {} THEN reports \cup {report} ELSE reports

(* Mutant: the row read back is not compared with the report. *)
Mismatch_never(report) == FALSE

(* The row read back is the report: every report has ids of its own.       *)
Mismatch(report) == report \notin Inserted(report)

(* A mismatch raises and the answer is 503. *)
save_rca(r) ==
  /\ call[r].at = "save"
  /\ LET report == call[r].report
     IN  /\ reports' = Inserted(report)
         /\ served' = IF Mismatch(report) THEN served ELSE served \cup {report}
  /\ Goto(r, Idle)
  /\ UNCHANGED <<env, made>>

(* The database refuses: the report is lost and the answer is 503.         *)
SaveFailed(r) ==
  /\ StoreFails /\ call[r].at = "save"
  /\ Goto(r, Idle)
  /\ UNCHANGED <<env, reports, made, served>>

-----------------------------------------------------------------------------
Request(r) ==
  \/ generate_alert_rca(r) \/ ReadEvents(r) \/ ReadEvidence(r) \/ ReadDecisions(r)
  \/ get_rca(r) \/ Generate(r) \/ save_rca(r) \/ SaveFailed(r)

Next == Transition \/ ProviderChanges \/ \E r \in Requests : Request(r)

Spec == Init /\ [][Next]_vars

-----------------------------------------------------------------------------

(* One report per evidence: whatever requests race, retry or meet a        *)
(* changing provider, two reports answered for the same bundle are the     *)
(* same report (persistence.py save_rca and get_rca).                      *)
OneReportPerBundle == \A x, y \in served : x.bundle = y.bundle => x = y

(* A report that was answered with 200 stays readable: it is never         *)
(* overwritten or dropped, so the operator can come back to it.            *)
ServedReportsKept == served \subseteq reports

(* Every observation of a report cites evidence, and only evidence of the  *)
(* bundle whose hash the report carries, whatever the provider drafts.     *)
CitationsGrounded ==
  \A x \in reports : \A cited \in x.observations : cited /= {} /\ cited \subseteq x.bundle

(* What is answered for some evidence is one stored report, grounded in    *)
(* that evidence (the route, save_rca, generate).                          *)
ReportsAreGrounded == OneReportPerBundle /\ ServedReportsKept /\ CitationsGrounded
=============================================================================
