----------------------------- MODULE ConsoleProofs -----------------------------
(* What the operator reads, for any number of sessions, clients and requests,  *)
(* any queue size and any bounds: the live stream (ConsoleStream) and the      *)
(* reports of the root-cause route (RcaReports).                               *)
(*                                                                             *)
(* What a console shows is several steps away from what is stored: an event is *)
(* appended, broadcast into a bounded queue, sent, and reduced.  FeedInv is    *)
(* about the first two, StreamInv about the numbers in a queue and the markers *)
(* where one is missing, ViewInv about the alert a view will show when what    *)
(* is pending for it has arrived.                                              *)
EXTENDS Console, TLAPS

(* ------------------------------ the RCA route ------------------------------ *)

(* The evidence a request cites if the provider gives nothing is of its        *)
(* bundle; each observation of a report about to be saved, and of every stored *)
(* one, cites its bundle; a bundle has one stored report, and only stored      *)
(* reports were answered.                                                      *)
Grounded(report) ==
  \A cited \in report.observations : cited # {} /\ cited \subseteq report.bundle

RcaInv ==
  /\ call = [r \in Requests |-> call[r]]
  /\ \A r \in Requests :
       /\ call[r].at \in {"lookup", "generate"} =>
            call[r].first \in call[r].bundle /\ call[r].second \in call[r].bundle
       /\ call[r].at = "save" => Grounded(call[r].report)
  /\ \A x \in reports : Grounded(x)
  /\ \A x, y \in reports : x.bundle = y.bundle => x = y
  /\ served \subseteq reports

(* A request moves on: the others stay where they are. *)
LEMMA GotoMoves ==
  ASSUME RcaInv, NEW r \in Requests, NEW c, Rca!Goto(r, c)
  PROVE  /\ call' = [q \in Requests |-> call'[q]]
         /\ call'[r] = c
         /\ \A q \in Requests \ {r} : call'[q] = call[q]
  BY DEF RcaInv, Rca!Goto

(* A move to a place where the route holds no evidence and no report, or to    *)
(* evidence and a report that are grounded, keeps the invariant.               *)
LEMMA GotoKeeps ==
  ASSUME RcaInv, NEW r \in Requests, NEW c, Rca!Goto(r, c),
         c.at \in {"lookup", "generate"} => c.first \in c.bundle /\ c.second \in c.bundle,
         c.at = "save" => Grounded(c.report),
         UNCHANGED reports, served' \subseteq reports
  PROVE  RcaInv'
<1>1. /\ call' = [q \in Requests |-> call'[q]]
      /\ call'[r] = c
      /\ \A q \in Requests \ {r} : call'[q] = call[q]
  BY GotoMoves
<1>2. \A q \in Requests :
        /\ call'[q].at \in {"lookup", "generate"} =>
             call'[q].first \in call'[q].bundle /\ call'[q].second \in call'[q].bundle
        /\ call'[q].at = "save" => Grounded(call'[q].report)
  BY <1>1 DEF RcaInv
<1> QED
  BY <1>1, <1>2 DEF RcaInv, Grounded

(* Nothing is stored, answered or about to be when the service starts. *)
LEMMA RcaInit == Rca!Init => RcaInv
  BY DEF Rca!Init, Rca!Idle, RcaInv

(* Whatever the provider drafts, what the report observes cites its bundle. *)
LEMMA ReportGrounded ==
  ASSUME NEW c, c.first \in c.bundle, c.second \in c.bundle, NEW drafted
  PROVE  Grounded(Rca!generate(c, drafted)) /\ Grounded(Rca!evidence_only_report(c))
  BY DEF Grounded, Rca!generate, Rca!evidence_only_report, Rca!Report

(* Reading the alert, looking the report up and generating one. *)
LEMMA RequestKeeps ==
  ASSUME RcaInv, NEW r \in Requests,
         \/ Rca!generate_alert_rca(r) \/ Rca!ReadEvents(r) \/ Rca!ReadEvidence(r)
         \/ Rca!ReadDecisions(r) \/ Rca!get_rca(r) \/ Rca!Generate(r) \/ Rca!SaveFailed(r)
  PROVE  RcaInv'
<1>1. served \subseteq reports
  BY DEF RcaInv
<1>2. Rca!Idle.at = "idle"
  BY DEF Rca!Idle
<1>3. CASE Rca!generate_alert_rca(r)
  <2> DEFINE c == [at |-> "events", state |-> alert.state, detections |-> alert.detections]
  <2>1. Rca!Goto(r, c) /\ c.at = "events" /\ UNCHANGED <<reports, served>>
    BY <1>3 DEF Rca!generate_alert_rca
  <2> HIDE DEF c
  <2> QED
    BY <1>1, <2>1, GotoKeeps
<1>4. CASE Rca!ReadEvents(r)
  <2> DEFINE c == [at |-> "evidence", state |-> call[r].state, detections |-> call[r].detections,
                   action |-> alert.action]
  <2>1. Rca!Goto(r, c) /\ c.at = "evidence" /\ UNCHANGED <<reports, served>>
    BY <1>4 DEF Rca!ReadEvents
  <2> HIDE DEF c
  <2> QED
    BY <1>1, <2>1, GotoKeeps
<1>5. CASE Rca!ReadEvidence(r)
  <2> DEFINE c == [at |-> "decisions", state |-> call[r].state, detections |-> call[r].detections,
                   action |-> call[r].action, evidence |-> alert.evidence]
  <2>1. Rca!Goto(r, c) /\ c.at = "decisions" /\ UNCHANGED <<reports, served>>
    BY <1>5 DEF Rca!ReadEvidence
  <2> HIDE DEF c
  <2> QED
    BY <1>1, <2>1, GotoKeeps
<1>6. CASE Rca!ReadDecisions(r)
  <2>1. PICK read : Rca!Goto(r, Rca!Gathered("lookup", Rca!gather_evidence(read),
                      Rca!get_alert_evidence(read), Rca!get_score_evidence(read)))
    BY <1>6 DEF Rca!ReadDecisions
  <2> DEFINE c == Rca!Gathered("lookup", Rca!gather_evidence(read),
                    Rca!get_alert_evidence(read), Rca!get_score_evidence(read))
  <2>2. c.first \in c.bundle /\ c.second \in c.bundle /\ c.at = "lookup"
    BY DEF Rca!Gathered, Rca!gather_evidence
  <2>3. Rca!Goto(r, c) /\ UNCHANGED <<reports, served>>
    BY <1>6, <2>1 DEF Rca!ReadDecisions
  <2> HIDE DEF c
  <2> QED
    BY <1>1, <2>2, <2>3, GotoKeeps
<1>7. CASE Rca!get_rca(r)
  <2> DEFINE c == Rca!Gathered("generate", call[r].bundle, call[r].first, call[r].second)
  <2>1. c.first \in c.bundle /\ c.second \in c.bundle /\ c.at = "generate"
    BY <1>7 DEF RcaInv, Rca!get_rca, Rca!Gathered
  <2>2. /\ Rca!Goto(r, c) \/ Rca!Goto(r, Rca!Idle)
        /\ UNCHANGED reports
        /\ served' \subseteq reports
    BY <1>1, <1>7 DEF Rca!get_rca, Rca!Stored
  <2> HIDE DEF c
  <2> QED
    BY <1>2, <2>1, <2>2, GotoKeeps
<1>8. CASE Rca!Generate(r)
  <2>1. call[r].first \in call[r].bundle /\ call[r].second \in call[r].bundle
    BY <1>8 DEF RcaInv, Rca!Generate
  <2>2. PICK report : Rca!Goto(r, [at |-> "save", report |-> report]) /\ Grounded(report)
    BY <1>8, <2>1, ReportGrounded DEF Rca!Generate
  <2> DEFINE c == [at |-> "save", report |-> report]
  <2>3. c.at = "save" /\ Grounded(c.report) /\ Rca!Goto(r, c) /\ UNCHANGED <<reports, served>>
    BY <1>8, <2>2 DEF Rca!Generate
  <2> HIDE DEF c
  <2> QED
    BY <1>1, <2>3, GotoKeeps
<1>9. CASE Rca!SaveFailed(r)
  <2>1. Rca!Goto(r, Rca!Idle) /\ UNCHANGED <<reports, served>>
    BY <1>9 DEF Rca!SaveFailed
  <2> QED
    BY <1>1, <1>2, <2>1, GotoKeeps
<1> QED
  BY <1>3, <1>4, <1>5, <1>6, <1>7, <1>8, <1>9

(* Saving: the first report of a bundle stays, another one is not answered. *)
LEMMA SaveKeeps ==
  ASSUME RcaInv, NEW r \in Requests, Rca!save_rca(r)
  PROVE  RcaInv'
<1> DEFINE report == call[r].report
<1>1. Grounded(report)
  BY DEF RcaInv, Rca!save_rca
<1>2. /\ reports' = IF {x \in reports : x.bundle = report.bundle} = {}
                      THEN reports \cup {report} ELSE reports
      /\ served' = served \/ (served' = served \cup {report} /\ report \in reports')
      /\ Rca!Goto(r, Rca!Idle)
  BY DEF Rca!save_rca, Rca!Inserted, Rca!Stored, Rca!Mismatch
<1> HIDE DEF report
<1>3. /\ \A x \in reports' : Grounded(x)
      /\ \A x, y \in reports' : x.bundle = y.bundle => x = y
      /\ served' \subseteq reports'
  BY <1>1, <1>2 DEF RcaInv
<1>4. /\ call' = [q \in Requests |-> call'[q]]
      /\ call'[r] = Rca!Idle
      /\ \A q \in Requests \ {r} : call'[q] = call[q]
  BY <1>2, GotoMoves
<1>5. Rca!Idle.at = "idle"
  BY DEF Rca!Idle
<1>6. \A q \in Requests :
        /\ call'[q].at \in {"lookup", "generate"} =>
             call'[q].first \in call'[q].bundle /\ call'[q].second \in call'[q].bundle
        /\ call'[q].at = "save" => Grounded(call'[q].report)
  BY <1>4, <1>5 DEF RcaInv
<1> QED
  BY <1>3, <1>4, <1>6 DEF RcaInv, Grounded

(* For any number of racing requests, whatever the alert, the provider and the *)
(* store do: one report is answered per bundle of evidence, it stays stored,   *)
(* and each of its observations cites evidence, of that bundle only.           *)
THEOREM ReportsAlwaysGrounded == Rca!Spec => []ReportsAreGrounded
<1>1. RcaInv /\ [Rca!Next]_(Rca!vars) => RcaInv'
  <2> SUFFICES ASSUME RcaInv, [Rca!Next]_(Rca!vars) PROVE RcaInv'
    OBVIOUS
  <2>1. CASE Rca!Transition \/ Rca!ProviderChanges \/ UNCHANGED Rca!vars
    <3>1. UNCHANGED <<reports, call, served>>
      BY <2>1 DEF Rca!Transition, Rca!ProviderChanges, Rca!vars
    <3> QED
      BY <3>1 DEF RcaInv, Grounded
  <2>2. CASE \E r \in Requests : Rca!Request(r)
    BY <2>2, RequestKeeps, SaveKeeps DEF Rca!Request
  <2> QED
    BY <2>1, <2>2 DEF Rca!Next
<1>2. RcaInv => ReportsAreGrounded
  BY DEF RcaInv, Grounded, ReportsAreGrounded, Rca!ReportsAreGrounded, Rca!OneReportPerBundle,
         Rca!ServedReportsKept, Rca!CitationsGrounded
<1> QED
  BY RcaInit, <1>1, <1>2, PTL DEF Rca!Spec

(* ------------------------------ the live stream ---------------------------- *)

Kinds == {"status", "alert", "telemetry"}
Values == Nat \cup {"RUNNING", "PAUSED"}
Messages == [session : Sessions, kind : Kinds, value : Values]
Ids == ({"status"} \X Sessions \X Values) \cup ({"alert", "telemetry"} \X Nat)
Events == [id : Ids, at : Nat, session : Sessions, kind : Kinds, value : Values]
Rows == [status : {"NONE", "RUNNING", "PAUSED"}, alert : Nat]
Items == [seq : Nat, event : Events \cup {[kind |-> "resync_required"]}]

ServerType ==
  /\ replay \in [Sessions -> {"CREATED", "RUNNING", "PAUSED"}]
  /\ tables \in [Sessions -> Rows]
  /\ topic \in Seq(Messages)
  /\ offset \in 0..Len(topic)
  /\ feed \in {"idle", "publish", "commit"}
  /\ feed # "idle" => offset < Len(topic)
  /\ console_events \in Seq(Events)
  /\ published \in [Sessions -> Seq(Events)]

(* What the feed has in hand is stored before it is published, and published   *)
(* before it is committed.                                                     *)
FeedInv ==
  /\ feed # "idle" /\ Record.kind # "telemetry" => Stored(Record.id) # {}
  /\ feed = "commit" =>
       \E k \in DOMAIN published[Record.session] :
         published[Record.session][k].at = offset + 1
  /\ FeedIsDurable

(* The initial state. *)
LEMMA FeedInit == Init => ServerType /\ FeedInv
<1> SUFFICES ASSUME Init PROVE ServerType /\ FeedInv
  OBVIOUS
<1>1. NoRow \in Rows
  BY DEF NoRow, Rows
<1>2. ServerType
  BY <1>1 DEF Init, ServerType
<1>3. FeedInv
  <2>1. 1..0 = {}
    OBVIOUS
  <2> QED
    BY <2>1 DEF Init, FeedInv, FeedIsDurable, LiveIsResumable, CommittedIsStored
<1> QED
  BY <1>2, <1>3

(* The record the feed reads next. *)
LEMMA RecordType ==
  ASSUME ServerType, offset < Len(topic)
  PROVE  /\ Record \in Events
         /\ Record.at = offset + 1
         /\ Record.id = event_id(offset + 1)
         /\ Record.session = topic[offset + 1].session
         /\ Record.kind = topic[offset + 1].kind
         /\ Record.value = topic[offset + 1].value
         /\ offset + 1 \in 1..Len(topic)
         /\ offset \in Nat
<1>1. offset + 1 \in 1..Len(topic) /\ offset \in Nat /\ offset + 1 \in Nat
  BY DEF ServerType
<1>2. topic[offset + 1] \in Messages
  BY <1>1 DEF ServerType
<1>3. /\ topic[offset + 1].session \in Sessions
      /\ topic[offset + 1].kind \in Kinds
      /\ topic[offset + 1].value \in Values
  BY <1>2 DEF Messages
<1>4. event_id(offset + 1) \in Ids
  BY <1>1, <1>3 DEF event_id, Ids, Kinds
<1> QED
  BY <1>1, <1>3, <1>4 DEF Record, decode, Events

(* A message of the platform keeps every record where it was. *)
LEMMA EmitAppends ==
  ASSUME ServerType, NEW s \in Sessions, NEW kind \in Kinds, NEW value \in Values,
         Emit(s, kind, value)
  PROVE  /\ topic' \in Seq(Messages)
         /\ Len(topic') = Len(topic) + 1 /\ Len(topic) \in Nat
         /\ \A i \in 1..Len(topic) : topic'[i] = topic[i]
         /\ topic'[Len(topic) + 1] = [session |-> s, kind |-> kind, value |-> value]
<1> DEFINE m == [session |-> s, kind |-> kind, value |-> value]
<1>1. m \in Messages
  BY DEF Messages
<1>2. topic \in Seq(Messages) /\ topic' = Append(topic, m)
  BY DEF ServerType, Emit
<1> HIDE DEF m
<1>3. /\ topic' \in Seq(Messages)
      /\ Len(topic') = Len(topic) + 1 /\ Len(topic) \in Nat
      /\ \A i \in 1..Len(topic) : topic'[i] = topic[i]
      /\ topic'[Len(topic) + 1] = m
  BY <1>1, <1>2
<1> QED
  BY <1>3 DEF m

(* The platform's messages. *)
Platform(s) == StatusChanges(s) \/ AlertChanges(s) \/ Telemetry(s)

(* Each puts one record on the topic; only an alert changes a session's row. *)
LEMMA PlatformEmits ==
  ASSUME ServerType, NEW s \in Sessions, Platform(s)
  PROVE  /\ \E kind \in Kinds, value \in Values : Emit(s, kind, value)
         /\ replay' \in [Sessions -> {"CREATED", "RUNNING", "PAUSED"}]
         /\ tables' \in [Sessions -> Rows]
<1>1. CASE StatusChanges(s)
  <2> DEFINE status == IF replay[s] = "RUNNING" THEN "PAUSED" ELSE "RUNNING"
  <2>1. /\ Emit(s, "status", status) /\ replay' = [replay EXCEPT ![s] = status]
        /\ UNCHANGED tables
    BY <1>1 DEF StatusChanges
  <2>2. status \in Values /\ status \in {"RUNNING", "PAUSED"} /\ "status" \in Kinds
    BY DEF Values, Kinds
  <2> HIDE DEF status
  <2> QED
    BY <2>1, <2>2 DEF ServerType
<1>2. CASE AlertChanges(s)
  <2> DEFINE n == tables[s].alert + 1
  <2> DEFINE row == [status |-> "RUNNING", alert |-> n]
  <2>1. Emit(s, "alert", n) /\ tables' = [tables EXCEPT ![s] = row] /\ UNCHANGED replay
    BY <1>2 DEF AlertChanges
  <2>2. n \in Nat
    BY DEF ServerType, Rows
  <2> HIDE DEF n
  <2>3. n \in Values /\ row \in Rows /\ "alert" \in Kinds
    BY <2>2 DEF Values, Rows, Kinds
  <2> HIDE DEF row
  <2> QED
    BY <2>1, <2>3 DEF ServerType
<1>3. CASE Telemetry(s)
  <2>1. PICK t \in 1..MaxTime : Emit(s, "telemetry", t)
    BY <1>3 DEF Telemetry
  <2>2. t \in Values /\ "telemetry" \in Kinds
    BY DEF Values, Kinds
  <2>3. UNCHANGED <<replay, tables>>
    BY <1>3 DEF Telemetry
  <2> QED
    BY <2>1, <2>2, <2>3 DEF ServerType
<1> QED
  BY <1>1, <1>2, <1>3 DEF Platform

(* The platform's messages keep what the feed has stored and published. *)
LEMMA PlatformKeepsFeed ==
  ASSUME ServerType, FeedInv, NEW s \in Sessions, Platform(s)
  PROVE  ServerType' /\ FeedInv'
<1>1. PICK kind \in Kinds, value \in Values : Emit(s, kind, value)
  BY PlatformEmits
<1>2. /\ topic' \in Seq(Messages)
      /\ Len(topic') = Len(topic) + 1 /\ Len(topic) \in Nat
      /\ \A i \in 1..Len(topic) : topic'[i] = topic[i]
  BY <1>1, EmitAppends
<1>3. UNCHANGED <<offset, feed, console_events, published>>
  BY <1>1 DEF Emit
<1>4. ServerType'
  BY <1>2, <1>3, PlatformEmits DEF ServerType
<1>5. \A i \in 1..Len(topic) : event_id(i)' = event_id(i)
  BY <1>2 DEF event_id
<1>6. \A id : Stored(id)' = Stored(id)
  BY <1>3 DEF Stored
<1>7. \A i \in 1..offset : i \in 1..Len(topic)
  BY DEF ServerType
<1>8. CommittedIsStored'
  <2>1. SUFFICES ASSUME NEW i \in 1..offset, topic[i].kind # "telemetry"
                 PROVE  /\ Stored(event_id(i))' # {}
                        /\ \E k \in DOMAIN published[topic[i].session] :
                             published[topic[i].session][k].at = i
    BY <1>2, <1>3, <1>7 DEF CommittedIsStored
  <2>2. /\ Stored(event_id(i)) # {}
        /\ \E k \in DOMAIN published[topic[i].session] :
             published[topic[i].session][k].at = i
    BY <2>1 DEF CommittedIsStored, FeedInv, FeedIsDurable
  <2>3. Stored(event_id(i))' = Stored(event_id(i))
    BY <1>3, <1>5, <1>7 DEF Stored
  <2> QED
    BY <2>2, <2>3
<1>9. LiveIsResumable'
  BY <1>3, <1>6 DEF LiveIsResumable, FeedInv, FeedIsDurable
<1>10. offset < Len(topic) => Record' = Record
  <2> SUFFICES ASSUME offset < Len(topic) PROVE Record' = Record
    OBVIOUS
  <2>1. offset + 1 \in 1..Len(topic)
    BY DEF ServerType
  <2>2. topic'[offset + 1] = topic[offset + 1] /\ offset' = offset
    BY <1>2, <1>3, <2>1
  <2> QED
    BY <2>2 DEF Record, decode, event_id
<1>11. feed # "idle" => offset < Len(topic)
  BY DEF ServerType
<1>12. FeedInv'
  BY <1>3, <1>6, <1>8, <1>9, <1>10, <1>11 DEF FeedInv, FeedIsDurable
<1> QED
  BY <1>4, <1>12

(* A feed that reads no other record keeps what it has in hand. *)
LEMMA SameRecord ==
  ASSUME UNCHANGED <<topic, offset>>
  PROVE  Record' = Record
  BY DEF Record, decode, event_id

(* The table of events only grows, so what is stored stays stored. *)
LEMMA StoredGrows ==
  ASSUME ServerType, NEW e \in Events, console_events' = Append(console_events, e)
  PROVE  /\ console_events' \in Seq(Events)
         /\ \A id : Stored(id) \subseteq Stored(id)'
         /\ Stored(e.id)' # {}
<1>1. /\ console_events' \in Seq(Events)
      /\ Len(console_events') = Len(console_events) + 1 /\ Len(console_events) \in Nat
      /\ \A k \in 1..Len(console_events) : console_events'[k] = console_events[k]
      /\ console_events'[Len(console_events) + 1] = e
  BY DEF ServerType
<1>2. /\ DOMAIN console_events = 1..Len(console_events)
      /\ DOMAIN console_events' = 1..Len(console_events')
  BY <1>1 DEF ServerType
<1>3. \A id : Stored(id) \subseteq Stored(id)'
  BY <1>1, <1>2 DEF Stored
<1>4. Len(console_events) + 1 \in Stored(e.id)'
  BY <1>1, <1>2 DEF Stored
<1> QED
  BY <1>1, <1>3, <1>4

(* Telemetry: kept back or passed on, never stored. *)
LEMMA DownsampleKeepsFeed ==
  ASSUME ServerType, FeedInv, Downsample
  PROVE  ServerType' /\ FeedInv'
<1>1. /\ feed = "idle" /\ offset < Len(topic) /\ Record.kind = "telemetry"
      /\ UNCHANGED <<replay, tables, topic, console_events, published>>
      /\ \/ feed' = "publish" /\ offset' = offset
         \/ feed' = "idle" /\ offset' = offset + 1
  BY DEF Downsample
<1>2. offset + 1 \in 1..Len(topic) /\ offset \in Nat /\ topic[offset + 1].kind = "telemetry"
  BY <1>1, RecordType
<1>3. ServerType'
  BY <1>1, <1>2 DEF ServerType
<1>4. \A id : Stored(id)' = Stored(id)
  BY <1>1 DEF Stored
<1>5. \A i : event_id(i)' = event_id(i)
  BY <1>1 DEF event_id
<1>6. LiveIsResumable'
  BY <1>1, <1>4 DEF LiveIsResumable, FeedInv, FeedIsDurable
<1>7. \A i \in 1..offset' : topic[i].kind # "telemetry" => i \in 1..offset
  BY <1>1, <1>2
<1>8. CommittedIsStored'
  BY <1>1, <1>4, <1>5, <1>7 DEF CommittedIsStored, FeedInv, FeedIsDurable
<1>9. feed' # "idle" => Record' = Record
  BY <1>1, SameRecord
<1>10. FeedInv'
  BY <1>1, <1>6, <1>8, <1>9 DEF FeedInv, FeedIsDurable
<1> QED
  BY <1>3, <1>10

(* A durable event is in the table when the feed goes on to publish it. *)
LEMMA AppendKeepsFeed ==
  ASSUME ServerType, FeedInv, append_console_event
  PROVE  ServerType' /\ FeedInv'
<1>1. /\ feed = "idle" /\ offset < Len(topic) /\ Record.kind # "telemetry"
      /\ UNCHANGED <<replay, tables, topic, offset, published>>
      /\ feed' = "publish"
      /\ \/ console_events' = Append(console_events, Record)
         \/ console_events' = console_events /\ Stored(Record.id) # {}
  BY DEF append_console_event, durable
<1>2. Record \in Events
  BY <1>1, RecordType
<1>3. /\ console_events' \in Seq(Events)
      /\ \A id : Stored(id) \subseteq Stored(id)'
      /\ \A id : id = Record.id => Stored(id)' # {}
  <2>1. CASE console_events' = Append(console_events, Record)
    BY <1>2, <2>1, StoredGrows
  <2>2. CASE console_events' = console_events /\ Stored(Record.id) # {}
    BY <2>2 DEF Stored, ServerType
  <2> QED
    BY <1>1, <2>1, <2>2
<1>4. ServerType'
  BY <1>1, <1>3 DEF ServerType
<1>5. \A i : event_id(i)' = event_id(i)
  BY <1>1 DEF event_id
<1>6. LiveIsResumable'
  BY <1>1, <1>3 DEF LiveIsResumable, FeedInv, FeedIsDurable
<1>7. CommittedIsStored'
  BY <1>1, <1>3, <1>5 DEF CommittedIsStored, FeedInv, FeedIsDurable
<1>8. Record' = Record
  BY <1>1, SameRecord
<1>9. FeedInv'
  BY <1>1, <1>3, <1>6, <1>7, <1>8 DEF FeedInv, FeedIsDurable
<1> QED
  BY <1>4, <1>9

(* What publish does to the history. *)
LEMMA PublishAppends ==
  ASSUME ServerType, publish
  PROVE  /\ offset < Len(topic) /\ Record \in Events /\ Record.session \in Sessions
         /\ published' \in [Sessions -> Seq(Events)]
         /\ \A t \in Sessions \ {Record.session} : published'[t] = published[t]
         /\ Len(published'[Record.session]) = Len(published[Record.session]) + 1
         /\ Len(published[Record.session]) \in Nat
         /\ \A k \in 1..Len(published[Record.session]) :
              published'[Record.session][k] = published[Record.session][k]
         /\ published'[Record.session][Len(published[Record.session]) + 1] = Record
<1>1. offset < Len(topic)
  BY DEF ServerType, publish
<1>2. Record \in Events
  BY <1>1, RecordType
<1> DEFINE r == Record
<1> DEFINE s == r.session
<1>3. r \in Events /\ s \in Sessions
  BY <1>2 DEF Events
<1>4. published' = [published EXCEPT ![s] = Append(published[s], r)]
  BY DEF publish
<1> HIDE DEF r
<1> HIDE DEF s
<1>5. published \in [Sessions -> Seq(Events)] /\ published[s] \in Seq(Events)
  BY <1>3 DEF ServerType
<1>6. /\ published' \in [Sessions -> Seq(Events)]
      /\ \A t \in Sessions \ {s} : published'[t] = published[t]
      /\ published'[s] = Append(published[s], r)
  BY <1>3, <1>4, <1>5
<1>7. /\ Len(published'[s]) = Len(published[s]) + 1 /\ Len(published[s]) \in Nat
      /\ \A k \in 1..Len(published[s]) : published'[s][k] = published[s][k]
      /\ published'[s][Len(published[s]) + 1] = r
  BY <1>3, <1>5, <1>6
<1> QED
  BY <1>1, <1>2, <1>3, <1>6, <1>7 DEF r, s

(* What is published is stored. *)
LEMMA PublishKeepsFeed ==
  ASSUME ServerType, FeedInv, publish
  PROVE  ServerType' /\ FeedInv'
<1> DEFINE s == Record.session
<1>1. /\ feed = "publish" /\ feed' = "commit"
      /\ UNCHANGED <<replay, tables, topic, offset, console_events>>
  BY DEF publish
<1>2. /\ offset < Len(topic) /\ Record \in Events /\ s \in Sessions
      /\ published' \in [Sessions -> Seq(Events)]
      /\ \A t \in Sessions \ {s} : published'[t] = published[t]
      /\ Len(published'[s]) = Len(published[s]) + 1 /\ Len(published[s]) \in Nat
      /\ \A k \in 1..Len(published[s]) : published'[s][k] = published[s][k]
      /\ published'[s][Len(published[s]) + 1] = Record
  BY PublishAppends
<1>3. Record' = Record
  BY <1>1, SameRecord
<1>4. ServerType'
  BY <1>1, <1>2 DEF ServerType
<1>5. \A t \in Sessions : /\ DOMAIN published[t] = 1..Len(published[t])
                          /\ DOMAIN published'[t] = 1..Len(published'[t])
  BY <1>2 DEF ServerType
<1>6. \A id : Stored(id)' = Stored(id)
  BY <1>1 DEF Stored
<1>7. \A i : event_id(i)' = event_id(i)
  BY <1>1 DEF event_id
<1>8. Record.kind # "telemetry" => Stored(Record.id) # {}
  BY <1>1 DEF FeedInv
<1>9. Record.at = offset + 1
  BY <1>2, RecordType
<1> HIDE DEF s
<1>10. LiveIsResumable'
  <2> SUFFICES ASSUME NEW t \in Sessions, NEW k \in DOMAIN published'[t],
                      published'[t][k].kind # "telemetry"
               PROVE  Stored(published'[t][k].id) # {}
    BY <1>6 DEF LiveIsResumable
  <2>1. CASE t = s /\ k = Len(published[s]) + 1
    BY <1>2, <1>8, <2>1
  <2>2. CASE ~(t = s /\ k = Len(published[s]) + 1)
    <3>1. k \in DOMAIN published[t] /\ published'[t][k] = published[t][k]
      BY <1>2, <1>5, <2>2
    <3> QED
      BY <3>1 DEF FeedInv, FeedIsDurable, LiveIsResumable
  <2> QED
    BY <2>1, <2>2
<1>11. \A t \in Sessions : \A k \in DOMAIN published[t] :
         k \in DOMAIN published'[t] /\ published'[t][k] = published[t][k]
  <2> SUFFICES ASSUME NEW t \in Sessions, NEW k \in DOMAIN published[t]
               PROVE  k \in DOMAIN published'[t] /\ published'[t][k] = published[t][k]
    OBVIOUS
  <2>1. CASE t = s
    <3>1. k \in 1..Len(published[s]) /\ k \in 1..Len(published'[s])
      BY <1>2, <1>5, <2>1
    <3> QED
      BY <1>2, <1>5, <2>1, <3>1
  <2>2. CASE t # s
    BY <1>2, <2>2
  <2> QED
    BY <2>1, <2>2
<1>12. \A i \in 1..offset : topic[i].session \in Sessions
  <2>1. \A i \in 1..offset : topic[i] \in Messages
    BY DEF ServerType
  <2> QED
    BY <2>1 DEF Messages
<1>13. CommittedIsStored'
  BY <1>1, <1>6, <1>7, <1>11, <1>12 DEF CommittedIsStored, FeedInv, FeedIsDurable
<1>14. \E k \in DOMAIN published'[s] : published'[s][k].at = offset + 1
  BY <1>2, <1>5, <1>9
<1>15. FeedInv'
  BY <1>1, <1>3, <1>6, <1>8, <1>10, <1>13, <1>14 DEF FeedInv, FeedIsDurable, s
<1> QED
  BY <1>4, <1>15

(* Only what is stored and published is committed. *)
LEMMA CommitKeepsFeed ==
  ASSUME ServerType, FeedInv, Commit
  PROVE  ServerType' /\ FeedInv'
<1>1. /\ feed = "commit" /\ feed' = "idle" /\ offset' = offset + 1
      /\ UNCHANGED <<replay, tables, topic, console_events, published>>
  BY DEF Commit
<1>2. offset < Len(topic)
  BY <1>1 DEF ServerType
<1>3. /\ Record.id = event_id(offset + 1)
      /\ Record.session = topic[offset + 1].session
      /\ Record.kind = topic[offset + 1].kind
      /\ offset + 1 \in 1..Len(topic) /\ offset \in Nat
  BY <1>2, RecordType
<1>4. ServerType'
  BY <1>1, <1>3 DEF ServerType
<1>5. \A id : Stored(id)' = Stored(id)
  BY <1>1 DEF Stored
<1>6. \A i : event_id(i)' = event_id(i)
  BY <1>1 DEF event_id
<1>7. topic[offset + 1].kind # "telemetry" =>
        /\ Stored(event_id(offset + 1)) # {}
        /\ \E k \in DOMAIN published[topic[offset + 1].session] :
             published[topic[offset + 1].session][k].at = offset + 1
  BY <1>1, <1>3 DEF FeedInv
<1>8. \A i \in 1..offset' : i \in 1..offset \/ i = offset + 1
  BY <1>1, <1>3
<1>9. CommittedIsStored'
  BY <1>1, <1>5, <1>6, <1>7, <1>8 DEF CommittedIsStored, FeedInv, FeedIsDurable
<1>10. LiveIsResumable'
  BY <1>1, <1>5 DEF LiveIsResumable, FeedInv, FeedIsDurable
<1> QED
  BY <1>1, <1>4, <1>9, <1>10 DEF FeedInv, FeedIsDurable

(* Steps that leave the table, the history and the committed offset alone: a   *)
(* restart of the feed, and everything the clients do.                         *)
LEMMA OthersKeepFeed ==
  ASSUME ServerType, FeedInv,
         UNCHANGED <<replay, tables, topic, offset, console_events, published>>,
         feed' = "idle" \/ feed' = feed
  PROVE  ServerType' /\ FeedInv'
<1>1. ServerType'
  BY DEF ServerType
<1>2. \A id : Stored(id)' = Stored(id)
  BY DEF Stored
<1>3. \A i : event_id(i)' = event_id(i)
  BY DEF event_id
<1>4. Record' = Record
  BY SameRecord
<1>5. CommittedIsStored'
  BY <1>2, <1>3 DEF CommittedIsStored, FeedInv, FeedIsDurable
<1>6. LiveIsResumable'
  BY <1>2 DEF LiveIsResumable, FeedInv, FeedIsDurable
<1> QED
  BY <1>1, <1>2, <1>4, <1>5, <1>6 DEF FeedInv, FeedIsDurable

(* What a client does. *)
Client(c) ==
  \/ \E s \in Sessions : stream_replay(c, s)
  \/ Replay(c) \/ subscribe(c) \/ Deliver(c) \/ unsubscribe(c)

(* The steps of the stream, by who takes them. *)
LEMMA Steps ==
  ASSUME Next
  PROVE  \/ \E s \in Sessions : Platform(s)
         \/ Downsample \/ append_console_event \/ publish \/ Commit \/ FeedRestarts
         \/ \E c \in Clients : Client(c)
  BY DEF Next, Platform, Client

(* A client moves nothing of the server. *)
LEMMA ClientsLeaveServer ==
  ASSUME NEW c \in Clients, Client(c)
  PROVE  UNCHANGED server
  BY DEF Client, stream_replay, Replay, subscribe, Deliver, unsubscribe

(* Every step keeps the feed durable. *)
LEMMA FeedStep == ServerType /\ FeedInv /\ [Next]_vars => ServerType' /\ FeedInv'
<1> SUFFICES ASSUME ServerType, FeedInv, [Next]_vars PROVE ServerType' /\ FeedInv'
  OBVIOUS
<1>1. CASE FeedRestarts
  BY <1>1, OthersKeepFeed DEF FeedRestarts
<1>2. ASSUME NEW c \in Clients, Client(c) PROVE ServerType' /\ FeedInv'
  BY <1>2, ClientsLeaveServer, OthersKeepFeed DEF server
<1>3. CASE UNCHANGED vars
  BY <1>3, OthersKeepFeed DEF vars
<1> QED
  BY <1>1, <1>2, <1>3, Steps, PlatformKeepsFeed, DownsampleKeepsFeed, AppendKeepsFeed,
     PublishKeepsFeed, CommitKeepsFeed

(* What the feed broadcast or committed is stored, and what it committed was   *)
(* broadcast, however often it dies.                                           *)
THEOREM FeedAlwaysDurable == Spec => []FeedIsDurable
<1>1. FeedInv => FeedIsDurable
  BY DEF FeedInv
<1> QED
  BY FeedInit, FeedStep, <1>1, PTL DEF Spec

(* ------------------------------ gaps are marked ---------------------------- *)

(* q is the queue of a subscriber whose latest item had sequence seq, after n  *)
(* events of its session: from each item to the next, the sequence goes up by  *)
(* one or one of the two is a marker, and the latest is a marker or event n.   *)
Gaps(q, seq, n) ==
  /\ \A k \in 1..Len(q) :
       k > 1 => q[k - 1].seq = 0 \/ q[k].seq = 0 \/ q[k].seq = q[k - 1].seq + 1
  /\ Len(q) = 0 => seq = 0 \/ seq = n
  /\ Len(q) > 0 => seq = 0 \/ q[1].seq = 0 \/ q[1].seq = seq + 1
  /\ Len(q) > 0 => q[Len(q)].seq = 0 \/ q[Len(q)].seq = n

(* A queue that takes an event, or is replaced by a marker, has no silent gap. *)
LEMMA PutMarksGaps ==
  ASSUME NEW q \in Seq(Items), NEW seq \in Nat, NEW n \in Nat, Gaps(q, seq, n),
         NEW item \in Items, item.seq = n + 1
  PROVE  /\ Put(q, item) \in Seq(Items)
         /\ Gaps(Put(q, item), seq, n + 1)
<1>1. Len(q) \in Nat /\ QueueSize \in Nat
  BY ConsoleStreamAssumption
<1>2. Resync \in Items /\ Resync.seq = 0
  BY DEF Resync, Items
<1>3. CASE Len(q) < QueueSize
  <2> DEFINE r == Append(q, item)
  <2>1. Put(q, item) = r
    BY <1>3 DEF Put
  <2>2. /\ r \in Seq(Items) /\ Len(r) = Len(q) + 1
        /\ \A k \in 1..Len(q) : r[k] = q[k]
        /\ r[Len(q) + 1] = item
    OBVIOUS
  <2> HIDE DEF r
  <2>3. CASE Len(q) = 0
    <3>1. seq = 0 \/ seq = n
      BY <2>3 DEF Gaps
    <3>2. Len(r) = 1 /\ r[1] = item /\ r[Len(r)] = item /\ \A k \in 1..Len(r) : ~(k > 1)
      BY <2>2, <2>3
    <3>3. seq = 0 \/ r[1].seq = seq + 1
      BY <3>1, <3>2
    <3>4. r[Len(r)].seq = n + 1
      BY <3>2
    <3> QED
      BY <2>1, <2>2, <3>2, <3>3, <3>4 DEF Gaps
  <2>4. CASE Len(q) > 0
    <3>1. r[1] = q[1] /\ r[Len(q)] = q[Len(q)]
      BY <1>1, <2>2, <2>4
    <3>2. \A k \in 1..Len(r) :
            k > 1 => r[k - 1].seq = 0 \/ r[k].seq = 0 \/ r[k].seq = r[k - 1].seq + 1
      <4> SUFFICES ASSUME NEW k \in 1..Len(r), k > 1
                   PROVE  r[k - 1].seq = 0 \/ r[k].seq = 0 \/ r[k].seq = r[k - 1].seq + 1
        OBVIOUS
      <4>1. CASE k \in 1..Len(q)
        <5>1. k - 1 \in 1..Len(q)
          BY <1>1, <4>1
        <5> QED
          BY <2>2, <4>1, <5>1 DEF Gaps
      <4>2. CASE k = Len(q) + 1
        <5>1. k - 1 = Len(q)
          BY <1>1, <4>2
        <5> QED
          BY <2>2, <2>4, <3>1, <4>2, <5>1 DEF Gaps
      <4> QED
        BY <1>1, <2>2, <4>1, <4>2
    <3>3. seq = 0 \/ r[1].seq = 0 \/ r[1].seq = seq + 1
      BY <2>4, <3>1 DEF Gaps
    <3>4. r[Len(r)].seq = n + 1 /\ Len(r) # 0
      BY <1>1, <2>2
    <3> QED
      BY <2>1, <2>2, <3>2, <3>3, <3>4 DEF Gaps
  <2> QED
    BY <1>1, <2>1, <2>2, <2>3, <2>4
<1>4. CASE ~(Len(q) < QueueSize)
  <2> DEFINE r == <<Resync>>
  <2>1. Put(q, item) = r
    BY <1>4 DEF Put
  <2>2. r \in Seq(Items) /\ Len(r) = 1 /\ r[1] = Resync
    BY <1>2
  <2> HIDE DEF r
  <2> QED
    BY <1>2, <2>1, <2>2 DEF Gaps
<1> QED
  BY <1>3, <1>4

(* A queue that gives its first item away has none either. *)
LEMMA TakeMarksGaps ==
  ASSUME NEW q \in Seq(Items), NEW seq \in Nat, NEW n \in Nat, Gaps(q, seq, n), q # << >>
  PROVE  /\ Tail(q) \in Seq(Items)
         /\ Head(q) = q[1] /\ q[1] \in Items
         /\ Gaps(Tail(q), q[1].seq, n)
<1> DEFINE r == Tail(q)
<1>1. /\ r \in Seq(Items) /\ Len(r) = Len(q) - 1 /\ Len(q) \in Nat /\ Len(q) > 0
      /\ \A k \in 1..Len(r) : r[k] = q[k + 1]
      /\ Head(q) = q[1]
  OBVIOUS
<1>2. q[1] \in Items
  BY <1>1
<1> HIDE DEF r
<1>3. \A k \in 1..Len(r) :
        k > 1 => r[k - 1].seq = 0 \/ r[k].seq = 0 \/ r[k].seq = r[k - 1].seq + 1
  <2> SUFFICES ASSUME NEW k \in 1..Len(r), k > 1
               PROVE  r[k - 1].seq = 0 \/ r[k].seq = 0 \/ r[k].seq = r[k - 1].seq + 1
    OBVIOUS
  <2>1. r[k] = q[k + 1] /\ r[k - 1] = q[k] /\ k + 1 \in 1..Len(q) /\ (k + 1) - 1 = k
    BY <1>1
  <2> QED
    BY <1>1, <2>1 DEF Gaps
<1>4. CASE Len(q) = 1
  <2>1. Len(r) = 0 /\ ~(Len(r) > 0)
    BY <1>1, <1>4
  <2>2. q[1].seq = 0 \/ q[1].seq = n
    BY <1>4 DEF Gaps
  <2> QED
    BY <1>3, <2>1, <2>2 DEF Gaps
<1>5. CASE Len(q) > 1
  <2>1. r[1] = q[2] /\ r[Len(r)] = q[Len(q)] /\ Len(r) > 0 /\ 2 \in 1..Len(q) /\ 2 - 1 = 1
    BY <1>1, <1>5
  <2>2. q[1].seq = 0 \/ r[1].seq = 0 \/ r[1].seq = q[1].seq + 1
    BY <2>1 DEF Gaps
  <2>3. r[Len(r)].seq = 0 \/ r[Len(r)].seq = n
    BY <1>1, <2>1 DEF Gaps
  <2>4. Len(r) # 0
    BY <1>1, <1>5
  <2> QED
    BY <1>3, <2>2, <2>3, <2>4 DEF Gaps
<1> QED
  BY <1>1, <1>2, <1>4, <1>5 DEF r

(* The sequence numbers a subscriber sees, as EveryGapMarked lists them. *)
Seqs(q, seq) == <<seq>> \o [k \in DOMAIN q |-> q[k].seq]

(* They are those of its latest item and of its queue. *)
LEMMA SeqsOf ==
  ASSUME NEW q \in Seq(Items), NEW seq \in Nat,
         NEW seqs, seqs = Seqs(q, seq)
  PROVE  /\ Len(seqs) = Len(q) + 1 /\ Len(q) \in Nat
         /\ seqs[1] = seq
         /\ \A k \in 1..Len(q) : seqs[k + 1] = q[k].seq
         /\ Last(seqs) = seqs[Len(q) + 1]
<1> DEFINE r == [k \in 1..Len(q) |-> q[k].seq]
<1>1. Len(q) \in Nat /\ DOMAIN q = 1..Len(q)
  OBVIOUS
<1>2. \A k \in 1..Len(q) : q[k].seq \in Nat
  <2>1. \A k \in 1..Len(q) : q[k] \in Items
    OBVIOUS
  <2> QED
    BY <2>1 DEF Items
<1>3. r \in Seq(Nat) /\ Len(r) = Len(q) /\ \A k \in 1..Len(q) : r[k] = q[k].seq
  BY <1>1, <1>2
<1>4. seqs = <<seq>> \o r
  BY <1>1 DEF Seqs
<1> HIDE DEF r
<1>5. <<seq>> \in Seq(Nat) /\ Len(<<seq>>) = 1 /\ <<seq>>[1] = seq
  OBVIOUS
<1>6. /\ Len(seqs) = Len(q) + 1
      /\ seqs[1] = seq
      /\ \A k \in 1..Len(q) : seqs[k + 1] = r[k]
  BY <1>1, <1>3, <1>4, <1>5
<1> QED
  BY <1>1, <1>3, <1>6 DEF Last

(* ---------------------------- the connections ------------------------------ *)

Connecting(x) ==
  /\ x = [at |-> x.at, session |-> x.session, snapshot |-> x.snapshot,
          cursor |-> x.cursor, read |-> x.read]
  /\ x.session \in Sessions /\ x.snapshot \in Rows
  /\ x.read \in 0..Len(published[x.session])

Live(x) ==
  /\ x = [at |-> "live", session |-> x.session, cursor |-> x.cursor, q |-> x.q,
          seq |-> x.seq, missed |-> x.missed, resynced |-> x.resynced]
  /\ x.session \in Sessions /\ x.q \in Seq(Items) /\ x.seq \in Nat
  /\ x.resynced \in BOOLEAN
  /\ Gaps(x.q, x.seq, Len(published[x.session]))

StreamOK(x) ==
  \/ x.at = "off"
  \/ x.at \in {"snapshot", "subscribe", "ended"} /\ Connecting(x)
  \/ x.at = "live" /\ Live(x)

StreamInv ==
  /\ stream = [c \in Clients |-> stream[c]]
  /\ \A c \in Clients : StreamOK(stream[c])

(* Every connection is off at the start. *)
LEMMA StreamInit == Init => StreamInv
  BY DEF Init, Off, StreamInv, StreamOK

(* The server's steps but publish. *)
LEMMA StreamKept ==
  ASSUME StreamInv, UNCHANGED <<stream, published>>
  PROVE  StreamInv'
  BY DEF StreamInv, StreamOK, Connecting, Live

(* publish: the queues of the session's subscribers take the event. *)
LEMMA PublishKeepsStream ==
  ASSUME ServerType, StreamInv, publish
  PROVE  StreamInv'
<1> DEFINE s == Record.session
<1> DEFINE n == Len(published[s])
<1> DEFINE item == [seq |-> n + 1, event |-> Record]
<1>1. /\ Record \in Events /\ s \in Sessions
      /\ \A t \in Sessions \ {s} : published'[t] = published[t]
      /\ Len(published'[s]) = n + 1 /\ n \in Nat
  BY PublishAppends
<1>2. item \in Items /\ item.seq = n + 1
  BY <1>1 DEF Items
<1>3. stream' = [c \in Clients |->
        IF stream[c].at = "live" /\ stream[c].session = s
        THEN [stream[c] EXCEPT !.q = Put(stream[c].q, item)] ELSE stream[c]]
  BY DEF publish
<1> HIDE DEF item, n, s
<1>4. stream' = [c \in Clients |-> stream'[c]]
  BY <1>3
<1>5. ASSUME NEW c \in Clients PROVE StreamOK(stream[c])'
  <2> DEFINE x == stream[c]
  <2>0. StreamOK(x)
    BY DEF StreamInv
  <2>1. CASE x.at = "live" /\ x.session = s
    <3> DEFINE r == Put(x.q, item)
    <3> DEFINE y == [x EXCEPT !.q = r]
    <3>1. /\ x = [at |-> "live", session |-> x.session, cursor |-> x.cursor, q |-> x.q,
                  seq |-> x.seq, missed |-> x.missed, resynced |-> x.resynced]
          /\ x.q \in Seq(Items) /\ x.seq \in Nat /\ x.resynced \in BOOLEAN
          /\ Gaps(x.q, x.seq, n)
      BY <2>0, <2>1 DEF StreamOK, Live, n
    <3>2. r \in Seq(Items) /\ Gaps(r, x.seq, n + 1)
      BY <1>1, <1>2, <3>1, PutMarksGaps
    <3>3. stream'[c] = y
      BY <1>3, <2>1
    <3> HIDE DEF r, x
    <3>4. /\ y = [at |-> "live", session |-> x.session, cursor |-> x.cursor, q |-> r,
                  seq |-> x.seq, missed |-> x.missed, resynced |-> x.resynced]
      BY <3>1
    <3>5. y.at = "live" /\ y.session = x.session /\ y.cursor = x.cursor /\ y.q = r
          /\ y.seq = x.seq /\ y.missed = x.missed /\ y.resynced = x.resynced
      BY <3>4
    <3> HIDE DEF y
    <3>6. Gaps(stream'[c].q, stream'[c].seq, Len(published'[stream'[c].session]))
      BY <1>1, <2>1, <3>2, <3>3, <3>5
    <3>7. Live(stream[c])'
      BY <1>1, <2>1, <3>1, <3>2, <3>3, <3>4, <3>5, <3>6 DEF Live
    <3> QED
      BY <3>3, <3>5, <3>7 DEF StreamOK
  <2>2. CASE ~(x.at = "live" /\ x.session = s)
    <3>1. stream'[c] = x
      BY <1>3, <2>2
    <3>2. CASE x.at = "live"
      <4>1. Live(x) /\ x.session # s
        BY <2>0, <2>2, <3>2 DEF StreamOK
      <4>2. published'[x.session] = published[x.session]
        BY <1>1, <4>1 DEF Live
      <4>3. Live(stream[c])'
        BY <3>1, <4>1, <4>2 DEF Live
      <4> QED
        BY <3>1, <3>2, <4>3 DEF StreamOK
    <3>3. CASE x.at \in {"snapshot", "subscribe", "ended"}
      <4>1. Connecting(x)
        BY <2>0, <3>3 DEF StreamOK
      <4>2. x.read \in 0..Len(published'[x.session])
        <5>1. CASE x.session = s
          BY <1>1, <4>1, <5>1 DEF Connecting, n
        <5>2. CASE x.session # s
          BY <1>1, <4>1, <5>2 DEF Connecting
        <5> QED
          BY <5>1, <5>2
      <4>3. Connecting(stream[c])'
        BY <3>1, <4>1, <4>2 DEF Connecting
      <4> QED
        BY <3>1, <3>3, <4>3 DEF StreamOK
    <3>4. CASE x.at = "off"
      BY <3>1, <3>4 DEF StreamOK
    <3> QED
      BY <2>0, <3>2, <3>3, <3>4 DEF StreamOK
  <2> QED
    BY <2>1, <2>2
<1> QED
  BY <1>4, <1>5 DEF StreamInv

(* One client's connection changes. *)
LEMMA OneConnection ==
  ASSUME StreamInv, NEW c \in Clients, NEW new, stream' = [stream EXCEPT ![c] = new],
         UNCHANGED published, StreamOK(new)
  PROVE  /\ StreamInv'
         /\ stream'[c] = new
         /\ \A b \in Clients \ {c} : stream'[b] = stream[b]
<1>1. stream = [b \in Clients |-> stream[b]]
  BY DEF StreamInv
<1>2. /\ stream' = [b \in Clients |-> stream'[b]]
      /\ \A b \in Clients : stream'[b] = IF b = c THEN new ELSE stream[b]
  BY <1>1
<1>3. \A b \in Clients : StreamOK(stream'[b])
  BY <1>2 DEF StreamInv
<1>4. \A b \in Clients : StreamOK(stream[b])'
  BY <1>3 DEF StreamOK, Connecting, Live
<1> QED
  BY <1>2, <1>4 DEF StreamInv

(* The generator is started: what is read of the tables is one snapshot. *)
LEMMA ReplayStarts ==
  ASSUME ServerType, StreamInv, NEW c \in Clients, NEW s \in Sessions, stream_replay(c, s)
  PROVE  /\ StreamInv' /\ UNCHANGED <<server, view>>
         /\ stream'[c].at = "snapshot" /\ stream'[c].session = s
         /\ stream'[c].snapshot = tables[s]
         /\ \A b \in Clients \ {c} : stream'[b] = stream[b]
<1>1. PICK cursor : stream' = [stream EXCEPT ![c] =
        [at |-> "snapshot", session |-> s, snapshot |-> tables[s],
         cursor |-> cursor, read |-> Len(published[s])]]
  BY DEF stream_replay
<1> DEFINE new == [at |-> "snapshot", session |-> s, snapshot |-> tables[s],
                   cursor |-> cursor, read |-> Len(published[s])]
<1>2. /\ new.at = "snapshot" /\ new.session = s /\ new.snapshot = tables[s]
      /\ new.cursor = cursor /\ new.read = Len(published[s])
      /\ new = [at |-> new.at, session |-> new.session, snapshot |-> new.snapshot,
                cursor |-> new.cursor, read |-> new.read]
  OBVIOUS
<1>3. stream' = [stream EXCEPT ![c] = new]
  BY <1>1
<1> HIDE DEF new
<1>4. Len(published[s]) \in Nat /\ tables[s] \in Rows
  BY DEF ServerType
<1>5. StreamOK(new)
  BY <1>2, <1>4 DEF StreamOK, Connecting
<1>6. UNCHANGED <<server, view>> /\ UNCHANGED published
  BY DEF stream_replay, server
<1> QED
  BY <1>2, <1>3, <1>5, <1>6, OneConnection

(* Snapshot and missed events are sent. *)
LEMMA ReplaySends ==
  ASSUME ServerType, StreamInv, NEW c \in Clients, Replay(c)
  PROVE  /\ StreamInv' /\ UNCHANGED server
         /\ stream[c].at = "snapshot" /\ Connecting(stream[c])
         /\ stream'[c].at \in {"subscribe", "ended"}
         /\ stream'[c].session = stream[c].session
         /\ stream'[c].cursor = stream[c].cursor
         /\ stream'[c].read = stream[c].read
         /\ \A b \in Clients \ {c} : stream'[b] = stream[b]
<1> DEFINE x == stream[c]
<1> DEFINE at == IF WithBroker THEN "subscribe" ELSE "ended"
<1> DEFINE new == [x EXCEPT !.at = at]
<1>1. stream' = [stream EXCEPT ![c] = new] /\ x.at = "snapshot" /\ UNCHANGED server
  BY DEF Replay
<1>2. Connecting(x) /\ at \in {"subscribe", "ended"}
  BY <1>1 DEF StreamInv, StreamOK
<1> HIDE DEF x, at
<1>3. new = [at |-> at, session |-> x.session, snapshot |-> x.snapshot,
             cursor |-> x.cursor, read |-> x.read]
  BY <1>2 DEF Connecting
<1>4. /\ new.at = at /\ new.session = x.session /\ new.snapshot = x.snapshot
      /\ new.cursor = x.cursor /\ new.read = x.read
  BY <1>3
<1> HIDE DEF new
<1>5. StreamOK(new)
  BY <1>2, <1>3, <1>4 DEF StreamOK, Connecting
<1>6. UNCHANGED published
  BY <1>1 DEF server
<1>7. /\ StreamInv' /\ stream'[c] = new
      /\ \A b \in Clients \ {c} : stream'[b] = stream[b]
  BY <1>1, <1>5, <1>6, OneConnection
<1> QED
  BY <1>1, <1>2, <1>4, <1>7 DEF x

(* A new subscriber starts with an empty queue at the latest event. *)
LEMMA SubscribeStarts ==
  ASSUME ServerType, StreamInv, NEW c \in Clients, subscribe(c)
  PROVE  /\ StreamInv' /\ UNCHANGED <<server, view>>
         /\ stream[c].at = "subscribe" /\ Connecting(stream[c])
         /\ stream'[c].at = "live"
         /\ stream'[c].session = stream[c].session
         /\ stream'[c].cursor = stream[c].cursor
         /\ stream'[c].q = << >>
         /\ stream'[c].missed = Len(published[stream[c].session]) - stream[c].read
         /\ \A b \in Clients \ {c} : stream'[b] = stream[b]
<1> DEFINE x == stream[c]
<1> DEFINE from == Len(published[x.session])
<1> DEFINE new == [at |-> "live", session |-> x.session, cursor |-> x.cursor, q |-> <<>>,
                   seq |-> from, missed |-> from - x.read, resynced |-> FALSE]
<1>1. /\ stream' = [stream EXCEPT ![c] = new] /\ x.at = "subscribe"
      /\ UNCHANGED <<server, view>>
  BY DEF subscribe
<1>2. Connecting(x)
  BY <1>1 DEF StreamInv, StreamOK
<1>3. x.session \in Sessions /\ from \in Nat
  BY <1>2 DEF Connecting, ServerType
<1>4. /\ new.at = "live" /\ new.session = x.session /\ new.cursor = x.cursor
      /\ new.q = << >> /\ new.seq = from /\ new.missed = from - x.read
      /\ new.resynced = FALSE
      /\ new = [at |-> "live", session |-> new.session, cursor |-> new.cursor, q |-> new.q,
                seq |-> new.seq, missed |-> new.missed, resynced |-> new.resynced]
  OBVIOUS
<1> HIDE DEF new
<1>5. << >> \in Seq(Items) /\ Gaps(<< >>, from, from)
  BY DEF Gaps
<1>6. StreamOK(new)
  BY <1>3, <1>4, <1>5 DEF StreamOK, Live
<1>7. UNCHANGED published
  BY <1>1 DEF server
<1>8. /\ StreamInv' /\ stream'[c] = new
      /\ \A b \in Clients \ {c} : stream'[b] = stream[b]
  BY <1>1, <1>6, <1>7, OneConnection
<1> QED
  BY <1>1, <1>2, <1>4, <1>8

(* A subscriber takes the first item of its queue. *)
LEMMA DeliverTakes ==
  ASSUME ServerType, StreamInv, NEW c \in Clients, Deliver(c)
  PROVE  /\ StreamInv' /\ UNCHANGED server
         /\ stream[c].at = "live" /\ Live(stream[c]) /\ stream[c].q # << >>
         /\ stream'[c].at = "live"
         /\ stream'[c].session = stream[c].session
         /\ stream'[c].cursor = stream[c].cursor
         /\ stream'[c].missed = stream[c].missed
         /\ stream'[c].q = Tail(stream[c].q)
         /\ stream'[c].resynced = (stream[c].resynced \/ stream[c].q[1] = Resync)
         /\ Head(stream[c].q) = stream[c].q[1] /\ stream[c].q[1] \in Items
         /\ view' = [view EXCEPT ![c] = Show(view[c], stream[c].q[1].event)]
         /\ \A b \in Clients \ {c} : stream'[b] = stream[b]
<1> DEFINE x == stream[c]
<1> DEFINE item == Head(x.q)
<1> DEFINE n == Len(published[x.session])
<1> DEFINE new == [at |-> "live", session |-> x.session, cursor |-> x.cursor, q |-> Tail(x.q),
                   seq |-> item.seq, missed |-> x.missed,
                   resynced |-> (x.resynced \/ item = Resync)]
<1>1. /\ x.at = "live" /\ x.q # << >> /\ UNCHANGED server
      /\ view' = [view EXCEPT ![c] = Show(view[c], item.event)]
  BY DEF Deliver
<1>2. Live(x)
  BY <1>1 DEF StreamInv, StreamOK
<1>3. /\ x.session \in Sessions /\ x.q \in Seq(Items) /\ x.seq \in Nat /\ n \in Nat
      /\ Gaps(x.q, x.seq, n)
  BY <1>2 DEF Live, ServerType
<1>4. Tail(x.q) \in Seq(Items) /\ item = x.q[1] /\ item \in Items /\ Gaps(Tail(x.q), item.seq, n)
  BY <1>1, <1>3, TakeMarksGaps
<1>5. stream' = [stream EXCEPT ![c] = new]
  BY DEF Deliver
<1>6. /\ new.at = "live" /\ new.session = x.session /\ new.cursor = x.cursor
      /\ new.q = Tail(x.q) /\ new.seq = item.seq /\ new.missed = x.missed
      /\ new.resynced = (x.resynced \/ item = Resync)
      /\ new = [at |-> "live", session |-> new.session, cursor |-> new.cursor, q |-> new.q,
                seq |-> new.seq, missed |-> new.missed, resynced |-> new.resynced]
  OBVIOUS
<1> HIDE DEF new
<1>7. item.seq \in Nat
  BY <1>4 DEF Items
<1>8. StreamOK(new)
  BY <1>3, <1>4, <1>6, <1>7 DEF StreamOK, Live
<1>9. UNCHANGED published
  BY <1>1 DEF server
<1>10. /\ StreamInv' /\ stream'[c] = new
       /\ \A b \in Clients \ {c} : stream'[b] = stream[b]
  BY <1>5, <1>8, <1>9, OneConnection
<1> QED
  BY <1>1, <1>2, <1>4, <1>6, <1>10

(* The connection is closed. *)
LEMMA UnsubscribeEnds ==
  ASSUME ServerType, StreamInv, NEW c \in Clients, unsubscribe(c)
  PROVE  /\ StreamInv' /\ UNCHANGED <<server, view>>
         /\ stream'[c].at = "off"
         /\ \A b \in Clients \ {c} : stream'[b] = stream[b]
<1>1. /\ stream' = [stream EXCEPT ![c] = Off] /\ UNCHANGED <<server, view>>
      /\ UNCHANGED published
  BY DEF unsubscribe, server
<1>2. Off.at = "off" /\ StreamOK(Off)
  BY DEF Off, StreamOK
<1> QED
  BY <1>1, <1>2, OneConnection

(* Every step keeps the connections right. *)
LEMMA StreamStep == ServerType /\ StreamInv /\ [Next]_vars => StreamInv'
<1> SUFFICES ASSUME ServerType, StreamInv, [Next]_vars PROVE StreamInv'
  OBVIOUS
<1>1. ASSUME NEW s \in Sessions, Platform(s) PROVE UNCHANGED <<stream, published>>
  BY <1>1 DEF Platform, StatusChanges, AlertChanges, Telemetry, Emit
<1>2. ASSUME NEW c \in Clients, Client(c) PROVE StreamInv'
  BY <1>2, ReplayStarts, ReplaySends, SubscribeStarts, DeliverTakes, UnsubscribeEnds DEF Client
<1>3. Downsample \/ append_console_event \/ Commit \/ FeedRestarts =>
        UNCHANGED <<stream, published>>
  BY DEF Downsample, append_console_event, Commit, FeedRestarts
<1>4. UNCHANGED vars => UNCHANGED <<stream, published>>
  BY DEF vars
<1> QED
  BY <1>1, <1>2, <1>3, <1>4, Steps, StreamKept, PublishKeepsStream

(* A subscriber misses no event in silence, for any number of clients and any  *)
(* size of the queues, however often they overflow.                            *)
THEOREM GapsAlwaysMarked == Spec => []EveryGapMarked
<1>1. ServerType /\ StreamInv => EveryGapMarked
  <2> SUFFICES ASSUME ServerType, StreamInv, NEW c \in Clients, stream[c].at = "live",
                      NEW seqs, seqs = Seqs(stream[c].q, stream[c].seq)
               PROVE  /\ \A k \in 1..Len(seqs) - 1 :
                           0 \in {seqs[k], seqs[k + 1]} \/ seqs[k + 1] = seqs[k] + 1
                      /\ Last(seqs) \in {0, Len(published[stream[c].session])}
    BY DEF EveryGapMarked, Seqs
  <2> DEFINE q == stream[c].q
  <2> DEFINE n == Len(published[stream[c].session])
  <2> DEFINE seq == stream[c].seq
  <2>1. q \in Seq(Items) /\ seq \in Nat /\ Gaps(q, seq, n) /\ seqs = Seqs(q, seq)
    BY DEF StreamInv, StreamOK, Live
  <2> HIDE DEF q, n, seq
  <2>2. /\ Len(seqs) = Len(q) + 1 /\ Len(q) \in Nat
        /\ seqs[1] = seq
        /\ \A k \in 1..Len(q) : seqs[k + 1] = q[k].seq
        /\ Last(seqs) = seqs[Len(q) + 1]
    BY <2>1, SeqsOf
  <2>3. ASSUME NEW k \in 1..Len(seqs) - 1
        PROVE  0 \in {seqs[k], seqs[k + 1]} \/ seqs[k + 1] = seqs[k] + 1
    <3>0. k \in 1..Len(q)
      BY <2>2
    <3>1. k \in 1..Len(q) /\ seqs[k + 1] = q[k].seq
      BY <2>2, <3>0
    <3>2. CASE k = 1
      <4>1. seq = 0 \/ q[1].seq = 0 \/ q[1].seq = seq + 1
        BY <2>1, <2>2, <3>1 DEF Gaps
      <4> QED
        BY <2>2, <3>1, <3>2, <4>1
    <3>3. CASE k > 1
      <4>1. k - 1 \in 1..Len(q) /\ (k - 1) + 1 = k
        BY <3>1, <3>3
      <4>2. seqs[k] = q[k - 1].seq
        BY <2>2, <4>1
      <4>3. q[k - 1].seq = 0 \/ q[k].seq = 0 \/ q[k].seq = q[k - 1].seq + 1
        BY <2>1, <3>1, <3>3 DEF Gaps
      <4> QED
        BY <3>1, <4>2, <4>3
    <3> QED
      BY <3>1, <3>2, <3>3
  <2>4. Last(seqs) \in {0, n}
    <3>1. CASE Len(q) = 0
      BY <2>1, <2>2, <3>1 DEF Gaps
    <3>2. CASE Len(q) > 0
      <4>0. Len(q) \in 1..Len(q)
        BY <2>2, <3>2
      <4>1. seqs[Len(q) + 1] = q[Len(q)].seq
        BY <2>2, <4>0
      <4> QED
        BY <2>1, <2>2, <3>2, <4>1 DEF Gaps
    <3> QED
      BY <2>2, <3>1, <3>2
  <2> QED
    BY <2>3, <2>4 DEF n
<1> QED
  BY FeedInit, FeedStep, StreamInit, StreamStep, <1>1, PTL DEF Spec

(* ---------------------------- the view is current -------------------------- *)

IsAlert(i, s) == topic[i].session = s /\ topic[i].kind = "alert"

(* The records the feed has broadcast. *)
Progress == IF feed = "commit" THEN offset + 1 ELSE offset

(* The latest alert of session s is still on its way to the clients. *)
Pending(s) == \E i \in 1..Len(topic) :
  i > Progress /\ IsAlert(i, s) /\ topic[i].value = tables[s].alert

(* No alert record comes after the one of the alert the tables hold. *)
AlertOrder == \A s \in Sessions : \A i \in 1..Len(topic) :
  IsAlert(i, s) => \E j \in 1..Len(topic) :
                     j >= i /\ IsAlert(j, s) /\ topic[j].value = tables[s].alert

AlertItem(q, k) == q[k].event.kind = "alert"

(* A client that shows alert shown and then every item of q ends with v. *)
WillShow(q, shown, v) ==
  \/ /\ shown = v
     /\ \A j \in 1..Len(q) : ~AlertItem(q, j)
  \/ \E k \in 1..Len(q) :
       /\ AlertItem(q, k) /\ q[k].event.value = v
       /\ \A j \in 1..Len(q) : j > k => ~AlertItem(q, j)

Marked(q) == \E k \in 1..Len(q) : q[k] = Resync

Shape(v) ==
  /\ v = [row |-> v.row, cursor |-> v.cursor, form |-> v.form]
  /\ v.row = [status |-> v.row.status, alert |-> v.row.alert]

(* x is a connection without a cursor that has missed nothing so far, and v    *)
(* what its client shows: it has the latest alert, or the alert is on its way. *)
WillBeCurrent(x, v) ==
  LET s == x.session
  IN  /\ x.at = "snapshot" /\ x.read = Len(published[s]) =>
           x.snapshot.alert = tables[s].alert \/ Pending(s)
      /\ x.at \in {"subscribe", "live"} => Shape(v)
      /\ x.at = "subscribe" /\ x.read = Len(published[s]) =>
           v.row.alert = tables[s].alert \/ Pending(s)
      /\ x.at = "live" /\ x.missed = 0 /\ x.resynced = FALSE /\ ~Marked(x.q) =>
           WillShow(x.q, v.row.alert, tables[s].alert) \/ Pending(s)

ViewInv ==
  /\ AlertOrder
  /\ view = [c \in Clients |-> view[c]]
  /\ \A c \in Clients :
       stream[c].at # "off" /\ stream[c].cursor = {} => WillBeCurrent(stream[c], view[c])

(* Nobody is connected at the start. *)
LEMMA ViewInit == Init => ViewInv
<1> SUFFICES ASSUME Init PROVE ViewInv
  OBVIOUS
<1>1. topic = << >> /\ Len(topic) = 0
  BY DEF Init
<1>2. AlertOrder
  BY <1>1 DEF AlertOrder
<1>3. \A c \in Clients : stream[c].at = "off"
  BY DEF Init, Off
<1>4. view = [c \in Clients |-> view[c]]
  BY DEF Init
<1> QED
  BY <1>2, <1>3, <1>4 DEF ViewInv

(* Telemetry and statuses leave the alerts alone, a new alert is the latest.   *)
LEMMA PlatformAlerts ==
  ASSUME ServerType, AlertOrder, NEW s \in Sessions, Platform(s)
  PROVE  /\ AlertOrder'
         /\ UNCHANGED <<stream, view, published>>
         /\ \A t \in Sessions :
              \/ Pending(t)'
              \/ tables'[t].alert = tables[t].alert /\ (Pending(t) => Pending(t)')
<1>1. PICK kind \in Kinds, value \in Values :
        /\ Emit(s, kind, value)
        /\ \/ kind = "alert" /\ value = tables'[s].alert
              /\ \A t \in Sessions \ {s} : tables'[t] = tables[t]
           \/ kind # "alert" /\ tables' = tables
  <2>1. tables \in [Sessions -> Rows] /\ tables[s].alert \in Nat
    BY DEF ServerType, Rows
  <2>2. CASE StatusChanges(s)
    BY <2>2 DEF StatusChanges, Kinds, Values
  <2>3. CASE AlertChanges(s)
    <3> DEFINE newest == tables[s].alert + 1
    <3> DEFINE row == [status |-> "RUNNING", alert |-> newest]
    <3>1. Emit(s, "alert", newest) /\ tables' = [tables EXCEPT ![s] = row]
      BY <2>3 DEF AlertChanges
    <3>2. newest \in Nat
      BY <2>1
    <3>3. row.alert = newest
      OBVIOUS
    <3> HIDE DEF newest, row
    <3>4. tables'[s] = row /\ \A t \in Sessions \ {s} : tables'[t] = tables[t]
      BY <2>1, <3>1
    <3>5. newest \in Values /\ "alert" \in Kinds
      BY <3>2 DEF Values, Kinds
    <3> QED
      BY <3>1, <3>3, <3>4, <3>5
  <2>4. CASE Telemetry(s)
    <3>1. PICK t \in 1..MaxTime : Emit(s, "telemetry", t) /\ tables' = tables
      BY <2>4 DEF Telemetry
    <3>2. t \in Values /\ "telemetry" \in Kinds
      BY ConsoleStreamAssumption DEF Values, Kinds
    <3> QED
      BY <3>1, <3>2
  <2> QED
    BY <2>2, <2>3, <2>4 DEF Platform
<1>2. /\ topic' \in Seq(Messages)
      /\ Len(topic') = Len(topic) + 1 /\ Len(topic) \in Nat
      /\ \A i \in 1..Len(topic) : topic'[i] = topic[i]
      /\ topic'[Len(topic) + 1].session = s
      /\ topic'[Len(topic) + 1].kind = kind
      /\ topic'[Len(topic) + 1].value = value
  <2>1. topic' = Append(topic, [session |-> s, kind |-> kind, value |-> value])
    BY <1>1 DEF Emit
  <2> DEFINE m == [session |-> s, kind |-> kind, value |-> value]
  <2>2. m \in Messages /\ m.session = s /\ m.kind = kind /\ m.value = value
    BY DEF Messages
  <2> HIDE DEF m
  <2>3. topic' = Append(topic, m) /\ topic \in Seq(Messages)
    BY <2>1 DEF m, ServerType
  <2> QED
    BY <2>2, <2>3
<1>3. UNCHANGED <<offset, feed, stream, view, published>>
  BY <1>1 DEF Emit
<1>4. /\ Progress' = Progress /\ Progress \in Nat /\ Progress <= Len(topic)
  BY <1>2, <1>3 DEF Progress, ServerType
<1>5. \A t, i : IsAlert(i, t)' <=> topic'[i].session = t /\ topic'[i].kind = "alert"
  BY DEF IsAlert
<1>14. PICK last \in Nat : last = Len(topic) + 1
  BY <1>2
<1>6. last \in 1..Len(topic') /\ last > Progress /\ \A i \in 1..Len(topic) : last >= i
  BY <1>2, <1>4, <1>14
<1>7. \A i \in 1..Len(topic) : i \in 1..Len(topic')
  BY <1>2
<1>8. \A i \in 1..Len(topic') : i \in 1..Len(topic) \/ i = last
  BY <1>2, <1>14
<1>9. last >= last
  BY <1>14
<1>10. \A t \in Sessions, i \in 1..Len(topic) : IsAlert(i, t)' <=> IsAlert(i, t)
  BY <1>2, <1>5 DEF IsAlert
<1>11. topic'[last].session = s /\ topic'[last].kind = kind /\ topic'[last].value = value
  BY <1>2, <1>14
<1>12. CASE kind = "alert" /\ value = tables'[s].alert
            /\ \A t \in Sessions \ {s} : tables'[t] = tables[t]
  <2>1. IsAlert(last, s)' /\ topic'[last].value = tables'[s].alert
    BY <1>5, <1>11, <1>12
  <2>2. \A t \in Sessions \ {s} : ~IsAlert(last, t)'
    BY <1>5, <1>11
  <2>3. AlertOrder'
    <3> SUFFICES ASSUME NEW t \in Sessions, NEW i \in 1..Len(topic'), IsAlert(i, t)'
                 PROVE  \E j \in 1..Len(topic') :
                          j >= i /\ IsAlert(j, t)' /\ topic'[j].value = tables'[t].alert
      BY DEF AlertOrder
    <3>1. CASE t = s
      BY <1>6, <1>8, <1>9, <2>1, <3>1
    <3>2. CASE t # s
      <4>1. i \in 1..Len(topic) /\ IsAlert(i, t)
        BY <1>8, <1>10, <2>2, <3>2
      <4>2. PICK j \in 1..Len(topic) :
              j >= i /\ IsAlert(j, t) /\ topic[j].value = tables[t].alert
        BY <4>1 DEF AlertOrder
      <4> QED
        BY <1>2, <1>7, <1>10, <1>12, <3>2, <4>2
    <3> QED
      BY <3>1, <3>2
  <2>4. Pending(s)'
    BY <1>4, <1>6, <2>1 DEF Pending
  <2>5. ASSUME NEW t \in Sessions \ {s}
        PROVE  tables'[t].alert = tables[t].alert /\ (Pending(t) => Pending(t)')
    BY <1>2, <1>4, <1>7, <1>10, <1>12 DEF Pending
  <2> QED
    BY <1>3, <2>3, <2>4, <2>5
<1>13. CASE kind # "alert" /\ tables' = tables
  <2>1. \A t \in Sessions : ~IsAlert(last, t)'
    BY <1>5, <1>11, <1>13
  <2>2. AlertOrder'
    <3> SUFFICES ASSUME NEW t \in Sessions, NEW i \in 1..Len(topic'), IsAlert(i, t)'
                 PROVE  \E j \in 1..Len(topic') :
                          j >= i /\ IsAlert(j, t)' /\ topic'[j].value = tables'[t].alert
      BY DEF AlertOrder
    <3>1. i \in 1..Len(topic) /\ IsAlert(i, t)
      BY <1>8, <1>10, <2>1
    <3>2. PICK j \in 1..Len(topic) :
            j >= i /\ IsAlert(j, t) /\ topic[j].value = tables[t].alert
      BY <3>1 DEF AlertOrder
    <3> QED
      BY <1>2, <1>7, <1>10, <1>13, <3>2
  <2>3. ASSUME NEW t \in Sessions
        PROVE  tables'[t].alert = tables[t].alert /\ (Pending(t) => Pending(t)')
    BY <1>2, <1>4, <1>7, <1>10, <1>13 DEF Pending
  <2> QED
    BY <1>3, <2>2, <2>3
<1> QED
  BY <1>1, <1>12, <1>13

(* Where nothing reaches a client, an alert that is on its way stays so.       *)
LEMMA FeedLeavesAlerts ==
  ASSUME ServerType, AlertOrder,
         Downsample \/ append_console_event \/ Commit \/ FeedRestarts
  PROVE  /\ AlertOrder'
         /\ UNCHANGED <<stream, view, published>>
         /\ \A t \in Sessions :
              tables'[t].alert = tables[t].alert /\ (Pending(t) => Pending(t)')
<1>1. /\ UNCHANGED <<stream, view, published, topic, tables>> /\ offset' \in Nat
      /\ \/ Progress' <= Progress
         \/ Progress' = offset + 1 /\ topic[offset + 1].kind = "telemetry"
  <2>0. offset \in Nat
    BY DEF ServerType
  <2>1. CASE Downsample
    <3>1. offset < Len(topic) /\ Record.kind = "telemetry" /\ feed = "idle"
      BY <2>1 DEF Downsample
    <3>2. topic[offset + 1].kind = "telemetry"
      BY <3>1, RecordType
    <3> QED
      BY <2>0, <2>1, <3>1, <3>2 DEF Downsample, Progress
  <2>2. CASE append_console_event
    BY <2>0, <2>2 DEF append_console_event, Progress
  <2>3. CASE Commit
    BY <2>0, <2>3 DEF Commit, Progress
  <2>4. CASE FeedRestarts
    BY <2>0, <2>4 DEF FeedRestarts, Progress
  <2> QED
    BY <2>1, <2>2, <2>3, <2>4
<1>2. \A i, t : IsAlert(i, t)' <=> IsAlert(i, t)
  BY <1>1 DEF IsAlert
<1>3. AlertOrder'
  BY <1>1, <1>2 DEF AlertOrder
<1>4. ASSUME NEW t \in Sessions, Pending(t) PROVE Pending(t)'
  <2>1. PICK i \in 1..Len(topic) :
          i > Progress /\ IsAlert(i, t) /\ topic[i].value = tables[t].alert
    BY <1>4 DEF Pending
  <2>2. offset \in Nat /\ Progress \in Nat /\ Progress' \in Nat /\ Progress >= offset /\ Len(topic) \in Nat
    <3>1. offset \in Nat /\ Len(topic) \in Nat
      BY DEF ServerType
    <3>2. Progress = offset + 1 \/ Progress = offset
      BY DEF Progress
    <3>3. Progress' = offset' + 1 \/ Progress' = offset'
      BY DEF Progress
    <3> QED
      BY <1>1, <3>1, <3>2, <3>3
  <2>3. i > Progress'
    BY <1>1, <2>1, <2>2 DEF IsAlert
  <2> QED
    BY <1>1, <1>2, <2>1, <2>3 DEF Pending
<1> QED
  BY <1>1, <1>3, <1>4

(* What a step that no client sees keeps.                                      *)
LEMMA ViewKept ==
  ASSUME StreamInv, ViewInv, AlertOrder', UNCHANGED <<stream, view, published>>,
         \A t \in Sessions :
           \/ Pending(t)'
           \/ tables'[t].alert = tables[t].alert /\ (Pending(t) => Pending(t)')
  PROVE  ViewInv'
<1>1. ASSUME NEW c \in Clients, stream[c].at # "off", stream[c].cursor = {}
      PROVE  WillBeCurrent(stream[c], view[c])'
  <2>1. WillBeCurrent(stream[c], view[c])
    BY <1>1 DEF ViewInv
  <2>2. stream[c].session \in Sessions
    BY <1>1 DEF StreamInv, StreamOK, Connecting, Live
  <2> DEFINE s == stream[c].session
  <2>3. CASE Pending(s)'
    BY <2>1, <2>3 DEF WillBeCurrent
  <2>4. CASE tables'[s].alert = tables[s].alert /\ (Pending(s) => Pending(s)')
    BY <2>1, <2>4 DEF WillBeCurrent
  <2> QED
    BY <2>2, <2>3, <2>4
<1> QED
  BY <1>1 DEF ViewInv

(* What an event does to the alert a client shows.                             *)
LEMMA ShowAlert ==
  ASSUME NEW v, Shape(v), NEW e
  PROVE  /\ Shape(Show(v, e))
         /\ Show(v, e).row.alert = IF e.kind = "alert" THEN e.value ELSE v.row.alert
<1> DEFINE r == v.row
<1>1. v = [row |-> r, cursor |-> v.cursor, form |-> v.form] /\ r = [status |-> r.status, alert |-> r.alert]
  BY DEF Shape
<1>2. CASE e.kind = "status" /\ v.row.status # "NONE"
  <2> DEFINE w == [row |-> [status |-> e.value, alert |-> r.alert], cursor |-> {e}, form |-> v.form]
  <2>1. Show(v, e) = [row |-> [r EXCEPT !.status = e.value], cursor |-> {e}, form |-> v.form]
    BY <1>2 DEF Show
  <2>2. [row |-> [r EXCEPT !.status = e.value], cursor |-> {e}, form |-> v.form] = w
    BY <1>1
  <2>3. Shape(w) /\ w.row.alert = r.alert
    BY DEF Shape
  <2> QED
    BY <1>2, <2>1, <2>2, <2>3
<1>3. CASE e.kind = "status" /\ v.row.status = "NONE"
  <2> DEFINE w == [row |-> r, cursor |-> {e}, form |-> v.form]
  <2>1. Show(v, e) = w
    BY <1>3 DEF Show
  <2>3. Shape(w) /\ w.row.alert = r.alert
    BY <1>1 DEF Shape
  <2> QED
    BY <1>3, <2>1, <2>3
<1>4. CASE e.kind = "alert"
  <2> DEFINE w == [row |-> [status |-> r.status, alert |-> e.value], cursor |-> {e}, form |-> "AlertEventV1"]
  <2>1. Show(v, e) = [row |-> [r EXCEPT !.alert = e.value], cursor |-> {e}, form |-> "AlertEventV1"]
    BY <1>4 DEF Show
  <2>2. [row |-> [r EXCEPT !.alert = e.value], cursor |-> {e}, form |-> "AlertEventV1"] = w
    BY <1>1
  <2>3. Shape(w) /\ w.row.alert = e.value
    BY DEF Shape
  <2> QED
    BY <1>4, <2>1, <2>2, <2>3
<1>5. CASE e.kind # "status" /\ e.kind # "alert"
  <2>1. Show(v, e) = v
    BY <1>5 DEF Show
  <2> QED
    BY <1>5, <2>1
<1> QED
  BY <1>2, <1>3, <1>4, <1>5

(* An unmarked queue that takes an event had room for it.                      *)
LEMMA PutUnmarked ==
  ASSUME NEW q \in Seq(Items), NEW item \in Items, ~Marked(Put(q, item))
  PROVE  /\ ~Marked(q)
         /\ Put(q, item) \in Seq(Items)
         /\ Len(Put(q, item)) = Len(q) + 1
         /\ \A k \in 1..Len(q) : Put(q, item)[k] = q[k]
         /\ Put(q, item)[Len(q) + 1] = item
<1>1. Len(q) < QueueSize
  <2> SUFFICES ASSUME ~(Len(q) < QueueSize) PROVE FALSE
    OBVIOUS
  <2> DEFINE r == <<Resync>>
  <2>1. Put(q, item) = r
    BY DEF Put
  <2>2. 1 \in 1..Len(r) /\ r[1] = Resync
    OBVIOUS
  <2> HIDE DEF r
  <2> QED
    BY <2>1, <2>2 DEF Marked
<1> DEFINE r == Append(q, item)
<1>2. Put(q, item) = r
  BY <1>1 DEF Put
<1>3. /\ r \in Seq(Items) /\ Len(r) = Len(q) + 1 /\ Len(q) \in Nat
      /\ \A k \in 1..Len(q) : r[k] = q[k]
      /\ r[Len(q) + 1] = item
  OBVIOUS
<1> HIDE DEF r
<1>4. \A k \in 1..Len(q) : k \in 1..Len(r)
  BY <1>3
<1>5. ~Marked(q)
  BY <1>2, <1>3, <1>4 DEF Marked
<1> QED
  BY <1>2, <1>3, <1>5

(* An event that is not an alert leaves what will be shown as it was.          *)
LEMMA PutWillShow ==
  ASSUME NEW q \in Seq(Items), NEW item \in Items, ~Marked(Put(q, item)), NEW shown, NEW v
  PROVE  /\ item.event.kind = "alert" /\ item.event.value = v => WillShow(Put(q, item), shown, v)
         /\ item.event.kind # "alert" /\ WillShow(q, shown, v) => WillShow(Put(q, item), shown, v)
<1> DEFINE r == Put(q, item)
<1>1. /\ Len(r) = Len(q) + 1 /\ Len(q) \in Nat
      /\ \A k \in 1..Len(q) : r[k] = q[k]
      /\ r[Len(q) + 1] = item
  BY PutUnmarked
<1> HIDE DEF r
<1>2. /\ Len(q) + 1 \in 1..Len(r)
      /\ \A k \in 1..Len(r) : ~(k > Len(q) + 1)
      /\ \A k \in 1..Len(r) : k \in 1..Len(q) \/ k = Len(q) + 1
      /\ \A k \in 1..Len(q) : k \in 1..Len(r)
  BY <1>1
<1>3. ASSUME item.event.kind = "alert", item.event.value = v PROVE WillShow(r, shown, v)
  <2>1. AlertItem(r, Len(q) + 1) /\ r[Len(q) + 1].event.value = v
    BY <1>1, <1>3 DEF AlertItem
  <2> QED
    BY <1>2, <2>1 DEF WillShow
<1>4. ASSUME item.event.kind # "alert", WillShow(q, shown, v) PROVE WillShow(r, shown, v)
  <2>1. \A k \in 1..Len(q) : AlertItem(r, k) <=> AlertItem(q, k)
    BY <1>1 DEF AlertItem
  <2>2. ~AlertItem(r, Len(q) + 1)
    BY <1>1, <1>4 DEF AlertItem
  <2> QED
    BY <1>1, <1>2, <1>4, <2>1, <2>2 DEF WillShow
<1> QED
  BY <1>3, <1>4 DEF r

(* Showing the first item of the queue leaves what will be shown as it was.    *)
LEMMA TakeWillShow ==
  ASSUME NEW q \in Seq(Items), q # << >>, NEW shown, NEW v, WillShow(q, shown, v)
  PROVE  WillShow(Tail(q), IF q[1].event.kind = "alert" THEN q[1].event.value ELSE shown, v)
<1> DEFINE r == Tail(q)
<1>1. /\ Len(r) = Len(q) - 1 /\ Len(q) \in Nat /\ Len(q) > 0
      /\ \A k \in 1..Len(r) : r[k] = q[k + 1]
  OBVIOUS
<1> HIDE DEF r
<1>2. \A k \in 1..Len(r) : k + 1 \in 1..Len(q)
  BY <1>1
<1>3. \A k \in 1..Len(r) : AlertItem(r, k) <=> AlertItem(q, k + 1)
  BY <1>1 DEF AlertItem
<1>4. 1 \in 1..Len(q)
  BY <1>1
<1>5. CASE shown = v /\ \A j \in 1..Len(q) : ~AlertItem(q, j)
  BY <1>2, <1>3, <1>4, <1>5 DEF WillShow, AlertItem, r
<1>6. ASSUME NEW k \in 1..Len(q), AlertItem(q, k), q[k].event.value = v,
             \A j \in 1..Len(q) : j > k => ~AlertItem(q, j)
      PROVE  WillShow(r, IF q[1].event.kind = "alert" THEN q[1].event.value ELSE shown, v)
  <2>1. CASE k = 1
    <3>1. \A j \in 1..Len(r) : ~AlertItem(r, j)
      <4> SUFFICES ASSUME NEW j \in 1..Len(r) PROVE ~AlertItem(r, j)
        OBVIOUS
      <4>1. j + 1 > k
        BY <1>1, <2>1
      <4> QED
        BY <1>2, <1>3, <1>6, <4>1
    <3> QED
      BY <1>6, <2>1, <3>1 DEF WillShow, AlertItem
  <2>2. CASE k > 1
    <3>1. k - 1 \in 1..Len(r) /\ (k - 1) + 1 = k
      BY <1>1, <2>2
    <3>2. AlertItem(r, k - 1) /\ r[k - 1].event.value = v
      BY <1>1, <1>3, <1>6, <3>1
    <3>3. \A j \in 1..Len(r) : j > k - 1 => ~AlertItem(r, j)
      <4> SUFFICES ASSUME NEW j \in 1..Len(r), j > k - 1 PROVE ~AlertItem(r, j)
        OBVIOUS
      <4>1. j + 1 > k
        BY <1>1, <2>2
      <4> QED
        BY <1>2, <1>3, <1>6, <4>1
    <3> QED
      BY <3>1, <3>2, <3>3 DEF WillShow
  <2> QED
    BY <2>1, <2>2
<1> QED
  BY <1>5, <1>6 DEF WillShow, r

(* publish moves the feed past its record: an alert that was on its way stays  *)
(* so unless it is the record, and of the record's session.                    *)
LEMMA PublishAlerts ==
  ASSUME ServerType, AlertOrder, publish
  PROVE  /\ AlertOrder'
         /\ UNCHANGED <<tables, view>>
         /\ \A t \in Sessions \ {Record.session} : Pending(t) => Pending(t)'
         /\ Record.kind # "alert" => \A t \in Sessions : Pending(t) => Pending(t)'
         /\ Record.kind = "alert" =>
              Record.value = tables[Record.session].alert \/ Pending(Record.session)'
<1>1. /\ UNCHANGED <<tables, view, topic, offset>> /\ feed = "publish" /\ feed' = "commit"
  BY DEF publish
<1>2. offset < Len(topic) /\ Record.session \in Sessions
  BY PublishAppends
<1>3. /\ offset \in Nat /\ offset + 1 \in 1..Len(topic)
      /\ Record.session = topic[offset + 1].session /\ Record.kind = topic[offset + 1].kind
      /\ Record.value = topic[offset + 1].value
  BY <1>2, RecordType DEF Record, decode
<1>4. Progress = offset /\ Progress' = offset + 1
  BY <1>1 DEF Progress
<1>5. \A i, t : IsAlert(i, t)' <=> IsAlert(i, t)
  BY <1>1 DEF IsAlert
<1>6. AlertOrder'
  BY <1>1, <1>5 DEF AlertOrder
<1>7. ASSUME NEW t \in Sessions, Pending(t), ~IsAlert(offset + 1, t) PROVE Pending(t)'
  <2>1. PICK i \in 1..Len(topic) :
          i > Progress /\ IsAlert(i, t) /\ topic[i].value = tables[t].alert
    BY <1>7 DEF Pending
  <2>2. i # offset + 1
    BY <1>7, <2>1
  <2>3. i > Progress'
    BY <1>3, <1>4, <2>1, <2>2
  <2> QED
    BY <1>1, <1>5, <2>1, <2>3 DEF Pending
<1>8. \A t \in Sessions : IsAlert(offset + 1, t) => t = Record.session /\ Record.kind = "alert"
  BY <1>3 DEF IsAlert
<1>9. ASSUME Record.kind = "alert"
      PROVE  Record.value = tables[Record.session].alert \/ Pending(Record.session)'
  <2>1. PICK s \in Sessions : s = Record.session
    BY <1>2
  <2>2. IsAlert(offset + 1, s)
    BY <1>3, <1>9, <2>1 DEF IsAlert
  <2>3. PICK j \in 1..Len(topic) :
          j >= offset + 1 /\ IsAlert(j, s) /\ topic[j].value = tables[s].alert
    BY <1>3, <2>2 DEF AlertOrder
  <2>4. CASE j = offset + 1
    BY <1>3, <2>1, <2>3, <2>4
  <2>5. CASE j # offset + 1
    <3>1. j > Progress'
      BY <1>3, <1>4, <2>3, <2>5
    <3>2. Pending(s)'
      BY <1>1, <1>5, <2>3, <3>1 DEF Pending
    <3>3. Record' = Record
      BY <1>1, SameRecord
    <3> QED
      BY <2>1, <3>2, <3>3
  <2> QED
    BY <2>4, <2>5
<1> QED
  BY <1>1, <1>6, <1>7, <1>8, <1>9

(* publish: a subscriber of the session queues the alert or learns of a gap,   *)
(* and one that is connecting will find that it has missed an event.           *)
LEMMA PublishKeepsView ==
  ASSUME ServerType, StreamInv, ViewInv, publish
  PROVE  ViewInv'
<1>1. /\ AlertOrder'
      /\ UNCHANGED <<tables, view>>
      /\ \A t \in Sessions \ {Record.session} : Pending(t) => Pending(t)'
      /\ Record.kind # "alert" => \A t \in Sessions : Pending(t) => Pending(t)'
      /\ Record.kind = "alert" =>
           Record.value = tables[Record.session].alert \/ Pending(Record.session)'
  BY PublishAlerts DEF ViewInv
<1>2. /\ Record \in Events /\ Record.session \in Sessions
      /\ \A t \in Sessions \ {Record.session} : published'[t] = published[t]
      /\ Len(published'[Record.session]) = Len(published[Record.session]) + 1
      /\ Len(published[Record.session]) \in Nat
  BY PublishAppends
<1>0. Record' = Record
  BY SameRecord DEF publish
<1>3. PICK s \in Sessions : s = Record.session
  BY <1>2
<1>4. PICK item \in Items :
        /\ item.event = Record
        /\ stream' = [c \in Clients |->
             IF stream[c].at = "live" /\ stream[c].session = s
             THEN [stream[c] EXCEPT !.q = Put(stream[c].q, item)] ELSE stream[c]]
  <2> DEFINE item == [seq |-> Len(published[Record.session]) + 1, event |-> Record]
  <2>1. item \in Items /\ item.event = Record
    BY <1>2 DEF Items
  <2>2. stream' = [c \in Clients |->
             IF stream[c].at = "live" /\ stream[c].session = Record.session
             THEN [stream[c] EXCEPT !.q = Put(stream[c].q, item)] ELSE stream[c]]
    BY DEF publish
  <2> HIDE DEF item
  <2> QED
    BY <1>3, <2>1, <2>2
<1>5. ASSUME NEW c \in Clients, stream'[c].at # "off", stream'[c].cursor = {}
      PROVE  WillBeCurrent(stream[c], view[c])'
  <2> DEFINE x == stream[c]
  <2>0. StreamOK(x)
    BY DEF StreamInv
  <2>1. CASE x.at = "live" /\ x.session = s
    <3> DEFINE r == Put(x.q, item)
    <3> DEFINE y == [x EXCEPT !.q = r]
    <3>1. /\ x = [at |-> "live", session |-> x.session, cursor |-> x.cursor, q |-> x.q,
                  seq |-> x.seq, missed |-> x.missed, resynced |-> x.resynced]
          /\ x.q \in Seq(Items)
      BY <2>0, <2>1 DEF StreamOK, Live
    <3>2. stream'[c] = y
      BY <1>4, <2>1
    <3> HIDE DEF r, x
    <3>3. y = [at |-> "live", session |-> x.session, cursor |-> x.cursor, q |-> r,
               seq |-> x.seq, missed |-> x.missed, resynced |-> x.resynced]
      BY <3>1
    <3>4. y.at = "live" /\ y.session = x.session /\ y.cursor = x.cursor /\ y.q = r
          /\ y.missed = x.missed /\ y.resynced = x.resynced
      BY <3>3
    <3> HIDE DEF y
    <3>5. x.cursor = {} /\ x.at # "off"
      BY <1>5, <2>1, <3>2, <3>4
    <3>6. WillBeCurrent(x, view[c])
      BY <3>5 DEF ViewInv, x
    <3>7. Shape(view[c])
      BY <2>1, <3>6 DEF WillBeCurrent
    <3>8. ASSUME x.missed = 0, x.resynced = FALSE, ~Marked(r)
          PROVE  WillShow(r, view[c].row.alert, tables[s].alert) \/ Pending(s)'
      <4>1. ~Marked(x.q)
        BY <3>1, <3>8, PutUnmarked DEF r
      <4>2. WillShow(x.q, view[c].row.alert, tables[s].alert) \/ Pending(s)
        BY <2>1, <3>6, <3>8, <4>1 DEF WillBeCurrent
      <4>3. CASE Record.kind = "alert"
        <5>1. Record.value = tables[s].alert \/ Pending(s)'
          BY <1>0, <1>1, <1>3, <4>3
        <5> QED
          BY <1>4, <3>1, <3>8, <4>3, <5>1, PutWillShow DEF r
      <4>4. CASE Record.kind # "alert"
        BY <1>1, <1>4, <3>1, <3>8, <4>2, <4>4, PutWillShow DEF r
      <4> QED
        BY <4>3, <4>4
    <3> QED
      BY <1>1, <2>1, <3>2, <3>4, <3>7, <3>8 DEF WillBeCurrent
  <2>2. CASE ~(x.at = "live" /\ x.session = s)
    <3>1. stream'[c] = x
      BY <1>4, <2>2
    <3>2. WillBeCurrent(x, view[c])
      BY <1>5, <3>1 DEF ViewInv
    <3>3. x.session \in Sessions
      BY <1>5, <2>0, <3>1 DEF StreamOK, Connecting, Live
    <3>4. CASE x.session # s
      <4>1. published'[x.session] = published[x.session] /\ (Pending(x.session) => Pending(x.session)')
        BY <1>1, <1>2, <1>3, <3>1, <3>3, <3>4
      <4> QED
        BY <1>1, <3>1, <3>2, <4>1 DEF WillBeCurrent
    <3>5. CASE x.session = s
      <4>1. x.at # "live"
        BY <2>2, <3>5
      <4>2. x.at \in {"snapshot", "subscribe"} => x.read # Len(published'[s])
        <5>1. x.at \in {"snapshot", "subscribe"} => x.read \in 0..Len(published[s])
          BY <2>0, <3>5 DEF StreamOK, Connecting
        <5> QED
          BY <1>2, <1>3, <5>1
      <4> QED
        BY <1>1, <3>1, <3>2, <3>5, <4>1, <4>2 DEF WillBeCurrent
    <3> QED
      BY <3>4, <3>5
  <2> QED
    BY <2>1, <2>2
<1>6. view' = [c \in Clients |-> view'[c]]
  BY <1>1 DEF ViewInv
<1> QED
  BY <1>1, <1>5, <1>6 DEF ViewInv

(* One client's connection or view changes: it is left to look at that one.    *)
LEMMA ClientKeepsView ==
  ASSUME ViewInv, NEW c \in Clients, UNCHANGED server,
         \A b \in Clients \ {c} : stream'[b] = stream[b] /\ view'[b] = view[b],
         view' = [b \in Clients |-> view'[b]],
         stream'[c].at # "off" /\ stream'[c].cursor = {} => WillBeCurrent(stream[c], view[c])'
  PROVE  ViewInv'
<1>1. UNCHANGED <<tables, topic, offset, feed, published>>
  BY DEF server
<1>2. AlertOrder'
  BY <1>1 DEF AlertOrder, IsAlert, ViewInv
<1>3. \A s : Pending(s)' <=> Pending(s)
  BY <1>1 DEF Pending, IsAlert, Progress
<1>4. ASSUME NEW b \in Clients \ {c}, stream'[b].at # "off", stream'[b].cursor = {}
      PROVE  WillBeCurrent(stream[b], view[b])'
  <2>1. WillBeCurrent(stream[b], view[b]) /\ stream'[b] = stream[b] /\ view'[b] = view[b]
    BY <1>4 DEF ViewInv
  <2>2. Pending(stream[b].session)' <=> Pending(stream[b].session)
    BY <1>3, <2>1
  <2> QED
    BY <1>1, <2>1, <2>2 DEF WillBeCurrent
<1> QED
  BY <1>2, <1>4 DEF ViewInv

(* A client that resumes from nothing is sent no stored event.                 *)
LEMMA NothingToResume ==
  ASSUME NEW s PROVE events_after(s, {}) = << >>
  BY DEF events_after

(* What the clients do.                                                        *)
LEMMA ClientStep ==
  ASSUME ServerType, StreamInv, ViewInv, NEW c \in Clients, Client(c)
  PROVE  ViewInv'
<1>0. UNCHANGED server
  BY ClientsLeaveServer
<1>1. UNCHANGED <<tables, topic, offset, feed, published>>
  BY <1>0 DEF server
<1>2. \A s : Pending(s)' <=> Pending(s)
  BY <1>1 DEF Pending, IsAlert, Progress
<1>3. view = [b \in Clients |-> view[b]]
  BY DEF ViewInv
<1>4. ASSUME NEW s \in Sessions, stream_replay(c, s) PROVE ViewInv'
  <2>1. /\ UNCHANGED view
        /\ stream'[c].at = "snapshot" /\ stream'[c].session = s
        /\ stream'[c].snapshot = tables[s]
        /\ \A b \in Clients \ {c} : stream'[b] = stream[b]
    BY <1>4, ReplayStarts
  <2>2. WillBeCurrent(stream[c], view[c])'
    BY <1>1, <2>1 DEF WillBeCurrent
  <2> QED
    BY <1>0, <1>3, <2>1, <2>2, ClientKeepsView
<1>5. ASSUME Replay(c) PROVE ViewInv'
  <2>1. /\ stream[c].at = "snapshot" /\ Connecting(stream[c])
        /\ stream'[c].at \in {"subscribe", "ended"}
        /\ stream'[c].session = stream[c].session
        /\ stream'[c].cursor = stream[c].cursor
        /\ stream'[c].read = stream[c].read
        /\ \A b \in Clients \ {c} : stream'[b] = stream[b]
    BY <1>5, ReplaySends
  <2> DEFINE v == ShowAll(Snapshot(stream[c].snapshot),
                          events_after(stream[c].session, stream[c].cursor))
  <2>2. view' = [view EXCEPT ![c] = v]
    BY <1>5 DEF Replay
  <2>3. stream[c].cursor = {} => v = Snapshot(stream[c].snapshot)
    BY NothingToResume DEF ShowAll
  <2> HIDE DEF v
  <2>4. /\ view' = [b \in Clients |-> view'[b]] /\ view'[c] = v
        /\ \A b \in Clients \ {c} : view'[b] = view[b]
    BY <1>3, <2>2
  <2>5. ASSUME stream'[c].cursor = {} PROVE WillBeCurrent(stream[c], view[c])'
    <3>1. view'[c] = Snapshot(stream[c].snapshot) /\ stream[c].cursor = {}
      BY <2>1, <2>3, <2>4, <2>5
    <3>2. WillBeCurrent(stream[c], view[c])
      BY <2>1, <3>1 DEF ViewInv
    <3>3. stream[c].snapshot = [status |-> stream[c].snapshot.status, alert |-> stream[c].snapshot.alert]
      BY <2>1 DEF Connecting, Rows
    <3>4. view'[c].row = stream[c].snapshot /\ view'[c].cursor = {}
      BY <3>1 DEF Snapshot
    <3>5. Shape(view'[c])
      BY <3>1, <3>3, <3>4 DEF Shape, Snapshot
    <3>6. Pending(stream[c].session)' <=> Pending(stream[c].session)
      BY <1>2, <2>1
    <3> QED
      BY <1>1, <2>1, <3>2, <3>4, <3>5, <3>6 DEF WillBeCurrent
  <2> QED
    BY <1>0, <2>1, <2>4, <2>5, ClientKeepsView
<1>6. ASSUME subscribe(c) PROVE ViewInv'
  <2>1. /\ UNCHANGED view
        /\ stream[c].at = "subscribe" /\ Connecting(stream[c])
        /\ stream'[c].at = "live"
        /\ stream'[c].session = stream[c].session
        /\ stream'[c].cursor = stream[c].cursor
        /\ stream'[c].q = << >>
        /\ stream'[c].missed = Len(published[stream[c].session]) - stream[c].read
        /\ \A b \in Clients \ {c} : stream'[b] = stream[b]
    BY <1>6, SubscribeStarts
  <2>2. ASSUME stream'[c].cursor = {} PROVE WillBeCurrent(stream[c], view[c])'
    <3>1. WillBeCurrent(stream[c], view[c])
      BY <2>1, <2>2 DEF ViewInv
    <3>2. Pending(stream[c].session)' <=> Pending(stream[c].session)
      BY <1>2, <2>1
    <3>3. stream[c].read \in Nat /\ Len(published[stream[c].session]) \in Nat
      BY <2>1 DEF Connecting, ServerType
    <3>4. stream'[c].missed = 0 => stream[c].read = Len(published[stream[c].session])
      BY <2>1, <3>3
    <3>5. \A shown, v : shown = v => WillShow(<< >>, shown, v)
      BY DEF WillShow
    <3> QED
      BY <1>1, <2>1, <3>1, <3>2, <3>4, <3>5 DEF WillBeCurrent
  <2> QED
    BY <1>0, <1>3, <2>1, <2>2, ClientKeepsView
<1>7. ASSUME Deliver(c) PROVE ViewInv'
  <2> DEFINE q == stream[c].q
  <2>1. /\ stream[c].at = "live" /\ Live(stream[c]) /\ q # << >>
        /\ stream'[c].at = "live"
        /\ stream'[c].session = stream[c].session
        /\ stream'[c].cursor = stream[c].cursor
        /\ stream'[c].missed = stream[c].missed
        /\ stream'[c].q = Tail(q)
        /\ stream'[c].resynced = (stream[c].resynced \/ q[1] = Resync)
        /\ view' = [view EXCEPT ![c] = Show(view[c], q[1].event)]
        /\ \A b \in Clients \ {c} : stream'[b] = stream[b]
    BY <1>7, DeliverTakes
  <2>2. /\ view' = [b \in Clients |-> view'[b]] /\ view'[c] = Show(view[c], q[1].event)
        /\ \A b \in Clients \ {c} : view'[b] = view[b]
    BY <1>3, <2>1
  <2>3. ASSUME stream'[c].cursor = {} PROVE WillBeCurrent(stream[c], view[c])'
    <3>1. WillBeCurrent(stream[c], view[c])
      BY <2>1, <2>3 DEF ViewInv
    <3>2. Pending(stream[c].session)' <=> Pending(stream[c].session)
      BY <1>2, <2>1
    <3>3. Shape(view[c])
      BY <2>1, <3>1 DEF WillBeCurrent
    <3>4. /\ Shape(view'[c])
          /\ view'[c].row.alert = IF q[1].event.kind = "alert" THEN q[1].event.value
                                  ELSE view[c].row.alert
      <4> DEFINE e == q[1].event
      <4> DEFINE v == view[c]
      <4>1. view'[c] = Show(v, e) /\ Shape(v)
        BY <2>2, <3>3
      <4> HIDE DEF e, v
      <4>2. /\ Shape(Show(v, e))
            /\ Show(v, e).row.alert = IF e.kind = "alert" THEN e.value ELSE v.row.alert
        BY <4>1, ShowAlert
      <4> QED
        BY <4>1, <4>2 DEF e, v
    <3>5. ASSUME stream'[c].missed = 0, stream'[c].resynced = FALSE, ~Marked(Tail(q))
          PROVE  \/ WillShow(Tail(q), view'[c].row.alert, tables[stream[c].session].alert)
                 \/ Pending(stream[c].session)
      <4>1. stream[c].resynced = FALSE /\ q[1] # Resync
        BY <2>1, <3>5 DEF Live
      <4>2. q \in Seq(Items)
        BY <2>1 DEF Live
      <4>3. ~Marked(q)
        <5> SUFFICES ASSUME NEW k \in 1..Len(q), q[k] = Resync PROVE FALSE
          BY DEF Marked
        <5>1. k > 1 /\ k - 1 \in 1..Len(Tail(q)) /\ Tail(q)[k - 1] = q[k]
          <6> HIDE DEF q
          <6>1. k # 1 /\ k \in Nat
            BY <4>1, <4>2
          <6>2. Len(Tail(q)) = Len(q) - 1 /\ Len(q) \in Nat /\ \A j \in 1..Len(Tail(q)) : Tail(q)[j] = q[j + 1]
            BY <2>1, <4>2
          <6>3. k - 1 \in 1..Len(Tail(q)) /\ (k - 1) + 1 = k
            BY <6>1, <6>2
          <6> QED
            BY <6>1, <6>2, <6>3
        <5> QED
          BY <3>5, <5>1 DEF Marked
      <4>4. \/ WillShow(q, view[c].row.alert, tables[stream[c].session].alert)
            \/ Pending(stream[c].session)
        BY <2>1, <3>1, <3>5, <4>1, <4>3 DEF WillBeCurrent
      <4> QED
        BY <2>1, <3>4, <4>2, <4>4, TakeWillShow
    <3> HIDE DEF q
    <3> QED
      BY <1>1, <2>1, <3>2, <3>4, <3>5 DEF WillBeCurrent
  <2> QED
    BY <1>0, <2>1, <2>2, <2>3, ClientKeepsView
<1>8. ASSUME unsubscribe(c) PROVE ViewInv'
  <2>1. /\ UNCHANGED view /\ stream'[c].at = "off"
        /\ \A b \in Clients \ {c} : stream'[b] = stream[b]
    BY <1>8, UnsubscribeEnds
  <2> QED
    BY <1>0, <1>3, <2>1, ClientKeepsView
<1> QED
  BY <1>4, <1>5, <1>6, <1>7, <1>8 DEF Client

(* Every step keeps it.                                                        *)
LEMMA ViewStep ==
  ASSUME ServerType, StreamInv, ViewInv, [Next]_vars
  PROVE  ViewInv'
<1>1. AlertOrder
  BY DEF ViewInv
<1>2. ASSUME NEW s \in Sessions, Platform(s) PROVE ViewInv'
  BY <1>1, <1>2, PlatformAlerts, ViewKept
<1>3. CASE Downsample \/ append_console_event \/ Commit \/ FeedRestarts
  BY <1>1, <1>3, FeedLeavesAlerts, ViewKept
<1>4. CASE UNCHANGED vars
  <2>1. UNCHANGED <<tables, topic, offset, feed, stream, view, published>>
    BY <1>4 DEF vars
  <2>2. AlertOrder' /\ \A s : Pending(s)' <=> Pending(s)
    BY <1>1, <2>1 DEF AlertOrder, Pending, IsAlert, Progress
  <2> QED
    BY <2>1, <2>2, ViewKept
<1> QED
  BY <1>2, <1>3, <1>4, Steps, PublishKeepsView, ClientStep

(* A console that connects without a cursor and misses nothing ends up showing *)
(* the detection times of the alert's latest change, for any number of         *)
(* sessions, clients, records and restarts of the feed: however far the feed   *)
(* was behind the snapshot, and however often it broadcasts an older alert     *)
(* again.                                                                      *)
THEOREM ViewsAlwaysCurrent == Spec => []ViewIsCurrent
<1>1. ServerType /\ StreamInv /\ ViewInv => ViewIsCurrent
  <2> SUFFICES ASSUME ServerType, StreamInv, ViewInv, NEW c \in Clients,
                      Settled(c), stream[c].missed = 0, ~stream[c].resynced, stream[c].cursor = {}
               PROVE  Current(c)
    BY DEF ViewIsCurrent
  <2>1. stream[c].at = "live" /\ stream[c].q = << >> /\ offset = Len(topic) /\ feed = "idle"
    BY DEF Settled
  <2>2. WillBeCurrent(stream[c], view[c]) /\ Live(stream[c])
    BY <2>1 DEF ViewInv, StreamInv, StreamOK
  <2>3. stream[c].resynced = FALSE /\ ~Marked(stream[c].q)
    BY <2>1, <2>2 DEF Live, Marked
  <2>4. \A i \in 1..Len(topic) : ~(i > Progress)
    BY <2>1 DEF Progress, ServerType
  <2>5. WillShow(stream[c].q, view[c].row.alert, tables[stream[c].session].alert)
    BY <2>1, <2>2, <2>3, <2>4 DEF WillBeCurrent, Pending
  <2> QED
    BY <2>1, <2>5 DEF WillShow, Current
<1> QED
  BY FeedInit, FeedStep, StreamInit, StreamStep, ViewInit, ViewStep, <1>1, PTL DEF Spec
=============================================================================
