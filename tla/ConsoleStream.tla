--------------------------- MODULE ConsoleStream ----------------------------
(***************************************************************************)
(* The event stream of the operator console: the feed that stores and      *)
(* broadcasts records and the broker's bounded queues (console_stream.py), *)
(* the table of console events (persistence.py), the stream route of       *)
(* api.py and what the console makes of it (useReplayStream.ts).           *)
(***************************************************************************)
EXTENDS Naturals, Sequences, SequencesExt, FiniteSetsExt, TLC

CONSTANTS Clients, Sessions,
          MaxTime,          \* bound: source time of telemetry
          Interval,         \* interval_seconds of the downsampler
          QueueSize,        \* max_queue_size of the broker
          Limit,            \* events_after's LIMIT
          WithBroker,       \* BOOLEAN: create_app was given a broker
          MaxRecords,       \* bound: records of the topics
          MaxRestarts       \* bound: restarts of the feed

ASSUME ConsoleStreamAssumption ==
  /\ MaxTime \in Nat /\ Interval \in Nat \ {0} /\ MaxRecords \in Nat /\ MaxRestarts \in Nat
  /\ QueueSize \in Nat \ {0} /\ Limit \in Nat \ {0}
  /\ WithBroker \in BOOLEAN

VARIABLES replay,      \* the state of the replay of each session
          tables,      \* its row of replay_sessions, "NONE" if missing, and its alert
          topic,       \* the records, in the order the feed reads them
          offset,      \* committed by the feed
          restarts,    \* of the feed
          feed,        \* "idle", or the step of process that comes next
          last_emitted,    \* the downsampler's: at most one source time
          console_events,  \* the stored events by stream_sequence
          published,   \* history: events published, by session
          stream,      \* the connections
          view         \* what a client shows: the row of the session, the number of
                       \* changes its alert has seen and the form of its entry

vars == <<replay, tables, topic, offset, restarts, feed, last_emitted, console_events, published, stream, view>>
server == <<replay, tables, topic, offset, restarts, feed, last_emitted, console_events, published>>

NoRow == [status |-> "NONE", alert |-> 0]
Off == [at |-> "off"]
Resync == [seq |-> 0, event |-> [kind |-> "resync_required"]]

(* A client that has read the tables and no event since.                   *)
Snapshot(row) ==
  [row |-> row, cursor |-> {}, form |-> IF row.alert = 0 THEN "none" ELSE "AlertSummary"]

Init ==
  /\ replay = [s \in Sessions |-> "CREATED"]
  /\ tables = [s \in Sessions |-> NoRow]
  /\ topic = <<>>
  /\ offset = 0
  /\ restarts = 0
  /\ feed = "idle"
  /\ last_emitted = {}
  /\ console_events = <<>>
  /\ published = [s \in Sessions |-> <<>>]
  /\ stream = [c \in Clients |-> Off]
  /\ view = [c \in Clients |-> Snapshot(NoRow)]

-----------------------------------------------------------------------------
(* What the platform sends (external).                                     *)
Emit(s, kind, value) ==
  /\ Len(topic) < MaxRecords
  /\ topic' = Append(topic, [session |-> s, kind |-> kind, value |-> value])
  /\ UNCHANGED <<offset, restarts, feed, last_emitted, console_events, published, stream, view>>

(* The replay runs or pauses, which nobody writes to its row.              *)
StatusChanges(s) ==
  LET status == IF replay[s] = "RUNNING" THEN "PAUSED" ELSE "RUNNING"
  IN  Emit(s, "status", status) /\ replay' = [replay EXCEPT ![s] = status] /\ UNCHANGED tables

(* The alert service records a decision that changes the alert: the row of *)
(* the session is inserted if it is missing.                               *)
AlertChanges(s) ==
  LET alert == tables[s].alert + 1
  IN  Emit(s, "alert", alert) /\ tables' = [tables EXCEPT ![s] = [status |-> "RUNNING", alert |-> alert]]
      /\ UNCHANGED replay

Telemetry(s) == \E t \in 1..MaxTime : Emit(s, "telemetry", t) /\ UNCHANGED <<replay, tables>>

-----------------------------------------------------------------------------
(* The id of an event: that of its message, but a status is named by its   *)
(* session, state and last sequence, which a pause does not move.          *)
event_id(i) ==
  LET r == topic[i]
  IN  IF r.kind = "status" THEN <<"status", r.session, r.value>> ELSE <<r.kind, i>>

durable(kind) == kind /= "telemetry"

decode(i) ==
  [id |-> event_id(i), at |-> i,
   session |-> topic[i].session, kind |-> topic[i].kind, value |-> topic[i].value]

accept(r) == \A t \in last_emitted : r.value >= t + Interval

Record == decode(offset + 1)

(* Mutant: every kind of event is downsampled. *)
Downsample_all ==
  /\ feed = "idle" /\ offset < Len(topic)
  /\ IF Record.kind = "telemetry" /\ accept(Record)
     THEN feed' = "publish" /\ last_emitted' = {Record.value} /\ UNCHANGED offset
     ELSE offset' = offset + 1 /\ UNCHANGED <<feed, last_emitted>>
  /\ UNCHANGED <<replay, tables, topic, restarts, console_events, published, stream, view>>

(* process: telemetry that is not accepted is committed at once.           *)
Downsample ==
  /\ feed = "idle" /\ offset < Len(topic)
  /\ Record.kind = "telemetry"
  /\ IF accept(Record)
     THEN feed' = "publish" /\ last_emitted' = {Record.value} /\ UNCHANGED offset
     ELSE offset' = offset + 1 /\ UNCHANGED <<feed, last_emitted>>
  /\ UNCHANGED <<replay, tables, topic, restarts, console_events, published, stream, view>>

Stored(id) == {k \in DOMAIN console_events : console_events[k].id = id}

(* An event with a stored id is not inserted; the foreign key wants the    *)
(* row of the session.                                                     *)
append_console_event ==
  /\ feed = "idle" /\ offset < Len(topic)
  /\ Record.kind /= "telemetry" /\ tables[Record.session].status /= "NONE"
  /\ feed' = "publish"
  /\ console_events' = IF durable(Record.kind) /\ Stored(Record.id) = {}
                       THEN Append(console_events, Record) ELSE console_events
  /\ UNCHANGED <<replay, tables, topic, offset, restarts, last_emitted, published, stream, view>>

(* Mutant: a full queue drops its oldest event. *)
Put_dropping(q, item) == IF Len(q) < QueueSize THEN Append(q, item) ELSE Append(Tail(q), item)

(* A full queue is emptied; the marker stands for what it held and for the *)
(* event.                                                                  *)
Put(q, item) == IF Len(q) < QueueSize THEN Append(q, item) ELSE <<Resync>>

publish ==
  /\ feed = "publish"
  /\ LET s == Record.session
         item == [seq |-> Len(published[s]) + 1, event |-> Record]
     IN  /\ published' = [published EXCEPT ![s] = Append(@, Record)]
         /\ stream' = [c \in Clients |->
              IF stream[c].at = "live" /\ stream[c].session = s
              THEN [stream[c] EXCEPT !.q = Put(@, item)] ELSE stream[c]]
  /\ feed' = "commit"
  /\ UNCHANGED <<replay, tables, topic, offset, restarts, last_emitted, console_events, view>>

Commit ==
  /\ feed = "commit"
  /\ feed' = "idle" /\ offset' = offset + 1
  /\ UNCHANGED <<replay, tables, topic, restarts, last_emitted, console_events, published, stream, view>>

(* Mutant: a record whose processing raises is skipped. *)
FeedRestarts_skipping ==
  /\ offset < Len(topic) /\ restarts < MaxRestarts
  /\ restarts' = restarts + 1
  /\ feed' = "idle" /\ last_emitted' = {} /\ offset' = offset + 1
  /\ UNCHANGED <<replay, tables, topic, console_events, published, stream, view>>

(* The feed dies, or the store refuses an event: the record is read again  *)
(* by a feed whose downsampler has forgotten.                              *)
FeedRestarts ==
  /\ offset < Len(topic) /\ restarts < MaxRestarts
  /\ restarts' = restarts + 1
  /\ feed' = "idle" /\ last_emitted' = {}
  /\ UNCHANGED <<replay, tables, topic, offset, console_events, published, stream, view>>

-----------------------------------------------------------------------------
(* A status is ignored as long as no snapshot had the row.  An alert event *)
(* takes the place of the alert's entry as it is: it has the detection     *)
(* times and an action, and none of the state, resolved_at and             *)
(* latest_decision_id of a summary.                                        *)
Show(v, e) ==
  CASE e.kind = "status" /\ v.row.status /= "NONE" ->
         [row |-> [v.row EXCEPT !.status = e.value], cursor |-> {e}, form |-> v.form]
    [] e.kind = "status" /\ v.row.status = "NONE" ->
         [row |-> v.row, cursor |-> {e}, form |-> v.form]
    [] e.kind = "alert" ->
         [row |-> [v.row EXCEPT !.alert = e.value], cursor |-> {e}, form |-> "AlertEventV1"]
    [] OTHER -> v

(* stream_replay: the snapshot is read first.  The console opens a new     *)
(* EventSource and gives no cursor; another client may resume.             *)
stream_replay(c, s) ==
  /\ stream[c] = Off
  /\ \E cursor \in {{}, view[c].cursor} :
        stream' = [stream EXCEPT ![c] = [at |-> "snapshot", session |-> s, snapshot |-> tables[s],
                                         cursor |-> cursor, read |-> Len(published[s])]]
  /\ UNCHANGED <<server, view>>

(* The events of the session stored after sequence k, oldest first.        *)
LaterEvents(s, k) ==
  LET later == SelectSeq(SubSeq(console_events, k + 1, Len(console_events)), LAMBDA e : e.session = s)
  IN  SubSeq(later, 1, Min({Limit, Len(later)}))

(* A cursor that is not stored yields nothing.                             *)
events_after(s, cursor) ==
  LET known == {k \in UNION {Stored(e.id) : e \in cursor} : console_events[k].session = s}
  IN  IF known = {} THEN <<>> ELSE LaterEvents(s, Max(known))

ShowAll(v, events) == IF events = <<>> THEN v ELSE FoldLeft(Show, v, events)

(* Snapshot and missed events reach the client, which shows them in turn;  *)
(* resync_required leaves the rows it shows as they are.                   *)
Replay(c) ==
  /\ stream[c].at = "snapshot"
  /\ view' = [view EXCEPT ![c] = ShowAll(Snapshot(stream[c].snapshot),
                                        events_after(stream[c].session, stream[c].cursor))]
  /\ stream' = [stream EXCEPT ![c].at = IF WithBroker THEN "subscribe" ELSE "ended"]
  /\ UNCHANGED server

(* seq is that of the latest item the client had, 0 after a marker.        *)
subscribe(c) ==
  /\ stream[c].at = "subscribe"
  /\ LET from == Len(published[stream[c].session])
     IN  stream' = [stream EXCEPT ![c] = [at |-> "live", session |-> @.session, cursor |-> @.cursor, q |-> <<>>,
                                          seq |-> from, missed |-> from - @.read, resynced |-> FALSE]]
  /\ UNCHANGED <<server, view>>

Deliver(c) ==
  /\ stream[c].at = "live" /\ stream[c].q /= <<>>
  /\ LET item == Head(stream[c].q)
     IN  /\ stream' = [stream EXCEPT ![c] = [at |-> "live", session |-> @.session, cursor |-> @.cursor, q |-> Tail(@.q),
                                             seq |-> item.seq, missed |-> @.missed,
                                             resynced |-> @.resynced \/ item = Resync]]
         /\ view' = [view EXCEPT ![c] = Show(@, item.event)]
  /\ UNCHANGED server

(* The connection breaks; the generator's finally clause unsubscribes.     *)
unsubscribe(c) ==
  /\ stream[c].at /= "off"
  /\ stream' = [stream EXCEPT ![c] = Off]
  /\ UNCHANGED <<server, view>>

-----------------------------------------------------------------------------
Next ==
  \/ \E s \in Sessions : StatusChanges(s) \/ AlertChanges(s) \/ Telemetry(s)
  \/ Downsample \/ append_console_event \/ publish \/ Commit \/ FeedRestarts
  \/ \E c \in Clients : (\E s \in Sessions : stream_replay(c, s))
                        \/ Replay(c) \/ subscribe(c) \/ Deliver(c) \/ unsubscribe(c)

Spec == Init /\ [][Next]_vars

-----------------------------------------------------------------------------
(* A subscriber misses nothing in silence: between two events of its queue *)
(* that do not follow each other, and after the latest one, there is a     *)
(* resync_required, even if the queue overflows again and again.           *)
EveryGapMarked == \A c \in Clients : stream[c].at = "live" =>
  LET seqs == <<stream[c].seq>> \o [k \in DOMAIN stream[c].q |-> stream[c].q[k].seq]
  IN  /\ \A k \in 1..Len(seqs) - 1 : 0 \in {seqs[k], seqs[k + 1]} \/ seqs[k + 1] = seqs[k] + 1
      /\ Last(seqs) \in {0, Len(published[stream[c].session])}

(* A client can resume from any durable event it was given: an event is    *)
(* stored before it is broadcast, also when the feed dies in between.      *)
LiveIsResumable == \A s \in Sessions : \A k \in DOMAIN published[s] :
  published[s][k].kind /= "telemetry" => Stored(published[s][k].id) /= {}

(* The feed restarts behind nothing: a status, score or alert record it    *)
(* has committed is among the stored events and was broadcast.             *)
CommittedIsStored == \A i \in 1..offset : topic[i].kind /= "telemetry" =>
  /\ Stored(event_id(i)) /= {}
  /\ \E k \in DOMAIN published[topic[i].session] : published[topic[i].session][k].at = i

(* Everything has been processed and delivered to the client.              *)
Settled(c) == stream[c].at = "live" /\ stream[c].q = <<>> /\ offset = Len(topic) /\ feed = "idle"
Current(c) == view[c].row.alert = tables[stream[c].session].alert

(* A console that connects without a cursor, misses nothing between its    *)
(* snapshot and its subscription and never overflows ends up showing the   *)
(* detection times of the alert's latest change, however far the feed was  *)
(* behind the snapshot: an event that is older than the snapshot may set   *)
(* them back, but a later one follows.                                     *)
ViewIsCurrent == \A c \in Clients :
  Settled(c) /\ stream[c].missed = 0 /\ ~stream[c].resynced /\ stream[c].cursor = {} => Current(c)

(* What the feed has committed or broadcast is in the event table, and     *)
(* what it has committed was broadcast (ConsoleFeed).                      *)
FeedIsDurable == LiveIsResumable /\ CommittedIsStored
=============================================================================
