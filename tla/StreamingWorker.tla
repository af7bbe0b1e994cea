-------------------------- MODULE StreamingWorker --------------------------
(***************************************************************************)
(* The streaming worker (worker.py) and its scoring client                 *)
(* (scoring_client.py).  The worker reads the telemetry and the replay     *)
(* status topics, one partition each, in any interleaving; feeds the       *)
(* telemetry of each session to a FeatureBuilder; publishes and scores the *)
(* windows; and commits the offsets of a session when it has completed.    *)
(* The replay service is the environment: it runs one session after the    *)
(* other and publishes rows 1..Rows of each, row k stamped k.              *)
(*                                                                         *)
(* Handlers run one at a time.  A handler awaits the broker and the        *)
(* scoring API, so it is a job of several steps, between which the replay  *)
(* service publishes and the process may die.  An exception of a handler   *)
(* leaves run: the process is down until somebody restarts it, and a call  *)
(* to the broker that raises is a death.                                   *)
(***************************************************************************)
EXTENDS FeatureBuilder

CONSTANTS Sessions,      \* the number of sessions, which run one after the other
          Rows,          \* rows in the range of a session
          Attempts,      \* RetryPolicy.attempts
          Endings,       \* states a session may end in: COMPLETED, STOPPED
          Faults,        \* kinds of records out of contract: "bad", "foreign"
          MaxFaults,     \* bound: records that are redelivered or out of contract
          MaxDeaths,     \* bound: deaths of the worker
          MaxRestarts,   \* bound: restarts of a worker that is down
          MaxFailures    \* bound: scoring attempts that fail

ASSUME WorkerAssumption ==
  /\ Sessions \in Nat /\ Rows \in Nat \ {0} /\ Attempts \in Nat \ {0}
  /\ Endings \subseteq {"COMPLETED", "STOPPED"} /\ Faults \subseteq {"bad", "foreign"}
  /\ {MaxFaults, MaxDeaths, MaxRestarts, MaxFailures} \subseteq Nat

Topics == {"telemetry", "status"}
Session == 1..Sessions
StopTime == 0   \* 2020-01-01, before every row of the dataset

VARIABLES log,      \* the records of the two topics
          replay,   \* the replay service: session running and rows published
          offsets,  \* committed offsets: records passed, per topic
          w,        \* the worker's memory
          job,      \* the handler under way
          exit,     \* "none" while the worker runs, else why it is down
          features, \* the windows published on irp.features.v1
          scores,   \* the windows published, scored, on irp.scores.v1
          emitted,  \* history: the last window of each session this process scored
          budget    \* what may still go wrong

vars == <<log, replay, offsets, w, job, exit, features, scores, emitted, budget>>

Row(k) == [seq |-> k, ts |-> k, v |-> k]
NoStatus == [s |-> 1, kind |-> "none", last |-> 0, ts |-> 0]

(* The memory of a worker that starts: it reads on from the committed      *)
(* offsets.  A session has a builder once it has accepted an event.        *)
__init__(from) ==
  [pos      |-> from,
   builders |-> [s \in Session |-> new_builder],
   last     |-> [s \in Session |-> 0],
   term     |-> [s \in Session |-> NoStatus],
   offs     |-> [s \in Session |-> [t \in Topics |-> 0]],
   failed   |-> {},
   blocked  |-> {},
   own      |-> {}]

Idle == [s |-> 1, todo |-> <<>>, attempt |-> 0, then |-> "idle"]

Init ==
  /\ log = [t \in Topics |-> <<>>]
  /\ replay = [i |-> 1, k |-> 0]
  /\ offsets = [t \in Topics |-> 0]
  /\ w = __init__(offsets)
  /\ job = Idle
  /\ exit = "none"
  /\ features = {}
  /\ scores = {}
  /\ emitted = [s \in Session |-> 0]
  /\ budget = [faults |-> MaxFaults, deaths |-> MaxDeaths,
               restarts |-> MaxRestarts, failures |-> MaxFailures]

Spend(what) == /\ budget[what] > 0
               /\ budget' = [budget EXCEPT ![what] = @ - 1]

-----------------------------------------------------------------------------
(* The replay service. *)

Running == replay.i <= Sessions
Current == replay.i
Environment == UNCHANGED <<offsets, w, job, exit, features, scores, emitted>>

PublishRow ==
  /\ Running /\ replay.k < Rows
  /\ log' = [log EXCEPT !["telemetry"] =
               Append(@, [s |-> Current, kind |-> "ok", k |-> replay.k + 1])]
  /\ replay' = [replay EXCEPT !.k = @ + 1]
  /\ Environment /\ UNCHANGED budget

(* A replay service that restarts publishes its last row again. *)
RepublishRow ==
  /\ Running /\ replay.k > 0 /\ Spend("faults")
  /\ log' = [log EXCEPT !["telemetry"] =
               Append(@, [s |-> Current, kind |-> "ok", k |-> replay.k])]
  /\ Environment /\ UNCHANGED replay

(* A record that does not decode, or carries another package's identity. *)
PublishFault ==
  /\ Running /\ Spend("faults")
  /\ \E kind \in Faults, t \in Topics :
       /\ kind = "foreign" => t = "telemetry"
       /\ log' = [log EXCEPT ![t] =
            Append(@, IF t = "telemetry" THEN [s |-> Current, kind |-> kind, k |-> replay.k]
                      ELSE [s |-> Current, kind |-> kind, last |-> 0, ts |-> 0])]
  /\ Environment /\ UNCHANGED replay

(* COMPLETED carries the last sequence and its timestamp; STOPPED the      *)
(* sequence of the controller, which is 0, and the timestamp of the STOP   *)
(* command.                                                                *)
EndSession ==
  /\ Running
  /\ \E state \in Endings :
       /\ state = "COMPLETED" => replay.k = Rows
       /\ log' = [log EXCEPT !["status"] =
            Append(@, [s |-> Current, kind |-> state,
                       last |-> IF state = "STOPPED" THEN 0 ELSE replay.k,
                       ts |-> IF state = "STOPPED" THEN StopTime ELSE replay.k])]
  /\ replay' = [i |-> replay.i + 1, k |-> 0]
  /\ Environment /\ UNCHANGED budget

-----------------------------------------------------------------------------
(* The worker.  The operators below take and return its memory.            *)

Upstream == UNCHANGED replay
Track(mem, s, t) == [mem EXCEPT !.offs[s][t] = mem.pos[t] + 1]
Advance(mem, t) == [mem EXCEPT !.pos[t] = @ + 1]
Job(s, todo, then) == [s |-> s, todo |-> todo, attempt |-> 0, then |-> then]

(* What _fail_session leaves in memory; own holds the offsets of the       *)
(* statuses this process has published, for their message ids.             *)
Fail(mem, s) == [mem EXCEPT !.failed = @ \cup {s},
                            !.own = @ \cup {Len(log["status"]) + 1}]
FailedStatus(s) ==
  [s |-> s, kind |-> "FAILED", last |-> w.last[s], ts |-> w.last[s]]

_fail_session(mem, s) ==
  /\ w' = Fail(mem, s)
  /\ log' = [log EXCEPT !["status"] = Append(@, FailedStatus(s))]

(* _complete_session up to its first await: a session that failed is left  *)
(* alone, and completing the builder raises when the status is stamped     *)
(* before the last event.                                                  *)
_complete_session(mem, s) ==
  LET b == mem.builders[s]
      open == b.last /= <<>> /\ ~b.complete
  IN  \/ /\ s \in mem.failed
         /\ w' = mem /\ job' = Idle /\ UNCHANGED exit
      \/ /\ s \notin mem.failed
         /\ open /\ complete_raises(b, mem.term[s].ts)
         /\ w' = mem /\ exit' = "completion" /\ job' = Job(s, <<>>, "idle")
      \/ /\ s \notin mem.failed
         /\ open /\ ~complete_raises(b, mem.term[s].ts)
         /\ w' = [mem EXCEPT !.builders[s] = complete(b).b]
         /\ job' = Job(s, complete(b).out, "commit") /\ UNCHANGED exit
      \/ /\ s \notin mem.failed /\ ~open
         /\ w' = mem /\ job' = Job(s, <<>>, "commit") /\ UNCHANGED exit

_is_blocked(t) == t \in w.blocked

(* publish_quarantine is a message nobody reads back. *)
_handle_telemetry_record(r) ==
  LET mem == Advance(w, "telemetry")
      b   == push(mem.builders[r.s], Row(r.k))
  IN  \/ /\ _is_blocked("telemetry")
         /\ w' = mem /\ UNCHANGED <<log, job>>
      \/ /\ ~_is_blocked("telemetry") /\ r.kind = "bad"
         /\ w' = [mem EXCEPT !.blocked = @ \cup {"telemetry"}]
         /\ UNCHANGED <<log, job>>
      \/ /\ ~_is_blocked("telemetry") /\ r.kind /= "bad" /\ r.s \in w.failed
         /\ w' = mem /\ UNCHANGED <<log, job>>
      \/ /\ ~_is_blocked("telemetry") /\ r.kind = "foreign" /\ r.s \notin w.failed
         /\ _fail_session(mem, r.s) /\ UNCHANGED job
      \/ /\ ~_is_blocked("telemetry") /\ r.kind = "ok" /\ r.s \notin w.failed
         /\ w' = Advance([Track(w, r.s, "telemetry") EXCEPT
                            !.builders[r.s] = b.b, !.last[r.s] = r.k], "telemetry")
         /\ job' = Job(r.s, b.out, "barrier")
         /\ UNCHANGED log

(* Mutant: a terminal status completes the session at once. *)
_reached_always(mem, s, last) == TRUE

(* The barrier of a terminal status. *)
_reached(mem, s, last) == mem.last[s] >= last

_handle_status_record(r) ==
  LET mem  == Advance(w, "status")
      seen == Advance(Track(w, r.s, "status"), "status")
  IN  \/ /\ r.kind = "bad"
         /\ w' = [mem EXCEPT !.blocked = @ \cup {"status"}] /\ UNCHANGED <<job, exit>>
      \/ /\ r.kind /= "bad" /\ mem.pos["status"] \in w.own
         /\ w' = mem /\ UNCHANGED <<job, exit>>
      \/ /\ r.kind = "FAILED" /\ mem.pos["status"] \notin w.own
         /\ w' = [seen EXCEPT !.failed = @ \cup {r.s}] /\ UNCHANGED <<job, exit>>
      \/ /\ r.kind \in {"COMPLETED", "STOPPED"}
         /\ LET term == [seen EXCEPT !.term[r.s] = r]
            IN  IF _reached(seen, r.s, r.last) THEN _complete_session(term, r.s)
                ELSE w' = term /\ UNCHANGED <<job, exit>>

handle_record(t) ==
  /\ exit = "none" /\ job = Idle
  /\ w.pos[t] < Len(log[t])
  /\ LET r == log[t][w.pos[t] + 1]
     IN  \/ t = "telemetry" /\ _handle_telemetry_record(r) /\ UNCHANGED exit
         \/ t = "status" /\ _handle_status_record(r) /\ UNCHANGED log
  /\ UNCHANGED <<offsets, features, scores, emitted, budget>> /\ Upstream

Scoring == exit = "none" /\ job.todo /= <<>>
Feature == [s |-> job.s, end |-> Head(job.todo).end, bins |-> Head(job.todo).bins]

(* _process_feature publishes the window, then calls the scoring API; the  *)
(* call is under way while attempt is positive.                            *)
_process_feature ==
  /\ Scoring /\ job.attempt = 0
  /\ features' = features \cup {Feature}
  /\ job' = [job EXCEPT !.attempt = 1]
  /\ UNCHANGED <<log, offsets, w, exit, scores, emitted, budget>> /\ Upstream

(* The API answers with the decision of this window, which is published. *)
_validated_decision ==
  /\ Scoring /\ job.attempt > 0
  /\ scores' = scores \cup {Feature}
  /\ emitted' = [emitted EXCEPT ![job.s] = Feature.end]
  /\ job' = [job EXCEPT !.todo = Tail(@), !.attempt = 0]
  /\ UNCHANGED <<log, offsets, w, exit, features, budget>> /\ Upstream

RetriesLeft == job.attempt < Attempts

(* A timeout, a network error, 429 or 5xx, with an attempt left. *)
score ==
  /\ Scoring /\ job.attempt > 0 /\ RetriesLeft
  /\ Spend("failures")
  /\ job' = [job EXCEPT !.attempt = @ + 1]
  /\ UNCHANGED <<log, offsets, w, exit, features, scores, emitted>> /\ Upstream

(* The last attempt fails, or an answer is a permanent error: the session  *)
(* is FAILED and SessionFailedError ends the process.                      *)
SessionFailedError ==
  /\ Scoring /\ job.attempt > 0
  /\ Spend("failures")
  /\ _fail_session(w, job.s)
  /\ exit' = "scoring"
  /\ UNCHANGED <<offsets, job, features, scores, emitted>> /\ Upstream

(* Mutant: a terminal status is looked at once, when it arrives. *)
Barrier_forgotten ==
  /\ exit = "none" /\ job.then = "barrier" /\ job.todo = <<>>
  /\ job' = Idle
  /\ UNCHANGED <<w, exit, log, offsets, features, scores, emitted, budget>> /\ Upstream

(* Every window of the event is scored: the handler looks at the barrier   *)
(* of a COMPLETED status that came before its telemetry.                   *)
Barrier ==
  LET term == w.term[job.s]
  IN  /\ exit = "none" /\ job.then = "barrier" /\ job.todo = <<>>
      /\ IF term.kind = "COMPLETED" /\ term.last = w.last[job.s]
         THEN _complete_session(w, job.s)
         ELSE job' = Idle /\ UNCHANGED <<w, exit>>
      /\ UNCHANGED <<log, offsets, features, scores, emitted, budget>> /\ Upstream

(* Mutant: the offsets are committed when the windows are queued. *)
Completed_early(s) == exit = "none" /\ job.then = "commit" /\ job.s = s

Completed(s) == /\ exit = "none" /\ job.then = "commit" /\ job.s = s
                /\ job.todo = <<>>

(* The offsets of the session that completed, for the topics it has seen. *)
Commit ==
  /\ \E s \in Session :
       /\ Completed(s)
       /\ offsets' = [t \in Topics |-> IF w.offs[s][t] = 0 THEN offsets[t] ELSE w.offs[s][t]]
  /\ job' = Idle
  /\ UNCHANGED <<log, w, exit, features, scores, emitted, budget>> /\ Upstream

Death ==
  /\ exit = "none" /\ Spend("deaths")
  /\ exit' = "death"
  /\ UNCHANGED <<log, offsets, w, job, features, scores, emitted>> /\ Upstream

start ==
  /\ exit /= "none" /\ Spend("restarts")
  /\ exit' = "none" /\ job' = Idle
  /\ w' = __init__(offsets)
  /\ emitted' = [s \in Session |-> 0]
  /\ UNCHANGED <<log, offsets, features, scores>> /\ Upstream

Worker == \/ \E t \in Topics : handle_record(t)
          \/ _process_feature \/ _validated_decision \/ score \/ SessionFailedError
          \/ Barrier \/ Commit \/ start

Next == \/ PublishRow \/ RepublishRow \/ PublishFault \/ EndSession
        \/ Worker \/ Death

Spec == Init /\ [][Next]_vars

(* The event loop runs a handler that can run, a scoring call ends, and an *)
(* operator restarts a worker that is down.                                *)
Fairness == WF_vars(Worker)

FairSpec == Spec /\ Fairness

-----------------------------------------------------------------------------
StoppedSession(s) == \E i \in DOMAIN log["status"] :
                       log["status"][i].s = s /\ log["status"][i].kind = "STOPPED"
FailedSession(s) == \E i \in DOMAIN log["status"] :
                      log["status"][i].s = s /\ log["status"][i].kind = "FAILED"

(* The windows the offline code computes from all the rows of a session. *)
SessionWindows == _iter_phase1b_windows([k \in 1..Rows |-> _extract_sample(Row(k))])
AllWindows(s) == {[s |-> s, end |-> x.end, bins |-> x.bins] : x \in SessionWindows}

(* At-least-once: a telemetry record is committed only when it could be    *)
(* decoded (the block of a partition is only in memory, so every restart   *)
(* must meet the record again) and, if its session ran to its end, when    *)
(* every window of the session is on irp.scores.v1: no death, at any       *)
(* await, loses a score (_complete_session, _handle_telemetry_record).     *)
(* The exception is a later session that was stopped: it commits the       *)
(* status offset past the COMPLETED of a session still being read.         *)
CommittedIsScored ==
  \A i \in 1..offsets["telemetry"] :
    LET s == log["telemetry"][i].s
    IN  /\ log["telemetry"][i].kind /= "bad"
        /\ \/ \E t \in s..Sessions : StoppedSession(t)
           \/ FailedSession(s)
           \/ AllWindows(s) \subseteq scores

(* "Repeated executions produce identical logical UUIDv5 window_id" and    *)
(* values: whatever is redelivered or done again after a death, a window   *)
(* id stands for one content, the one of the finished session.  A barrier  *)
(* passed early would publish the open bin with the rows it has so far.    *)
RetriesAgree ==
  \A f \in features : f \in AllWindows(f.s)

Producer == INSTANCE ScoreProducer WITH Sessions <- Session, published <- scores

(* The worker is the producer AlertService assumes: through deaths,        *)
(* redelivered rows and either order of its topics, the decisions of a     *)
(* session are published in window order, and repeated in that order       *)
(* before anything new after a restart.                                    *)
ScoresInOrder == Producer!Spec

(* What a session does not complete after: a record out of contract, a     *)
(* scoring failure or a STOPPED that ends the process, and a worker nobody *)
(* restarts any more.                                                      *)
Disturbed ==
  \/ exit /= "none" /\ budget.restarts = 0
  \/ \E t \in Topics : \E i \in DOMAIN log[t] :
       log[t][i].kind \in {"bad", "foreign", "FAILED", "STOPPED"}

(* Every session that ran to its end is, in the end, scored and committed, *)
(* whatever the order in which the two topics are read, through deaths and *)
(* redelivered rows, and through transient scoring failures that the       *)
(* retries absorb.                                                         *)
CompletedIsCommitted ==
  \A s \in Session :
    (\E i \in DOMAIN log["status"] : log["status"][i].s = s /\ log["status"][i].kind = "COMPLETED")
      ~> \/ Disturbed
         \/ /\ AllWindows(s) \subseteq scores
            /\ \A i \in DOMAIN log["telemetry"] :
                 log["telemetry"][i].s = s /\ log["telemetry"][i].k = Rows
                   => \E j \in 1..offsets["telemetry"] :
                        log["telemetry"][j] = log["telemetry"][i]

(* "a terminal status ... cannot finalize until the worker has processed   *)
(* exactly status.last_sequence" (phase-4 plan, line 301): no completion   *)
(* fails because the barrier let it through too early.                     *)
TerminalBarrier ==
  exit = "completion" => w.last[job.s] = w.term[job.s].last

=============================================================================
