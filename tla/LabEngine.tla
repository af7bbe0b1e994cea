----------------------------- MODULE LabEngine -----------------------------
(***************************************************************************)
(* One run of the virtual lab: engines that advance it                     *)
(* (SimulationEngine.run_once and LabStore.checkpoint), worker processes   *)
(* that publish its observations from the outbox (lab/worker.py,           *)
(* lab/outbox.py), the broker, and the readiness probe of lab/api.py.      *)
(* Physics is left out (see LabControls): a tick is a number.              *)
(***************************************************************************)
EXTENDS Naturals, Sequences, FiniteSets

CONSTANTS Engines, Workers,   \* processes
          Sensors,            \* numbers: the order of the sensors' identifiers
          SampleEvery,        \* ticks between observations (20 in the code)
          MaxTicks,           \* spec.max_ticks of the run
          BatchLimit,         \* rows of a dispatched batch (100 in the code)
          KafkaAtStart,       \* is the broker up when the workers first start
          MaxDeaths, MaxOutages   \* bounds

ASSUME LabEngineAssumption ==
  /\ Sensors \subseteq Nat /\ IsFiniteSet(Sensors)
  /\ SampleEvery \in Nat \ {0} /\ MaxTicks \in Nat /\ BatchLimit \in Nat \ {0}
  /\ KafkaAtStart \in BOOLEAN

VARIABLES tick,      \* of the run's row and of its checkpoint
          outbox,    \* lab_outbox: [tick, sensor, published]
          topic,     \* irp.lab.observations.v1
          engine,    \* per engine: the tick it has reached, or Stopped
          worker,    \* per worker: [up, running, rows, sent]
          health,    \* lab_worker_health: kafka_connected of the last heartbeat
          kafka,     \* is the broker up
          deaths, outages

vars == <<tick, outbox, topic, engine, worker, health, kafka, deaths, outages>>

Stopped == MaxTicks + 1
down == [up |-> FALSE, running |-> FALSE, rows |-> {}, sent |-> {}]

Init ==
  /\ tick = 0
  /\ outbox = {} /\ topic = <<>>
  /\ engine = [e \in Engines |-> Stopped]
  /\ worker = [w \in Workers |-> down]
  /\ health = FALSE /\ kafka = KafkaAtStart
  /\ deaths = 0 /\ outages = 0

-----------------------------------------------------------------------------
(* run_once begins at the stored checkpoint. *)
load_checkpoint(e) ==
  /\ engine[e] = Stopped /\ tick < MaxTicks
  /\ engine' = [engine EXCEPT ![e] = tick]
  /\ UNCHANGED <<tick, outbox, topic, worker, health, kafka, deaths, outages>>

Reached(e) == IF engine[e] + 2 <= MaxTicks THEN engine[e] + 2 ELSE MaxTicks

Sampled(from, to) == {t \in (from + 1)..to : t % SampleEvery = 0}

(* The rows of a batch of ticks; each message has an identifier of its own, *)
(* of the engine that makes it.                                             *)
observe(e, from, to) ==
  {[tick |-> t, sensor |-> s, published |-> FALSE, by |-> e] : t \in Sampled(from, to), s \in Sensors}

(* Mutant: the run is advanced whatever tick it has reached. *)
Fenced_never(e) == FALSE

(* The update matches no row when another engine has advanced the run; the *)
(* fence is always 0.                                                      *)
Fenced(e) == tick /= engine[e]

(* A batch of two ticks and its checkpoint, which stores the observations  *)
(* with it.  No command is looked at.                                      *)
run_once(e) ==
  /\ engine[e] < MaxTicks
  /\ IF Fenced(e)
     THEN engine' = [engine EXCEPT ![e] = Stopped] /\ UNCHANGED <<tick, outbox>>
     ELSE /\ tick' = Reached(e)
          /\ outbox' = outbox \cup observe(e, engine[e], Reached(e))
          /\ engine' = [engine EXCEPT ![e] = Reached(e)]
  /\ UNCHANGED <<topic, worker, health, kafka, deaths, outages>>

(* The process dies, or the solver raises, between two checkpoints. *)
EngineDeath(e) ==
  /\ engine[e] /= Stopped /\ deaths < MaxDeaths
  /\ engine' = [engine EXCEPT ![e] = Stopped] /\ deaths' = deaths + 1
  /\ UNCHANGED <<tick, outbox, topic, worker, health, kafka, outages>>

-----------------------------------------------------------------------------
(* The worker starts: the producer is started once, and never again. *)
start(w) ==
  /\ ~worker[w].up
  /\ worker' = [worker EXCEPT ![w] = [down EXCEPT !.up = TRUE, !.running = kafka]]
  /\ UNCHANGED <<tick, outbox, topic, engine, health, kafka, deaths, outages>>

WorkerDeath(w) ==
  /\ worker[w].up /\ deaths < MaxDeaths
  /\ worker' = [worker EXCEPT ![w] = down] /\ deaths' = deaths + 1
  /\ UNCHANGED <<tick, outbox, topic, engine, health, kafka, outages>>

heartbeat_loop(w) ==
  /\ worker[w].up /\ health' = worker[w].running
  /\ UNCHANGED <<tick, outbox, topic, engine, worker, kafka, deaths, outages>>

(* Mutant: rows are read from the last one handed to the broker on. *)
unpublished_after_cursor ==
  {o \in outbox : ~o.published /\ \A i \in DOMAIN topic : topic[i].tick < o.tick}

unpublished == {o \in outbox : ~o.published}

Before(a, b) == a.tick < b.tick \/ (a.tick = b.tick /\ a.sensor < b.sensor)

(* The first rows of the outbox that are not published, by tick and sensor. *)
Batch ==
  {o \in unpublished : Cardinality({p \in unpublished : Before(p, o)}) < BatchLimit}

(* dispatch_batch reads its rows without locking them. *)
Fetch(w) ==
  /\ worker[w].running /\ worker[w].rows = {} /\ worker[w].sent = {} /\ unpublished /= {}
  /\ worker' = [worker EXCEPT ![w].rows = Batch]
  /\ UNCHANGED <<tick, outbox, topic, engine, health, kafka, deaths, outages>>

(* The rows are sent in order. *)
First(rows) == {o \in rows : \A p \in rows : ~Before(p, o)}

Send(w) ==
  /\ kafka
  /\ \E o \in First(worker[w].rows) :
       /\ topic' = Append(topic, o)
       /\ worker' = [worker EXCEPT ![w].rows = @ \ {o}, ![w].sent = @ \cup {o}]
  /\ UNCHANGED <<tick, outbox, engine, health, kafka, deaths, outages>>

(* Mutant: the batch goes on after a row that failed. *)
AfterFailure_continue(rows) == rows \ First(rows)

AfterFailure(rows) == {}

(* The broker is down: send_and_wait raises, and the batch ends. *)
SendFails(w) ==
  /\ worker[w].rows /= {} /\ ~kafka
  /\ worker' = [worker EXCEPT ![w].rows = AfterFailure(@)]
  /\ UNCHANGED <<tick, outbox, topic, engine, health, kafka, deaths, outages>>

(* The broker goes down when it has the message and before it answers. *)
SendUnanswered(w) ==
  /\ kafka /\ outages < MaxOutages
  /\ \E o \in First(worker[w].rows) : topic' = Append(topic, o)
  /\ kafka' = FALSE /\ outages' = outages + 1
  /\ worker' = [worker EXCEPT ![w].rows = AfterFailure(@)]
  /\ UNCHANGED <<tick, outbox, engine, health, deaths>>

(* At the end of the batch the rows that were sent are marked. *)
Mark(w) ==
  /\ worker[w].rows = {} /\ worker[w].sent /= {}
  /\ outbox' = {IF o \in worker[w].sent THEN [o EXCEPT !.published = TRUE] ELSE o : o \in outbox}
  /\ worker' = [worker EXCEPT ![w].sent = {}]
  /\ UNCHANGED <<tick, topic, engine, health, kafka, deaths, outages>>

Outage ==
  /\ kafka /\ outages < MaxOutages
  /\ kafka' = FALSE /\ outages' = outages + 1
  /\ UNCHANGED <<tick, outbox, topic, engine, worker, health, deaths>>

KafkaReturns ==
  /\ ~kafka /\ kafka' = TRUE
  /\ UNCHANGED <<tick, outbox, topic, engine, worker, health, deaths, outages>>

dispatch_batch(w) == Fetch(w) \/ Send(w) \/ SendFails(w) \/ Mark(w)

Next ==
  \/ Outage \/ KafkaReturns
  \/ \E e \in Engines : load_checkpoint(e) \/ run_once(e) \/ EngineDeath(e)
  \/ \E w \in Workers : start(w) \/ WorkerDeath(w) \/ heartbeat_loop(w) \/ dispatch_batch(w) \/ SendUnanswered(w)

(* Processes that are up keep running, are restarted when they died, and   *)
(* the broker comes back.                                                  *)
Spec ==
  /\ Init /\ [][Next]_vars
  /\ WF_vars(KafkaReturns)
  /\ \A e \in Engines : WF_vars(load_checkpoint(e)) /\ WF_vars(run_once(e))
  /\ \A w \in Workers : WF_vars(start(w)) /\ WF_vars(heartbeat_loop(w)) /\ WF_vars(dispatch_batch(w))

-----------------------------------------------------------------------------
(* Each observation is stored once: every sampled tick the run has passed  *)
(* has one outbox row per sensor, and no other tick has any, however many  *)
(* engines advance the run and wherever they die.                          *)
ObservedOnce ==
  /\ \A t \in 1..MaxTicks, s \in Sensors :
       Cardinality({o \in outbox : o.tick = t /\ o.sensor = s})
         = (IF t <= tick /\ t % SampleEvery = 0 THEN 1 ELSE 0)

(* A row marked published is in the topic. *)
PublishedWasSent ==
  \A o \in outbox : o.published =>
    \E i \in DOMAIN topic : topic[i].tick = o.tick /\ topic[i].sensor = o.sensor

(* The first delivery of each observation comes after the first delivery   *)
(* of those of the earlier ticks, whatever is sent again and by whom: a    *)
(* consumer that drops what it has seen reads every sensor in order.       *)
FirstDeliveryInOrder ==
  \A i \in DOMAIN topic : \A o \in outbox :
    Before(o, topic[i]) =>
      \E j \in 1..(i - 1) : topic[j].tick = o.tick /\ topic[j].sensor = o.sensor

(* Every observation is published in the end, through outages, failed and *)
(* unanswered sends and deaths, once a worker that reached the broker when *)
(* it started stays up.                                                    *)
DrainedOnceConnected ==
  \A w \in Workers : <>[]worker[w].running => <>[](\A o \in outbox : o.published)

(* The topic never misses an observation that is marked published, nor one *)
(* before an observation it has (dispatch_batch).                          *)
DeliveredInOrder == PublishedWasSent /\ FirstDeliveryInOrder
=============================================================================
