------------------------------- MODULE LabProofs -------------------------------
(***************************************************************************)
(* Proofs about the virtual lab, for any number of processes, engines,     *)
(* workers, sensors, ticks, revisions, commands, deaths and outages, for   *)
(* any alarm limits and any stream of samples, and for any lab that can be *)
(* drawn.                                                                  *)
(*                                                                         *)
(* The engine (LabEngine): every observation is stored once, and the       *)
(* observations reach the topic in order and before they are marked        *)
(* (ObservedOnce, DeliveredInOrder).  A row of the outbox is known by its  *)
(* tick and sensor.  Workers that read the same rows send them twice, and  *)
(* a row may be marked by one worker while another still has the unmarked  *)
(* copy, so what is said of a copy is said of its key.                     *)
(*                                                                         *)
(* The store (LabStore): the requests come out as if they had been served  *)
(* one after another.  The properties are about what is stored and what    *)
(* was answered; between the two statements of a request they rest on what *)
(* the process remembers.  A snapshot in progress is the case that         *)
(* matters: it read the run's control revision first and lists the         *)
(* commands later, and is consistent only because the connection has been  *)
(* put in a repeatable read transaction (SnapshotsHeld).                   *)
(*                                                                         *)
(* The alert rules (LabAnalysis): an alert is opened and resolved by its   *)
(* rules (RulesObeyed).  The rules are about the samples seen, the code    *)
(* about six counters; a counter is shown to count samples of the stretch  *)
(* its rule is about (Counted).                                            *)
(*                                                                         *)
(* The definition (LabTopology): an eligible lab runs as drawn             *)
(* (EligibleLabRuns).  This is no invariant of the editor's steps but a    *)
(* fact about every definition of the right type: validate_lab's codes are *)
(* restated as the uniqueness and resolution of identifiers (Eligible),    *)
(* and the compiler, observe and the clone are shown to rest on no more.   *)
(***************************************************************************)
EXTENDS LabRuntime, LabDesign, FiniteSetTheorems, TLAPS

(* ------------------------------- the engine --------------------------------- *)

Row == [tick : Nat, sensor : Sensors, published : BOOLEAN, by : Engines]
Worker == [up : BOOLEAN, running : BOOLEAN, rows : SUBSET Row, sent : SUBSET Row]

SameKey(a, b) == a.tick = b.tick /\ a.sensor = b.sensor
InTopic(o) == \E i \in DOMAIN topic : SameKey(topic[i], o)

TypeInv ==
  /\ tick \in 0..MaxTicks
  /\ outbox \in SUBSET Row /\ IsFiniteSet(outbox)
  /\ topic \in Seq(Row)
  /\ engine \in [Engines -> 0..Stopped]
  /\ worker \in [Workers -> Worker]
  /\ health \in BOOLEAN /\ kafka \in BOOLEAN

(* The outbox has one row for each sampled tick that the run has passed    *)
(* and each sensor, and no other.                                          *)
StoredInv ==
  /\ \A o \in outbox : o.tick \in 1..tick /\ o.tick % SampleEvery = 0
  /\ \A o, p \in outbox : SameKey(o, p) => o = p
  /\ \A t \in 1..tick, s \in Sensors :
       t % SampleEvery = 0 => \E o \in outbox : o.tick = t /\ o.sensor = s

(* A batch has, with each of its rows, those rows of the outbox before it  *)
(* that are not in the topic.                                              *)
BatchInv ==
  \A w \in Workers :
    /\ \A x \in worker[w].rows : x.tick <= tick
    /\ \A x \in worker[w].sent : InTopic(x)
    /\ \A x \in worker[w].rows, o \in outbox :
         Before(o, x) => InTopic(o) \/ \E y \in worker[w].rows : SameKey(y, o)

TopicInv == \A i \in DOMAIN topic : topic[i].tick <= tick

EngineInv == TypeInv /\ StoredInv /\ BatchInv /\ TopicInv /\ DeliveredInOrder

-----------------------------------------------------------------------------
(* There is a row for each sampled tick and each sensor. *)
LEMMA ObserveHas ==
  ASSUME NEW e, NEW from, NEW to
  PROVE  \A u \in Sampled(from, to), q \in Sensors :
           [tick |-> u, sensor |-> q, published |-> FALSE, by |-> e] \in observe(e, from, to)
<1> DEFINE row(t, s) == [tick |-> t, sensor |-> s, published |-> FALSE, by |-> e]
<1>1. \A o : o \in observe(e, from, to) <=> \E t \in Sampled(from, to), s \in Sensors : o = row(t, s)
  BY DEF observe
<1> QED BY <1>1

(* The rows of a batch of ticks are finitely many, and of sampled ticks. *)
LEMMA NewRows ==
  ASSUME NEW e \in Engines, NEW from \in Nat, NEW to \in Nat
  PROVE  /\ IsFiniteSet(observe(e, from, to)) /\ observe(e, from, to) \in SUBSET Row
         /\ \A o \in observe(e, from, to) :
              /\ o.tick \in (from + 1)..to /\ o.tick % SampleEvery = 0 /\ o.published = FALSE
         /\ \A o, p \in observe(e, from, to) : SameKey(o, p) => o = p
<1> DEFINE row(t, s) == [tick |-> t, sensor |-> s, published |-> FALSE, by |-> e]
           ticks == Sampled(from, to)
           new == observe(e, from, to)
<1>1. \A o : o \in new <=> \E t \in ticks, s \in Sensors : o = row(t, s)
  BY DEF observe
<1>2. \A t \in ticks, s \in Sensors :
        /\ row(t, s) \in Row /\ row(t, s).tick = t /\ row(t, s).sensor = s
        /\ row(t, s).published = FALSE
  BY DEF Row, Sampled
<1>3. \A t : t \in ticks <=> t \in (from + 1)..to /\ t % SampleEvery = 0
  BY DEF Sampled
<1> HIDE DEF row, ticks, new
<1>4. IsFiniteSet(ticks \X Sensors)
  <2>1. IsFiniteSet((from + 1)..to)
    BY FS_Interval
  <2>2. IsFiniteSet(ticks)
    BY <1>3, <2>1, FS_Subset
  <2> QED BY <2>2, FS_Product, LabEngineAssumption
<1>5. IsFiniteSet(new)
  <2> DEFINE f == [k \in ticks \X Sensors |-> row(k[1], k[2])]
  <2>1. f \in [ticks \X Sensors -> new]
    BY <1>1
  <2>2. ASSUME NEW y \in new PROVE \E k \in ticks \X Sensors : f[k] = y
    <3>1. PICK t \in ticks, s \in Sensors : y = row(t, s)
      BY <1>1
    <3>2. <<t, s>> \in ticks \X Sensors /\ f[<<t, s>>] = y
      BY <3>1
    <3> QED BY <3>2
  <2>3. f \in Surjection(ticks \X Sensors, new)
    BY <2>1, <2>2 DEF Surjection
  <2> QED BY <1>4, <2>3, FS_Surjection
<1>6. new \in SUBSET Row
  BY <1>1, <1>2
<1>7. \A o \in new : o.tick \in (from + 1)..to /\ o.tick % SampleEvery = 0 /\ o.published = FALSE
  BY <1>1, <1>2, <1>3
<1>8. \A o, p \in new : SameKey(o, p) => o = p
  BY <1>1, <1>2 DEF SameKey
<1> QED BY <1>5, <1>6, <1>7, <1>8 DEF new

-----------------------------------------------------------------------------
(* A message joins the topic. *)
LEMMA TopicGrows ==
  ASSUME TypeInv, NEW x \in Row, topic' = Append(topic, x)
  PROVE  /\ topic' \in Seq(Row)
         /\ \A i \in DOMAIN topic : i \in DOMAIN topic' /\ topic'[i] = topic[i]
         /\ \A i \in DOMAIN topic' : i \in DOMAIN topic \/ (i = Len(topic) + 1 /\ topic'[i] = x)
         /\ \A o : InTopic(o) => InTopic(o)'
         /\ \A o : SameKey(x, o) => InTopic(o)'
<1>1. topic \in Seq(Row)
  BY DEF TypeInv
<1>2. /\ topic' \in Seq(Row)
      /\ \A i \in DOMAIN topic : i \in DOMAIN topic' /\ topic'[i] = topic[i]
      /\ \A i \in DOMAIN topic' : i \in DOMAIN topic \/ (i = Len(topic) + 1 /\ topic'[i] = x)
      /\ Len(topic) + 1 \in DOMAIN topic' /\ topic'[Len(topic) + 1] = x
  BY <1>1
<1> QED BY <1>2 DEF InTopic

(* The first row of a batch is a row whose earlier ones are in the topic.  *)
LEMMA FirstIsNext ==
  ASSUME EngineInv, NEW w \in Workers, NEW x \in First(worker[w].rows), NEW o \in outbox, Before(o, x)
  PROVE  InTopic(o)
<1>1. x \in worker[w].rows /\ \A y \in worker[w].rows : ~Before(y, x)
  BY DEF First
<1>2. InTopic(o) \/ \E y \in worker[w].rows : SameKey(y, o)
  BY <1>1 DEF EngineInv, BatchInv
<1>3. \A y : SameKey(y, o) => Before(y, x)
  BY DEF SameKey, Before
<1> QED BY <1>1, <1>2, <1>3

(* Sending the first row of a batch keeps the topic in order. *)
LEMMA SendInOrder ==
  ASSUME EngineInv, NEW w \in Workers, NEW x \in First(worker[w].rows), topic' = Append(topic, x),
         UNCHANGED <<tick, outbox>>
  PROVE  TopicInv' /\ DeliveredInOrder'
<1>1. x \in Row /\ x.tick <= tick
  BY DEF EngineInv, BatchInv, TypeInv, Worker, First
<1>2. TopicInv'
  BY <1>1, TopicGrows DEF EngineInv, TopicInv
<1>3. PublishedWasSent'
  BY <1>1, TopicGrows DEF EngineInv, DeliveredInOrder, PublishedWasSent, InTopic
<1>4. ASSUME NEW i \in DOMAIN topic', NEW o \in outbox, Before(o, topic'[i])
      PROVE  \E j \in 1..(i - 1) : topic'[j].tick = o.tick /\ topic'[j].sensor = o.sensor
  <2>1. topic \in Seq(Row)
    BY DEF EngineInv, TypeInv
  <2>2. CASE i \in DOMAIN topic
    <3>1. topic'[i] = topic[i]
      BY <1>1, <2>2, TopicGrows DEF EngineInv
    <3>2. PICK j \in 1..(i - 1) : topic[j].tick = o.tick /\ topic[j].sensor = o.sensor
      BY <1>4, <2>2, <3>1 DEF EngineInv, DeliveredInOrder, FirstDeliveryInOrder
    <3>3. topic'[j] = topic[j]
      BY <1>1, <2>1, <2>2, <3>2, TopicGrows DEF EngineInv
    <3> QED BY <3>2, <3>3
  <2>3. CASE i = Len(topic) + 1 /\ topic'[i] = x
    <3>1. PICK j \in DOMAIN topic : SameKey(topic[j], o)
      BY <1>4, <2>3, FirstIsNext DEF InTopic
    <3>2. j \in 1..(i - 1) /\ topic'[j] = topic[j]
      BY <1>1, <2>1, <2>3, <3>1, TopicGrows DEF EngineInv
    <3> QED BY <3>1, <3>2 DEF SameKey
  <2> QED BY <1>1, <2>2, <2>3, TopicGrows DEF EngineInv
<1>5. FirstDeliveryInOrder'
  BY <1>4 DEF FirstDeliveryInOrder
<1> QED BY <1>2, <1>3, <1>5 DEF DeliveredInOrder

(* A step of one worker that sends nothing it has not got. *)
LEMMA BatchKept ==
  ASSUME EngineInv, NEW w \in Workers, NEW wk \in Worker, worker' = [worker EXCEPT ![w] = wk],
         UNCHANGED <<tick, outbox>>,
         \A o : InTopic(o) => InTopic(o)',
         \A x \in wk.rows : x.tick <= tick,
         \A x \in wk.sent : InTopic(x)',
         \A x \in wk.rows, o \in outbox :
           Before(o, x) => InTopic(o)' \/ \E y \in wk.rows : SameKey(y, o)
  PROVE  BatchInv' /\ worker' \in [Workers -> Worker]
<1>1. worker \in [Workers -> Worker]
  BY DEF EngineInv, TypeInv
<1>2. worker' \in [Workers -> Worker] /\ worker'[w] = wk
      /\ \A v \in Workers : v # w => worker'[v] = worker[v]
  BY <1>1
<1>3. ASSUME NEW v \in Workers
      PROVE  /\ \A x \in worker'[v].rows : x.tick <= tick
             /\ \A x \in worker'[v].sent : InTopic(x)'
             /\ \A x \in worker'[v].rows, o \in outbox :
                  Before(o, x) => InTopic(o)' \/ \E y \in worker'[v].rows : SameKey(y, o)
  <2>1. CASE v = w
    BY <1>2, <2>1
  <2>2. CASE v # w
    BY <1>2, <2>2 DEF EngineInv, BatchInv
  <2> QED BY <2>1, <2>2
<1>4. BatchInv'
  BY <1>3 DEF BatchInv
<1> QED BY <1>2, <1>4

(* A batch is closed under the rows before its rows. *)
LEMMA BatchFacts ==
  ASSUME EngineInv
  PROVE  /\ Batch \in SUBSET Row /\ Batch \in SUBSET outbox
         /\ \A x \in Batch, o \in outbox : Before(o, x) => InTopic(o) \/ o \in Batch
<1>1. outbox \in SUBSET Row /\ IsFiniteSet(outbox)
  BY DEF EngineInv, TypeInv
<1>2. Batch \subseteq unpublished /\ unpublished \subseteq outbox
  BY DEF Batch, unpublished
<1>3. ASSUME NEW x \in Batch, NEW o \in outbox, Before(o, x), o.published = FALSE
      PROVE  o \in Batch
  <2> DEFINE P(y) == {p \in unpublished : Before(p, y)}
  <2>1. o \in unpublished /\ x \in unpublished /\ Cardinality(P(x)) < BatchLimit
    BY <1>2, <1>3 DEF unpublished, Batch
  <2>2. P(o) \subseteq P(x)
    <3> SUFFICES ASSUME NEW p \in unpublished, Before(p, o) PROVE Before(p, x)
      OBVIOUS
    <3>1. /\ p.tick \in Nat /\ o.tick \in Nat /\ x.tick \in Nat
          /\ p.sensor \in Nat /\ o.sensor \in Nat /\ x.sensor \in Nat
      BY <1>1, <1>2, LabEngineAssumption DEF Row
    <3> QED BY <1>3, <3>1 DEF Before
  <2>3. P(x) \subseteq outbox
    BY <1>2
  <2> HIDE DEF P
  <2>4. IsFiniteSet(P(x))
    BY <1>1, <2>3, FS_Subset
  <2>5. IsFiniteSet(P(o)) /\ Cardinality(P(o)) <= Cardinality(P(x))
    BY <2>2, <2>4, FS_Subset
  <2>6. Cardinality(P(o)) \in Nat /\ Cardinality(P(x)) \in Nat
    BY <2>4, <2>5, FS_CardinalityType
  <2>7. Cardinality(P(o)) < BatchLimit
    BY <2>1, <2>5, <2>6, LabEngineAssumption
  <2> QED BY <2>1, <2>7 DEF Batch, P
<1>4. ASSUME NEW o \in outbox, o.published # FALSE PROVE InTopic(o)
  <2>1. o.published = TRUE
    BY <1>1, <1>4 DEF Row
  <2> QED BY <2>1 DEF EngineInv, DeliveredInOrder, PublishedWasSent, InTopic, SameKey
<1> QED BY <1>1, <1>2, <1>3, <1>4

(* A worker without rows. *)
LEMMA DownFacts ==
  /\ down \in Worker /\ down.rows = {} /\ down.sent = {}
  /\ \A running \in BOOLEAN :
       LET wk == [down EXCEPT !.up = TRUE, !.running = running]
       IN  wk \in Worker /\ wk.rows = {} /\ wk.sent = {}
  BY DEF down, Worker

-----------------------------------------------------------------------------
(* Nothing the invariant speaks of changes. *)
LEMMA SameStored ==
  ASSUME EngineInv, UNCHANGED <<tick, outbox, topic, worker>>,
         engine' \in [Engines -> 0..Stopped], health' \in BOOLEAN, kafka' \in BOOLEAN
  PROVE  EngineInv'
<1>1. TypeInv'
  BY DEF EngineInv, TypeInv
<1>2. StoredInv' /\ TopicInv' /\ DeliveredInOrder'
  BY DEF EngineInv, StoredInv, TopicInv, DeliveredInOrder, PublishedWasSent, FirstDeliveryInOrder
<1>3. BatchInv'
  BY DEF EngineInv, BatchInv, InTopic
<1> QED BY <1>1, <1>2, <1>3 DEF EngineInv

(* A batch of ticks adds the rows of its sampled ticks, once. *)
LEMMA Advances ==
  ASSUME EngineInv, NEW e \in Engines, engine[e] = tick, tick < MaxTicks,
         tick' = Reached(e), outbox' = outbox \cup observe(e, engine[e], Reached(e)),
         engine' = [engine EXCEPT ![e] = Reached(e)], UNCHANGED <<topic, worker, health, kafka>>
  PROVE  EngineInv'
<1> DEFINE new == observe(e, engine[e], Reached(e))
<1>1. /\ tick \in Nat /\ MaxTicks \in Nat /\ tick' \in 0..MaxTicks /\ tick < tick'
      /\ engine' \in [Engines -> 0..Stopped]
  BY LabEngineAssumption DEF EngineInv, TypeInv, Reached, Stopped
<1>2. /\ IsFiniteSet(new) /\ new \in SUBSET Row
      /\ \A o \in new : o.tick \in (tick + 1)..tick' /\ o.tick % SampleEvery = 0 /\ o.published = FALSE
      /\ \A o, p \in new : SameKey(o, p) => o = p
      /\ \A t \in (tick + 1)..tick', s \in Sensors :
           t % SampleEvery = 0 => \E o \in new : o.tick = t /\ o.sensor = s
  <2>1. engine[e] \in Nat /\ Reached(e) \in Nat /\ engine[e] = tick /\ Reached(e) = tick'
    BY <1>1
  <2>2. IsFiniteSet(new) /\ new \in SUBSET Row
    BY <2>1, NewRows
  <2>3. \A o \in new : /\ o.tick \in (engine[e] + 1)..Reached(e) /\ o.tick % SampleEvery = 0
                      /\ o.published = FALSE
    BY <2>1, NewRows
  <2>4. \A o, p \in new : SameKey(o, p) => o = p
    BY <2>1, NewRows
  <2>5. \A t \in (engine[e] + 1)..Reached(e), s \in Sensors :
          t % SampleEvery = 0 => \E o \in new : o.tick = t /\ o.sensor = s
    <3> SUFFICES ASSUME NEW t \in (engine[e] + 1)..Reached(e), NEW s \in Sensors, t % SampleEvery = 0
                 PROVE  \E o \in new : o.tick = t /\ o.sensor = s
      OBVIOUS
    <3> DEFINE o == [tick |-> t, sensor |-> s, published |-> FALSE, by |-> e]
    <3>1. t \in Sampled(engine[e], Reached(e))
      BY DEF Sampled
    <3>2. o \in new
      <4>1. \A u \in Sampled(engine[e], Reached(e)), q \in Sensors :
              [tick |-> u, sensor |-> q, published |-> FALSE, by |-> e] \in new
        BY ObserveHas
      <4> QED BY <3>1, <4>1, Zenon
    <3>3. o.tick = t /\ o.sensor = s
      OBVIOUS
    <3> HIDE DEF o, new
    <3> QED BY <3>2, <3>3
  <2> HIDE DEF new
  <2> QED BY <2>1, <2>2, <2>3, <2>4, <2>5
<1> HIDE DEF new
<1>3. outbox' = outbox \cup new /\ outbox \in SUBSET Row
  BY DEF new, EngineInv, TypeInv
<1>4. TypeInv'
  <2>1. IsFiniteSet(outbox')
    <3>1. IsFiniteSet(outbox)
      BY DEF EngineInv, TypeInv
    <3>2. IsFiniteSet(new)
      BY <1>2
    <3>3. IsFiniteSet(outbox \cup new)
      BY <3>1, <3>2, FS_Union
    <3> QED BY <1>3, <3>3
  <2> QED BY <1>1, <1>2, <1>3, <2>1 DEF EngineInv, TypeInv
<1>5. StoredInv'
  <2>1. \A o \in outbox : o.tick \in 1..tick /\ o.tick % SampleEvery = 0
    BY DEF EngineInv, StoredInv
  <2>2. \A o \in outbox' : o.tick \in 1..tick' /\ o.tick % SampleEvery = 0
    BY <1>1, <1>2, <1>3, <2>1
  <2>3. \A o \in outbox, p \in new : ~SameKey(o, p) /\ ~SameKey(p, o)
    BY <1>1, <1>2, <2>1 DEF SameKey
  <2>4. \A o, p \in outbox' : SameKey(o, p) => o = p
    BY <1>2, <1>3, <2>3 DEF EngineInv, StoredInv
  <2>5. ASSUME NEW t \in 1..tick', NEW s \in Sensors, t % SampleEvery = 0
        PROVE  \E o \in outbox' : o.tick = t /\ o.sensor = s
    <3>1. CASE t \in 1..tick
      BY <1>3, <2>5, <3>1 DEF EngineInv, StoredInv
    <3>2. CASE t \in (tick + 1)..tick'
      BY <1>2, <1>3, <2>5, <3>2
    <3> QED BY <1>1, <3>1, <3>2
  <2> QED BY <2>2, <2>4, <2>5 DEF StoredInv
<1>6. \A o \in new, x \in Row : x.tick <= tick => ~Before(o, x)
  BY <1>1, <1>2 DEF Before, Row
<1>7. \A o : InTopic(o)' <=> InTopic(o)
  BY DEF InTopic
<1>8. BatchInv'
  <2> SUFFICES ASSUME NEW w \in Workers
               PROVE  /\ \A x \in worker[w].rows : x.tick <= tick'
                      /\ \A x \in worker[w].sent : InTopic(x)
                      /\ \A x \in worker[w].rows, o \in outbox' :
                           Before(o, x) => InTopic(o) \/ \E y \in worker[w].rows : SameKey(y, o)
    BY <1>7 DEF BatchInv
  <2>1. worker[w].rows \in SUBSET Row
    BY DEF EngineInv, TypeInv, Worker
  <2>2. \A x \in worker[w].rows : x.tick <= tick /\ x.tick \in Nat
    BY <2>1 DEF EngineInv, BatchInv, Row
  <2>3. \A x \in worker[w].rows : x.tick <= tick'
    BY <1>1, <2>2
  <2>4. \A x \in worker[w].rows, o \in outbox' :
          Before(o, x) => InTopic(o) \/ \E y \in worker[w].rows : SameKey(y, o)
    BY <1>3, <1>6, <2>1, <2>2 DEF EngineInv, BatchInv
  <2> QED BY <2>3, <2>4 DEF EngineInv, BatchInv
<1>9. \A i \in DOMAIN topic : topic[i] \in Row /\ topic[i].tick <= tick /\ topic[i].tick \in Nat
  <2>1. topic \in Seq(Row) /\ \A i \in DOMAIN topic : topic[i].tick <= tick
    BY DEF EngineInv, TypeInv, TopicInv
  <2>2. \A i \in DOMAIN topic : topic[i] \in Row
    BY <2>1
  <2> QED BY <2>1, <2>2 DEF Row
<1>10. TopicInv'
  BY <1>1, <1>9 DEF TopicInv
<1>11. PublishedWasSent'
  BY <1>2, <1>3 DEF EngineInv, DeliveredInOrder, PublishedWasSent
<1>12. FirstDeliveryInOrder'
  BY <1>3, <1>6, <1>9 DEF EngineInv, DeliveredInOrder, FirstDeliveryInOrder
<1> QED BY <1>4, <1>5, <1>8, <1>10, <1>11, <1>12 DEF EngineInv, DeliveredInOrder

(* The engines. *)
LEMMA EngineStep ==
  ASSUME EngineInv, NEW e \in Engines, load_checkpoint(e) \/ run_once(e) \/ EngineDeath(e)
  PROVE  EngineInv'
<1>1. /\ Stopped \in 0..Stopped /\ tick \in 0..Stopped /\ engine \in [Engines -> 0..Stopped]
      /\ tick \in 0..MaxTicks /\ health \in BOOLEAN /\ kafka \in BOOLEAN
  BY LabEngineAssumption DEF EngineInv, TypeInv, Stopped
<1>2. ASSUME NEW t \in 0..Stopped, engine' = [engine EXCEPT ![e] = t]
      PROVE  engine' \in [Engines -> 0..Stopped]
  BY <1>1, <1>2
<1>3. CASE load_checkpoint(e) \/ EngineDeath(e)
  <2>1. /\ engine' \in [Engines -> 0..Stopped]
        /\ UNCHANGED <<tick, outbox, topic, worker, health, kafka>>
    BY <1>1, <1>2, <1>3 DEF load_checkpoint, EngineDeath
  <2> QED BY <1>1, <2>1, SameStored
<1>4. CASE run_once(e) /\ Fenced(e)
  <2>1. /\ engine' \in [Engines -> 0..Stopped]
        /\ UNCHANGED <<tick, outbox, topic, worker, health, kafka>>
    BY <1>1, <1>2, <1>4 DEF run_once
  <2> QED BY <1>1, <2>1, SameStored
<1>5. CASE run_once(e) /\ ~Fenced(e)
  BY <1>5, Advances DEF run_once, Fenced
<1> QED BY <1>3, <1>4, <1>5

(* What the workers do but for marking. *)
LEMMA WorkerStep ==
  ASSUME EngineInv, NEW w \in Workers,
         \/ start(w) \/ WorkerDeath(w) \/ heartbeat_loop(w)
         \/ Fetch(w) \/ Send(w) \/ SendFails(w) \/ SendUnanswered(w)
  PROVE  EngineInv'
<1>1. /\ worker \in [Workers -> Worker] /\ worker[w] \in Worker
      /\ worker[w].rows \in SUBSET Row /\ worker[w].sent \in SUBSET Row
      /\ worker[w].running \in BOOLEAN /\ kafka \in BOOLEAN
      /\ engine \in [Engines -> 0..Stopped] /\ health \in BOOLEAN
  BY DEF EngineInv, TypeInv, Worker
<1>2. ASSUME UNCHANGED <<tick, outbox, engine>>, topic' \in Seq(Row),
             worker' \in [Workers -> Worker], health' \in BOOLEAN, kafka' \in BOOLEAN,
             BatchInv', TopicInv', DeliveredInOrder'
      PROVE  EngineInv'
  <2>1. TypeInv' /\ StoredInv'
    BY <1>2 DEF EngineInv, TypeInv, StoredInv
  <2> QED BY <1>2, <2>1 DEF EngineInv
<1>3. ASSUME UNCHANGED topic
      PROVE  \A o : InTopic(o)' <=> InTopic(o)
  BY <1>3 DEF InTopic
<1>4. ASSUME UNCHANGED <<tick, outbox, topic>>
      PROVE  TopicInv' /\ DeliveredInOrder' /\ topic' \in Seq(Row)
  BY <1>4 DEF EngineInv, TypeInv, TopicInv, DeliveredInOrder, PublishedWasSent, FirstDeliveryInOrder
<1>5. CASE start(w) \/ WorkerDeath(w)
  <2>1. PICK wk \in Worker : /\ worker' = [worker EXCEPT ![w] = wk]
                             /\ wk.rows = {} /\ wk.sent = {}
    BY <1>1, <1>5, DownFacts DEF start, WorkerDeath
  <2>2. UNCHANGED <<tick, outbox, topic, engine, health, kafka>>
    BY <1>5 DEF start, WorkerDeath
  <2>3. BatchInv' /\ worker' \in [Workers -> Worker]
    BY <1>3, <2>1, <2>2, BatchKept
  <2> QED BY <1>1, <1>2, <1>4, <2>2, <2>3
<1>6. CASE heartbeat_loop(w)
  <2>1. /\ UNCHANGED <<tick, outbox, topic, engine, worker, kafka>> /\ health' \in BOOLEAN
    BY <1>1, <1>6 DEF heartbeat_loop
  <2> QED BY <1>1, <2>1, SameStored
<1>7. CASE Fetch(w)
  <2> DEFINE wk == [worker[w] EXCEPT !.rows = Batch]
  <2>1. /\ worker' = [worker EXCEPT ![w] = wk] /\ worker[w].sent = {}
        /\ UNCHANGED <<tick, outbox, topic, engine, health, kafka>>
    BY <1>1, <1>7 DEF Fetch
  <2>2. Batch \in SUBSET Row /\ Batch \in SUBSET outbox
    BY BatchFacts
  <2>3. wk \in Worker /\ wk.rows = Batch /\ wk.sent = {}
    BY <1>1, <2>1, <2>2 DEF Worker
  <2>4. \A x \in Batch : x.tick <= tick
    BY <2>2 DEF EngineInv, StoredInv
  <2>5. \A x \in Batch, o \in outbox :
          Before(o, x) => InTopic(o) \/ \E y \in Batch : SameKey(y, o)
    BY BatchFacts DEF SameKey
  <2> HIDE DEF wk
  <2>6. BatchInv' /\ worker' \in [Workers -> Worker]
    BY <1>3, <2>1, <2>3, <2>4, <2>5, BatchKept
  <2> QED BY <1>1, <1>2, <1>4, <2>1, <2>6
<1>8. CASE Send(w)
  <2>1. PICK x \in First(worker[w].rows) :
          /\ topic' = Append(topic, x)
          /\ worker' = [worker EXCEPT ![w].rows = @ \ {x}, ![w].sent = @ \cup {x}]
    BY <1>8 DEF Send
  <2>2. UNCHANGED <<tick, outbox, engine, health, kafka>>
    BY <1>8 DEF Send
  <2>3. x \in worker[w].rows /\ x \in Row
    BY <1>1 DEF First
  <2> DEFINE wk == [worker[w] EXCEPT !.rows = @ \ {x}, !.sent = @ \cup {x}]
  <2>4. worker' = [worker EXCEPT ![w] = wk]
    BY <1>1, <2>1
  <2>5. /\ wk \in Worker /\ wk.rows = worker[w].rows \ {x}
        /\ wk.sent = worker[w].sent \cup {x}
    BY <1>1, <2>3 DEF Worker
  <2> HIDE DEF wk
  <2>6. /\ topic' \in Seq(Row) /\ \A o : InTopic(o) => InTopic(o)'
        /\ \A o : SameKey(x, o) => InTopic(o)'
    BY <2>1, <2>3, TopicGrows DEF EngineInv
  <2>7. /\ \A y \in wk.rows : y.tick <= tick
        /\ \A y \in wk.sent : InTopic(y)'
        /\ \A y \in wk.rows, o \in outbox :
             Before(o, y) => InTopic(o)' \/ \E z \in wk.rows : SameKey(z, o)
    BY <2>5, <2>6 DEF EngineInv, BatchInv, SameKey
  <2>8. BatchInv' /\ worker' \in [Workers -> Worker]
    BY <2>2, <2>4, <2>5, <2>6, <2>7, BatchKept
  <2>9. TopicInv' /\ DeliveredInOrder'
    BY <2>1, <2>2, SendInOrder
  <2> QED BY <1>1, <1>2, <2>2, <2>6, <2>8, <2>9
<1>9. ASSUME worker' = [worker EXCEPT ![w].rows = AfterFailure(@)], UNCHANGED <<tick, outbox>>,
             \A o : InTopic(o) => InTopic(o)'
      PROVE  BatchInv' /\ worker' \in [Workers -> Worker]
  <2> DEFINE wk == [worker[w] EXCEPT !.rows = {}]
  <2>1. worker' = [worker EXCEPT ![w] = wk]
    BY <1>1, <1>9 DEF AfterFailure
  <2>2. wk \in Worker /\ wk.rows = {} /\ wk.sent = worker[w].sent
    BY <1>1 DEF Worker
  <2> HIDE DEF wk
  <2>3. \A x \in wk.sent : InTopic(x)'
    BY <1>9, <2>2 DEF EngineInv, BatchInv
  <2> QED BY <1>9, <2>1, <2>2, <2>3, BatchKept
<1>10. CASE SendFails(w)
  <2>1. /\ worker' = [worker EXCEPT ![w].rows = AfterFailure(@)]
        /\ UNCHANGED <<tick, outbox, topic, engine, health, kafka>>
    BY <1>10 DEF SendFails
  <2> QED BY <1>1, <1>2, <1>3, <1>4, <1>9, <2>1
<1>11. CASE SendUnanswered(w)
  <2>1. PICK x \in First(worker[w].rows) : topic' = Append(topic, x)
    BY <1>11 DEF SendUnanswered
  <2>2. /\ worker' = [worker EXCEPT ![w].rows = AfterFailure(@)]
        /\ UNCHANGED <<tick, outbox, engine, health>> /\ kafka' \in BOOLEAN
    BY <1>11 DEF SendUnanswered
  <2>3. x \in Row
    BY <1>1 DEF First
  <2>4. topic' \in Seq(Row) /\ \A o : InTopic(o) => InTopic(o)'
    BY <2>1, <2>3, TopicGrows DEF EngineInv
  <2>5. TopicInv' /\ DeliveredInOrder'
    BY <2>1, <2>2, SendInOrder
  <2> QED BY <1>1, <1>2, <1>9, <2>2, <2>4, <2>5
<1> QED BY <1>5, <1>6, <1>7, <1>8, <1>10, <1>11

(* Marking keeps the rows, and marks what is in the topic. *)
LEMMA MarkStep ==
  ASSUME EngineInv, NEW w \in Workers, Mark(w)
  PROVE  EngineInv'
<1> DEFINE marked(o) == IF o \in worker[w].sent THEN [o EXCEPT !.published = TRUE] ELSE o
           f == [o \in outbox |-> marked(o)]
<1>1. /\ worker \in [Workers -> Worker] /\ worker[w] \in Worker /\ outbox \in SUBSET Row
      /\ IsFiniteSet(outbox) /\ worker[w].rows = {}
      /\ outbox' = {marked(o) : o \in outbox}
      /\ worker' = [worker EXCEPT ![w].sent = {}]
      /\ UNCHANGED <<tick, topic, engine, health, kafka>>
  BY DEF EngineInv, TypeInv, Mark
<1>2. \A o \in outbox : /\ marked(o) \in Row /\ SameKey(marked(o), o)
                        /\ marked(o).tick = o.tick /\ marked(o).sensor = o.sensor
                        /\ marked(o).published = TRUE => o.published = TRUE \/ o \in worker[w].sent
  BY <1>1 DEF Row, SameKey
<1>3. IsFiniteSet(outbox')
  <2>1. f \in Surjection(outbox, outbox')
    BY <1>1 DEF Surjection
  <2> QED BY <1>1, <2>1, FS_Surjection
<1> HIDE DEF marked, f
<1>4. \A o \in outbox' : \E p \in outbox : o = marked(p)
  BY <1>1
<1>5. \A o \in outbox : marked(o) \in outbox'
  BY <1>1
<1>6. StoredInv'
  <2>1. \A o \in outbox' : o.tick \in 1..tick /\ o.tick % SampleEvery = 0
    BY <1>2, <1>4 DEF EngineInv, StoredInv
  <2>2. ASSUME NEW o \in outbox', NEW p \in outbox', SameKey(o, p) PROVE o = p
    <3>1. PICK a \in outbox, b \in outbox : o = marked(a) /\ p = marked(b)
      BY <1>4
    <3>2. SameKey(a, b)
      BY <1>2, <2>2, <3>1 DEF SameKey
    <3> QED BY <3>1, <3>2 DEF EngineInv, StoredInv
  <2>3. \A t \in 1..tick, s \in Sensors :
          t % SampleEvery = 0 => \E o \in outbox' : o.tick = t /\ o.sensor = s
    BY <1>2, <1>5 DEF EngineInv, StoredInv
  <2> QED BY <1>1, <2>1, <2>2, <2>3 DEF StoredInv
<1>7. \A o, x : \A p : SameKey(p, o) => (Before(p, x) <=> Before(o, x)) /\ (InTopic(p) <=> InTopic(o))
  BY DEF SameKey, Before, InTopic
<1>8. \A o : InTopic(o)' <=> InTopic(o)
  BY <1>1 DEF InTopic
<1> DEFINE wk == [worker[w] EXCEPT !.sent = {}]
<1>9. /\ wk \in Worker /\ wk.rows = {} /\ wk.sent = {}
      /\ worker' = [worker EXCEPT ![w] = wk]
  BY <1>1 DEF Worker
<1> HIDE DEF wk
<1>10. /\ worker' \in [Workers -> Worker]
       /\ \A v \in Workers : worker'[v].rows = worker[v].rows
                             /\ worker'[v].sent \in SUBSET worker[v].sent
  BY <1>1, <1>9
<1>11. BatchInv'
  <2> SUFFICES ASSUME NEW v \in Workers
               PROVE  /\ \A x \in worker'[v].rows : x.tick <= tick
                      /\ \A x \in worker'[v].sent : InTopic(x)
                      /\ \A x \in worker'[v].rows, o \in outbox' :
                           Before(o, x) => InTopic(o) \/ \E y \in worker'[v].rows : SameKey(y, o)
    BY <1>1, <1>8 DEF BatchInv
  <2>1. ASSUME NEW x \in worker[v].rows, NEW o \in outbox', Before(o, x)
        PROVE  InTopic(o) \/ \E y \in worker[v].rows : SameKey(y, o)
    <3>1. PICK p \in outbox : o = marked(p)
      BY <1>4
    <3>2. SameKey(o, p) /\ Before(p, x)
      BY <1>2, <1>7, <2>1, <3>1
    <3>3. InTopic(p) \/ \E y \in worker[v].rows : SameKey(y, p)
      BY <3>2 DEF EngineInv, BatchInv
    <3> QED BY <1>7, <3>2, <3>3 DEF SameKey
  <2> QED BY <1>10, <2>1 DEF EngineInv, BatchInv
<1>12. ASSUME NEW o \in outbox', o.published
       PROVE  \E i \in DOMAIN topic : topic[i].tick = o.tick /\ topic[i].sensor = o.sensor
  <2>1. PICK p \in outbox : o = marked(p)
    BY <1>4
  <2>2. CASE p.published = TRUE
    BY <1>2, <2>1, <2>2 DEF EngineInv, DeliveredInOrder, PublishedWasSent
  <2>3. CASE p \in worker[w].sent
    BY <1>2, <2>1, <2>3 DEF EngineInv, BatchInv, InTopic, SameKey
  <2>4. o.published = TRUE
    BY <1>2, <1>12, <2>1 DEF Row
  <2> QED BY <1>2, <2>1, <2>2, <2>3, <2>4
<1>13. PublishedWasSent'
  BY <1>1, <1>12 DEF PublishedWasSent
<1>14. FirstDeliveryInOrder'
  <2> SUFFICES ASSUME NEW i \in DOMAIN topic, NEW o \in outbox', Before(o, topic[i])
               PROVE  \E j \in 1..(i - 1) : topic[j].tick = o.tick /\ topic[j].sensor = o.sensor
    BY <1>1 DEF FirstDeliveryInOrder
  <2>1. PICK p \in outbox : o = marked(p)
    BY <1>4
  <2>2. SameKey(p, o) /\ Before(p, topic[i])
    BY <1>2, <1>7, <2>1 DEF SameKey
  <2> QED BY <2>2 DEF EngineInv, DeliveredInOrder, FirstDeliveryInOrder, SameKey
<1>15. TypeInv' /\ TopicInv'
  BY <1>1, <1>2, <1>3, <1>4, <1>10 DEF EngineInv, TypeInv, TopicInv
<1> QED BY <1>6, <1>11, <1>13, <1>14, <1>15 DEF EngineInv, DeliveredInOrder

-----------------------------------------------------------------------------
(* The invariant holds in every reachable state. *)
LEMMA AlwaysInv == Init /\ [][Next]_vars => []EngineInv
<1>1. Init => EngineInv
  <2> SUFFICES ASSUME Init PROVE EngineInv
    OBVIOUS
  <2>1. \A w \in Workers : worker[w] = down
    BY DEF Init
  <2>2. TypeInv
    <3>1. IsFiniteSet(outbox)
      BY FS_EmptySet DEF Init
    <3>2. tick \in 0..MaxTicks /\ Stopped \in 0..Stopped
      BY LabEngineAssumption DEF Init, Stopped
    <3>3. worker \in [Workers -> Worker] /\ engine \in [Engines -> 0..Stopped]
      BY <3>2, DownFacts DEF Init
    <3>4. topic \in Seq(Row) /\ outbox \in SUBSET Row
      BY DEF Init
    <3>5. health \in BOOLEAN /\ kafka \in BOOLEAN
      BY LabEngineAssumption DEF Init
    <3> QED BY <3>1, <3>2, <3>3, <3>4, <3>5 DEF TypeInv
  <2>3. StoredInv
    BY DEF Init, StoredInv
  <2>4. BatchInv
    BY <2>1, DownFacts DEF BatchInv
  <2>5. TopicInv /\ DeliveredInOrder
    BY DEF Init, TopicInv, DeliveredInOrder, PublishedWasSent, FirstDeliveryInOrder
  <2> QED BY <2>2, <2>3, <2>4, <2>5 DEF EngineInv
<1>2. EngineInv /\ [Next]_vars => EngineInv'
  <2> SUFFICES ASSUME EngineInv, [Next]_vars PROVE EngineInv'
    OBVIOUS
  <2>1. CASE UNCHANGED vars \/ Outage \/ KafkaReturns
    <3>1. /\ UNCHANGED <<tick, outbox, topic, worker>> /\ engine' \in [Engines -> 0..Stopped]
          /\ health' \in BOOLEAN /\ kafka' \in BOOLEAN
      BY <2>1 DEF vars, Outage, KafkaReturns, EngineInv, TypeInv
    <3> QED BY <3>1, SameStored
  <2> QED BY <2>1, EngineStep, WorkerStep, MarkStep DEF Next, dispatch_batch
<1> QED BY <1>1, <1>2, PTL

(* For any number of engines and deaths, each observation is stored once:  *)
(* the checkpoint's update matches no row for an engine that is behind     *)
(* (run_once, LabStore.checkpoint).                                        *)
THEOREM AlwaysObservedOnce == Spec => []ObservedOnce
<1>1. EngineInv => ObservedOnce
  <2> SUFFICES ASSUME EngineInv, NEW t \in 1..MaxTicks, NEW s \in Sensors
               PROVE  Cardinality({o \in outbox : o.tick = t /\ o.sensor = s})
                        = (IF t <= tick /\ t % SampleEvery = 0 THEN 1 ELSE 0)
    BY DEF ObservedOnce
  <2> DEFINE S == {o \in outbox : o.tick = t /\ o.sensor = s}
  <2>1. tick \in Nat /\ t \in Nat
    BY DEF EngineInv, TypeInv
  <2>2. CASE t <= tick /\ t % SampleEvery = 0
    <3>1. t \in 1..tick
      BY <2>1, <2>2
    <3>2. PICK o \in outbox : o.tick = t /\ o.sensor = s
      BY <2>2, <3>1 DEF EngineInv, StoredInv
    <3>3. S = {o}
      BY <3>2 DEF EngineInv, StoredInv, SameKey
    <3>4. Cardinality(S) = 1
      BY <3>3, FS_Singleton
    <3> QED BY <2>2, <3>4
  <2>3. CASE ~(t <= tick /\ t % SampleEvery = 0)
    <3>1. S = {}
      BY <2>1, <2>3 DEF EngineInv, StoredInv
    <3>2. Cardinality(S) = 0
      BY <3>1, FS_EmptySet
    <3> QED BY <2>3, <3>2
  <2> QED BY <2>2, <2>3
<1> QED BY AlwaysInv, <1>1, PTL DEF Spec

(* For any number of workers, deaths, outages and unanswered sends, the    *)
(* topic misses no observation that is marked published, nor one before an *)
(* observation it has (dispatch_batch).                                    *)
THEOREM AlwaysDeliveredInOrder == Spec => []DeliveredInOrder
<1>1. EngineInv => DeliveredInOrder
  BY DEF EngineInv
<1> QED BY AlwaysInv, <1>1, PTL DEF Spec

(* -------------------------------- the store --------------------------------- *)

RevisionRow == [base : Nat, ok : BOOLEAN]
RunRow == [revision : Nat, status : {"CREATED"}, control : Nat, tick : Nat]
CommandRow == [id : CommandIds, hash : Payloads \X Nat, expected : Nat, control : Nat]
RequestInHand ==
  [op : {"none"}]
    \cup [op : {"save"}, base : Nat, ok : BOOLEAN, seen : Nat]
    \cup [op : {"command"}, id : CommandIds, hash : Payloads \X Nat, expected : Nat,
          seen : [control : Nat, tick : Nat]]
    \cup [op : {"snapshot"}, control : Nat, seen : Nat]

StoreTypes ==
  /\ revisions \in Seq(RevisionRow)
  /\ run \in RunRow
  /\ commands \in Seq(CommandRow)
  /\ request \in [Processes -> RequestInHand]
  /\ isolation \in [Processes -> {"READ_COMMITTED", "REPEATABLE_READ"}]

(* A snapshot in progress reads from a transaction that still sees the     *)
(* commands stored when it read the run, and no other.                     *)
SnapshotsHeld ==
  \A p \in Processes : request[p].op = "snapshot" =>
    /\ request[p].control = request[p].seen
    /\ request[p].seen <= Len(commands)
    /\ isolation[p] = "REPEATABLE_READ"

StoreInv == StoreTypes /\ SnapshotsHeld /\ Store!RequestsAreSerial

-----------------------------------------------------------------------------
(* What a table holds after an insert: the rows it had, then the new one. *)
LEMMA AppendFacts ==
  ASSUME NEW S, NEW s \in Seq(S), NEW e \in S
  PROVE  /\ Append(s, e) \in Seq(S) /\ Len(s) \in Nat /\ Len(Append(s, e)) = Len(s) + 1
         /\ \A i \in 1..Len(s) : Append(s, e)[i] = s[i]
         /\ Append(s, e)[Len(s) + 1] = e
  OBVIOUS

(* The store starts empty, and nobody has been answered. *)
LEMMA InitInv == Store!Init => StoreInv
  BY DEF Store!Init, StoreInv, StoreTypes, RevisionRow, RunRow, CommandRow, RequestInHand,
         Store!idle, SnapshotsHeld,
         Store!RequestsAreSerial, Store!NoLostEdit, Store!NoBlindCommand,
         Store!ReceiptsAgree, Store!SnapshotIsConsistent

(* save_lab: the row is locked and its revision compared before the next   *)
(* revision is stored.                                                     *)
LEMMA SaveStep ==
  ASSUME StoreInv, NEW p \in Processes, Store!update_lab(p) \/ Store!save_lab(p)
  PROVE  StoreInv'
<1>1. CASE Store!update_lab(p)
  BY <1>1 DEF Store!update_lab, Store!Receive, StoreInv, StoreTypes, RequestInHand,
              SnapshotsHeld,
              Store!RequestsAreSerial, Store!NoLostEdit, Store!NoBlindCommand,
              Store!ReceiptsAgree, Store!SnapshotIsConsistent
<1>2. CASE Store!save_lab(p)
  <2> DEFINE r == request[p]
  <2>1. /\ r \in [op : {"save"}, base : Nat, ok : BOOLEAN, seen : Nat]
        /\ UNCHANGED <<run, commands, isolation>>
        /\ request' = [request EXCEPT ![p] = Store!idle]
        /\ \E reply : answers' = answers \cup {[op |-> "save", reply |-> reply]}
    BY <1>2 DEF Store!save_lab, Store!Answer, StoreInv, StoreTypes, RequestInHand
  <2>2. \/ UNCHANGED revisions
        \/ /\ revisions' = Append(revisions, [base |-> r.base, ok |-> r.ok])
           /\ ~Store!SaveFails(p) /\ ~Store!RevisionConflict(r)
    BY <1>2 DEF Store!save_lab
  <2> DEFINE e == [base |-> r.base, ok |-> r.ok]
  <2>3. e \in RevisionRow /\ e.base = r.base /\ Store!idle \in RequestInHand
    BY <2>1 DEF RevisionRow, RequestInHand, Store!idle
  <2>4. revisions \in Seq(RevisionRow)
    BY DEF StoreInv, StoreTypes
  <2> HIDE DEF e
  <2>5. revisions' \in Seq(RevisionRow)
    BY <2>2, <2>3, <2>4, AppendFacts DEF e
  <2>6. StoreTypes'
    BY <2>1, <2>3, <2>5 DEF StoreInv, StoreTypes
  <2>7. SnapshotsHeld'
    BY <2>1 DEF StoreInv, SnapshotsHeld, StoreTypes, Store!idle
  <2>8. Store!NoLostEdit'
    <3>1. CASE UNCHANGED revisions
      BY <3>1 DEF StoreInv, Store!RequestsAreSerial, Store!NoLostEdit
    <3>2. CASE /\ revisions' = Append(revisions, e)
               /\ ~Store!SaveFails(p) /\ ~Store!RevisionConflict(r)
      <4>1. /\ Len(revisions) \in Nat /\ Len(revisions') = Len(revisions) + 1
            /\ \A i \in 1..Len(revisions) : revisions'[i] = revisions[i]
            /\ revisions'[Len(revisions) + 1] = e
        BY <3>2, <2>3, <2>4, AppendFacts
      <4>2. Len(revisions) = 0 \/ e.base = Len(revisions)
        BY <3>2, <2>3, <2>4 DEF Store!SaveFails, Store!RevisionConflict
      <4>3. Store!NoLostEdit
        BY ONLY StoreInv DEF StoreInv, Store!RequestsAreSerial
      <4>4. \A n \in 2..Len(revisions') : n \in 2..Len(revisions) \/ n = Len(revisions) + 1
        BY ONLY <4>1
      <4>5. \A n \in 2..Len(revisions) : revisions'[n].base = n - 1
        BY ONLY <4>1, <4>3 DEF Store!NoLostEdit
      <4>6. ASSUME Len(revisions) + 1 \in 2..Len(revisions') PROVE e.base = Len(revisions)
        BY ONLY <4>1, <4>2, <4>6
      <4> QED BY ONLY <4>1, <4>4, <4>5, <4>6 DEF Store!NoLostEdit
    <3> QED BY <2>2, <3>1, <3>2 DEF e
  <2>9. Store!NoBlindCommand' /\ Store!ReceiptsAgree' /\ Store!SnapshotIsConsistent'
    BY <2>1 DEF StoreInv, Store!RequestsAreSerial, Store!NoBlindCommand, Store!ReceiptsAgree,
                Store!SnapshotIsConsistent
  <2> QED BY <2>6, <2>7, <2>8, <2>9 DEF StoreInv, Store!RequestsAreSerial
<1> QED BY <1>1, <1>2

(* start_run and the engine's checkpoint leave the control revision alone. *)
LEMMA RunStep ==
  ASSUME StoreInv, Store!checkpoint \/ \E p \in Processes : Store!start_run(p)
  PROVE  StoreInv'
<1>1. /\ UNCHANGED <<revisions, commands, request, isolation>>
      /\ run' \in RunRow /\ run'.control = run.control
      /\ \/ UNCHANGED answers
         \/ answers' = answers \cup {[op |-> "run", reply |-> "not_runnable"]}
  <2>1. run \in RunRow
    BY ONLY StoreInv DEF StoreInv, StoreTypes
  <2>2. CASE Store!checkpoint
    BY ONLY <2>1, <2>2 DEF Store!checkpoint, RunRow
  <2>3. CASE \E p \in Processes : Store!start_run(p)
    <3>1. DOMAIN revisions \subseteq Nat
      BY ONLY StoreInv DEF StoreInv, StoreTypes
    <3>2. PICK p \in Processes, v \in DOMAIN revisions :
            /\ UNCHANGED <<revisions, commands, request, isolation>>
            /\ \/ run' = [run EXCEPT !.revision = v] /\ UNCHANGED answers
               \/ /\ answers' = answers \cup {[op |-> "run", reply |-> "not_runnable"]}
                  /\ UNCHANGED run
      BY ONLY <2>3 DEF Store!start_run
    <3>3. v \in Nat
      BY ONLY <3>1, v \in DOMAIN revisions
    <3> QED
      BY ONLY <2>1, <3>2, <3>3 DEF RunRow
  <2> QED
    BY <2>2, <2>3
<1> QED
  BY <1>1 DEF StoreInv, StoreTypes, SnapshotsHeld, Store!RequestsAreSerial, Store!NoLostEdit,
              Store!NoBlindCommand,
              Store!ReceiptsAgree, Store!SnapshotIsConsistent

(* A known command is answered with the receipt of the one that is stored; *)
(* a new one becomes the request in hand.                                  *)
LEMMA SubmitStep ==
  ASSUME StoreInv, NEW p \in Processes, Store!SubmitCommand(p)
  PROVE  StoreInv'
<1>1. PICK id \in CommandIds, payload \in Payloads, expected \in 0..run.control :
        LET r == [op |-> "command", id |-> id, hash |-> <<payload, expected>>,
                  expected |-> expected,
                  seen |-> [control |-> run.control, tick |-> run.tick]]
        IN  /\ UNCHANGED <<revisions, run, commands, isolation>>
            /\ \/ Store!receipt(p, r)
               \/ request' = [request EXCEPT ![p] = r] /\ UNCHANGED answers
  BY DEF Store!SubmitCommand
<1> DEFINE r == [op |-> "command", id |-> id, hash |-> <<payload, expected>>,
                 expected |-> expected,
                 seen |-> [control |-> run.control, tick |-> run.tick]]
<1>2. r \in RequestInHand /\ r.op = "command" /\ Store!idle \in RequestInHand /\ Store!idle.op = "none"
  BY DEF StoreInv, StoreTypes, RunRow, RequestInHand, Store!idle
<1>3. CASE Store!receipt(p, r)
  <2>0. PICK i \in DOMAIN commands : \E a :
          /\ answers' = answers \cup {a} /\ request' = [request EXCEPT ![p] = Store!idle]
          /\ a.op = "command"
          /\ a.reply = "receipt" => /\ commands[i].id = a.id /\ commands[i].hash = a.hash
                                    /\ commands[i].control = a.control
    <3>1. PICK i \in Store!Known(r.id) :
            IF commands[i].hash = r.hash
            THEN Store!Answer(p, Store!CommandAnswer(r, "receipt", commands[i].control))
            ELSE Store!Answer(p, Store!CommandAnswer(r, "identity_conflict", Store!None))
      BY <1>3 DEF Store!receipt
    <3>2. i \in DOMAIN commands /\ commands[i].id = r.id
      BY <3>1 DEF Store!Known
    <3>3. CASE commands[i].hash = r.hash
      <4> DEFINE a == Store!CommandAnswer(r, "receipt", commands[i].control)
      <4>1. a.op = "command" /\ a.id = r.id /\ a.hash = r.hash /\ a.control = commands[i].control
        BY DEF Store!CommandAnswer
      <4> HIDE DEF a, r
      <4>2. answers' = answers \cup {a} /\ request' = [request EXCEPT ![p] = Store!idle]
        BY <3>1, <3>3 DEF Store!Answer, a
      <4> QED BY <3>2, <3>3, <4>1, <4>2
    <3>4. CASE commands[i].hash # r.hash
      <4> DEFINE a == Store!CommandAnswer(r, "identity_conflict", Store!None)
      <4>1. a.op = "command" /\ a.reply # "receipt"
        BY DEF Store!CommandAnswer
      <4> HIDE DEF a, r
      <4>2. answers' = answers \cup {a} /\ request' = [request EXCEPT ![p] = Store!idle]
        BY <3>1, <3>4 DEF Store!Answer, a
      <4> QED BY <3>2, <4>1, <4>2
    <3> QED BY <3>3, <3>4
  <2>1. PICK a :
          /\ answers' = answers \cup {a} /\ request' = [request EXCEPT ![p] = Store!idle]
          /\ a.op = "command"
          /\ a.reply = "receipt" => /\ commands[i].id = a.id /\ commands[i].hash = a.hash
                                    /\ commands[i].control = a.control
    BY <2>0
  <2> HIDE DEF r
  <2>2. StoreTypes' /\ SnapshotsHeld'
    BY <1>1, <1>2, <2>1 DEF StoreInv, StoreTypes, SnapshotsHeld
  <2>3. Store!NoLostEdit' /\ Store!NoBlindCommand' /\ Store!SnapshotIsConsistent'
    BY <1>1, <2>1 DEF StoreInv, Store!RequestsAreSerial, Store!NoLostEdit,
                      Store!NoBlindCommand, Store!SnapshotIsConsistent
  <2>4. Store!ReceiptsAgree'
    BY <1>1, <2>1 DEF StoreInv, Store!RequestsAreSerial, Store!ReceiptsAgree
  <2> QED BY <2>2, <2>3, <2>4 DEF StoreInv, Store!RequestsAreSerial
<1>4. CASE request' = [request EXCEPT ![p] = r] /\ UNCHANGED answers
  <2> HIDE DEF r
  <2> QED
    BY <1>1, <1>2, <1>4
    DEF StoreInv, StoreTypes, SnapshotsHeld, Store!RequestsAreSerial, Store!NoLostEdit,
        Store!NoBlindCommand,
        Store!ReceiptsAgree, Store!SnapshotIsConsistent
<1> QED BY <1>1, <1>3, <1>4

(* submit_command: the run's row is locked, so the revision compared is    *)
(* the one the new command takes its place after.                          *)
LEMMA AcceptStep ==
  ASSUME StoreInv, NEW p \in Processes, Store!submit_command(p)
  PROVE  StoreInv'
<1> DEFINE r == request[p]
<1>1. /\ r \in [op : {"command"}, id : CommandIds, hash : Payloads \X Nat, expected : Nat,
                seen : [control : Nat, tick : Nat]]
      /\ UNCHANGED <<revisions, isolation>>
      /\ Store!idle \in RequestInHand /\ Store!idle.op = "none"
  BY DEF Store!submit_command, StoreInv, StoreTypes, RequestInHand, Store!idle
<1>2. CASE /\ UNCHANGED <<run, commands>>
           /\ \E reply \in {"error", "conflict"} : Store!Answer(p, Store!CommandAnswer(r, reply, Store!None))
  <2>1. PICK a : /\ answers' = answers \cup {a} /\ request' = [request EXCEPT ![p] = Store!idle]
                 /\ a.op = "command" /\ a.reply # "receipt"
    <3>1. PICK reply \in {"error", "conflict"} : Store!Answer(p, Store!CommandAnswer(r, reply, Store!None))
      BY <1>2
    <3> DEFINE a == Store!CommandAnswer(r, reply, Store!None)
    <3>2. a.op = "command" /\ a.reply # "receipt"
      BY DEF Store!CommandAnswer
    <3> HIDE DEF a
    <3> QED BY <3>1, <3>2 DEF Store!Answer, a
  <2> QED
    BY <1>1, <1>2, <2>1
    DEF StoreInv, StoreTypes, SnapshotsHeld, Store!RequestsAreSerial, Store!NoLostEdit,
        Store!NoBlindCommand,
        Store!ReceiptsAgree, Store!SnapshotIsConsistent
<1>3. CASE /\ r.expected = run.control
           /\ commands' = Append(commands, [id |-> r.id, hash |-> r.hash,
                                            expected |-> r.expected, control |-> run.control + 1])
           /\ run' = [run EXCEPT !.control = run.control + 1]
           /\ Store!Answer(p, Store!CommandAnswer(r, "receipt", run.control + 1))
  <2> DEFINE c == [id |-> r.id, hash |-> r.hash, expected |-> r.expected,
                   control |-> run.control + 1]
             n == Len(commands) + 1
  <2>1. PICK a : /\ answers' = answers \cup {a} /\ request' = [request EXCEPT ![p] = Store!idle]
                 /\ a.op = "command" /\ a.id = r.id /\ a.hash = r.hash
                 /\ a.control = run.control + 1
    <3> DEFINE a == Store!CommandAnswer(r, "receipt", run.control + 1)
    <3>1. /\ a.op = "command" /\ a.id = r.id /\ a.hash = r.hash
          /\ a.control = run.control + 1
      BY DEF Store!CommandAnswer
    <3> HIDE DEF a
    <3> QED BY <1>3, <3>1 DEF Store!Answer, a
  <2>2. /\ run.control = Len(commands) /\ Len(commands) \in Nat
        /\ run' \in RunRow /\ run'.control = n
    BY <1>3 DEF StoreInv, StoreTypes, RunRow, Store!RequestsAreSerial, Store!NoBlindCommand
  <2>3. c \in CommandRow /\ c.id = r.id /\ c.hash = r.hash /\ c.control = n /\ c.expected = n - 1
    BY <1>1, <1>3, <2>2 DEF CommandRow
  <2> HIDE DEF c
  <2>4. /\ commands' \in Seq(CommandRow) /\ Len(commands') = n
        /\ \A i \in DOMAIN commands : i \in DOMAIN commands' /\ commands'[i] = commands[i]
        /\ n \in DOMAIN commands' /\ commands'[n] = c
        /\ \A i \in DOMAIN commands' : i = n \/ i \in DOMAIN commands
    BY <1>3, <2>3 DEF StoreInv, StoreTypes, c
  <2>5. StoreTypes' /\ Store!NoLostEdit'
    BY <1>1, <2>1, <2>2, <2>4 DEF StoreInv, StoreTypes, Store!RequestsAreSerial, Store!NoLostEdit
  <2>6. SnapshotsHeld'
    <3>1. request' \in [Processes -> RequestInHand] /\ isolation' = isolation
      BY <1>1, <2>1 DEF StoreInv, StoreTypes
    <3>2. ASSUME NEW q \in Processes, request'[q].op = "snapshot"
          PROVE  request'[q] = request[q] /\ request[q].seen \in Nat
      BY <1>1, <2>1, <3>2 DEF StoreInv, StoreTypes, RequestInHand
    <3> QED BY <2>2, <2>4, <3>1, <3>2 DEF StoreInv, SnapshotsHeld
  <2>7. Store!NoBlindCommand'
    BY <2>2, <2>3, <2>4 DEF StoreInv, Store!RequestsAreSerial, Store!NoBlindCommand
  <2>8. Store!ReceiptsAgree'
    <3> SUFFICES ASSUME NEW b \in answers', b.op = "command" /\ b.reply = "receipt"
                 PROVE  \E i \in DOMAIN commands' : /\ commands'[i].id = b.id
                                                     /\ commands'[i].hash = b.hash
                                                     /\ commands'[i].control = b.control
      BY DEF Store!ReceiptsAgree
    <3>1. CASE b = a
      BY <3>1, <2>1, <2>2, <2>3, <2>4
    <3>2. CASE b \in answers
      BY <3>2, <2>4 DEF StoreInv, Store!RequestsAreSerial, Store!ReceiptsAgree
    <3> QED BY <2>1, <3>1, <3>2
  <2>9. Store!SnapshotIsConsistent'
    BY <2>1 DEF StoreInv, Store!RequestsAreSerial, Store!SnapshotIsConsistent
  <2> QED BY <2>5, <2>6, <2>7, <2>8, <2>9 DEF StoreInv, Store!RequestsAreSerial
<1> QED BY <1>2, <1>3 DEF Store!submit_command, Store!CurrentRevision

(* get_snapshot: the commands listed are those of the moment at which the  *)
(* control revision was read.                                              *)
LEMMA SnapshotStep ==
  ASSUME StoreInv, NEW p \in Processes, Store!GetSnapshot(p) \/ Store!get_snapshot(p)
  PROVE  StoreInv'
<1>1. CASE Store!GetSnapshot(p)
  <2> DEFINE r == [op |-> "snapshot", control |-> run.control, seen |-> Len(commands)]
  <2>1. r \in RequestInHand /\ r.op = "snapshot" /\ r.control = run.control /\ r.seen = Len(commands)
    BY DEF StoreInv, StoreTypes, RunRow, RequestInHand
  <2>2. /\ request' = [request EXCEPT ![p] = r]
        /\ isolation' = [isolation EXCEPT ![p] = "REPEATABLE_READ"]
        /\ UNCHANGED <<revisions, run, commands, answers>>
    BY <1>1 DEF Store!GetSnapshot, Store!SnapshotLevel
  <2> HIDE DEF r
  <2> QED
    BY <2>1, <2>2
    DEF StoreInv, StoreTypes, SnapshotsHeld, Store!RequestsAreSerial, Store!NoLostEdit,
        Store!NoBlindCommand,
        Store!ReceiptsAgree, Store!SnapshotIsConsistent
<1>2. CASE Store!get_snapshot(p)
  <2> DEFINE r == request[p]
             pending == {commands[i].control : i \in 1..r.seen}
             a == [op |-> "snapshot", control |-> r.control, pending |-> pending]
  <2>1. /\ r \in [op : {"snapshot"}, control : Nat, seen : Nat]
        /\ r.control = r.seen /\ r.seen <= Len(commands) /\ isolation[p] = "REPEATABLE_READ"
        /\ UNCHANGED <<revisions, run, commands, isolation>>
        /\ Store!idle \in RequestInHand /\ Store!idle.op = "none"
    BY <1>2 DEF Store!get_snapshot, StoreInv, StoreTypes, RequestInHand, SnapshotsHeld,
                Store!idle
  <2>2. pending = 1..r.control
    <3>1. /\ DOMAIN commands = 1..Len(commands) /\ Len(commands) \in Nat
          /\ \A n \in DOMAIN commands : commands[n].control = n
      BY ONLY StoreInv DEF StoreInv, StoreTypes, Store!RequestsAreSerial, Store!NoBlindCommand
    <3>2. r.seen \in Nat /\ r.control = r.seen /\ r.seen <= Len(commands)
      BY ONLY <2>1
    <3> HIDE DEF r
    <3>3. \A i \in 1..r.seen : commands[i].control = i
      BY ONLY <3>1, <3>2
    <3> QED
      BY ONLY <3>2, <3>3
  <2>3. answers' = answers \cup {a} /\ request' = [request EXCEPT ![p] = Store!idle]
    BY <1>2, <2>1 DEF Store!get_snapshot, Store!Answer
  <2>4. a.op = "snapshot" /\ a.pending = 1..a.control
    BY <2>2
  <2> HIDE DEF a
  <2> QED
    BY <2>1, <2>3, <2>4
    DEF StoreInv, StoreTypes, SnapshotsHeld, Store!RequestsAreSerial, Store!NoLostEdit,
        Store!NoBlindCommand,
        Store!ReceiptsAgree, Store!SnapshotIsConsistent
<1> QED BY <1>1, <1>2

-----------------------------------------------------------------------------
(* The requests of any number of API processes come out as if they had     *)
(* been served one after another: no edit is lost, no command is accepted  *)
(* blind, receipts agree with what is stored and a snapshot is of one      *)
(* moment (save_lab, submit_command and get_snapshot of lab/store.py).     *)
THEOREM RequestsAlwaysSerial == Store!Spec => []RequestsAreSerial
<1>1. StoreInv /\ [Store!Next]_(Store!vars) => StoreInv'
  <2> SUFFICES ASSUME StoreInv, [Store!Next]_(Store!vars) PROVE StoreInv'
    OBVIOUS
  <2>1. CASE UNCHANGED Store!vars
    BY <2>1 DEF Store!vars, StoreInv, StoreTypes, SnapshotsHeld, Store!RequestsAreSerial,
                Store!NoLostEdit,
                Store!NoBlindCommand, Store!ReceiptsAgree, Store!SnapshotIsConsistent
  <2>2. CASE Store!Next
    BY <2>2, SaveStep, RunStep, SubmitStep, AcceptStep, SnapshotStep DEF Store!Next
  <2> QED BY <2>1, <2>2
<1>2. StoreInv => RequestsAreSerial
  BY DEF StoreInv, RequestsAreSerial
<1> QED BY InitInv, <1>1, <1>2, PTL DEF Store!Spec


(* ----------------------------- the alert rules ------------------------------ *)

Obs == Rules!Observations

SensorStates ==
  [high : Nat, low : Nat, normal : Nat, bad : Nat, good : Nat,
   process : {"none", "ABOVE_LIMIT", "BELOW_LIMIT"},
   quality : {"none", "GOOD", "MISSING", "INVALID"}]

EmittedAlerts ==
  [origin : {"DATA_QUALITY", "PROCESS_LIMIT"},
   kind : {"none", "ABOVE_LIMIT", "BELOW_LIMIT", "GOOD", "MISSING", "INVALID"},
   state : {"OPEN", "RESOLVED"}]

Inside(o) ==
  /\ ~Rules!Bad(o) /\ AlarmLow + Hysteresis < o.value /\ o.value < AlarmHigh - Hysteresis

(* Since some sample of sq up to the n-th, at least c were safely inside and   *)
(* none was bad or beyond a limit.                                             *)
SafeSince(sq, n, c) ==
  \E from \in 1..(n + 1) :
    /\ Cardinality({k \in from..n : Inside(sq[k])}) >= c
    /\ \A k \in from..n :
         ~Rules!is_above(sq[k]) /\ ~Rules!is_below(sq[k]) /\ ~Rules!Bad(sq[k])

(* Since some sample, at least c were beyond the high limit, none was beyond   *)
(* the low one or safely inside.                                               *)
AboveSince(sq, n, c) ==
  \E from \in 1..(n + 1) :
    /\ Cardinality({k \in from..n : Rules!is_above(sq[k])}) >= c
    /\ \A k \in from..n : ~Rules!is_below(sq[k]) /\ ~Rules!is_safely_inside(sq[k])

BelowSince(sq, n, c) ==
  \E from \in 1..(n + 1) :
    /\ Cardinality({k \in from..n : Rules!is_below(sq[k])}) >= c
    /\ \A k \in from..n : ~Rules!is_above(sq[k]) /\ ~Rules!is_safely_inside(sq[k])

(* The last c samples were GOOD. *)
GoodSince(sq, n, c) ==
  c <= n /\ \A k \in (n - c + 1)..n : ~Rules!Bad(sq[k])

(* The counters of the state count samples of sq. *)
Counted(s, sq) ==
  /\ s \in SensorStates /\ sq \in Seq(Obs)
  /\ SafeSince(sq, Len(sq), s.normal)
  /\ GoodSince(sq, Len(sq), s.good)
  /\ AboveSince(sq, Len(sq), s.high)
  /\ BelowSince(sq, Len(sq), s.low)

(* The samples of sq up to the n-th that an alert asks for. *)
Justified(a, sq, n) ==
  /\ a.origin = "PROCESS_LIMIT" /\ a.state = "RESOLVED" => SafeSince(sq, n, 5)
  /\ a.origin = "DATA_QUALITY" /\ a.state = "RESOLVED" => GoodSince(sq, n, 3)
  /\ a.origin = "PROCESS_LIMIT" /\ a.state = "OPEN" =>
       IF a.kind = "ABOVE_LIMIT" THEN AboveSince(sq, n, 3) ELSE BelowSince(sq, n, 3)

RulesInv ==
  /\ Counted(state, seen)
  /\ alerts \in Seq([alert : EmittedAlerts, at : Nat])
  /\ \A i \in DOMAIN alerts :
       /\ alerts[i].at \in 1..Len(seen)
       /\ Justified(alerts[i].alert, seen, alerts[i].at)

(* The module's own copy of a library operator. *)
LEMMA RulesCardinality == \A S : Rules!Cardinality(S) = Cardinality(S)
  BY DEF Rules!Cardinality, Cardinality

(* A sample is GOOD, with a value, or bad. *)
LEMMA SampleCases ==
  ASSUME NEW o \in Obs
  PROVE  /\ ~Rules!Bad(o) => o.value \in Int
         /\ Rules!Bad(o) => /\ ~Rules!is_above(o) /\ ~Rules!is_below(o)
                            /\ ~Rules!is_safely_inside(o)
         /\ Rules!is_above(o) =>
              ~Rules!Bad(o) /\ ~Rules!is_below(o) /\ ~Rules!is_safely_inside(o)
         /\ Rules!is_below(o) => ~Rules!Bad(o) /\ ~Rules!is_safely_inside(o)
         /\ Rules!is_safely_inside(o) <=> Inside(o)
         /\ o.quality \in {"GOOD", "MISSING", "INVALID"}
<1>1. o.quality \in {"GOOD", "MISSING", "INVALID"}
  BY DEF Obs, Rules!Observations
<1>2. ~Rules!Bad(o) => o.value \in Int
  BY SensorAssumption DEF Obs, Rules!Observations, Rules!Bad
<1>3. ~Rules!Bad(o) => /\ o.value > AlarmHigh => ~(o.value < AlarmLow) /\ ~(o.value < AlarmHigh - Hysteresis)
                       /\ o.value < AlarmLow => ~(o.value > AlarmLow + Hysteresis)
                       /\ o.value > AlarmLow + Hysteresis <=> AlarmLow + Hysteresis < o.value
  BY <1>2, SensorAssumption
<1> QED
  BY <1>1, <1>2, <1>3 DEF Rules!is_above, Rules!is_below, Rules!is_safely_inside, Inside

(* One more sample is one more. *)
LEMMA CountOne ==
  ASSUME NEW n \in Nat, NEW from \in 1..(n + 1), NEW S \in SUBSET (from..n)
  PROVE  /\ Cardinality(S) \in Nat
         /\ Cardinality(S \cup {n + 1}) = Cardinality(S) + 1
<1>1. from \in Int /\ n \in Int
  OBVIOUS
<1>2. IsFiniteSet(from..n)
  BY <1>1, FS_Interval
<1>3. IsFiniteSet(S)
  BY <1>2, FS_Subset
<1>4. n + 1 \notin S
  BY <1>1
<1>5. Cardinality(S \cup {n + 1}) = Cardinality(S) + 1
  BY <1>3, <1>4, FS_AddElement
<1> QED
  BY <1>3, <1>5, FS_CardinalityType

(* The samples of a longer list. *)
LEMMA Appended ==
  ASSUME NEW sq \in Seq(Obs), NEW o \in Obs, NEW new, new = Append(sq, o)
  PROVE  /\ new \in Seq(Obs) /\ Len(sq) \in Nat /\ Len(new) = Len(sq) + 1
         /\ \A k \in 1..Len(sq) : new[k] = sq[k]
         /\ new[Len(sq) + 1] = o
  OBVIOUS

(* A streak of no sample. *)
LEMMA NoneSince ==
  ASSUME NEW sq, NEW n \in Nat
  PROVE  SafeSince(sq, n, 0) /\ AboveSince(sq, n, 0) /\ BelowSince(sq, n, 0) /\ GoodSince(sq, n, 0)
<1>1. n + 1 \in 1..(n + 1) /\ (n + 1)..n = {} /\ n - 0 + 1 = n + 1 /\ 0 <= n
  OBVIOUS
<1>2. Cardinality({}) >= 0
  BY FS_EmptySet
<1>3. SafeSince(sq, n, 0)
  <2>1. {k \in (n + 1)..n : Inside(sq[k])} = {}
    BY <1>1
  <2> QED
    BY <1>1, <1>2, <2>1 DEF SafeSince
<1>4. AboveSince(sq, n, 0)
  <2>1. {k \in (n + 1)..n : Rules!is_above(sq[k])} = {}
    BY <1>1
  <2> QED
    BY <1>1, <1>2, <2>1 DEF AboveSince
<1>5. BelowSince(sq, n, 0)
  <2>1. {k \in (n + 1)..n : Rules!is_below(sq[k])} = {}
    BY <1>1
  <2> QED
    BY <1>1, <1>2, <2>1 DEF BelowSince
<1> QED
  BY <1>1, <1>3, <1>4, <1>5 DEF GoodSince

(* A sample that is neither bad nor beyond a limit keeps the safe streak, and  *)
(* counts if it is safely inside.                                              *)
LEMMA SafeGrows ==
  ASSUME NEW sq \in Seq(Obs), NEW o \in Obs, NEW new, new = Append(sq, o),
         NEW c \in Nat, SafeSince(sq, Len(sq), c),
         ~Rules!is_above(o), ~Rules!is_below(o), ~Rules!Bad(o)
  PROVE  /\ SafeSince(new, Len(new), c)
         /\ Inside(o) => SafeSince(new, Len(new), c + 1)
<1> DEFINE n == Len(sq)
<1>1. /\ n \in Nat /\ Len(new) = n + 1 /\ \A k \in 1..n : new[k] = sq[k]
      /\ new[n + 1] = o
  BY Appended
<1> HIDE DEF n
<1>2. PICK from \in 1..(n + 1) :
        /\ Cardinality({k \in from..n : Inside(sq[k])}) >= c
        /\ \A k \in from..n :
             ~Rules!is_above(sq[k]) /\ ~Rules!is_below(sq[k]) /\ ~Rules!Bad(sq[k])
  BY DEF SafeSince, n
<1> DEFINE S == {k \in from..n : Inside(sq[k])}
           T == {k \in from..(n + 1) : Inside(new[k])}
<1>3. /\ from \in 1..((n + 1) + 1) /\ from..n \subseteq 1..n
      /\ from..(n + 1) = (from..n) \cup {n + 1}
  BY <1>1
<1>4. Cardinality(S) \in Nat /\ Cardinality(S \cup {n + 1}) = Cardinality(S) + 1
  BY <1>1, CountOne
<1>5. T = IF Inside(o) THEN S \cup {n + 1} ELSE S
  BY <1>1, <1>3
<1>6. \A k \in from..(n + 1) :
        ~Rules!is_above(new[k]) /\ ~Rules!is_below(new[k]) /\ ~Rules!Bad(new[k])
  BY <1>1, <1>2, <1>3
<1>7. Cardinality(T) >= c /\ (Inside(o) => Cardinality(T) >= c + 1)
  <2> HIDE DEF S, T
  <2>1. Cardinality(S) >= c
    BY <1>2 DEF S
  <2> QED
    BY <1>4, <1>5, <2>1
<1> QED
  BY <1>1, <1>3, <1>6, <1>7 DEF SafeSince

(* A sample that is not safely inside, nor beyond the other limit, keeps the   *)
(* streak beyond the high limit, and counts if it is beyond it.                *)
LEMMA AboveGrows ==
  ASSUME NEW sq \in Seq(Obs), NEW o \in Obs, NEW new, new = Append(sq, o),
         NEW c \in Nat, AboveSince(sq, Len(sq), c),
         ~Rules!is_below(o), ~Rules!is_safely_inside(o)
  PROVE  /\ AboveSince(new, Len(new), c)
         /\ Rules!is_above(o) => AboveSince(new, Len(new), c + 1)
<1> DEFINE n == Len(sq)
<1>1. /\ n \in Nat /\ Len(new) = n + 1 /\ \A k \in 1..n : new[k] = sq[k]
      /\ new[n + 1] = o
  BY Appended
<1> HIDE DEF n
<1>2. PICK from \in 1..(n + 1) :
        /\ Cardinality({k \in from..n : Rules!is_above(sq[k])}) >= c
        /\ \A k \in from..n : ~Rules!is_below(sq[k]) /\ ~Rules!is_safely_inside(sq[k])
  BY DEF AboveSince, n
<1> DEFINE S == {k \in from..n : Rules!is_above(sq[k])}
           T == {k \in from..(n + 1) : Rules!is_above(new[k])}
<1>3. /\ from \in 1..((n + 1) + 1) /\ from..n \subseteq 1..n
      /\ from..(n + 1) = (from..n) \cup {n + 1}
  BY <1>1
<1>4. Cardinality(S) \in Nat /\ Cardinality(S \cup {n + 1}) = Cardinality(S) + 1
  BY <1>1, CountOne
<1>5. T = IF Rules!is_above(o) THEN S \cup {n + 1} ELSE S
  BY <1>1, <1>3
<1>6. \A k \in from..(n + 1) : ~Rules!is_below(new[k]) /\ ~Rules!is_safely_inside(new[k])
  BY <1>1, <1>2, <1>3
<1>7. Cardinality(T) >= c /\ (Rules!is_above(o) => Cardinality(T) >= c + 1)
  <2> HIDE DEF S, T
  <2>1. Cardinality(S) >= c
    BY <1>2 DEF S
  <2> QED
    BY <1>4, <1>5, <2>1
<1> QED
  BY <1>1, <1>3, <1>6, <1>7 DEF AboveSince

(* A sample that is not safely inside, nor beyond the other limit, keeps the   *)
(* streak beyond the low limit, and counts if it is beyond it.                 *)
LEMMA BelowGrows ==
  ASSUME NEW sq \in Seq(Obs), NEW o \in Obs, NEW new, new = Append(sq, o),
         NEW c \in Nat, BelowSince(sq, Len(sq), c),
         ~Rules!is_above(o), ~Rules!is_safely_inside(o)
  PROVE  /\ BelowSince(new, Len(new), c)
         /\ Rules!is_below(o) => BelowSince(new, Len(new), c + 1)
<1> DEFINE n == Len(sq)
<1>1. /\ n \in Nat /\ Len(new) = n + 1 /\ \A k \in 1..n : new[k] = sq[k]
      /\ new[n + 1] = o
  BY Appended
<1> HIDE DEF n
<1>2. PICK from \in 1..(n + 1) :
        /\ Cardinality({k \in from..n : Rules!is_below(sq[k])}) >= c
        /\ \A k \in from..n : ~Rules!is_above(sq[k]) /\ ~Rules!is_safely_inside(sq[k])
  BY DEF BelowSince, n
<1> DEFINE S == {k \in from..n : Rules!is_below(sq[k])}
           T == {k \in from..(n + 1) : Rules!is_below(new[k])}
<1>3. /\ from \in 1..((n + 1) + 1) /\ from..n \subseteq 1..n
      /\ from..(n + 1) = (from..n) \cup {n + 1}
  BY <1>1
<1>4. Cardinality(S) \in Nat /\ Cardinality(S \cup {n + 1}) = Cardinality(S) + 1
  BY <1>1, CountOne
<1>5. T = IF Rules!is_below(o) THEN S \cup {n + 1} ELSE S
  BY <1>1, <1>3
<1>6. \A k \in from..(n + 1) : ~Rules!is_above(new[k]) /\ ~Rules!is_safely_inside(new[k])
  BY <1>1, <1>2, <1>3
<1>7. Cardinality(T) >= c /\ (Rules!is_below(o) => Cardinality(T) >= c + 1)
  <2> HIDE DEF S, T
  <2>1. Cardinality(S) >= c
    BY <1>2 DEF S
  <2> QED
    BY <1>4, <1>5, <2>1
<1> QED
  BY <1>1, <1>3, <1>6, <1>7 DEF BelowSince

(* The streak of GOOD samples. *)
LEMMA GoodGrows ==
  ASSUME NEW sq \in Seq(Obs), NEW o \in Obs, NEW new, new = Append(sq, o),
         NEW c \in Nat, GoodSince(sq, Len(sq), c), ~Rules!Bad(o)
  PROVE  GoodSince(new, Len(new), c + 1)
<1> DEFINE n == Len(sq)
<1>1. /\ n \in Nat /\ Len(new) = n + 1 /\ \A k \in 1..n : new[k] = sq[k]
      /\ new[n + 1] = o /\ c <= n /\ \A k \in (n - c + 1)..n : ~Rules!Bad(sq[k])
  BY Appended DEF GoodSince
<1> HIDE DEF n
<1>2. (n + 1) - (c + 1) + 1 = n - c + 1 /\ c + 1 <= n + 1
  BY <1>1
<1>3. ASSUME NEW k \in (n - c + 1)..(n + 1) PROVE ~Rules!Bad(new[k])
  <2>1. CASE k = n + 1
    BY <1>1, <2>1
  <2>2. CASE k # n + 1
    <3>1. k \in (n - c + 1)..n /\ k \in 1..n
      BY <1>1, <2>2
    <3> QED
      BY <1>1, <3>1
  <2> QED
    BY <2>1, <2>2
<1> QED
  BY <1>1, <1>2, <1>3 DEF GoodSince

(* What justified an alert justifies it for ever: samples are only added. *)
LEMMA StillJustified ==
  ASSUME NEW sq \in Seq(Obs), NEW o \in Obs, NEW new, new = Append(sq, o),
         NEW n \in 1..Len(sq), NEW a, Justified(a, sq, n)
  PROVE  Justified(a, new, n)
<1>1. \A k \in 1..Len(sq) : new[k] = sq[k]
  BY Appended
<1>2. Len(sq) \in Nat
  BY Appended
<1>3. \A from \in 1..(n + 1) : \A k \in from..n : new[k] = sq[k]
  BY <1>1, <1>2
<1>4. SafeSince(sq, n, 5) => SafeSince(new, n, 5)
  <2> SUFFICES ASSUME SafeSince(sq, n, 5) PROVE SafeSince(new, n, 5)
    OBVIOUS
  <2>1. PICK from \in 1..(n + 1) :
          /\ Cardinality({k \in from..n : Inside(sq[k])}) >= 5
          /\ \A k \in from..n :
               ~Rules!is_above(sq[k]) /\ ~Rules!is_below(sq[k]) /\ ~Rules!Bad(sq[k])
    BY DEF SafeSince
  <2>2. {k \in from..n : Inside(new[k])} = {k \in from..n : Inside(sq[k])}
    BY <1>3
  <2> QED
    BY <1>3, <2>1, <2>2 DEF SafeSince
<1>5. AboveSince(sq, n, 3) => AboveSince(new, n, 3)
  <2> SUFFICES ASSUME AboveSince(sq, n, 3) PROVE AboveSince(new, n, 3)
    OBVIOUS
  <2>1. PICK from \in 1..(n + 1) :
          /\ Cardinality({k \in from..n : Rules!is_above(sq[k])}) >= 3
          /\ \A k \in from..n : ~Rules!is_below(sq[k]) /\ ~Rules!is_safely_inside(sq[k])
    BY DEF AboveSince
  <2>2. {k \in from..n : Rules!is_above(new[k])} = {k \in from..n : Rules!is_above(sq[k])}
    BY <1>3
  <2> QED
    BY <1>3, <2>1, <2>2 DEF AboveSince
<1>6. BelowSince(sq, n, 3) => BelowSince(new, n, 3)
  <2> SUFFICES ASSUME BelowSince(sq, n, 3) PROVE BelowSince(new, n, 3)
    OBVIOUS
  <2>1. PICK from \in 1..(n + 1) :
          /\ Cardinality({k \in from..n : Rules!is_below(sq[k])}) >= 3
          /\ \A k \in from..n : ~Rules!is_above(sq[k]) /\ ~Rules!is_safely_inside(sq[k])
    BY DEF BelowSince
  <2>2. {k \in from..n : Rules!is_below(new[k])} = {k \in from..n : Rules!is_below(sq[k])}
    BY <1>3
  <2> QED
    BY <1>3, <2>1, <2>2 DEF BelowSince
<1>7. GoodSince(sq, n, 3) => GoodSince(new, n, 3)
  <2> SUFFICES ASSUME GoodSince(sq, n, 3) PROVE GoodSince(new, n, 3)
    OBVIOUS
  <2>1. 3 <= n /\ \A k \in (n - 3 + 1)..n : ~Rules!Bad(sq[k])
    BY DEF GoodSince
  <2>2. \A k \in (n - 3 + 1)..n : new[k] = sq[k]
    BY <1>1, <1>2, <2>1
  <2> QED
    BY <2>1, <2>2 DEF GoodSince
<1> QED
  BY <1>4, <1>5, <1>6, <1>7 DEF Justified

(* A longer streak is a streak. *)
LEMMA Shorter ==
  ASSUME NEW sq, NEW n \in Nat, NEW c \in Nat, NEW d \in Nat, d <= c
  PROVE  /\ SafeSince(sq, n, c) => SafeSince(sq, n, d)
         /\ AboveSince(sq, n, c) => AboveSince(sq, n, d)
         /\ BelowSince(sq, n, c) => BelowSince(sq, n, d)
         /\ GoodSince(sq, n, c) => GoodSince(sq, n, d)
<1>1. ASSUME NEW from \in 1..(n + 1), NEW S \in SUBSET (from..n), Cardinality(S) >= c
      PROVE  Cardinality(S) >= d
  <2>1. Cardinality(S) \in Nat
    BY CountOne
  <2> QED
    BY <1>1, <2>1
<1>2. SafeSince(sq, n, c) => SafeSince(sq, n, d)
  <2> SUFFICES ASSUME SafeSince(sq, n, c) PROVE SafeSince(sq, n, d)
    OBVIOUS
  <2>1. PICK from \in 1..(n + 1) :
          /\ Cardinality({k \in from..n : Inside(sq[k])}) >= c
          /\ \A k \in from..n :
               ~Rules!is_above(sq[k]) /\ ~Rules!is_below(sq[k]) /\ ~Rules!Bad(sq[k])
    BY DEF SafeSince
  <2>2. Cardinality({k \in from..n : Inside(sq[k])}) >= d
    BY <1>1, <2>1
  <2> QED
    BY <2>1, <2>2 DEF SafeSince
<1>3. AboveSince(sq, n, c) => AboveSince(sq, n, d)
  <2> SUFFICES ASSUME AboveSince(sq, n, c) PROVE AboveSince(sq, n, d)
    OBVIOUS
  <2>1. PICK from \in 1..(n + 1) :
          /\ Cardinality({k \in from..n : Rules!is_above(sq[k])}) >= c
          /\ \A k \in from..n : ~Rules!is_below(sq[k]) /\ ~Rules!is_safely_inside(sq[k])
    BY DEF AboveSince
  <2>2. Cardinality({k \in from..n : Rules!is_above(sq[k])}) >= d
    BY <1>1, <2>1
  <2> QED
    BY <2>1, <2>2 DEF AboveSince
<1>4. BelowSince(sq, n, c) => BelowSince(sq, n, d)
  <2> SUFFICES ASSUME BelowSince(sq, n, c) PROVE BelowSince(sq, n, d)
    OBVIOUS
  <2>1. PICK from \in 1..(n + 1) :
          /\ Cardinality({k \in from..n : Rules!is_below(sq[k])}) >= c
          /\ \A k \in from..n : ~Rules!is_above(sq[k]) /\ ~Rules!is_safely_inside(sq[k])
    BY DEF BelowSince
  <2>2. Cardinality({k \in from..n : Rules!is_below(sq[k])}) >= d
    BY <1>1, <2>1
  <2> QED
    BY <2>1, <2>2 DEF BelowSince
<1>5. GoodSince(sq, n, c) => GoodSince(sq, n, d)
  BY DEF GoodSince
<1> QED
  BY <1>2, <1>3, <1>4, <1>5

(* What a state's counters say of the alerts it emits. *)
Due(a, s) ==
  /\ a.origin = "PROCESS_LIMIT" /\ a.state = "RESOLVED" => s.normal >= 5
  /\ a.origin = "DATA_QUALITY" /\ a.state = "RESOLVED" => s.good >= 3
  /\ a.origin = "PROCESS_LIMIT" /\ a.state = "OPEN" =>
       IF a.kind = "ABOVE_LIMIT" THEN s.high >= 3 ELSE s.low >= 3

(* An alert that is due is justified. *)
LEMMA DueJustified ==
  ASSUME NEW s, NEW sq, Counted(s, sq), NEW a, Due(a, s)
  PROVE  Justified(a, sq, Len(sq))
<1>1. /\ Len(sq) \in Nat
      /\ s.normal \in Nat /\ s.good \in Nat /\ s.high \in Nat /\ s.low \in Nat
      /\ SafeSince(sq, Len(sq), s.normal) /\ GoodSince(sq, Len(sq), s.good)
      /\ AboveSince(sq, Len(sq), s.high) /\ BelowSince(sq, Len(sq), s.low)
  BY DEF Counted, SensorStates
<1>2. /\ s.normal >= 5 => SafeSince(sq, Len(sq), 5)
      /\ s.good >= 3 => GoodSince(sq, Len(sq), 3)
      /\ s.high >= 3 => AboveSince(sq, Len(sq), 3)
      /\ s.low >= 3 => BelowSince(sq, Len(sq), 3)
  <2>1. /\ s.normal >= 5 => 5 <= s.normal
        /\ s.good >= 3 => 3 <= s.good
        /\ s.high >= 3 => 3 <= s.high
        /\ s.low >= 3 => 3 <= s.low
    BY <1>1
  <2> QED
    BY <1>1, <2>1, Shorter
<1> QED
  BY <1>2 DEF Due, Justified

(* A counter set. *)
LEMMA CounterSet ==
  ASSUME NEW s \in SensorStates, NEW n \in Nat
  PROVE  /\ [s EXCEPT !.high = n] \in SensorStates /\ [s EXCEPT !.low = n] \in SensorStates
         /\ [s EXCEPT !.normal = n] \in SensorStates
         /\ [s EXCEPT !.good = n] \in SensorStates /\ [s EXCEPT !.bad = n] \in SensorStates
         /\ s.high + 1 \in Nat /\ s.low + 1 \in Nat /\ s.normal + 1 \in Nat
         /\ s.bad + 1 \in Nat
  BY DEF SensorStates

(* A bad sample. *)
LEMMA BadEvaluated ==
  ASSUME NEW s \in SensorStates, NEW o \in Obs, Rules!Bad(o), NEW r, r = Rules!evaluate_bad(s, o)
  PROVE  /\ r.s \in SensorStates /\ r.s.high = s.high /\ r.s.low = s.low
         /\ r.s.normal = 0 /\ r.s.good = 0
         /\ r.out \in Seq(EmittedAlerts)
         /\ \A i \in DOMAIN r.out : r.out[i].origin = "DATA_QUALITY" /\ r.out[i].state = "OPEN"
<1>1. o.quality \in {"MISSING", "INVALID"}
  BY DEF Rules!Bad
<1> DEFINE t == [s EXCEPT !.bad = @ + 1, !.good = 0, !.normal = 0]
           opens == t.bad >= 2 /\ t.quality = "none"
           e == [origin |-> "DATA_QUALITY", kind |-> o.quality, state |-> "OPEN"]
<1>2. /\ r.s = [t EXCEPT !.quality = IF opens THEN o.quality ELSE @]
      /\ r.out = IF opens THEN <<e>> ELSE << >>
  BY DEF Rules!evaluate_bad, Rules!Emit, Rules!None
<1>3. t \in SensorStates /\ t.high = s.high /\ t.low = s.low /\ t.normal = 0 /\ t.good = 0
  <2>1. t = [[[s EXCEPT !.bad = s.bad + 1] EXCEPT !.good = 0] EXCEPT !.normal = 0]
    BY DEF SensorStates
  <2>2. t \in SensorStates
    <3> HIDE DEF t
    <3>1. s.bad + 1 \in Nat /\ 0 \in Nat
      BY CounterSet
    <3>2. [s EXCEPT !.bad = s.bad + 1] \in SensorStates
      BY <3>1, CounterSet
    <3>3. [[s EXCEPT !.bad = s.bad + 1] EXCEPT !.good = 0] \in SensorStates
      BY <3>1, <3>2, CounterSet
    <3> QED
      BY <2>1, <3>1, <3>3, CounterSet
  <2> QED
    BY <2>2 DEF SensorStates
<1>4. e \in EmittedAlerts
  BY <1>1 DEF EmittedAlerts
<1> HIDE DEF t, opens
<1>5. /\ r.s \in SensorStates /\ r.s.high = s.high /\ r.s.low = s.low
      /\ r.s.normal = 0 /\ r.s.good = 0
  BY <1>1, <1>2, <1>3 DEF SensorStates
<1>6. e.origin = "DATA_QUALITY" /\ e.state = "OPEN"
  OBVIOUS
<1> HIDE DEF e
<1>7. /\ r.out \in Seq(EmittedAlerts)
      /\ \A i \in DOMAIN r.out : r.out[i].origin = "DATA_QUALITY" /\ r.out[i].state = "OPEN"
  BY <1>2, <1>4, <1>6
<1> QED
  BY <1>5, <1>7

(* A GOOD sample, for the quality rule. *)
LEMMA GoodEvaluated ==
  ASSUME NEW s \in SensorStates, NEW g, g = Rules!evaluate_good(s)
  PROVE  /\ g.s \in SensorStates /\ g.s.high = s.high /\ g.s.low = s.low
         /\ g.s.normal = s.normal /\ g.s.good = s.good + 1
         /\ g.out \in Seq(EmittedAlerts)
         /\ \A i \in DOMAIN g.out : g.out[i].origin = "DATA_QUALITY" /\ g.s.good >= 3
<1> DEFINE t == [s EXCEPT !.good = @ + 1]
           resolves == t.quality /= "none" /\ t.good >= 3
           e == [origin |-> "DATA_QUALITY", kind |-> t.quality, state |-> "RESOLVED"]
<1>1. /\ g.s = IF resolves THEN [t EXCEPT !.quality = "none", !.bad = 0] ELSE t
      /\ g.out = IF resolves THEN <<e>> ELSE << >>
  BY DEF Rules!evaluate_good, Rules!Emit, Rules!None
<1>2. t \in SensorStates /\ t.high = s.high /\ t.low = s.low /\ t.normal = s.normal
      /\ t.good = s.good + 1
  BY DEF SensorStates
<1>3. e \in EmittedAlerts /\ e.origin = "DATA_QUALITY"
  BY <1>2 DEF EmittedAlerts, SensorStates
<1>4. resolves => t.good >= 3
  OBVIOUS
<1> HIDE DEF t, resolves, e
<1>5. /\ g.s \in SensorStates /\ g.s.high = s.high /\ g.s.low = s.low
      /\ g.s.normal = s.normal /\ g.s.good = s.good + 1 /\ g.s.good = t.good
  <2>1. CASE ~resolves
    BY <1>1, <1>2, <2>1
  <2>2. CASE resolves
    <3>1. g.s = [[t EXCEPT !.quality = "none"] EXCEPT !.bad = 0]
      BY <1>1, <1>2, <2>2 DEF SensorStates
    <3>2. [t EXCEPT !.quality = "none"] \in SensorStates
      BY <1>2 DEF SensorStates
    <3>3. g.s \in SensorStates
      <4> DEFINE u == [t EXCEPT !.quality = "none"]
      <4>1. u \in SensorStates /\ g.s = [u EXCEPT !.bad = 0] /\ 0 \in Nat
        BY <3>1, <3>2
      <4> HIDE DEF u
      <4>2. [u EXCEPT !.bad = 0] \in SensorStates
        BY <4>1, CounterSet
      <4> QED
        BY <4>1, <4>2
    <3>4. /\ g.s.high = t.high /\ g.s.low = t.low /\ g.s.normal = t.normal
          /\ g.s.good = t.good
      BY <1>2, <3>1 DEF SensorStates
    <3> QED
      BY <1>2, <3>3, <3>4
  <2> QED
    BY <2>1, <2>2
<1> QED
  BY <1>1, <1>3, <1>4, <1>5

(* Beyond a limit. *)
LEMMA OpenEvaluated ==
  ASSUME NEW s \in SensorStates, NEW c \in Nat, NEW kind \in {"ABOVE_LIMIT", "BELOW_LIMIT"},
         NEW l, l = Rules!OpenProcess(s, c, kind)
  PROVE  /\ l.s \in SensorStates /\ l.s.high = s.high /\ l.s.low = s.low
         /\ l.s.normal = s.normal /\ l.s.good = s.good
         /\ l.out \in Seq(EmittedAlerts)
         /\ \A i \in DOMAIN l.out : /\ l.out[i].origin = "PROCESS_LIMIT" /\ c >= 3
                                    /\ l.out[i].state = "OPEN" /\ l.out[i].kind = kind
<1> DEFINE opens == c >= 3 /\ s.process = "none"
           e == [origin |-> "PROCESS_LIMIT", kind |-> kind, state |-> "OPEN"]
<1>1. /\ l.s = [s EXCEPT !.process = IF opens THEN kind ELSE @]
      /\ l.out = IF opens THEN <<e>> ELSE << >>
  BY DEF Rules!OpenProcess, Rules!Emit, Rules!None
<1>2. /\ e \in EmittedAlerts /\ e.origin = "PROCESS_LIMIT" /\ e.state = "OPEN"
      /\ e.kind = kind
  BY DEF EmittedAlerts
<1>3. opens => c >= 3
  OBVIOUS
<1> HIDE DEF opens, e
<1>4. /\ l.s \in SensorStates /\ l.s.high = s.high /\ l.s.low = s.low
      /\ l.s.normal = s.normal /\ l.s.good = s.good
  BY <1>1 DEF SensorStates
<1> QED
  BY <1>1, <1>2, <1>3, <1>4

(* Safely inside. *)
LEMMA InsideEvaluated ==
  ASSUME NEW s \in SensorStates, NEW l, l = Rules!inside(s)
  PROVE  /\ l.s \in SensorStates /\ l.s.high = 0 /\ l.s.low = 0
         /\ l.s.normal = s.normal + 1 /\ l.s.good = s.good
         /\ l.out \in Seq(EmittedAlerts)
         /\ \A i \in DOMAIN l.out : /\ l.out[i].origin = "PROCESS_LIMIT" /\ l.s.normal >= 5
                                    /\ l.out[i].state = "RESOLVED"
<1> DEFINE t == [s EXCEPT !.normal = @ + 1, !.high = 0, !.low = 0]
           resolves == t.process /= "none" /\ t.normal >= 5
           e == [origin |-> "PROCESS_LIMIT", kind |-> t.process, state |-> "RESOLVED"]
<1>1. /\ l.s = [t EXCEPT !.process = IF resolves THEN "none" ELSE @]
      /\ l.out = IF resolves THEN <<e>> ELSE << >>
  BY DEF Rules!inside, Rules!Emit, Rules!None
<1>2. /\ t \in SensorStates /\ t.high = 0 /\ t.low = 0 /\ t.normal = s.normal + 1
      /\ t.good = s.good
  <2>1. t = [[[s EXCEPT !.normal = s.normal + 1] EXCEPT !.high = 0] EXCEPT !.low = 0]
    BY DEF SensorStates
  <2>2. t \in SensorStates
    <3> HIDE DEF t
    <3>1. s.normal + 1 \in Nat /\ 0 \in Nat
      BY CounterSet
    <3>2. [s EXCEPT !.normal = s.normal + 1] \in SensorStates
      BY <3>1, CounterSet
    <3>3. [[s EXCEPT !.normal = s.normal + 1] EXCEPT !.high = 0] \in SensorStates
      BY <3>1, <3>2, CounterSet
    <3> QED
      BY <2>1, <3>1, <3>3, CounterSet
  <2> QED
    BY <2>2 DEF SensorStates
<1>3. e \in EmittedAlerts /\ e.origin = "PROCESS_LIMIT" /\ e.state = "RESOLVED"
  BY <1>2 DEF EmittedAlerts, SensorStates
<1>4. resolves => t.normal >= 5
  OBVIOUS
<1> HIDE DEF t, resolves, e
<1>5. /\ l.s \in SensorStates /\ l.s.high = 0 /\ l.s.low = 0
      /\ l.s.normal = s.normal + 1 /\ l.s.good = s.good /\ l.s.normal = t.normal
  BY <1>1, <1>2 DEF SensorStates
<1> QED
  BY <1>1, <1>3, <1>4, <1>5

(* Beyond the high limit, or the low one. *)
LEMMA BeyondCounted ==
  ASSUME NEW s \in SensorStates
  PROVE  /\ Rules!above(s) \in SensorStates /\ Rules!below(s) \in SensorStates
         /\ Rules!above(s).high = s.high + 1 /\ Rules!above(s).low = 0
         /\ Rules!above(s).normal = 0 /\ Rules!above(s).good = s.good
         /\ Rules!below(s).low = s.low + 1 /\ Rules!below(s).high = 0
         /\ Rules!below(s).normal = 0 /\ Rules!below(s).good = s.good
<1>1. s.high + 1 \in Nat /\ s.low + 1 \in Nat /\ 0 \in Nat
  BY CounterSet
<1>2. /\ Rules!above(s) = [[[s EXCEPT !.high = s.high + 1] EXCEPT !.low = 0] EXCEPT !.normal = 0]
      /\ Rules!below(s) = [[[s EXCEPT !.low = s.low + 1] EXCEPT !.high = 0] EXCEPT !.normal = 0]
  BY DEF SensorStates, Rules!above, Rules!below
<1>3. /\ [s EXCEPT !.high = s.high + 1] \in SensorStates
      /\ [s EXCEPT !.low = s.low + 1] \in SensorStates
  BY <1>1, CounterSet
<1>4. /\ [[s EXCEPT !.high = s.high + 1] EXCEPT !.low = 0] \in SensorStates
      /\ [[s EXCEPT !.low = s.low + 1] EXCEPT !.high = 0] \in SensorStates
  BY <1>1, <1>3, CounterSet
<1>5. Rules!above(s) \in SensorStates /\ Rules!below(s) \in SensorStates
  <2> DEFINE u == [[s EXCEPT !.high = s.high + 1] EXCEPT !.low = 0]
             v == [[s EXCEPT !.low = s.low + 1] EXCEPT !.high = 0]
  <2>1. /\ u \in SensorStates /\ v \in SensorStates
        /\ Rules!above(s) = [u EXCEPT !.normal = 0]
        /\ Rules!below(s) = [v EXCEPT !.normal = 0]
    BY <1>2, <1>4
  <2> HIDE DEF u, v
  <2>2. [u EXCEPT !.normal = 0] \in SensorStates /\ [v EXCEPT !.normal = 0] \in SensorStates
    BY <1>1, <2>1, CounterSet
  <2> QED
    BY <2>1, <2>2
<1> QED
  BY <1>5 DEF SensorStates, Rules!above, Rules!below

(* The limits of a GOOD sample: what is counted, and what that emits. *)
LEMMA LimitsEvaluated ==
  ASSUME NEW s \in SensorStates, NEW o \in Obs, ~Rules!Bad(o),
         NEW l, l = Rules!evaluate_limits(s, o)
  PROVE  /\ l.s \in SensorStates /\ l.s.good = s.good
         /\ l.out \in Seq(EmittedAlerts)
         /\ \A i \in DOMAIN l.out : Due(l.out[i], l.s)
         /\ Rules!is_above(o) => l.s.high = s.high + 1 /\ l.s.low = 0 /\ l.s.normal = 0
         /\ Rules!is_below(o) => l.s.low = s.low + 1 /\ l.s.high = 0 /\ l.s.normal = 0
         /\ Rules!is_safely_inside(o) =>
              l.s.high = 0 /\ l.s.low = 0 /\ l.s.normal = s.normal + 1
         /\ ~Rules!is_above(o) /\ ~Rules!is_below(o) /\ ~Rules!is_safely_inside(o) =>
              l.s = s
<1>1. /\ Rules!is_above(o) => ~Rules!is_below(o) /\ ~Rules!is_safely_inside(o)
      /\ Rules!is_below(o) => ~Rules!is_safely_inside(o)
  BY SampleCases
<1>2. CASE Rules!is_above(o)
  <2> DEFINE u == Rules!above(s)
  <2>1. l = Rules!OpenProcess(u, u.high, "ABOVE_LIMIT")
    BY <1>1, <1>2 DEF Rules!evaluate_limits
  <2>2. /\ u \in SensorStates /\ u.high = s.high + 1 /\ u.low = 0
        /\ u.normal = 0 /\ u.good = s.good
    BY BeyondCounted
  <2> HIDE DEF u
  <2>3. /\ l.s \in SensorStates /\ l.s.high = s.high + 1 /\ l.s.low = 0
        /\ l.s.normal = 0 /\ l.s.good = s.good
        /\ l.out \in Seq(EmittedAlerts)
        /\ \A i \in DOMAIN l.out : /\ l.out[i].origin = "PROCESS_LIMIT" /\ l.s.high >= 3
                                   /\ l.out[i].state = "OPEN" /\ l.out[i].kind = "ABOVE_LIMIT"
    <3>1. u.high \in Nat
      BY <2>2 DEF SensorStates
    <3>2. /\ l.s \in SensorStates /\ l.s.high = u.high /\ l.s.low = u.low
          /\ l.s.normal = u.normal /\ l.s.good = u.good
          /\ l.out \in Seq(EmittedAlerts)
          /\ \A i \in DOMAIN l.out : /\ l.out[i].origin = "PROCESS_LIMIT" /\ u.high >= 3
                                     /\ l.out[i].state = "OPEN" /\ l.out[i].kind = "ABOVE_LIMIT"
      BY <2>1, <2>2, <3>1, OpenEvaluated
    <3> QED
      BY <2>2, <3>2
  <2> QED
    BY <1>1, <1>2, <2>3 DEF Due
<1>3. CASE Rules!is_below(o)
  <2> DEFINE u == Rules!below(s)
  <2>1. l = Rules!OpenProcess(u, u.low, "BELOW_LIMIT")
    BY <1>1, <1>3 DEF Rules!evaluate_limits
  <2>2. /\ u \in SensorStates /\ u.low = s.low + 1 /\ u.high = 0
        /\ u.normal = 0 /\ u.good = s.good
    BY BeyondCounted
  <2> HIDE DEF u
  <2>3. /\ l.s \in SensorStates /\ l.s.low = s.low + 1 /\ l.s.high = 0
        /\ l.s.normal = 0 /\ l.s.good = s.good
        /\ l.out \in Seq(EmittedAlerts)
        /\ \A i \in DOMAIN l.out : /\ l.out[i].origin = "PROCESS_LIMIT" /\ l.s.low >= 3
                                   /\ l.out[i].state = "OPEN" /\ l.out[i].kind = "BELOW_LIMIT"
    <3>1. u.low \in Nat
      BY <2>2 DEF SensorStates
    <3>2. /\ l.s \in SensorStates /\ l.s.high = u.high /\ l.s.low = u.low
          /\ l.s.normal = u.normal /\ l.s.good = u.good
          /\ l.out \in Seq(EmittedAlerts)
          /\ \A i \in DOMAIN l.out : /\ l.out[i].origin = "PROCESS_LIMIT" /\ u.low >= 3
                                     /\ l.out[i].state = "OPEN" /\ l.out[i].kind = "BELOW_LIMIT"
      BY <2>1, <2>2, <3>1, OpenEvaluated
    <3> QED
      BY <2>2, <3>2
  <2> QED
    BY <1>1, <1>3, <2>3 DEF Due
<1>4. CASE Rules!is_safely_inside(o)
  <2>1. l = Rules!inside(s)
    BY <1>1, <1>4 DEF Rules!evaluate_limits
  <2> QED
    BY <1>1, <1>4, <2>1, InsideEvaluated DEF Due
<1>5. CASE ~Rules!is_above(o) /\ ~Rules!is_below(o) /\ ~Rules!is_safely_inside(o)
  <2>1. l = [s |-> s, out |-> << >>]
    BY <1>5 DEF Rules!evaluate_limits
  <2> QED
    BY <1>5, <2>1
<1> QED
  BY <1>2, <1>3, <1>4, <1>5

(* An index of a concatenation is of the first or of the second sequence. *)
LEMMA ConcatIndex ==
  ASSUME NEW S, NEW x \in Seq(S), NEW y \in Seq(S), NEW i \in DOMAIN (x \o y), i \notin DOMAIN x
  PROVE  i - Len(x) \in DOMAIN y /\ (x \o y)[i] = y[i - Len(x)]
<1>1. /\ Len(x) \in Nat /\ Len(y) \in Nat /\ Len(x \o y) = Len(x) + Len(y)
      /\ DOMAIN x = 1..Len(x) /\ DOMAIN y = 1..Len(y)
      /\ DOMAIN (x \o y) = 1..(Len(x) + Len(y))
  OBVIOUS
<1>2. i \in Nat /\ i > Len(x) /\ i <= Len(x) + Len(y)
  BY <1>1
<1> QED
  BY <1>1, <1>2

(* One evaluation: the counters count the new sample, and what is emitted is   *)
(* justified by the samples so far.                                            *)
LEMMA Evaluated ==
  ASSUME NEW s, NEW sq, Counted(s, sq), NEW o \in Obs, NEW new, new = Append(sq, o),
         NEW r, r = Rules!evaluate_sensor_observation(s, o)
  PROVE  /\ Counted(r.s, new) /\ r.out \in Seq(EmittedAlerts)
         /\ \A i \in DOMAIN r.out : Justified(r.out[i], new, Len(new))
<1>1. /\ s \in SensorStates /\ sq \in Seq(Obs)
      /\ s.normal \in Nat /\ s.good \in Nat /\ s.high \in Nat /\ s.low \in Nat
      /\ SafeSince(sq, Len(sq), s.normal) /\ GoodSince(sq, Len(sq), s.good)
      /\ AboveSince(sq, Len(sq), s.high) /\ BelowSince(sq, Len(sq), s.low)
  BY DEF Counted, SensorStates
<1>2. new \in Seq(Obs) /\ Len(new) \in Nat
  BY <1>1, Appended
<1>3. /\ SafeSince(new, Len(new), 0) /\ AboveSince(new, Len(new), 0)
      /\ BelowSince(new, Len(new), 0) /\ GoodSince(new, Len(new), 0)
  BY <1>2, NoneSince
<1>4. SUFFICES Counted(r.s, new) /\ r.out \in Seq(EmittedAlerts)
               /\ \A i \in DOMAIN r.out : Due(r.out[i], r.s)
  BY DueJustified
<1>5. CASE Rules!Bad(o)
  <2>1. r = Rules!evaluate_bad(s, o)
    BY <1>5 DEF Rules!evaluate_sensor_observation
  <2>2. /\ r.s \in SensorStates /\ r.s.high = s.high /\ r.s.low = s.low
        /\ r.s.normal = 0 /\ r.s.good = 0
        /\ r.out \in Seq(EmittedAlerts)
        /\ \A i \in DOMAIN r.out : r.out[i].origin = "DATA_QUALITY" /\ r.out[i].state = "OPEN"
    BY <1>1, <1>5, <2>1, BadEvaluated
  <2>3. ~Rules!is_above(o) /\ ~Rules!is_below(o) /\ ~Rules!is_safely_inside(o)
    BY <1>5, SampleCases
  <2>4. AboveSince(new, Len(new), s.high) /\ BelowSince(new, Len(new), s.low)
    BY <1>1, <2>3, AboveGrows, BelowGrows
  <2> QED
    BY <1>2, <1>3, <2>2, <2>4 DEF Counted, Due
<1>6. CASE ~Rules!Bad(o)
  <2> DEFINE g == Rules!evaluate_good(s)
             l == Rules!evaluate_limits(g.s, o)
  <2>1. r.s = l.s /\ r.out = g.out \o l.out
    BY <1>6 DEF Rules!evaluate_sensor_observation
  <2>2. /\ g.s \in SensorStates /\ g.s.high = s.high /\ g.s.low = s.low
        /\ g.s.normal = s.normal /\ g.s.good = s.good + 1
        /\ g.out \in Seq(EmittedAlerts)
        /\ \A i \in DOMAIN g.out : g.out[i].origin = "DATA_QUALITY" /\ g.s.good >= 3
    BY <1>1, GoodEvaluated
  <2> HIDE DEF g
  <2>3. /\ l.s \in SensorStates /\ l.s.good = g.s.good
        /\ l.out \in Seq(EmittedAlerts)
        /\ \A i \in DOMAIN l.out : Due(l.out[i], l.s)
        /\ Rules!is_above(o) => l.s.high = s.high + 1 /\ l.s.low = 0 /\ l.s.normal = 0
        /\ Rules!is_below(o) => l.s.low = s.low + 1 /\ l.s.high = 0 /\ l.s.normal = 0
        /\ Rules!is_safely_inside(o) =>
             l.s.high = 0 /\ l.s.low = 0 /\ l.s.normal = s.normal + 1
        /\ ~Rules!is_above(o) /\ ~Rules!is_below(o) /\ ~Rules!is_safely_inside(o) =>
             l.s = g.s
    BY <1>6, <2>2, LimitsEvaluated
  <2> HIDE DEF l
  <2>4. r.s = l.s /\ r.out = g.out \o l.out
    BY <2>1 DEF l
  <2>5. GoodSince(new, Len(new), r.s.good)
    BY <1>1, <1>6, <2>2, <2>3, <2>4, GoodGrows
  <2>6. /\ Rules!is_above(o) => ~Rules!is_below(o) /\ ~Rules!is_safely_inside(o)
        /\ Rules!is_below(o) => ~Rules!is_safely_inside(o)
        /\ Rules!is_safely_inside(o) <=> Inside(o)
    BY SampleCases
  <2>7. /\ SafeSince(new, Len(new), r.s.normal)
        /\ AboveSince(new, Len(new), r.s.high) /\ BelowSince(new, Len(new), r.s.low)
    <3>1. CASE Rules!is_above(o)
      BY <1>1, <1>3, <2>3, <2>4, <2>6, <3>1, AboveGrows
    <3>2. CASE Rules!is_below(o)
      BY <1>1, <1>3, <2>3, <2>4, <2>6, <3>2, BelowGrows
    <3>3. CASE Rules!is_safely_inside(o)
      BY <1>1, <1>3, <1>6, <2>3, <2>4, <2>6, <3>3, SafeGrows
    <3>4. CASE ~Rules!is_above(o) /\ ~Rules!is_below(o) /\ ~Rules!is_safely_inside(o)
      <4>1. r.s.normal = s.normal /\ r.s.high = s.high /\ r.s.low = s.low
        BY <2>2, <2>3, <2>4, <3>4
      <4> QED
        BY <1>1, <1>6, <3>4, <4>1, SafeGrows, AboveGrows, BelowGrows
    <3> QED
      BY <3>1, <3>2, <3>3, <3>4
  <2>8. Counted(r.s, new)
    BY <1>2, <2>3, <2>4, <2>5, <2>7 DEF Counted
  <2>9. ASSUME NEW i \in DOMAIN r.out PROVE Due(r.out[i], r.s)
    <3>1. CASE i \in DOMAIN g.out
      <4>1. r.out[i] = g.out[i] /\ r.out[i].origin = "DATA_QUALITY" /\ r.s.good >= 3
        BY <2>2, <2>3, <2>4, <3>1
      <4> QED
        BY <4>1 DEF Due
    <3>2. CASE i \notin DOMAIN g.out
      <4>1. i - Len(g.out) \in DOMAIN l.out /\ r.out[i] = l.out[i - Len(g.out)]
        <5>1. i \in DOMAIN (g.out \o l.out)
          BY <2>4, <2>9
        <5>2. /\ g.out \in Seq(EmittedAlerts) /\ l.out \in Seq(EmittedAlerts)
              /\ i \notin DOMAIN g.out
          BY <2>2, <2>3, <3>2
        <5>3. /\ i - Len(g.out) \in DOMAIN l.out
              /\ (g.out \o l.out)[i] = l.out[i - Len(g.out)]
          BY <5>1, <5>2, ConcatIndex, Zenon
        <5> QED
          BY <2>4, <5>3
      <4> QED
        BY <2>3, <2>4, <4>1
    <3> QED
      BY <3>1, <3>2
  <2>10. r.out \in Seq(EmittedAlerts)
    BY <2>2, <2>3, <2>4
  <2> QED
    BY <2>8, <2>9, <2>10
<1> QED
  BY <1>5, <1>6

(* Every observation keeps the invariant. *)
LEMMA RulesStep == RulesInv /\ [Rules!Next]_ruleVars => RulesInv'
<1> SUFFICES ASSUME RulesInv, [Rules!Next]_ruleVars PROVE RulesInv'
  OBVIOUS
<1>1. CASE UNCHANGED ruleVars
  BY <1>1 DEF RulesInv, ruleVars
<1>2. CASE Rules!Observe
  <2>1. PICK o \in Obs :
          LET r == Rules!evaluate_sensor_observation(state, o)
          IN  /\ state' = r.s /\ seen' = Append(seen, o)
              /\ alerts' = alerts \o [i \in DOMAIN r.out |->
                                        [alert |-> r.out[i], at |-> Len(seen) + 1]]
    BY <1>2 DEF Rules!Observe, Obs
  <2> DEFINE r == Rules!evaluate_sensor_observation(state, o)
             more == [i \in DOMAIN r.out |-> [alert |-> r.out[i], at |-> Len(seen) + 1]]
  <2>2. Counted(state, seen) /\ seen \in Seq(Obs) /\ alerts \in Seq([alert : EmittedAlerts, at : Nat])
    BY DEF RulesInv, Counted
  <2>3. /\ Counted(r.s, seen') /\ r.out \in Seq(EmittedAlerts)
        /\ \A i \in DOMAIN r.out : Justified(r.out[i], seen', Len(seen'))
    BY <2>1, <2>2, Evaluated
  <2>4. /\ state' = r.s /\ seen' = Append(seen, o) /\ alerts' = alerts \o more
    BY <2>1
  <2> HIDE DEF r
  <2>5. Len(seen) \in Nat /\ Len(seen') = Len(seen) + 1
    BY <2>2, <2>4, Appended
  <2>6. more \in Seq([alert : EmittedAlerts, at : Nat]) /\ DOMAIN more = DOMAIN r.out
    <3>1. r.out = [i \in 1..Len(r.out) |-> r.out[i]] /\ DOMAIN r.out = 1..Len(r.out)
          /\ Len(r.out) \in Nat
      BY <2>3
    <3>2. \A i \in DOMAIN r.out : r.out[i] \in EmittedAlerts
      BY <2>3
    <3>3. Len(seen) + 1 \in Nat
      BY <2>5
    <3>4. \A i \in DOMAIN r.out :
            [alert |-> r.out[i], at |-> Len(seen) + 1] \in [alert : EmittedAlerts, at : Nat]
      BY <3>2, <3>3
    <3>5. more \in [1..Len(r.out) -> [alert : EmittedAlerts, at : Nat]]
      BY <3>1, <3>4
    <3> QED
      BY <3>1, <3>5
  <2>7. \A i \in DOMAIN more : more[i].alert = r.out[i] /\ more[i].at = Len(seen')
    BY <2>5
  <2> HIDE DEF more
  <2>8. alerts' \in Seq([alert : EmittedAlerts, at : Nat])
    BY <2>2, <2>4, <2>6
  <2>9. ASSUME NEW i \in DOMAIN alerts'
        PROVE  /\ alerts'[i].at \in 1..Len(seen')
               /\ Justified(alerts'[i].alert, seen', alerts'[i].at)
    <3>1. CASE i \in DOMAIN alerts
      <4>1. alerts'[i] = alerts[i]
        BY <2>2, <2>4, <2>6, <3>1
      <4>2. alerts[i].at \in 1..Len(seen) /\ Justified(alerts[i].alert, seen, alerts[i].at)
        BY <3>1 DEF RulesInv
      <4>3. Justified(alerts[i].alert, seen', alerts[i].at)
        BY <2>2, <2>4, <4>2, StillJustified
      <4> QED
        BY <2>5, <4>1, <4>2, <4>3
    <3>2. CASE i \notin DOMAIN alerts
      <4>1. i - Len(alerts) \in DOMAIN more /\ alerts'[i] = more[i - Len(alerts)]
        BY <2>2, <2>4, <2>6, <2>9, <3>2, ConcatIndex
      <4> QED
        BY <2>3, <2>5, <2>6, <2>7, <4>1
    <3> QED
      BY <3>1, <3>2
  <2> QED
    BY <2>3, <2>4, <2>8, <2>9 DEF RulesInv
<1> QED
  BY <1>1, <1>2 DEF Rules!Next

(* A sensor that has not been sampled. *)
LEMMA RulesInit == Rules!Init => RulesInv
<1> SUFFICES ASSUME Rules!Init PROVE RulesInv
  OBVIOUS
<1>1. /\ state = [high |-> 0, low |-> 0, normal |-> 0, bad |-> 0, good |-> 0,
                  process |-> "none", quality |-> "none"]
      /\ seen = << >> /\ alerts = << >>
  BY DEF Rules!Init, Rules!fresh, Rules!None
<1>2. state \in SensorStates /\ state.normal = 0 /\ state.good = 0 /\ state.high = 0 /\ state.low = 0
  BY <1>1 DEF SensorStates
<1>3. Len(seen) = 0 /\ Len(seen) \in Nat /\ seen \in Seq(Obs)
  BY <1>1
<1>4. Counted(state, seen)
  BY <1>2, <1>3, NoneSince DEF Counted
<1> QED
  BY <1>1, <1>4 DEF RulesInv

(* The invariant is what the rules ask for. *)
LEMMA RulesJustified == RulesInv => RulesObeyed
<1> SUFFICES ASSUME RulesInv PROVE RulesObeyed
  OBVIOUS
<1>1. \A i \in DOMAIN alerts :
        /\ alerts[i].at \in 1..Len(seen) /\ alerts[i].at \in Nat
        /\ Justified(alerts[i].alert, seen, alerts[i].at)
  BY DEF RulesInv
<1>2. seen \in Seq(Obs) /\ Len(seen) \in Nat
  BY DEF RulesInv, Counted
<1>3. ASSUME NEW at \in Nat, NEW from \in 1..(at + 1), NEW S \in SUBSET (from..at),
             NEW c \in Nat \ {0}, Cardinality(S) >= c
      PROVE  from \in 1..at
  <2>1. CASE from = at + 1
    <3>1. S = {}
      BY <2>1
    <3> QED
      BY <1>3, <3>1, FS_EmptySet
  <2> QED
    BY <2>1
<1>4. Rules!ResolvedWhenSafe
  <2> SUFFICES ASSUME NEW i \in Rules!Emitted("PROCESS_LIMIT", "RESOLVED")
               PROVE  \E from \in 1..alerts[i].at :
                        /\ Rules!Cardinality({k \in from..alerts[i].at : Inside(seen[k])}) >= 5
                        /\ \A k \in from..alerts[i].at :
                             ~Rules!is_above(seen[k]) /\ ~Rules!is_below(seen[k]) /\ ~Rules!Bad(seen[k])
    BY DEF Rules!ResolvedWhenSafe, Inside
  <2>1. alerts[i].at \in Nat /\ SafeSince(seen, alerts[i].at, 5)
    BY <1>1 DEF Rules!Emitted, Justified
  <2>2. PICK from \in 1..(alerts[i].at + 1) :
          /\ Cardinality({k \in from..alerts[i].at : Inside(seen[k])}) >= 5
          /\ \A k \in from..alerts[i].at :
               ~Rules!is_above(seen[k]) /\ ~Rules!is_below(seen[k]) /\ ~Rules!Bad(seen[k])
    BY <2>1 DEF SafeSince
  <2>3. from \in 1..alerts[i].at
    BY <1>3, <2>1, <2>2
  <2> QED
    BY <2>2, <2>3, RulesCardinality
<1>5. Rules!QualityResolvedByThree
  <2> SUFFICES ASSUME NEW i \in Rules!Emitted("DATA_QUALITY", "RESOLVED"),
                      NEW k \in (alerts[i].at - 2)..alerts[i].at
               PROVE  ~Rules!Bad(seen[k])
    BY DEF Rules!QualityResolvedByThree
  <2>1. alerts[i].at \in Nat /\ GoodSince(seen, alerts[i].at, 3)
    BY <1>1 DEF Rules!Emitted, Justified
  <2> QED
    BY <2>1 DEF GoodSince
<1>6. Rules!OpenedByOneLimit
  <2>1. ASSUME NEW i \in Rules!Emitted("PROCESS_LIMIT", "OPEN"), alerts[i].alert.kind = "ABOVE_LIMIT"
        PROVE  \E from \in 1..alerts[i].at :
                 /\ Rules!Cardinality({k \in from..alerts[i].at : Rules!is_above(seen[k])}) >= 3
                 /\ \A k \in from..alerts[i].at :
                      ~Rules!is_below(seen[k]) /\ ~Rules!is_safely_inside(seen[k])
    <3>1. alerts[i].at \in Nat /\ AboveSince(seen, alerts[i].at, 3)
      BY <1>1, <2>1 DEF Rules!Emitted, Justified
    <3>2. PICK from \in 1..(alerts[i].at + 1) :
            /\ Cardinality({k \in from..alerts[i].at : Rules!is_above(seen[k])}) >= 3
            /\ \A k \in from..alerts[i].at :
                 ~Rules!is_below(seen[k]) /\ ~Rules!is_safely_inside(seen[k])
      BY <3>1 DEF AboveSince
    <3>3. from \in 1..alerts[i].at
      BY <1>3, <3>1, <3>2
    <3> QED
      BY <3>2, <3>3, RulesCardinality
  <2>2. ASSUME NEW i \in Rules!Emitted("PROCESS_LIMIT", "OPEN"), alerts[i].alert.kind # "ABOVE_LIMIT"
        PROVE  \E from \in 1..alerts[i].at :
                 /\ Rules!Cardinality({k \in from..alerts[i].at : Rules!is_below(seen[k])}) >= 3
                 /\ \A k \in from..alerts[i].at :
                      ~Rules!is_above(seen[k]) /\ ~Rules!is_safely_inside(seen[k])
    <3>1. alerts[i].at \in Nat /\ BelowSince(seen, alerts[i].at, 3)
      BY <1>1, <2>2 DEF Rules!Emitted, Justified
    <3>2. PICK from \in 1..(alerts[i].at + 1) :
            /\ Cardinality({k \in from..alerts[i].at : Rules!is_below(seen[k])}) >= 3
            /\ \A k \in from..alerts[i].at :
                 ~Rules!is_above(seen[k]) /\ ~Rules!is_safely_inside(seen[k])
      BY <3>1 DEF BelowSince
    <3>3. from \in 1..alerts[i].at
      BY <1>3, <3>1, <3>2
    <3> QED
      BY <3>2, <3>3, RulesCardinality
  <2> QED
    BY <2>1, <2>2 DEF Rules!OpenedByOneLimit
<1> QED
  BY <1>4, <1>5, <1>6 DEF RulesObeyed, Rules!RulesObeyed

(* The alert rules of a sensor hold for every sequence of samples: a process   *)
(* alert opens on three samples beyond one limit and resolves on five safely   *)
(* inside, a quality alert resolves on three GOOD ones, and nothing that       *)
(* should start the count again lies between them                              *)
(* (evaluate_sensor_observation).                                              *)
THEOREM RulesAlwaysObeyed == Rules!Spec => []RulesObeyed
<1>1. RulesInv /\ [Rules!Next]_Rules!vars => RulesInv'
  BY RulesStep DEF Rules!vars, ruleVars
<1> QED
  BY <1>1, RulesInit, RulesJustified, PTL DEF Rules!Spec

(* ----------------------------- the definition ------------------------------- *)

Refs(I) == [asset : I, port : Ports]
AssetsOf(I) == [id : I, type : Types]
PipesOf(I, J) == [id : J, from : Refs(I), to : Refs(I)]
SensorsOf(I, J, K) ==
  [id : K, kind : {"PRESSURE"}, target : Refs(I)] \cup [id : K, kind : {"FLOW"}, target : J]

(* Lab definitions with asset identifiers I, pipe identifiers J and sensor     *)
(* identifiers K.                                                              *)
Labs(I, J, K) ==
  [assets : Seq(AssetsOf(I)), pipes : Seq(PipesOf(I, J)), sensors : Seq(SensorsOf(I, J, K))]

Drawn(d, I, J, K) == d \in Labs(I, J, K)

VP(a) == Topology!VALID_PORTS_BY_ASSET_TYPE(a.type)
IsValve(a) == a.type \in Topology!Valves

(* The node of a port. *)
NodeName(a, p) == IF IsValve(a) THEN <<a.id, p>> ELSE <<a.id>>

Unique(s) == \A i, j \in DOMAIN s : s[i].id = s[j].id => i = j

(* The reference ref is to a port of the i-th asset of d. *)
RefersTo(d, ref, i) ==
  i \in DOMAIN d.assets /\ d.assets[i].id = ref.asset /\ ref.port \in VP(d.assets[i])

Resolved(d, ref) == \E i \in DOMAIN d.assets : RefersTo(d, ref, i)

(* The module's own copies of library operators. *)
LEMMA TopologyLibrary ==
  /\ \A S : Topology!Cardinality(S) = Cardinality(S)
  /\ \A s : Topology!ToSet(s) = {s[i] : i \in DOMAIN s}
  BY DEF Topology!Cardinality, Cardinality, Topology!ToSet

(* The ports of an asset, and the nodes they are. *)
LEMMA PortsOfAsset ==
  ASSUME NEW I, NEW a \in AssetsOf(I)
  PROVE  /\ VP(a) # {}
         /\ IsValve(a) => VP(a) = {"A", "B"}
         /\ a.type = "COMPRESSOR" => VP(a) = {"OUT"}
         /\ a.type = "DEMAND" => VP(a) = {"IN"}
         /\ \A q : q \in Topology!port_nodes(a) <=>
              \E p \in VP(a) :
                q = [ref |-> [asset |-> a.id, port |-> p], node |-> NodeName(a, p)]
<1>1. a.type \in {"COMPRESSOR", "TANK", "ISOLATION_VALVE", "CONTROL_VALVE", "DEMAND"}
  BY TopologyAssumption DEF AssetsOf
<1>2. CASE a.type = "COMPRESSOR"
  BY <1>2 DEF VP, IsValve, NodeName, Topology!VALID_PORTS_BY_ASSET_TYPE, Topology!Valves,
              Topology!port_nodes
<1>3. CASE a.type = "DEMAND"
  BY <1>3 DEF VP, IsValve, NodeName, Topology!VALID_PORTS_BY_ASSET_TYPE, Topology!Valves,
              Topology!port_nodes
<1>4. CASE a.type = "TANK"
  BY <1>4 DEF VP, IsValve, NodeName, Topology!VALID_PORTS_BY_ASSET_TYPE, Topology!Valves,
              Topology!port_nodes
<1>5. CASE IsValve(a)
  BY <1>5 DEF VP, IsValve, NodeName, Topology!VALID_PORTS_BY_ASSET_TYPE, Topology!Valves,
              Topology!port_nodes
<1> QED
  BY <1>1, <1>2, <1>3, <1>4, <1>5 DEF IsValve, Topology!Valves

(* asset_map finds the asset of an identifier. *)
LEMMA AssetMap ==
  ASSUME NEW d, NEW I, NEW J, NEW K, Drawn(d, I, J, K), Unique(d.assets), NEW id
  PROVE  /\ \A i \in DOMAIN d.assets : d.assets[i].id = id =>
              /\ Topology!asset_map(d, id) = d.assets[i]
              /\ Topology!asset_map(d, id) # << >>
         /\ (\A i \in DOMAIN d.assets : d.assets[i].id # id) =>
              Topology!asset_map(d, id) = << >>
<1> DEFINE of == {i \in DOMAIN d.assets : d.assets[i].id = id}
<1>1. Topology!asset_map(d, id) =
        IF of = {} THEN << >> ELSE d.assets[CHOOSE i \in of : \A j \in of : j <= i]
  BY DEF Topology!asset_map, Topology!None
<1>2. d.assets \in Seq(AssetsOf(I))
  BY DEF Drawn, Labs
<1>3. ASSUME NEW i \in DOMAIN d.assets, d.assets[i].id = id
      PROVE  Topology!asset_map(d, id) = d.assets[i] /\ Topology!asset_map(d, id) # << >>
  <2>1. of = {i} /\ i <= i
    BY <1>2, <1>3 DEF Unique
  <2>2. Topology!asset_map(d, id) = d.assets[i]
    BY <1>1, <2>1
  <2>3. d.assets[i] \in AssetsOf(I)
    BY <1>2
  <2>4. d.assets[i] # << >>
    BY <2>3 DEF AssetsOf
  <2> QED
    BY <2>2, <2>4
<1>4. (\A i \in DOMAIN d.assets : d.assets[i].id # id) => of = {}
  OBVIOUS
<1> HIDE DEF of
<1> QED
  BY <1>1, <1>3, <1>4

(* A reference is valid when it resolves. *)
LEMMA ValidResolved ==
  ASSUME NEW d, NEW I, NEW J, NEW K, Drawn(d, I, J, K), Unique(d.assets), NEW ref
  PROVE  Topology!ValidRef(d, ref) <=> Resolved(d, ref)
<1>1. CASE \E i \in DOMAIN d.assets : d.assets[i].id = ref.asset
  <2>1. PICK i \in DOMAIN d.assets : d.assets[i].id = ref.asset
    BY <1>1
  <2>2. \A j \in DOMAIN d.assets : d.assets[j].id = ref.asset => j = i
    BY <2>1 DEF Unique
  <2>3. /\ Topology!asset_map(d, ref.asset) = d.assets[i]
        /\ Topology!asset_map(d, ref.asset) # << >>
    BY <2>1, AssetMap
  <2>4. Topology!ValidRef(d, ref) <=> ref.port \in VP(d.assets[i])
    BY <2>3 DEF Topology!ValidRef, Topology!None, VP
  <2> QED
    BY <2>1, <2>2, <2>4 DEF Resolved, RefersTo
<1>2. CASE \A i \in DOMAIN d.assets : d.assets[i].id # ref.asset
  <2>1. Topology!asset_map(d, ref.asset) = << >>
    BY <1>2, AssetMap
  <2> QED
    BY <1>2, <2>1 DEF Topology!ValidRef, Topology!None, Resolved, RefersTo
<1> QED
  BY <1>1, <1>2

(* The network's ports. *)
LEMMA PortToNode ==
  ASSUME NEW d, NEW I, NEW J, NEW K, Drawn(d, I, J, K), NEW q
  PROVE  q \in Topology!port_to_node(d) <=>
           \E i \in DOMAIN d.assets : \E p \in VP(d.assets[i]) :
             q = [ref |-> [asset |-> d.assets[i].id, port |-> p],
                  node |-> NodeName(d.assets[i], p)]
<1>1. \A i \in DOMAIN d.assets : d.assets[i] \in AssetsOf(I)
  BY DEF Drawn, Labs
<1>2. q \in Topology!port_to_node(d) <=>
        \E i \in DOMAIN d.assets : q \in Topology!port_nodes(d.assets[i])
  BY DEF Topology!port_to_node
<1> QED
  BY <1>1, <1>2, PortsOfAsset

(* A reference that resolves is to one node. *)
LEMMA NodeResolved ==
  ASSUME NEW d, NEW I, NEW J, NEW K, Drawn(d, I, J, K), Unique(d.assets),
         NEW ref \in Refs(I), NEW i, RefersTo(d, ref, i)
  PROVE  Topology!NodeOf(d, ref) = {NodeName(d.assets[i], ref.port)}
<1> DEFINE a == d.assets[i]
           q == [ref |-> [asset |-> a.id, port |-> ref.port], node |-> NodeName(a, ref.port)]
<1>1. i \in DOMAIN d.assets /\ a.id = ref.asset /\ ref.port \in VP(a)
  BY DEF RefersTo
<1>2. ref = [asset |-> a.id, port |-> ref.port]
  BY <1>1 DEF Refs
<1>3. q \in Topology!port_to_node(d) /\ q.ref = ref /\ q.node = NodeName(a, ref.port)
  BY <1>1, <1>2, PortToNode
<1>4. ASSUME NEW x \in Topology!port_to_node(d), x.ref = ref
      PROVE  x.node = NodeName(a, ref.port)
  <2>1. PICK j \in DOMAIN d.assets :
          \E p \in VP(d.assets[j]) :
            x = [ref |-> [asset |-> d.assets[j].id, port |-> p],
                 node |-> NodeName(d.assets[j], p)]
    BY PortToNode
  <2>2. d.assets[j].id = ref.asset /\ x.node = NodeName(d.assets[j], ref.port)
    BY <1>4, <2>1
  <2>3. j = i
    BY <1>1, <2>2 DEF Unique
  <2> QED
    BY <2>2, <2>3
<1> HIDE DEF q
<1> QED
  BY <1>3, <1>4 DEF Topology!NodeOf

(* What validate_lab asks for. *)
PairOf(p) == {p.from, p.to}
SensorPlaced(d, s) ==
  IF s.kind = "PRESSURE" THEN Resolved(d, s.target)
  ELSE \E i \in DOMAIN d.pipes : d.pipes[i].id = s.target

Eligible(d) ==
  /\ d.assets # << >> /\ Unique(d.assets) /\ Unique(d.pipes) /\ Unique(d.sensors)
  /\ \A i \in DOMAIN d.pipes :
       /\ Resolved(d, d.pipes[i].from) /\ Resolved(d, d.pipes[i].to)
       /\ d.pipes[i].from # d.pipes[i].to
  /\ \A i, j \in DOMAIN d.pipes : PairOf(d.pipes[i]) = PairOf(d.pipes[j]) => i = j
  /\ \A i \in DOMAIN d.sensors : SensorPlaced(d, d.sensors[i])

(* A pair of one element. *)
LEMMA PairCardinality ==
  ASSUME NEW x, NEW y
  PROVE  Topology!Cardinality({x, y}) = 1 <=> x = y
<1>1. CASE x = y
  <2>1. {x, y} = {x}
    BY <1>1
  <2> QED
    BY <1>1, <2>1, FS_Singleton, TopologyLibrary
<1>2. CASE x # y
  <2>1. {x, y} = {x} \cup {y} /\ y \notin {x}
    BY <1>2
  <2>2. IsFiniteSet({x}) /\ Cardinality({x}) = 1
    BY FS_Singleton
  <2>3. Cardinality({x} \cup {y}) = 1 + 1
    BY <2>1, <2>2, FS_AddElement
  <2> QED
    BY <1>2, <2>1, <2>3, TopologyLibrary
<1> QED
  BY <1>1, <1>2

(* validate_lab reports nothing exactly for an eligible definition. *)
LEMMA EligibleMeans ==
  ASSUME NEW d, NEW I, NEW J, NEW K, Drawn(d, I, J, K)
  PROVE  Topology!run_eligible(d) <=> Eligible(d)
<1>1. /\ d.assets \in Seq(AssetsOf(I)) /\ d.pipes \in Seq(PipesOf(I, J))
      /\ d.sensors \in Seq(SensorsOf(I, J, K))
  BY DEF Drawn, Labs
<1>2. \A s : ~Topology!Duplicated(s) <=> Unique(s)
  BY DEF Topology!Duplicated, Unique
<1>3. Topology!pipe_errors(d) = {} <=>
        /\ Unique(d.pipes)
        /\ \A i \in DOMAIN d.pipes :
             /\ Topology!ValidRef(d, d.pipes[i].from) /\ Topology!ValidRef(d, d.pipes[i].to)
             /\ d.pipes[i].from # d.pipes[i].to
        /\ \A i, j \in DOMAIN d.pipes : PairOf(d.pipes[i]) = PairOf(d.pipes[j]) => i = j
  <2> DEFINE P1 == \E i \in DOMAIN d.pipes :
                     ~Topology!ValidRef(d, d.pipes[i].from) \/ ~Topology!ValidRef(d, d.pipes[i].to)
             P2 == \E i \in DOMAIN d.pipes :
                     Topology!Cardinality(Topology!pair_key(d.pipes[i])) = 1
             P3 == \E i, j \in DOMAIN d.pipes :
                     i < j /\ Topology!pair_key(d.pipes[i]) = Topology!pair_key(d.pipes[j])
  <2>1. Topology!pipe_errors(d) =
          {c \in {"DUPLICATE_PIPE_ID"} : Topology!Duplicated(d.pipes)} \cup
          {c \in {"INVALID_PORT_REF"} : P1} \cup {c \in {"SELF_LOOP_PIPE"} : P2} \cup
          {c \in {"DUPLICATE_PIPE"} : P3}
    BY DEF Topology!pipe_errors
  <2>2. P2 <=> \E i \in DOMAIN d.pipes : d.pipes[i].from = d.pipes[i].to
    <3>1. ASSUME NEW i \in DOMAIN d.pipes
          PROVE  Topology!Cardinality(Topology!pair_key(d.pipes[i])) = 1
                   <=> d.pipes[i].from = d.pipes[i].to
      <4>1. Topology!pair_key(d.pipes[i]) = {d.pipes[i].from, d.pipes[i].to}
        BY DEF Topology!pair_key
      <4> QED
        <5>1. Topology!Cardinality({d.pipes[i].from, d.pipes[i].to}) = 1
                <=> d.pipes[i].from = d.pipes[i].to
          BY ONLY PairCardinality
        <5> QED
          BY ONLY <4>1, <5>1
    <3> QED
      BY <3>1
  <2>3. P3 <=> \E i, j \in DOMAIN d.pipes :
                 PairOf(d.pipes[i]) = PairOf(d.pipes[j]) /\ i # j
    <3>1. \A i, j \in DOMAIN d.pipes : i # j => i < j \/ j < i
      BY <1>1
    <3>2. \A i, j \in DOMAIN d.pipes : i < j => i # j
      BY <1>1
    <3> QED
      BY <3>1, <3>2 DEF Topology!pair_key, PairOf
  <2> HIDE DEF P1, P2, P3
  <2>4. Topology!pipe_errors(d) = {} <=> ~Topology!Duplicated(d.pipes) /\ ~P1 /\ ~P2 /\ ~P3
    BY <2>1
  <2> QED
    BY <1>2, <2>2, <2>3, <2>4 DEF P1
<1>4. Topology!sensor_errors(d) = {} <=>
        /\ Unique(d.sensors)
        /\ \A i \in DOMAIN d.sensors :
             IF d.sensors[i].kind = "PRESSURE" THEN Topology!ValidRef(d, d.sensors[i].target)
             ELSE d.sensors[i].target \in Topology!Ids(d.pipes)
  <2> DEFINE P1 == \E i \in DOMAIN d.sensors :
                     IF d.sensors[i].kind = "PRESSURE"
                     THEN ~Topology!ValidRef(d, d.sensors[i].target)
                     ELSE d.sensors[i].target \notin Topology!Ids(d.pipes)
  <2>1. Topology!sensor_errors(d) =
          {c \in {"DUPLICATE_SENSOR_ID"} : Topology!Duplicated(d.sensors)} \cup
          {c \in {"INVALID_SENSOR_TARGET"} : P1}
    BY DEF Topology!sensor_errors
  <2> HIDE DEF P1
  <2>2. Topology!sensor_errors(d) = {} <=> ~Topology!Duplicated(d.sensors) /\ ~P1
    BY <2>1
  <2> QED
    BY <1>2, <2>2 DEF P1
<1>5. Topology!run_eligible(d) <=>
        /\ d.assets # << >> /\ Unique(d.assets)
        /\ Topology!pipe_errors(d) = {} /\ Topology!sensor_errors(d) = {}
  <2>1. Topology!validate_lab(d) =
          IF d.assets = << >> THEN {"EMPTY_LAB"}
          ELSE {c \in {"DUPLICATE_ASSET_ID"} : Topology!Duplicated(d.assets)}
                 \cup Topology!pipe_errors(d) \cup Topology!sensor_errors(d)
    BY DEF Topology!validate_lab
  <2> QED
    BY <1>2, <2>1 DEF Topology!run_eligible
<1>6. Unique(d.assets) => \A ref : Topology!ValidRef(d, ref) <=> Resolved(d, ref)
  BY ValidResolved
<1>7. \A i \in DOMAIN d.sensors :
        d.sensors[i].target \in Topology!Ids(d.pipes) <=>
          \E j \in DOMAIN d.pipes : d.pipes[j].id = d.sensors[i].target
  BY DEF Topology!Ids
<1> QED
  BY <1>3, <1>4, <1>5, <1>6, <1>7 DEF Eligible, SensorPlaced

(* The references of a definition. *)
LEMMA DrawnRefs ==
  ASSUME NEW d, NEW I, NEW J, NEW K, Drawn(d, I, J, K)
  PROVE  /\ \A i \in DOMAIN d.assets : d.assets[i] \in AssetsOf(I)
         /\ \A i \in DOMAIN d.pipes : /\ d.pipes[i].from \in Refs(I) /\ d.pipes[i].to \in Refs(I)
                                      /\ d.pipes[i].id \in J /\ d.pipes[i] \in PipesOf(I, J)
         /\ \A i \in DOMAIN d.sensors :
              /\ d.sensors[i].id \in K /\ d.sensors[i] \in SensorsOf(I, J, K)
              /\ \/ d.sensors[i].kind = "PRESSURE" /\ d.sensors[i].target \in Refs(I)
                 \/ d.sensors[i].kind = "FLOW" /\ d.sensors[i].target \in J
<1>1. /\ d.assets \in Seq(AssetsOf(I)) /\ d.pipes \in Seq(PipesOf(I, J))
      /\ d.sensors \in Seq(SensorsOf(I, J, K))
  BY DEF Drawn, Labs
<1>2. /\ \A i \in DOMAIN d.assets : d.assets[i] \in AssetsOf(I)
      /\ \A i \in DOMAIN d.pipes : d.pipes[i] \in PipesOf(I, J)
      /\ \A i \in DOMAIN d.sensors : d.sensors[i] \in SensorsOf(I, J, K)
  BY <1>1
<1> QED
  BY <1>2 DEF PipesOf, SensorsOf

(* An edge of the network is a pipe or the inside of a valve. *)
LEMMA EdgeCases ==
  ASSUME NEW d, NEW e
  PROVE  e \in Topology!edges(d) <=>
           \/ \E i \in DOMAIN d.pipes :
                e = [id |-> <<d.pipes[i].id>>, from |-> Topology!NodeOf(d, d.pipes[i].from),
                     to |-> Topology!NodeOf(d, d.pipes[i].to)]
           \/ \E i \in DOMAIN d.assets :
                /\ IsValve(d.assets[i])
                /\ e = [id |-> <<d.assets[i].id, "internal">>,
                        from |-> {<<d.assets[i].id, "A">>}, to |-> {<<d.assets[i].id, "B">>}]
  BY TopologyLibrary DEF Topology!edges, IsValve

(* A reference that resolves is to some node. *)
LEMMA NodeFound ==
  ASSUME NEW d, NEW I, NEW J, NEW K, Drawn(d, I, J, K), Unique(d.assets),
         NEW ref \in Refs(I), Resolved(d, ref)
  PROVE  Topology!NodeOf(d, ref) # {}
<1>1. PICK i : RefersTo(d, ref, i)
  BY DEF Resolved
<1> QED
  BY <1>1, NodeResolved

(* The port of a source or a sink is to some node. *)
LEMMA EndFound ==
  ASSUME NEW d, NEW I, NEW J, NEW K, Drawn(d, I, J, K), NEW i \in DOMAIN d.assets,
         NEW p \in VP(d.assets[i])
  PROVE  Topology!NodeOf(d, [asset |-> d.assets[i].id, port |-> p]) # {}
<1> DEFINE q == [ref |-> [asset |-> d.assets[i].id, port |-> p],
                 node |-> NodeName(d.assets[i], p)]
<1>1. q \in Topology!port_to_node(d) /\ q.ref = [asset |-> d.assets[i].id, port |-> p]
  BY PortToNode
<1> HIDE DEF q
<1> QED
  BY <1>1 DEF Topology!NodeOf

(* Where an eligible definition's sensors are. *)
LEMMA SensorBound ==
  ASSUME NEW d, NEW I, NEW J, NEW K, Drawn(d, I, J, K), Eligible(d),
         NEW k \in DOMAIN d.sensors
  PROVE  /\ d.sensors[k].kind = "PRESSURE" =>
              \E i : /\ RefersTo(d, d.sensors[k].target, i)
                     /\ Topology!sensor_targets(d, d.sensors[k]) =
                          {NodeName(d.assets[i], d.sensors[k].target.port)}
         /\ d.sensors[k].kind # "PRESSURE" =>
              /\ Topology!sensor_targets(d, d.sensors[k]) = {<<d.sensors[k].target>>}
              /\ \E e \in Topology!edges(d) : e.id = <<d.sensors[k].target>>
<1> DEFINE s == d.sensors[k]
<1>1. SensorPlaced(d, s) /\ Unique(d.assets)
  BY DEF Eligible
<1>2. CASE s.kind = "PRESSURE"
  <2>1. s.target \in Refs(I) /\ Resolved(d, s.target)
    BY <1>1, <1>2, DrawnRefs DEF SensorPlaced
  <2>2. PICK i : RefersTo(d, s.target, i)
    BY <2>1 DEF Resolved
  <2>3. Topology!NodeOf(d, s.target) = {NodeName(d.assets[i], s.target.port)}
    BY <1>1, <2>1, <2>2, NodeResolved
  <2> QED
    BY <1>2, <2>2, <2>3 DEF Topology!sensor_targets
<1>3. CASE s.kind # "PRESSURE"
  <2>1. PICK j \in DOMAIN d.pipes : d.pipes[j].id = s.target
    BY <1>1, <1>3 DEF SensorPlaced
  <2> DEFINE e == [id |-> <<d.pipes[j].id>>, from |-> Topology!NodeOf(d, d.pipes[j].from),
                   to |-> Topology!NodeOf(d, d.pipes[j].to)]
  <2>2. e \in Topology!edges(d) /\ e.id = <<s.target>>
    BY <2>1, EdgeCases
  <2> HIDE DEF e
  <2>3. Topology!sensor_targets(d, s) = {x.id : x \in {f \in Topology!edges(d) : f.id = <<s.target>>}}
    BY <1>3 DEF Topology!sensor_targets
  <2> QED
    BY <1>3, <2>2, <2>3
<1> QED
  BY <1>2, <1>3

(* None of the compiler's lookups fails on an eligible definition. *)
LEMMA CompilesLemma ==
  ASSUME NEW d, NEW I, NEW J, NEW K, Drawn(d, I, J, K), Eligible(d)
  PROVE  ~Topology!CompileFails(d)
<1>1. d.assets # << >> /\ Unique(d.assets)
  BY DEF Eligible
<1>2. ASSUME NEW e \in Topology!edges(d) PROVE e.from # {} /\ e.to # {}
  <2>1. CASE \E i \in DOMAIN d.pipes :
               e = [id |-> <<d.pipes[i].id>>, from |-> Topology!NodeOf(d, d.pipes[i].from),
                    to |-> Topology!NodeOf(d, d.pipes[i].to)]
    <3>1. PICK i \in DOMAIN d.pipes :
            e = [id |-> <<d.pipes[i].id>>, from |-> Topology!NodeOf(d, d.pipes[i].from),
                 to |-> Topology!NodeOf(d, d.pipes[i].to)]
      BY <2>1
    <3>2. /\ d.pipes[i].from \in Refs(I) /\ d.pipes[i].to \in Refs(I)
          /\ Resolved(d, d.pipes[i].from) /\ Resolved(d, d.pipes[i].to)
      BY DrawnRefs DEF Eligible
    <3>3. Topology!NodeOf(d, d.pipes[i].from) # {} /\ Topology!NodeOf(d, d.pipes[i].to) # {}
      BY <1>1, <3>2, NodeFound
    <3> QED
      BY <3>1, <3>3
  <2>2. CASE \E i \in DOMAIN d.assets :
               /\ IsValve(d.assets[i])
               /\ e = [id |-> <<d.assets[i].id, "internal">>,
                       from |-> {<<d.assets[i].id, "A">>}, to |-> {<<d.assets[i].id, "B">>}]
    <3>1. PICK i \in DOMAIN d.assets :
            e = [id |-> <<d.assets[i].id, "internal">>,
                 from |-> {<<d.assets[i].id, "A">>}, to |-> {<<d.assets[i].id, "B">>}]
      BY <2>2
    <3>2. e.from = {<<d.assets[i].id, "A">>} /\ e.to = {<<d.assets[i].id, "B">>}
      BY <3>1
    <3> QED
      BY <3>2
  <2> QED
    BY <2>1, <2>2, EdgeCases
<1>3. ASSUME NEW x \in Topology!sources(d) \cup Topology!sinks(d) PROVE x.node # {}
  <2>1. \E i \in DOMAIN d.assets :
          \/ /\ d.assets[i].type = "COMPRESSOR"
             /\ x = [asset |-> d.assets[i].id,
                     node |-> Topology!NodeOf(d, [asset |-> d.assets[i].id, port |-> "OUT"])]
          \/ /\ d.assets[i].type = "DEMAND"
             /\ x = [asset |-> d.assets[i].id,
                     node |-> Topology!NodeOf(d, [asset |-> d.assets[i].id, port |-> "IN"])]
    BY TopologyLibrary DEF Topology!sources, Topology!sinks
  <2>2. PICK i \in DOMAIN d.assets :
          \/ /\ d.assets[i].type = "COMPRESSOR"
             /\ x.node = Topology!NodeOf(d, [asset |-> d.assets[i].id, port |-> "OUT"])
          \/ /\ d.assets[i].type = "DEMAND"
             /\ x.node = Topology!NodeOf(d, [asset |-> d.assets[i].id, port |-> "IN"])
    BY <2>1
  <2>3. /\ d.assets[i].type = "COMPRESSOR" => "OUT" \in VP(d.assets[i])
        /\ d.assets[i].type = "DEMAND" => "IN" \in VP(d.assets[i])
    <3>1. d.assets[i] \in AssetsOf(I)
      BY DrawnRefs
    <3> QED
      BY <3>1, PortsOfAsset
  <2> QED
    BY <2>2, <2>3, EndFound
<1>4. ASSUME NEW k \in DOMAIN d.sensors
      PROVE  Topology!sensor_targets(d, d.sensors[k]) # {}
  <2>1. CASE d.sensors[k].kind = "PRESSURE"
    <3>1. \E i : Topology!sensor_targets(d, d.sensors[k]) =
                   {NodeName(d.assets[i], d.sensors[k].target.port)}
      BY <2>1, SensorBound
    <3> QED
      BY <3>1
  <2>2. CASE d.sensors[k].kind # "PRESSURE"
    <3>1. Topology!sensor_targets(d, d.sensors[k]) = {<<d.sensors[k].target>>}
      BY <2>2, SensorBound
    <3> QED
      BY <3>1
  <2> QED
    BY <2>1, <2>2
<1> QED
  BY <1>1, <1>2, <1>3, <1>4 DEF Topology!CompileFails

(* observe looks a sensor up where the compiler has put it. *)
LEMMA SensorsReadLemma ==
  ASSUME NEW d, NEW I, NEW J, NEW K, Drawn(d, I, J, K), Eligible(d),
         NEW k \in DOMAIN d.sensors, NEW s, s = d.sensors[k]
  PROVE  /\ Topology!sensor_targets(d, s) = {Topology!node_key(d, s)}
         /\ Topology!node_key(d, s) \in
              (IF s.kind = "PRESSURE" THEN Topology!pressures(d) ELSE Topology!flows(d))
<1>1. CASE s.kind = "PRESSURE"
  <2>1. PICK i : /\ RefersTo(d, s.target, i)
                 /\ Topology!sensor_targets(d, s) = {NodeName(d.assets[i], s.target.port)}
    BY <1>1, SensorBound
  <2>2. /\ i \in DOMAIN d.assets /\ d.assets[i].id = s.target.asset
        /\ s.target.port \in VP(d.assets[i]) /\ Unique(d.assets) /\ i <= i
    <3>1. d.assets \in Seq(AssetsOf(I))
      BY DEF Drawn, Labs
    <3> QED
      BY <2>1, <3>1 DEF RefersTo, Eligible
  <2>3. {j \in DOMAIN d.assets : d.assets[j].id = s.target.asset} = {i}
    BY <2>2 DEF Unique
  <2>4. (CHOOSE j \in {i} : \A m \in {i} : j <= m) = i
    BY <2>2
  <2>5. Topology!node_key(d, s) = NodeName(d.assets[i], s.target.port)
    BY <1>1, <2>2, <2>3, <2>4 DEF Topology!node_key, NodeName, IsValve
  <2> DEFINE q == [ref |-> [asset |-> d.assets[i].id, port |-> s.target.port],
                   node |-> NodeName(d.assets[i], s.target.port)]
  <2>6. q \in Topology!port_to_node(d) /\ q.node = NodeName(d.assets[i], s.target.port)
    BY <2>2, PortToNode
  <2> HIDE DEF q
  <2>7. NodeName(d.assets[i], s.target.port) \in Topology!pressures(d)
    BY <2>6 DEF Topology!pressures
  <2> QED
    BY <1>1, <2>1, <2>5, <2>7
<1>2. CASE s.kind # "PRESSURE"
  <2>1. s.kind = "FLOW"
    BY <1>2, DrawnRefs
  <2>2. Topology!node_key(d, s) = <<s.target>>
    BY <2>1 DEF Topology!node_key
  <2>3. /\ Topology!sensor_targets(d, s) = {<<s.target>>}
        /\ \E e \in Topology!edges(d) : e.id = <<s.target>>
    BY <1>2, SensorBound
  <2> QED
    BY <1>2, <2>2, <2>3 DEF Topology!flows
<1> QED
  BY <1>1, <1>2

(* Sets that a function pairs off are of one size. *)
LEMMA SameSize ==
  ASSUME NEW S, IsFiniteSet(S), NEW T, NEW f \in [S -> T],
         \A x, y \in S : f[x] = f[y] => x = y, \A t \in T : \E x \in S : f[x] = t
  PROVE  IsFiniteSet(T) /\ Cardinality(T) = Cardinality(S)
<1>1. f \in Bijection(S, T)
  BY DEF Bijection, Injection, Surjection, IsInjective
<1>2. ExistsBijection(S, T)
  BY <1>1 DEF ExistsBijection
<1> QED
  BY <1>2, FS_Bijection

(* The nodes, by what they are of. *)
LEMMA PressureNames ==
  ASSUME NEW d, NEW I, NEW J, NEW K, Drawn(d, I, J, K), NEW n
  PROVE  n \in Topology!pressures(d) <=>
           \E i \in DOMAIN d.assets : \E p \in VP(d.assets[i]) : n = NodeName(d.assets[i], p)
<1>1. n \in Topology!pressures(d) <=> \E q \in Topology!port_to_node(d) : q.node = n
  BY DEF Topology!pressures
<1>2. ASSUME NEW q \in Topology!port_to_node(d)
      PROVE  \E i \in DOMAIN d.assets : \E p \in VP(d.assets[i]) : q.node = NodeName(d.assets[i], p)
  BY PortToNode
<1>3. ASSUME NEW i \in DOMAIN d.assets, NEW p \in VP(d.assets[i])
      PROVE  \E q \in Topology!port_to_node(d) : q.node = NodeName(d.assets[i], p)
  <2> DEFINE q == [ref |-> [asset |-> d.assets[i].id, port |-> p],
                   node |-> NodeName(d.assets[i], p)]
  <2>1. q \in Topology!port_to_node(d) /\ q.node = NodeName(d.assets[i], p)
    BY PortToNode
  <2> HIDE DEF q
  <2> QED
    BY <2>1
<1> QED
  BY <1>1, <1>2, <1>3

(* A node of its own per asset, and one more per valve. *)
LEMMA NodesCounted ==
  ASSUME NEW d, NEW I, NEW J, NEW K, Drawn(d, I, J, K), Unique(d.assets),
         NEW V, V = {i \in DOMAIN d.assets : IsValve(d.assets[i])}
  PROVE  /\ IsFiniteSet(V) /\ Cardinality(V) \in Nat
         /\ Cardinality(Topology!pressures(d)) = Len(d.assets) + Cardinality(V)
<1> DEFINE D == DOMAIN d.assets
           f == [i \in D |-> IF i \in V THEN <<d.assets[i].id, "A">> ELSE <<d.assets[i].id>>]
           g == [i \in V |-> <<d.assets[i].id, "B">>]
           S == {f[i] : i \in D}
           T == {g[i] : i \in V}
<1>1. /\ d.assets \in Seq(AssetsOf(I)) /\ Len(d.assets) \in Nat /\ D = 1..Len(d.assets)
      /\ \A i \in D : d.assets[i] \in AssetsOf(I)
  BY DEF Drawn, Labs
<1>2. IsFiniteSet(D) /\ Cardinality(D) = Len(d.assets)
  <2>1. 1 \in Int /\ Len(d.assets) \in Int
    BY <1>1
  <2>2. /\ IsFiniteSet(1..Len(d.assets))
        /\ Cardinality(1..Len(d.assets)) =
             IF 1 > Len(d.assets) THEN 0 ELSE Len(d.assets) - 1 + 1
    BY <2>1, FS_Interval
  <2> QED
    BY <1>1, <2>2
<1>3. IsFiniteSet(V) /\ Cardinality(V) \in Nat
  <2>1. V \in SUBSET D
    OBVIOUS
  <2> QED
    BY <1>2, <2>1, FS_Subset, FS_CardinalityType
<1>4. Topology!pressures(d) = S \cup T
  <2>1. ASSUME NEW i \in D
        PROVE  /\ i \in V => VP(d.assets[i]) = {"A", "B"}
               /\ VP(d.assets[i]) # {}
               /\ \A p : NodeName(d.assets[i], p) =
                           IF i \in V THEN <<d.assets[i].id, p>> ELSE <<d.assets[i].id>>
    <3>1. d.assets[i] \in AssetsOf(I)
      BY <1>1
    <3> QED
      BY <3>1, PortsOfAsset DEF NodeName
  <2>2. ASSUME NEW n
        PROVE  (\E i \in D : \E p \in VP(d.assets[i]) : n = NodeName(d.assets[i], p))
                 <=> n \in S \cup T
    <3>1. ASSUME NEW i \in D, NEW p \in VP(d.assets[i]), n = NodeName(d.assets[i], p)
          PROVE  n \in S \cup T
      <4>1. CASE i \in V /\ p = "A"
        <5>1. n = f[i]
          BY <2>1, <3>1, <4>1
        <5> QED
          BY <5>1
      <4>2. CASE i \in V /\ p = "B"
        <5>1. n = g[i]
          BY <2>1, <3>1, <4>2
        <5> QED
          BY <4>2, <5>1
      <4>3. CASE i \notin V
        <5>1. n = f[i]
          BY <2>1, <3>1, <4>3
        <5> QED
          BY <5>1
      <4> QED
        BY <2>1, <4>1, <4>2, <4>3
    <3>2. ASSUME NEW i \in D, n = f[i]
          PROVE  \E p \in VP(d.assets[i]) : n = NodeName(d.assets[i], p)
      BY <2>1, <3>2
    <3>3. ASSUME NEW i \in V, n = g[i]
          PROVE  \E p \in VP(d.assets[i]) : n = NodeName(d.assets[i], p)
      BY <2>1, <3>3
    <3> QED
      BY <3>1, <3>2, <3>3
  <2>3. \A n : n \in Topology!pressures(d) <=>
          \E i \in D : \E p \in VP(d.assets[i]) : n = NodeName(d.assets[i], p)
    BY PressureNames
  <2> HIDE DEF S, T
  <2> QED
    BY <2>2, <2>3
<1>5. IsFiniteSet(S) /\ Cardinality(S) = Len(d.assets)
  <2>1. f \in [D -> S] /\ \A t \in S : \E x \in D : f[x] = t
    OBVIOUS
  <2>2. ASSUME NEW x \in D, NEW y \in D, f[x] = f[y] PROVE x = y
    <3>1. f[x][1] = d.assets[x].id /\ f[y][1] = d.assets[y].id
      OBVIOUS
    <3> QED
      BY <2>2, <3>1 DEF Unique
  <2> HIDE DEF f, S, D
  <2> QED
    BY <1>2, <2>1, <2>2, SameSize
<1>6. IsFiniteSet(T) /\ Cardinality(T) = Cardinality(V)
  <2>1. g \in [V -> T] /\ \A t \in T : \E x \in V : g[x] = t
    OBVIOUS
  <2>2. ASSUME NEW x \in V, NEW y \in V, g[x] = g[y] PROVE x = y
    <3>1. g[x][1] = d.assets[x].id /\ g[y][1] = d.assets[y].id
      OBVIOUS
    <3> QED
      BY <2>2, <3>1 DEF Unique
  <2> HIDE DEF g, T
  <2> QED
    BY <1>3, <2>1, <2>2, SameSize
<1>7. S \cap T = {}
  <2>1. ASSUME NEW i \in D, NEW j \in V PROVE f[i] # g[j]
    <3>1. CASE i \in V
      <4>1. f[i][2] = "A" /\ g[j][2] = "B"
        BY <3>1
      <4> QED
        BY <4>1
    <3>2. CASE i \notin V
      <4>1. Len(f[i]) = 1 /\ Len(g[j]) = 2
        BY <3>2
      <4> QED
        BY <4>1
    <3> QED
      BY <3>1, <3>2
  <2> QED
    BY <2>1
<1> HIDE DEF S, T
<1>8. Cardinality(S \cup T) = Cardinality(S) + Cardinality(T)
  <2>1. Cardinality(S \cap T) = 0
    BY <1>7, FS_EmptySet
  <2>2. Cardinality(S) \in Nat /\ Cardinality(T) \in Nat
    BY <1>5, <1>6, FS_CardinalityType
  <2>3. Cardinality(S \cup T) = Cardinality(S) + Cardinality(T) - Cardinality(S \cap T)
    BY <1>5, <1>6, FS_Union
  <2> QED
    BY <2>1, <2>2, <2>3
<1> QED
  BY <1>3, <1>4, <1>5, <1>6, <1>8

(* An edge of its own per pipe, and one per valve. *)
LEMMA EdgesCounted ==
  ASSUME NEW d, NEW I, NEW J, NEW K, Drawn(d, I, J, K), Unique(d.assets), Unique(d.pipes),
         NEW V, V = {i \in DOMAIN d.assets : IsValve(d.assets[i])}, IsFiniteSet(V)
  PROVE  Cardinality(Topology!edges(d)) = Len(d.pipes) + Cardinality(V)
<1> DEFINE D == DOMAIN d.pipes
           f == [i \in D |-> [id |-> <<d.pipes[i].id>>,
                              from |-> Topology!NodeOf(d, d.pipes[i].from),
                              to |-> Topology!NodeOf(d, d.pipes[i].to)]]
           g == [i \in V |-> [id |-> <<d.assets[i].id, "internal">>,
                              from |-> {<<d.assets[i].id, "A">>},
                              to |-> {<<d.assets[i].id, "B">>}]]
           S == {f[i] : i \in D}
           T == {g[i] : i \in V}
<1>1. d.pipes \in Seq(PipesOf(I, J)) /\ Len(d.pipes) \in Nat /\ D = 1..Len(d.pipes)
  BY DEF Drawn, Labs
<1>2. IsFiniteSet(D) /\ Cardinality(D) = Len(d.pipes)
  <2>1. 1 \in Int /\ Len(d.pipes) \in Int
    BY <1>1
  <2>2. /\ IsFiniteSet(1..Len(d.pipes))
        /\ Cardinality(1..Len(d.pipes)) =
             IF 1 > Len(d.pipes) THEN 0 ELSE Len(d.pipes) - 1 + 1
    BY <2>1, FS_Interval
  <2> QED
    BY <1>1, <2>2
<1>3. Topology!edges(d) = S \cup T
  <2>1. ASSUME NEW e
        PROVE  e \in S \cup T <=>
                 \/ \E i \in D : e = f[i]
                 \/ \E i \in V : e = g[i]
    OBVIOUS
  <2>2. ASSUME NEW e
        PROVE  e \in Topology!edges(d) <=>
                 \/ \E i \in D : e = f[i]
                 \/ \E i \in V : e = g[i]
    <3>1. (\E i \in V : e = g[i]) <=>
            \E i \in DOMAIN d.assets :
              /\ IsValve(d.assets[i])
              /\ e = [id |-> <<d.assets[i].id, "internal">>,
                      from |-> {<<d.assets[i].id, "A">>}, to |-> {<<d.assets[i].id, "B">>}]
      OBVIOUS
    <3>2. (\E i \in D : e = f[i]) <=>
            \E i \in DOMAIN d.pipes :
              e = [id |-> <<d.pipes[i].id>>, from |-> Topology!NodeOf(d, d.pipes[i].from),
                   to |-> Topology!NodeOf(d, d.pipes[i].to)]
      OBVIOUS
    <3> HIDE DEF f, g
    <3> QED
      BY <3>1, <3>2, EdgeCases
  <2> HIDE DEF S, T, f, g
  <2> QED
    BY <2>1, <2>2
<1>4. IsFiniteSet(S) /\ Cardinality(S) = Len(d.pipes)
  <2>1. f \in [D -> S] /\ \A t \in S : \E x \in D : f[x] = t
    OBVIOUS
  <2>2. ASSUME NEW x \in D, NEW y \in D, f[x] = f[y] PROVE x = y
    <3>1. f[x].id = <<d.pipes[x].id>> /\ f[y].id = <<d.pipes[y].id>>
      OBVIOUS
    <3>2. d.pipes[x].id = d.pipes[y].id
      BY <2>2, <3>1
    <3> QED
      BY <3>2 DEF Unique
  <2> HIDE DEF f, S, D
  <2> QED
    BY <1>2, <2>1, <2>2, SameSize
<1>5. IsFiniteSet(T) /\ Cardinality(T) = Cardinality(V)
  <2>1. g \in [V -> T] /\ \A t \in T : \E x \in V : g[x] = t
    OBVIOUS
  <2>2. ASSUME NEW x \in V, NEW y \in V, g[x] = g[y] PROVE x = y
    <3>1. g[x].id = <<d.assets[x].id, "internal">> /\ g[y].id = <<d.assets[y].id, "internal">>
      OBVIOUS
    <3>2. d.assets[x].id = d.assets[y].id
      BY <2>2, <3>1
    <3> QED
      BY <3>2 DEF Unique
  <2> HIDE DEF g, T
  <2> QED
    BY <2>1, <2>2, SameSize
<1>6. S \cap T = {}
  <2>1. ASSUME NEW i \in D, NEW j \in V PROVE f[i] # g[j]
    <3>1. f[i].id = <<d.pipes[i].id>> /\ g[j].id = <<d.assets[j].id, "internal">>
      OBVIOUS
    <3>2. Len(<<d.pipes[i].id>>) = 1 /\ Len(<<d.assets[j].id, "internal">>) = 2
      OBVIOUS
    <3>3. f[i].id # g[j].id
      BY <3>1, <3>2
    <3> QED
      BY <3>3
  <2>2. (\A x \in S : \E i \in D : x = f[i]) /\ (\A x \in T : \E j \in V : x = g[j])
    OBVIOUS
  <2> HIDE DEF S, T, f, g
  <2> QED
    BY ONLY <2>1, <2>2
<1> HIDE DEF S, T
<1>7. Cardinality(S \cup T) = Cardinality(S) + Cardinality(T)
  <2>1. Cardinality(S \cap T) = 0
    BY <1>6, FS_EmptySet
  <2>2. Cardinality(S) \in Nat /\ Cardinality(T) \in Nat
    BY <1>4, <1>5, FS_CardinalityType
  <2>3. Cardinality(S \cup T) = Cardinality(S) + Cardinality(T) - Cardinality(S \cap T)
    BY <1>4, <1>5, FS_Union
  <2> QED
    BY <2>1, <2>2, <2>3
<1> QED
  BY <1>3, <1>4, <1>5, <1>7

(* The identifiers of a clone. *)
NewIds(S) == {<<"new", x>> : x \in S}
FreshIds == {<<"fresh", i>> : i \in Nat}
NewRef(r) == [asset |-> <<"new", r.asset>>, port |-> r.port]
Up(n) == [n EXCEPT ![1] = Topology!new_id(@)]

(* The elements of c are those of d, renamed. *)
Renamed(c, d) ==
  /\ DOMAIN c.assets = DOMAIN d.assets /\ DOMAIN c.pipes = DOMAIN d.pipes
  /\ DOMAIN c.sensors = DOMAIN d.sensors
  /\ \A i \in DOMAIN d.assets :
       c.assets[i].id = <<"new", d.assets[i].id>> /\ c.assets[i].type = d.assets[i].type
  /\ \A i \in DOMAIN d.pipes :
       /\ c.pipes[i].id = <<"new", d.pipes[i].id>>
       /\ c.pipes[i].from = NewRef(d.pipes[i].from) /\ c.pipes[i].to = NewRef(d.pipes[i].to)
  /\ \A i \in DOMAIN d.sensors :
       /\ c.sensors[i].id = <<"fresh", i>> /\ c.sensors[i].kind = d.sensors[i].kind
       /\ d.sensors[i].kind = "PRESSURE" => c.sensors[i].target = NewRef(d.sensors[i].target)
       /\ d.sensors[i].kind # "PRESSURE" => c.sensors[i].target = <<"new", d.sensors[i].target>>

(* A clone's elements, one by one. *)
LEMMA CloneElements ==
  ASSUME NEW d, NEW I, NEW J, NEW K, Drawn(d, I, J, K),
         NEW c, c = Topology!clone_lab_definition(d)
  PROVE  Drawn(c, NewIds(I), NewIds(J), FreshIds) /\ Renamed(c, d)
<1>1. /\ d.assets \in Seq(AssetsOf(I)) /\ d.pipes \in Seq(PipesOf(I, J))
      /\ d.sensors \in Seq(SensorsOf(I, J, K))
  BY DEF Drawn, Labs
<1>2. /\ c = [assets |-> c.assets, pipes |-> c.pipes, sensors |-> c.sensors]
      /\ c.assets = [i \in DOMAIN d.assets |->
                       [d.assets[i] EXCEPT !.id = Topology!new_id(@)]]
      /\ c.pipes = [i \in DOMAIN d.pipes |->
                      [d.pipes[i] EXCEPT !.id = Topology!new_id(@),
                         !.from.asset = Topology!new_id(@), !.to.asset = Topology!new_id(@)]]
      /\ c.sensors = [i \in DOMAIN d.sensors |->
                        [d.sensors[i] EXCEPT !.id = <<"fresh", i>>,
                           !.target = Topology!CloneTarget(d.sensors[i])]]
  BY DEF Topology!clone_lab_definition
<1>3. ASSUME NEW i \in DOMAIN d.assets
      PROVE  /\ c.assets[i] = [id |-> <<"new", d.assets[i].id>>, type |-> d.assets[i].type]
             /\ c.assets[i] \in AssetsOf(NewIds(I))
  <2>1. d.assets[i] \in AssetsOf(I)
    BY <1>1
  <2>2. c.assets[i] = [d.assets[i] EXCEPT !.id = <<"new", d.assets[i].id>>]
    BY <1>2 DEF Topology!new_id
  <2> QED
    BY <2>1, <2>2 DEF AssetsOf, NewIds
<1>4. ASSUME NEW i \in DOMAIN d.pipes
      PROVE  /\ c.pipes[i] = [id |-> <<"new", d.pipes[i].id>>, from |-> NewRef(d.pipes[i].from),
                              to |-> NewRef(d.pipes[i].to)]
             /\ c.pipes[i] \in PipesOf(NewIds(I), NewIds(J))
  <2> DEFINE p == d.pipes[i]
  <2>0. p \in PipesOf(I, J)
    BY <1>1
  <2>1. p \in PipesOf(I, J) /\ p.from \in Refs(I) /\ p.to \in Refs(I) /\ p.id \in J
    <3> HIDE DEF p
    <3> QED  BY <2>0 DEF PipesOf
  <2>2. c.pipes[i] = [p EXCEPT !.id = <<"new", p.id>>, !.from.asset = <<"new", p.from.asset>>,
                               !.to.asset = <<"new", p.to.asset>>]
    BY <1>2 DEF Topology!new_id
  <2>3. /\ [p.from EXCEPT !.asset = <<"new", p.from.asset>>] = NewRef(p.from)
        /\ [p.to EXCEPT !.asset = <<"new", p.to.asset>>] = NewRef(p.to)
    BY <2>1 DEF Refs, NewRef
  <2>4. /\ NewRef(p.from) \in Refs(NewIds(I)) /\ NewRef(p.to) \in Refs(NewIds(I))
        /\ <<"new", p.id>> \in NewIds(J)
    BY <2>1 DEF Refs, NewRef, NewIds
  <2> HIDE DEF p
  <2>5. c.pipes[i] = [id |-> <<"new", p.id>>, from |-> NewRef(p.from), to |-> NewRef(p.to)]
    BY <2>1, <2>2, <2>3 DEF PipesOf
  <2> QED
    BY <2>4, <2>5 DEF PipesOf, p
<1>5. ASSUME NEW i \in DOMAIN d.sensors
      PROVE  /\ c.sensors[i].id = <<"fresh", i>> /\ c.sensors[i].kind = d.sensors[i].kind
             /\ d.sensors[i].kind = "PRESSURE" =>
                  c.sensors[i].target = NewRef(d.sensors[i].target)
             /\ d.sensors[i].kind # "PRESSURE" =>
                  c.sensors[i].target = <<"new", d.sensors[i].target>>
             /\ c.sensors[i] \in SensorsOf(NewIds(I), NewIds(J), FreshIds)
  <2> DEFINE s == d.sensors[i]
             t == Topology!CloneTarget(s)
  <2>1. /\ s \in SensorsOf(I, J, K)
        /\ \/ s.kind = "PRESSURE" /\ s.target \in Refs(I)
           \/ s.kind = "FLOW" /\ s.target \in J
        /\ s = [id |-> s.id, kind |-> s.kind, target |-> s.target]
    BY <1>1 DEF SensorsOf
  <2>2. /\ s.kind = "PRESSURE" => t = NewRef(s.target)
        /\ s.kind # "PRESSURE" => t = <<"new", s.target>>
    BY <2>1 DEF Topology!CloneTarget, Topology!new_id, Refs, NewRef
  <2>3. c.sensors[i] = [s EXCEPT !.id = <<"fresh", i>>, !.target = t]
    BY <1>2
  <2> HIDE DEF s, t
  <2>4. c.sensors[i] = [id |-> <<"fresh", i>>, kind |-> s.kind, target |-> t]
    BY <2>1, <2>3
  <2>5. <<"fresh", i>> \in FreshIds
    BY <1>1 DEF FreshIds
  <2>6. /\ s.kind = "PRESSURE" => t \in Refs(NewIds(I))
        /\ s.kind = "FLOW" => t \in NewIds(J)
    BY <2>1, <2>2 DEF Refs, NewRef, NewIds
  <2>7. c.sensors[i] \in SensorsOf(NewIds(I), NewIds(J), FreshIds)
    BY <2>1, <2>4, <2>5, <2>6 DEF SensorsOf
  <2> QED
    BY <2>2, <2>4, <2>7 DEF s
<1>6. /\ DOMAIN c.assets = DOMAIN d.assets /\ DOMAIN c.pipes = DOMAIN d.pipes
      /\ DOMAIN c.sensors = DOMAIN d.sensors
  BY <1>2
<1>7. /\ c.assets \in Seq(AssetsOf(NewIds(I)))
      /\ c.pipes \in Seq(PipesOf(NewIds(I), NewIds(J)))
      /\ c.sensors \in Seq(SensorsOf(NewIds(I), NewIds(J), FreshIds))
  <2>1. /\ DOMAIN d.assets = 1..Len(d.assets) /\ Len(d.assets) \in Nat
        /\ DOMAIN d.pipes = 1..Len(d.pipes) /\ Len(d.pipes) \in Nat
        /\ DOMAIN d.sensors = 1..Len(d.sensors) /\ Len(d.sensors) \in Nat
    BY <1>1
  <2>2. c.assets \in [1..Len(d.assets) -> AssetsOf(NewIds(I))]
    BY <1>2, <1>3, <2>1
  <2>3. c.pipes \in [1..Len(d.pipes) -> PipesOf(NewIds(I), NewIds(J))]
    BY <1>2, <1>4, <2>1
  <2>4. c.sensors \in [1..Len(d.sensors) -> SensorsOf(NewIds(I), NewIds(J), FreshIds)]
    BY <1>2, <1>5, <2>1
  <2>5. \A S, n, f : n \in Nat /\ f \in [1..n -> S] => f \in Seq(S)
    OBVIOUS
  <2>6. c.assets \in Seq(AssetsOf(NewIds(I)))
    BY <2>1, <2>2, <2>5
  <2>7. c.pipes \in Seq(PipesOf(NewIds(I), NewIds(J)))
    BY <2>1, <2>3, <2>5
  <2>8. c.sensors \in Seq(SensorsOf(NewIds(I), NewIds(J), FreshIds))
    BY <2>1, <2>4, <2>5
  <2> QED
    BY <2>6, <2>7, <2>8
<1>8. Drawn(c, NewIds(I), NewIds(J), FreshIds)
  BY <1>2, <1>7 DEF Drawn, Labs
<1>9. ASSUME NEW i \in DOMAIN d.assets
      PROVE  c.assets[i].id = <<"new", d.assets[i].id>> /\ c.assets[i].type = d.assets[i].type
  <2>1. c.assets[i] = [id |-> <<"new", d.assets[i].id>>, type |-> d.assets[i].type]
    BY <1>3
  <2> QED
    BY <2>1
<1>10. ASSUME NEW i \in DOMAIN d.pipes
       PROVE  /\ c.pipes[i].id = <<"new", d.pipes[i].id>>
              /\ c.pipes[i].from = NewRef(d.pipes[i].from)
              /\ c.pipes[i].to = NewRef(d.pipes[i].to)
  <2>1. c.pipes[i] = [id |-> <<"new", d.pipes[i].id>>, from |-> NewRef(d.pipes[i].from),
                      to |-> NewRef(d.pipes[i].to)]
    BY <1>4
  <2> QED
    BY <2>1
<1>11. Renamed(c, d)
  BY <1>5, <1>6, <1>9, <1>10 DEF Renamed
<1> QED
  BY <1>8, <1>11

(* The nodes of a clone are the nodes, renamed. *)
LEMMA CloneNodes ==
  ASSUME NEW d, NEW I, NEW J, NEW K, Drawn(d, I, J, K),
         NEW c, c = Topology!clone_lab_definition(d)
  PROVE  /\ \A i \in DOMAIN d.assets :
              /\ VP(c.assets[i]) = VP(d.assets[i])
              /\ IsValve(c.assets[i]) <=> IsValve(d.assets[i])
              /\ \A p : NodeName(c.assets[i], p) = Up(NodeName(d.assets[i], p))
         /\ \A i : \A ref \in Refs(I) : RefersTo(c, NewRef(ref), i) <=> RefersTo(d, ref, i)
         /\ Unique(d.assets) => Unique(c.assets)
<1>1. /\ DOMAIN c.assets = DOMAIN d.assets
      /\ \A i \in DOMAIN d.assets :
           /\ c.assets[i].id = <<"new", d.assets[i].id>>
           /\ c.assets[i].type = d.assets[i].type
  <2>1. Renamed(c, d)
    BY CloneElements
  <2> QED
    BY <2>1 DEF Renamed
<1>2. \A x, y : <<"new", x>> = <<"new", y>> => x = y
  OBVIOUS
<1>3. \A x : Up(<<x>>) = << <<"new", x>> >>
  BY DEF Up, Topology!new_id
<1>4. \A x, y : Up(<<x, y>>) = << <<"new", x>>, y >>
  BY DEF Up, Topology!new_id
<1>5. ASSUME NEW i \in DOMAIN d.assets
      PROVE  /\ VP(c.assets[i]) = VP(d.assets[i])
             /\ IsValve(c.assets[i]) <=> IsValve(d.assets[i])
             /\ \A p : NodeName(c.assets[i], p) = Up(NodeName(d.assets[i], p))
  <2>1. c.assets[i].id = <<"new", d.assets[i].id>> /\ c.assets[i].type = d.assets[i].type
    BY <1>1
  <2>2. VP(c.assets[i]) = VP(d.assets[i]) /\ (IsValve(c.assets[i]) <=> IsValve(d.assets[i]))
    BY <2>1 DEF VP, IsValve
  <2> QED
    BY <1>3, <1>4, <2>1, <2>2 DEF NodeName
<1>6. ASSUME NEW ref \in Refs(I), NEW i
      PROVE  RefersTo(c, NewRef(ref), i) <=> RefersTo(d, ref, i)
  <2>1. NewRef(ref).asset = <<"new", ref.asset>> /\ NewRef(ref).port = ref.port
    BY DEF NewRef
  <2>2. i \in DOMAIN d.assets => c.assets[i].id = <<"new", d.assets[i].id>>
    BY <1>1
  <2> QED
    BY <1>1, <1>2, <1>5, <2>1, <2>2 DEF RefersTo
<1>7. Unique(d.assets) => Unique(c.assets)
  <2>1. \A i \in DOMAIN d.assets : c.assets[i].id = <<"new", d.assets[i].id>>
    BY <1>1
  <2> QED
    BY <1>1, <1>2, <2>1 DEF Unique
<1> QED
  BY <1>5, <1>6, <1>7

(* Renaming keeps references apart. *)
LEMMA NewRefApart ==
  ASSUME NEW I, NEW r \in Refs(I), NEW s \in Refs(I), NewRef(r) = NewRef(s)
  PROVE  r = s
<1>1. NewRef(r).asset = NewRef(s).asset /\ NewRef(r).port = NewRef(s).port
  OBVIOUS
<1>2. <<"new", r.asset>> = <<"new", s.asset>> /\ r.port = s.port
  BY <1>1 DEF NewRef
<1> QED
  BY <1>2 DEF Refs

(* The clone of an eligible definition is eligible. *)
LEMMA CloneEligible ==
  ASSUME NEW d, NEW I, NEW J, NEW K, Drawn(d, I, J, K), Eligible(d),
         NEW c, c = Topology!clone_lab_definition(d)
  PROVE  Eligible(c)
<1>1. /\ DOMAIN c.assets = DOMAIN d.assets /\ DOMAIN c.pipes = DOMAIN d.pipes
      /\ DOMAIN c.sensors = DOMAIN d.sensors
      /\ \A i \in DOMAIN d.pipes :
           /\ c.pipes[i].id = <<"new", d.pipes[i].id>>
           /\ c.pipes[i].from = NewRef(d.pipes[i].from) /\ c.pipes[i].to = NewRef(d.pipes[i].to)
      /\ \A i \in DOMAIN d.sensors :
           /\ c.sensors[i].id = <<"fresh", i>> /\ c.sensors[i].kind = d.sensors[i].kind
           /\ d.sensors[i].kind = "PRESSURE" => c.sensors[i].target = NewRef(d.sensors[i].target)
           /\ d.sensors[i].kind # "PRESSURE" => c.sensors[i].target = <<"new", d.sensors[i].target>>
  <2>1. Renamed(c, d)
    BY CloneElements
  <2> QED
    BY <2>1 DEF Renamed
<1>2. /\ \A x, y : <<"new", x>> = <<"new", y>> => x = y
      /\ \A x, y : <<"fresh", x>> = <<"fresh", y>> => x = y
  OBVIOUS
<1>3. c.assets # << >>
  <2>1. d.assets # << >> /\ d.assets \in Seq(AssetsOf(I))
    BY DEF Eligible, Drawn, Labs
  <2>2. Len(d.assets) \in Nat /\ Len(d.assets) # 0 /\ DOMAIN d.assets = 1..Len(d.assets)
    BY <2>1
  <2>3. 1 \in DOMAIN c.assets
    BY <1>1, <2>2
  <2> QED
    BY <2>3
<1>4. Unique(c.assets)
  BY CloneNodes DEF Eligible
<1>5. Unique(c.pipes)
  BY <1>1, <1>2 DEF Unique, Eligible
<1>6. Unique(c.sensors)
  BY <1>1, <1>2 DEF Unique
<1>7. ASSUME NEW ref \in Refs(I), Resolved(d, ref) PROVE Resolved(c, NewRef(ref))
  <2>1. PICK i \in DOMAIN d.assets : RefersTo(d, ref, i)
    BY <1>7 DEF Resolved
  <2>2. RefersTo(c, NewRef(ref), i)
    BY <2>1, CloneNodes
  <2> QED
    BY <1>1, <2>1, <2>2 DEF Resolved
<1>8. ASSUME NEW i \in DOMAIN c.pipes
      PROVE  /\ Resolved(c, c.pipes[i].from) /\ Resolved(c, c.pipes[i].to)
             /\ c.pipes[i].from # c.pipes[i].to
  <2>1. /\ d.pipes[i].from \in Refs(I) /\ d.pipes[i].to \in Refs(I)
        /\ Resolved(d, d.pipes[i].from) /\ Resolved(d, d.pipes[i].to)
        /\ d.pipes[i].from # d.pipes[i].to
    BY <1>1, DrawnRefs DEF Eligible
  <2>2. Resolved(c, NewRef(d.pipes[i].from)) /\ Resolved(c, NewRef(d.pipes[i].to))
    BY <1>7, <2>1
  <2>3. NewRef(d.pipes[i].from) # NewRef(d.pipes[i].to)
    BY <2>1, NewRefApart
  <2> QED
    BY <1>1, <2>2, <2>3
<1>9. ASSUME NEW i \in DOMAIN c.pipes, NEW j \in DOMAIN c.pipes,
             PairOf(c.pipes[i]) = PairOf(c.pipes[j])
      PROVE  i = j
  <2> DEFINE p == d.pipes[i]
             q == d.pipes[j]
  <2>1. /\ p.from \in Refs(I) /\ p.to \in Refs(I) /\ q.from \in Refs(I) /\ q.to \in Refs(I)
    BY <1>1, DrawnRefs
  <2>2. {NewRef(p.from), NewRef(p.to)} = {NewRef(q.from), NewRef(q.to)}
    BY <1>1, <1>9 DEF PairOf
  <2>3. \A r, s \in Refs(I) : NewRef(r) = NewRef(s) => r = s
    BY NewRefApart
  <2> HIDE DEF p, q
  <2>4. PairOf(p) = PairOf(q)
    BY <2>1, <2>2, <2>3 DEF PairOf
  <2> QED
    BY <1>1, <2>4 DEF Eligible, p, q
<1>10. ASSUME NEW k \in DOMAIN c.sensors PROVE SensorPlaced(c, c.sensors[k])
  <2>1. SensorPlaced(d, d.sensors[k])
    BY <1>1 DEF Eligible
  <2>2. CASE d.sensors[k].kind = "PRESSURE"
    <3>1. d.sensors[k].target \in Refs(I)
      BY <1>1, <2>2, DrawnRefs
    <3>2. Resolved(c, NewRef(d.sensors[k].target))
      BY <1>7, <2>1, <2>2, <3>1 DEF SensorPlaced
    <3> QED
      BY <1>1, <2>2, <3>2 DEF SensorPlaced
  <2>3. CASE d.sensors[k].kind # "PRESSURE"
    <3>1. PICK i \in DOMAIN d.pipes : d.pipes[i].id = d.sensors[k].target
      BY <2>1, <2>3 DEF SensorPlaced
    <3>2. c.pipes[i].id = c.sensors[k].target
      BY <1>1, <2>3, <3>1
    <3> QED
      BY <1>1, <2>3, <3>1, <3>2 DEF SensorPlaced
  <2> QED
    BY <2>2, <2>3
<1> QED
  BY <1>3, <1>4, <1>5, <1>6, <1>8, <1>9, <1>10 DEF Eligible

(* The clone's node of a reference is the definition's, renamed. *)
LEMMA CloneNodeOf ==
  ASSUME NEW d, NEW I, NEW J, NEW K, Drawn(d, I, J, K), Unique(d.assets),
         NEW c, c = Topology!clone_lab_definition(d),
         NEW ref \in Refs(I), NEW i, RefersTo(d, ref, i)
  PROVE  /\ Topology!NodeOf(d, ref) = {NodeName(d.assets[i], ref.port)}
         /\ Topology!NodeOf(c, NewRef(ref)) = {Up(NodeName(d.assets[i], ref.port))}
<1>1. Topology!NodeOf(d, ref) = {NodeName(d.assets[i], ref.port)}
  BY NodeResolved
<1>2. Drawn(c, NewIds(I), NewIds(J), FreshIds)
  BY CloneElements
<1>3. RefersTo(c, NewRef(ref), i) /\ Unique(c.assets)
  BY CloneNodes
<1>4. NewRef(ref) \in Refs(NewIds(I)) /\ NewRef(ref).port = ref.port
  BY DEF NewRef, Refs, NewIds
<1>5. Topology!NodeOf(c, NewRef(ref)) = {NodeName(c.assets[i], ref.port)}
  <2> DEFINE r == NewRef(ref)
             L == NewIds(I)
             M == NewIds(J)
  <2>1. Drawn(c, L, M, FreshIds) /\ RefersTo(c, r, i) /\ r \in Refs(L) /\ r.port = ref.port
    BY <1>2, <1>3, <1>4
  <2> HIDE DEF r, L, M
  <2>2. Topology!NodeOf(c, r) = {NodeName(c.assets[i], r.port)}
    BY <1>3, <2>1, NodeResolved
  <2> QED
    BY <2>1, <2>2 DEF r
<1>6. NodeName(c.assets[i], ref.port) = Up(NodeName(d.assets[i], ref.port))
  <2>1. i \in DOMAIN d.assets
    BY DEF RefersTo
  <2> QED
    BY <2>1, CloneNodes
<1> QED
  BY <1>1, <1>5, <1>6

(* An edge, renamed. *)
UpEdge(e) == [id |-> Up(e.id), from |-> {Up(n) : n \in e.from}, to |-> {Up(n) : n \in e.to}]

(* The edge of a pipe and the edge inside a valve. *)
PipeEdge(d, p) ==
  [id |-> <<p.id>>, from |-> Topology!NodeOf(d, p.from), to |-> Topology!NodeOf(d, p.to)]
ValveEdge(a) == [id |-> <<a.id, "internal">>, from |-> {<<a.id, "A">>}, to |-> {<<a.id, "B">>}]

(* The clone of an eligible definition has its network, renamed. *)
LEMMA CloneEdges ==
  ASSUME NEW d, NEW I, NEW J, NEW K, Drawn(d, I, J, K), Eligible(d),
         NEW c, c = Topology!clone_lab_definition(d)
  PROVE  Topology!edges(c) = {UpEdge(e) : e \in Topology!edges(d)}
<1>1. /\ DOMAIN c.assets = DOMAIN d.assets /\ DOMAIN c.pipes = DOMAIN d.pipes
      /\ \A i \in DOMAIN d.assets : c.assets[i].id = <<"new", d.assets[i].id>>
      /\ \A i \in DOMAIN d.pipes :
           /\ c.pipes[i].id = <<"new", d.pipes[i].id>>
           /\ c.pipes[i].from = NewRef(d.pipes[i].from) /\ c.pipes[i].to = NewRef(d.pipes[i].to)
  <2>1. Renamed(c, d)
    BY CloneElements
  <2> QED
    BY <2>1 DEF Renamed
<1>2. \A x : Up(<<x>>) = << <<"new", x>> >>
  BY DEF Up, Topology!new_id
<1>3. \A x, y : Up(<<x, y>>) = << <<"new", x>>, y >>
  BY DEF Up, Topology!new_id
<1>4. ASSUME NEW ref \in Refs(I), Resolved(d, ref)
      PROVE  Topology!NodeOf(c, NewRef(ref)) = {Up(n) : n \in Topology!NodeOf(d, ref)}
  <2>1. PICK i : RefersTo(d, ref, i)
    BY <1>4 DEF Resolved
  <2>2. /\ Topology!NodeOf(d, ref) = {NodeName(d.assets[i], ref.port)}
        /\ Topology!NodeOf(c, NewRef(ref)) = {Up(NodeName(d.assets[i], ref.port))}
    BY <2>1, CloneNodeOf DEF Eligible
  <2> QED
    BY <2>2
<1>5. ASSUME NEW i \in DOMAIN d.pipes
      PROVE  PipeEdge(c, c.pipes[i]) = UpEdge(PipeEdge(d, d.pipes[i]))
  <2> DEFINE p == d.pipes[i]
             q == c.pipes[i]
  <2>1. /\ p.from \in Refs(I) /\ p.to \in Refs(I)
        /\ Resolved(d, p.from) /\ Resolved(d, p.to)
    BY DrawnRefs DEF Eligible
  <2>2. q.id = <<"new", p.id>> /\ q.from = NewRef(p.from) /\ q.to = NewRef(p.to)
    BY <1>1
  <2>3. /\ Topology!NodeOf(c, NewRef(p.from)) = {Up(n) : n \in Topology!NodeOf(d, p.from)}
        /\ Topology!NodeOf(c, NewRef(p.to)) = {Up(n) : n \in Topology!NodeOf(d, p.to)}
    BY <1>4, <2>1
  <2>4. Up(<<p.id>>) = <<q.id>>
    BY <1>2, <2>2
  <2> HIDE DEF p, q
  <2>5. /\ PipeEdge(d, p).id = <<p.id>> /\ PipeEdge(d, p).from = Topology!NodeOf(d, p.from)
        /\ PipeEdge(d, p).to = Topology!NodeOf(d, p.to)
    BY DEF PipeEdge
  <2>6. UpEdge(PipeEdge(d, p)) =
          [id |-> Up(<<p.id>>), from |-> {Up(n) : n \in Topology!NodeOf(d, p.from)},
           to |-> {Up(n) : n \in Topology!NodeOf(d, p.to)}]
    BY <2>5 DEF UpEdge
  <2>7. PipeEdge(c, q) = UpEdge(PipeEdge(d, p))
    BY <2>2, <2>3, <2>4, <2>6 DEF PipeEdge
  <2> QED
    BY <2>7 DEF p, q
<1>6. ASSUME NEW i \in DOMAIN d.assets
      PROVE  ValveEdge(c.assets[i]) = UpEdge(ValveEdge(d.assets[i]))
  <2> DEFINE a == d.assets[i]
             b == c.assets[i]
  <2>1. b.id = <<"new", a.id>>
    BY <1>1
  <2> HIDE DEF a, b
  <2>2. /\ ValveEdge(a).id = <<a.id, "internal">> /\ ValveEdge(a).from = {<<a.id, "A">>}
        /\ ValveEdge(a).to = {<<a.id, "B">>}
    BY DEF ValveEdge
  <2>3. /\ Up(<<a.id, "internal">>) = <<b.id, "internal">>
        /\ Up(<<a.id, "A">>) = <<b.id, "A">> /\ Up(<<a.id, "B">>) = <<b.id, "B">>
    BY <1>3, <2>1
  <2>4. /\ {Up(n) : n \in {<<a.id, "A">>}} = {<<b.id, "A">>}
        /\ {Up(n) : n \in {<<a.id, "B">>}} = {<<b.id, "B">>}
    BY <2>3
  <2>5. UpEdge(ValveEdge(a)) = [id |-> Up(<<a.id, "internal">>),
          from |-> {Up(n) : n \in {<<a.id, "A">>}}, to |-> {Up(n) : n \in {<<a.id, "B">>}}]
    BY <2>2 DEF UpEdge
  <2>6. ValveEdge(b) = UpEdge(ValveEdge(a))
    BY <2>3, <2>4, <2>5 DEF ValveEdge
  <2> QED
    BY <2>6 DEF a, b
<1>7. \A i \in DOMAIN d.assets : IsValve(c.assets[i]) <=> IsValve(d.assets[i])
  BY CloneNodes
<1>8. \A x, e : e \in Topology!edges(x) <=>
        \/ \E i \in DOMAIN x.pipes : e = PipeEdge(x, x.pipes[i])
        \/ \E i \in DOMAIN x.assets : IsValve(x.assets[i]) /\ e = ValveEdge(x.assets[i])
  BY EdgeCases DEF PipeEdge, ValveEdge
<1>9. ASSUME NEW e
      PROVE  e \in Topology!edges(c) <=> \E f \in Topology!edges(d) : e = UpEdge(f)
  <2>1. ASSUME e \in Topology!edges(c) PROVE \E f \in Topology!edges(d) : e = UpEdge(f)
    <3>1. CASE \E i \in DOMAIN c.pipes : e = PipeEdge(c, c.pipes[i])
      BY <1>1, <1>5, <1>8, <3>1
    <3>2. CASE \E i \in DOMAIN c.assets : IsValve(c.assets[i]) /\ e = ValveEdge(c.assets[i])
      BY <1>1, <1>6, <1>7, <1>8, <3>2
    <3> QED
      BY <1>8, <2>1, <3>1, <3>2
  <2>2. ASSUME NEW f \in Topology!edges(d), e = UpEdge(f) PROVE e \in Topology!edges(c)
    <3>1. CASE \E i \in DOMAIN d.pipes : f = PipeEdge(d, d.pipes[i])
      BY <1>1, <1>5, <1>8, <2>2, <3>1
    <3>2. CASE \E i \in DOMAIN d.assets : IsValve(d.assets[i]) /\ f = ValveEdge(d.assets[i])
      BY <1>1, <1>6, <1>7, <1>8, <2>2, <3>2
    <3> QED
      BY <1>8, <3>1, <3>2
  <2> QED
    BY <2>1, <2>2
<1> DEFINE S == Topology!edges(c)
           T == Topology!edges(d)
<1> HIDE DEF S, T
<1>10. \A e : e \in S <=> \E f \in T : e = UpEdge(f)
  BY <1>9 DEF S, T
<1>11. S = {UpEdge(f) : f \in T}
  BY <1>10
<1> QED
  BY <1>11 DEF S, T

(* So are the nodes of the clone. *)
LEMMA ClonePressures ==
  ASSUME NEW d, NEW I, NEW J, NEW K, Drawn(d, I, J, K),
         NEW c, c = Topology!clone_lab_definition(d)
  PROVE  Topology!pressures(c) = {Up(n) : n \in Topology!pressures(d)}
<1>1. /\ DOMAIN c.assets = DOMAIN d.assets
      /\ Drawn(c, NewIds(I), NewIds(J), FreshIds)
  <2>1. Renamed(c, d) /\ Drawn(c, NewIds(I), NewIds(J), FreshIds)
    BY CloneElements
  <2> QED
    BY <2>1 DEF Renamed
<1>2. \A i \in DOMAIN d.assets :
        /\ VP(c.assets[i]) = VP(d.assets[i])
        /\ \A p : NodeName(c.assets[i], p) = Up(NodeName(d.assets[i], p))
  BY CloneNodes
<1>3. \A n : n \in Topology!pressures(d) <=>
        \E i \in DOMAIN d.assets : \E p \in VP(d.assets[i]) : n = NodeName(d.assets[i], p)
  BY PressureNames
<1>4. \A n : n \in Topology!pressures(c) <=>
        \E i \in DOMAIN c.assets : \E p \in VP(c.assets[i]) : n = NodeName(c.assets[i], p)
  <2>1. PICK L, M : Drawn(c, L, M, FreshIds)
    BY <1>1
  <2>2. ASSUME NEW n
        PROVE  n \in Topology!pressures(c) <=>
                 \E i \in DOMAIN c.assets : \E p \in VP(c.assets[i]) : n = NodeName(c.assets[i], p)
    BY <2>1, PressureNames, SMTT(30)
  <2> QED
    BY <2>2
<1> DEFINE S == Topology!pressures(c)
           T == Topology!pressures(d)
<1>5. ASSUME NEW n PROVE n \in S <=> \E m \in T : n = Up(m)
  <2>1. ASSUME n \in S PROVE \E m \in T : n = Up(m)
    <3>1. PICK i \in DOMAIN d.assets : \E p \in VP(d.assets[i]) : n = Up(NodeName(d.assets[i], p))
      BY <1>1, <1>2, <1>4, <2>1
    <3>2. PICK p \in VP(d.assets[i]) : n = Up(NodeName(d.assets[i], p))
      BY <3>1
    <3>3. NodeName(d.assets[i], p) \in T
      BY <1>3
    <3> QED
      BY <3>2, <3>3
  <2>2. ASSUME NEW m \in T, n = Up(m) PROVE n \in S
    <3>1. PICK i \in DOMAIN d.assets : \E p \in VP(d.assets[i]) : m = NodeName(d.assets[i], p)
      BY <1>3
    <3>2. PICK p \in VP(d.assets[i]) : m = NodeName(d.assets[i], p)
      BY <3>1
    <3>3. i \in DOMAIN c.assets /\ p \in VP(c.assets[i]) /\ n = NodeName(c.assets[i], p)
      BY <1>1, <1>2, <2>2, <3>2
    <3> QED
      BY <1>4, <3>3
  <2> QED
    BY <2>1, <2>2
<1> HIDE DEF S, T
<1>6. S = {Up(m) : m \in T}
  BY <1>5
<1> QED
  BY <1>6 DEF S, T

(* And the places of its sensors. *)
LEMMA CloneSensors ==
  ASSUME NEW d, NEW I, NEW J, NEW K, Drawn(d, I, J, K), Eligible(d),
         NEW c, c = Topology!clone_lab_definition(d), Eligible(c), NEW k \in DOMAIN d.sensors
  PROVE  Topology!sensor_targets(c, c.sensors[k]) =
           {Up(n) : n \in Topology!sensor_targets(d, d.sensors[k])}
<1> DEFINE s == d.sensors[k]
           t == c.sensors[k]
<1>1. /\ Renamed(c, d) /\ Drawn(c, NewIds(I), NewIds(J), FreshIds)
  BY CloneElements
<1>2. /\ k \in DOMAIN c.sensors /\ t.kind = s.kind
      /\ s.kind = "PRESSURE" => t.target = NewRef(s.target)
      /\ s.kind # "PRESSURE" => t.target = <<"new", s.target>>
  BY <1>1 DEF Renamed
<1>3. CASE s.kind = "PRESSURE"
  <2>1. PICK i : RefersTo(d, s.target, i)
    BY <1>3, SensorBound
  <2>2. s.target \in Refs(I)
    BY <1>3, DrawnRefs
  <2>3. /\ Topology!NodeOf(d, s.target) = {NodeName(d.assets[i], s.target.port)}
        /\ Topology!NodeOf(c, NewRef(s.target)) = {Up(NodeName(d.assets[i], s.target.port))}
    BY <2>1, <2>2, CloneNodeOf DEF Eligible
  <2>4. /\ Topology!sensor_targets(d, s) = Topology!NodeOf(d, s.target)
        /\ Topology!sensor_targets(c, t) = Topology!NodeOf(c, NewRef(s.target))
    BY <1>2, <1>3 DEF Topology!sensor_targets
  <2> QED
    BY <2>3, <2>4
<1>4. CASE s.kind # "PRESSURE"
  <2>1. Topology!sensor_targets(d, s) = {<<s.target>>}
    BY <1>4, SensorBound
  <2>2. Topology!sensor_targets(c, t) = {<<t.target>>}
    <3> DEFINE L == NewIds(I)
               M == NewIds(J)
    <3>1. Drawn(c, L, M, FreshIds) /\ k \in DOMAIN c.sensors /\ t.kind # "PRESSURE"
      BY <1>1, <1>2, <1>4
    <3> HIDE DEF L, M
    <3> QED
      BY <3>1, SensorBound
  <2>3. Up(<<s.target>>) = <<t.target>>
    BY <1>2, <1>4 DEF Up, Topology!new_id
  <2> QED
    BY <2>1, <2>2, <2>3
<1> QED
  BY <1>3, <1>4

(* What holds of every definition that can be drawn. *)
LEMMA DrawnRuns ==
  ASSUME Drawn(lab, AssetIds, PipeIds, SensorIds)
  PROVE  EligibleLabRuns
<1> DEFINE V == {i \in DOMAIN lab.assets : IsValve(lab.assets[i])}
           c == Topology!clone_lab_definition(lab)
<1>1. Topology!run_eligible(lab) <=> Eligible(lab)
  BY EligibleMeans
<1>2. Topology!EligibleCompiles
  BY <1>1, CompilesLemma DEF Topology!EligibleCompiles
<1>3. Topology!SensorsReadTheirTarget
  <2>1. ASSUME Eligible(lab), NEW i \in DOMAIN lab.sensors, NEW s, s = lab.sensors[i]
        PROVE  /\ Topology!sensor_targets(lab, s) = {Topology!node_key(lab, s)}
               /\ Topology!node_key(lab, s) \in
                    (IF s.kind = "PRESSURE" THEN Topology!pressures(lab) ELSE Topology!flows(lab))
    BY <2>1, SensorsReadLemma
  <2> QED
    BY <1>1, <2>1 DEF Topology!SensorsReadTheirTarget
<1>4. Topology!NamesAreUnique
  <2> SUFFICES ASSUME Eligible(lab)
               PROVE  /\ Cardinality(Topology!pressures(lab)) = Len(lab.assets) + Cardinality(V)
                      /\ Cardinality(Topology!edges(lab)) = Len(lab.pipes) + Cardinality(V)
    BY <1>1, TopologyLibrary DEF Topology!NamesAreUnique, IsValve
  <2>1. Unique(lab.assets) /\ Unique(lab.pipes)
    BY DEF Eligible
  <2>2. IsFiniteSet(V)
    <3>1. lab.assets \in Seq(AssetsOf(AssetIds))
      BY DEF Drawn, Labs
    <3>2. DOMAIN lab.assets = 1..Len(lab.assets) /\ Len(lab.assets) \in Nat
      BY <3>1
    <3>3. IsFiniteSet(1..Len(lab.assets))
      BY <3>2, FS_Interval
    <3>4. V \subseteq 1..Len(lab.assets)
      BY <3>2
    <3> QED
      BY <3>3, <3>4, FS_Subset
  <2> HIDE DEF V
  <2>3. \A W : W = {i \in DOMAIN lab.assets : IsValve(lab.assets[i])} /\ IsFiniteSet(W) =>
          /\ Cardinality(Topology!pressures(lab)) = Len(lab.assets) + Cardinality(W)
          /\ Cardinality(Topology!edges(lab)) = Len(lab.pipes) + Cardinality(W)
    BY <2>1, NodesCounted, EdgesCounted
  <2> QED
    BY <2>2, <2>3 DEF V
<1>5. Topology!CloneIsIndependent
  <2> SUFFICES ASSUME Eligible(lab)
               PROVE  /\ Topology!run_eligible(c)
                      /\ Topology!pressures(c) = {Up(n) : n \in Topology!pressures(lab)}
                      /\ Topology!edges(c) = {UpEdge(e) : e \in Topology!edges(lab)}
                      /\ \A i \in DOMAIN lab.sensors :
                           Topology!sensor_targets(c, c.sensors[i]) =
                             {Up(n) : n \in Topology!sensor_targets(lab, lab.sensors[i])}
    BY <1>1 DEF Topology!CloneIsIndependent, Up, UpEdge
  <2>1. PICK x : x = c
    OBVIOUS
  <2> HIDE DEF c
  <2>2. x = Topology!clone_lab_definition(lab)
    BY <2>1 DEF c
  <2>3. Eligible(x)
    BY <2>2, CloneEligible
  <2>4. Topology!run_eligible(x)
    <3>1. PICK L, M : Drawn(x, L, M, FreshIds)
      BY <2>2, CloneElements
    <3> QED
      BY <2>3, <3>1, EligibleMeans
  <2>5. Topology!pressures(x) = {Up(n) : n \in Topology!pressures(lab)}
    BY <2>2, ClonePressures
  <2>6. Topology!edges(x) = {UpEdge(e) : e \in Topology!edges(lab)}
    BY <2>2, CloneEdges
  <2>7. \A i \in DOMAIN lab.sensors :
          Topology!sensor_targets(x, x.sensors[i]) =
            {Up(n) : n \in Topology!sensor_targets(lab, lab.sensors[i])}
    BY <2>2, <2>3, CloneSensors
  <2> QED
    BY <2>1, <2>4, <2>5, <2>6, <2>7
<1> QED
  BY <1>2, <1>3, <1>4, <1>5 DEF EligibleLabRuns, Topology!EligibleLabRuns

(* What the editor draws, however long it goes on: its references need not   *)
(* resolve.                                                                  *)
THEOREM EligibleAlwaysRuns == Topology!Spec => []EligibleLabRuns
<1> DEFINE D == Drawn(lab, AssetIds, PipeIds, SensorIds)
<1>1. Topology!Init => D
  BY DEF Topology!Init, Drawn, Labs
<1>2. /\ Topology!Asset = AssetsOf(AssetIds)
      /\ Topology!Pipe \subseteq PipesOf(AssetIds, PipeIds)
      /\ Topology!SensorDef = SensorsOf(AssetIds, PipeIds, SensorIds)
  BY DEF Topology!Asset, Topology!Pipe, Topology!SensorDef, Topology!PortRef, AssetsOf, PipesOf,
         SensorsOf, Refs
<1>3. ASSUME D, [Topology!Next]_Topology!vars PROVE D'
  <2>1. /\ lab \in Labs(AssetIds, PipeIds, SensorIds)
        /\ lab.assets \in Seq(AssetsOf(AssetIds))
        /\ lab.pipes \in Seq(PipesOf(AssetIds, PipeIds))
        /\ lab.sensors \in Seq(SensorsOf(AssetIds, PipeIds, SensorIds))
    BY <1>3 DEF Drawn, Labs
  <2>2. CASE Topology!AddAsset
    <3>1. PICK a \in AssetsOf(AssetIds) : lab' = [lab EXCEPT !.assets = Append(@, a)]
      BY <1>2, <2>2 DEF Topology!AddAsset
    <3>2. Append(lab.assets, a) \in Seq(AssetsOf(AssetIds))
      BY <2>1
    <3> QED
      BY <2>1, <3>1, <3>2 DEF Drawn, Labs
  <2>3. CASE Topology!AddPipe
    <3>1. PICK p \in PipesOf(AssetIds, PipeIds) : lab' = [lab EXCEPT !.pipes = Append(@, p)]
      BY <1>2, <2>3 DEF Topology!AddPipe
    <3>2. Append(lab.pipes, p) \in Seq(PipesOf(AssetIds, PipeIds))
      BY <2>1
    <3> QED
      BY <2>1, <3>1, <3>2 DEF Drawn, Labs
  <2>4. CASE Topology!AddSensor
    <3>1. PICK s \in SensorsOf(AssetIds, PipeIds, SensorIds) :
            lab' = [lab EXCEPT !.sensors = Append(@, s)]
      BY <1>2, <2>4 DEF Topology!AddSensor
    <3>2. Append(lab.sensors, s) \in Seq(SensorsOf(AssetIds, PipeIds, SensorIds))
      BY <2>1
    <3> QED
      BY <2>1, <3>1, <3>2 DEF Drawn, Labs
  <2>5. CASE UNCHANGED Topology!vars
    BY <1>3, <2>5 DEF Topology!vars, Drawn, Labs
  <2> QED
    BY <1>3, <2>2, <2>3, <2>4, <2>5 DEF Topology!Next
<1>4. D => EligibleLabRuns
  BY DrawnRuns
<1> QED
  BY <1>1, <1>3, <1>4, PTL DEF Topology!Spec
================================================================================
