-------------------------- MODULE AnalyticsProofs --------------------------
(***************************************************************************)
(* Proofs about Analytics, for any number of events, any channel and any   *)
(* latencies.                                                              *)
(***************************************************************************)
EXTENDS Analytics, FiniteSetTheorems, FunctionTheorems, SequenceTheorems, WellFoundedInduction,
        TLAPS

Aggregators == {Fed, Served}

Aggregate == [total : Nat, hits : Nat, misses : Nat, zeros : Nat, zeroQueries : Nat,
              latencies : Seq(Nat)]

CollectorType ==
    /\ tracked \in 0 .. MaxEvents
    /\ buffer \in Seq(Events)
    /\ loop \in {"select", "publish", "drain", "drainPublish", "done"}
    /\ held \in 0 .. MaxEvents
    /\ process \in {"up", "signalled", "closed", "exited", "panicked"}
    /\ early \subseteq 1 .. tracked
    /\ dropped \subseteq Events
    /\ failed \subseteq Events
    /\ topic \in Seq(Events)
    /\ owner \in Aggregators

RecordType ==
    /\ position \in 0 .. Len(topic)
    /\ record \in {"fetch", "cache", "zero", "lock"}
    /\ record # "fetch" => position # 0
    /\ counters \in [Aggregators -> Aggregate]

StatsType ==
    stats \in [at : {"idle", "hits", "misses", "zeros", "rest", "done"},
               of : Aggregators, read : Aggregate]

-----------------------------------------------------------------------------
\* The goroutine holds an event while it publishes it.
HeldInv == loop \in {"publish", "drainPublish"} <=> held # 0

\* Where an event of the time before the signal can be.
EarlyInv ==
    /\ process # "panicked" =>
           early \subseteq ToSet(buffer) \union {held} \union ToSet(topic) \union failed
    /\ loop \in {"drain", "drainPublish", "done"} => process # "up"
    /\ loop = "done" => early \intersect ToSet(buffer) = {}
    /\ DrainCoversSignal

\* The fed Aggregator has counted the events whose latency it has, and the one
\* that is being recorded as far as recordSearchEvent has come.
RecordInv ==
    LET c == counters[Fed]
        n == Len(c.latencies)
    IN /\ c.total = n + One(record # "fetch")
       /\ c.hits + c.misses = n + One(record \in {"zero", "lock"})
       /\ c.zeros = c.zeroQueries + One(record = "lock" /\ Event \in ZeroEvents)
       /\ counters[Served] = NewAggregator

\* What a Stats that holds the lock has read is at most one event off the
\* latencies, which stay as they are until it has read them too.
SnapshotInv ==
    LET s == stats.read
        c == counters[stats.of]
        n == Len(c.latencies)
    IN /\ stats.at \notin {"idle", "done"} => s.total \in {n, n + 1}
       /\ stats.at = "misses" => s.hits <= c.hits /\ s.hits + c.misses \in {n, n + 1}
       /\ stats.at \in {"zeros", "rest"} => s.hits + s.misses \in {n, n + 1}
       /\ stats.at = "rest" => s.zeros \in {c.zeroQueries, c.zeroQueries + 1}
       /\ SnapshotSkew

CollectorInv == CollectorType /\ HeldInv /\ NoSilentLoss /\ EarlyInv
AggregatorInv == CollectorType /\ RecordType /\ StatsType /\ RecordInv /\ SnapshotInv

-----------------------------------------------------------------------------
\* Sending, receiving and what a sequence holds.
LEMMA ToSetAppend ==
    ASSUME NEW S, NEW a \in Seq(S), NEW e \in S
    PROVE  Append(a, e) \in Seq(S) /\ ToSet(Append(a, e)) = ToSet(a) \union {e}
<1>1. /\ Append(a, e) \in Seq(S) /\ Len(Append(a, e)) = Len(a) + 1 /\ Len(a) \in Nat
      /\ Append(a, e)[Len(a) + 1] = e
      /\ \A i \in 1 .. Len(a) : Append(a, e)[i] = a[i]
  OBVIOUS
<1>2. DOMAIN a = 1 .. Len(a) /\ DOMAIN Append(a, e) = 1 .. Len(a) + 1
  BY <1>1
<1>3. QED
  BY <1>1, <1>2 DEF ToSet

LEMMA ToSetTail ==
    ASSUME NEW S, NEW a \in Seq(S), a # <<>>
    PROVE  /\ Head(a) \in S /\ Tail(a) \in Seq(S)
           /\ ToSet(a) = {Head(a)} \union ToSet(Tail(a))
<1>1. /\ Tail(a) \in Seq(S) /\ Len(a) \in Nat /\ Len(a) >= 1 /\ Len(Tail(a)) = Len(a) - 1
      /\ Head(a) = a[1]
      /\ \A i \in 1 .. Len(a) - 1 : Tail(a)[i] = a[i + 1]
  OBVIOUS
<1>2. DOMAIN a = 1 .. Len(a) /\ DOMAIN Tail(a) = 1 .. Len(a) - 1
  BY <1>1
<1>3. \A i \in DOMAIN a : i = 1 \/ (i - 1 \in DOMAIN Tail(a) /\ a[i] = Tail(a)[i - 1])
  BY <1>1, <1>2
<1>4. ToSet(a) \subseteq {Head(a)} \union ToSet(Tail(a))
  BY <1>1, <1>3 DEF ToSet
<1>5. \A i \in DOMAIN Tail(a) : i + 1 \in DOMAIN a /\ Tail(a)[i] = a[i + 1]
  BY <1>1, <1>2
<1>6. {Head(a)} \union ToSet(Tail(a)) \subseteq ToSet(a)
  BY <1>1, <1>2, <1>5 DEF ToSet
<1>7. QED
  BY <1>1, <1>4, <1>6

LEMMA ToSetType ==
    ASSUME NEW S, NEW a \in Seq(S)
    PROVE  ToSet(a) \subseteq S /\ (a = <<>> => ToSet(a) = {}) /\ (a # <<>> => ToSet(a) # {})
<1>1. DOMAIN a = 1 .. Len(a) /\ Len(a) \in Nat /\ \A i \in 1 .. Len(a) : a[i] \in S
  OBVIOUS
<1>2. a = <<>> => DOMAIN a = {}
  OBVIOUS
<1>3. a # <<>> => 1 \in DOMAIN a
  BY <1>1
<1>4. QED
  BY <1>1, <1>2, <1>3 DEF ToSet

\* The writer's second attempt leaves the message twice.
LEMMA ToSetTwice ==
    ASSUME NEW S, NEW a \in Seq(S), NEW e \in S
    PROVE  a \o <<e, e>> \in Seq(S) /\ ToSet(a \o <<e, e>>) = ToSet(a) \union {e}
           /\ Len(a \o <<e, e>>) = Len(a) + 2
           /\ \A i \in 1 .. Len(a) : (a \o <<e, e>>)[i] = a[i]
<1>1. Append(Append(a, e), e) = a \o <<e, e>>
  OBVIOUS
<1>2. Append(a, e) \in Seq(S) /\ ToSet(Append(a, e)) = ToSet(a) \union {e}
  BY ToSetAppend
<1>3. /\ Append(Append(a, e), e) \in Seq(S)
      /\ ToSet(Append(Append(a, e), e)) = ToSet(a) \union {e}
  <2>1. \A b \in Seq(S) : Append(b, e) \in Seq(S) /\ ToSet(Append(b, e)) = ToSet(b) \union {e}
    BY ToSetAppend
  <2>2. QED
    BY ONLY <1>2, <2>1, Zenon
<1>4. /\ Len(a \o <<e, e>>) = Len(a) + 2
      /\ \A i \in 1 .. Len(a) : (a \o <<e, e>>)[i] = a[i]
  <2>1. <<e, e>> \in Seq(S) /\ Len(<<e, e>>) = 2
    OBVIOUS
  <2>2. QED
    BY <2>1, ConcatProperties
<1>5. QED
  BY <1>1, <1>3, <1>4

-----------------------------------------------------------------------------
\* The collector has nothing at first.
LEMMA CollectorInit == Init => CollectorInv
<1> SUFFICES ASSUME Init PROVE CollectorInv
  OBVIOUS
<1>1. <<>> \in Seq(Events) /\ ToSet(<<>>) = {}
  BY ToSetType, EmptySeq
<1>2. CollectorType
  BY <1>1, AnalyticsAssumption DEF Init, CollectorType, Aggregators
<1>3. HeldInv /\ EarlyInv /\ NoSilentLoss
  BY <1>1 DEF Init, HeldInv, EarlyInv, NoSilentLoss, DrainCoversSignal
<1>4. QED
  BY <1>2, <1>3 DEF CollectorInv

\* The collector's steps keep its types.
LEMMA CollectorTypeNext == CollectorType /\ HeldInv /\ [Next]_vars => CollectorType'
<1> SUFFICES ASSUME CollectorType, HeldInv, [Next]_vars PROVE CollectorType'
  OBVIOUS
<1> USE AnalyticsAssumption DEF kafka
<1>1. CASE Track
  <2>1. tracked' \in Events /\ tracked' = tracked + 1
    BY <1>1 DEF Track, CollectorType, Events
  <2>2. Append(buffer, tracked') \in Seq(Events)
    BY <2>1, ToSetAppend DEF CollectorType
  <2>3. buffer' \in Seq(Events)
    BY <1>1, <2>2 DEF Track, CollectorType
  <2>4. early' \subseteq 1 .. tracked' /\ dropped' \subseteq Events
    <3>1. 1 .. tracked \subseteq 1 .. tracked' /\ tracked' \in 1 .. tracked'
      BY <2>1 DEF CollectorType
    <3>2. early' \subseteq early \union {tracked'} /\ dropped' \subseteq dropped \union {tracked'}
      BY <1>1 DEF Track
    <3>3. QED
      BY <2>1, <3>1, <3>2 DEF CollectorType
  <2>5. process' \in {"up", "signalled", "closed", "exited", "panicked"}
    BY <1>1 DEF Track, CollectorType
  <2>6. UNCHANGED <<loop, held, failed, topic, owner>>
    BY <1>1 DEF Track
  <2>7. QED
    BY <2>1, <2>3, <2>4, <2>5, <2>6 DEF CollectorType, Events
<1>2. CASE Receive
  <2>1. Head(buffer) \in Events /\ Tail(buffer) \in Seq(Events)
    BY <1>2, ToSetTail DEF Receive, CollectorType
  <2>2. QED
    BY <1>2, <2>1 DEF Receive, CollectorType, Events
<1>3. CASE Publish
  <2>1. held \in Events
    BY <1>3 DEF Publish, CollectorType, HeldInv, Events
  <2>2. topic' \in Seq(Events)
    <3>1. topic \in Seq(Events)
      BY DEF CollectorType
    <3>2. Append(topic, held) \in Seq(Events) /\ topic \o <<held, held>> \in Seq(Events)
      BY <2>1, <3>1, ToSetAppend, ToSetTwice
    <3>3. topic' \in {topic, Append(topic, held), topic \o <<held, held>>}
      BY <1>3 DEF Publish
    <3>4. QED
      BY <3>1, <3>2, <3>3
  <2>3. /\ failed' \subseteq Events /\ held' = 0
        /\ loop' \in {"select", "publish", "drain", "drainPublish", "done"}
    BY <1>3, <2>1 DEF Publish, CollectorType
  <2>4. UNCHANGED <<tracked, buffer, process, early, dropped, owner>>
    BY <1>3 DEF Publish
  <2>5. QED
    BY <2>2, <2>3, <2>4 DEF CollectorType
<1>4. CASE StopSelect \/ DrainEnds \/ Signal \/ Close \/ Exit
  BY <1>4 DEF StopSelect, DrainEnds, Signal, Close, Exit, CollectorType
<1>5. CASE UNCHANGED <<collector, kafka>>
  BY <1>5 DEF collector, CollectorType
<1>6. CASE ConsumerStep \/ StatsStep \/ (\E a \in {Fed, Served} : ReadTotal(a)) \/ UNCHANGED vars
  <2>1. UNCHANGED <<collector, kafka>>
    BY <1>6 DEF ConsumerStep, RecordTotal, RecordCache, RecordZero, RecordQuery, StatsStep,
       ReadHits, ReadMisses, ReadZeros, ReadRest, ReadTotal, ReadField, vars
  <2>2. QED
    BY <1>5, <2>1
<1>7. QED
  BY <1>1, <1>2, <1>3, <1>4, <1>6 DEF Next, CollectorStep

\* An event is somewhere, and one of the time before the signal is not left in
\* the channel by a goroutine that has ended.
LEMMA CollectorNext == CollectorInv /\ [Next]_vars => CollectorInv'
<1> SUFFICES ASSUME CollectorInv, [Next]_vars PROVE CollectorInv'
  OBVIOUS
<1>0. CollectorType /\ HeldInv /\ NoSilentLoss /\ EarlyInv
  BY DEF CollectorInv
<1>t. CollectorType'
  BY <1>0, CollectorTypeNext
<1> USE <1>0, AnalyticsAssumption DEF kafka
<1> SUFFICES HeldInv' /\ NoSilentLoss' /\ EarlyInv'
  BY <1>t DEF CollectorInv
<1>1. CASE Track
  <2>1. tracked' = tracked + 1 /\ tracked \in Nat /\ tracked' \in Events
    BY <1>1 DEF Track, CollectorType, Events
  <2>2. 1 .. tracked' = (1 .. tracked) \union {tracked'} /\ tracked' \notin early
    BY <2>1 DEF CollectorType
  <2>3. Running /\ UNCHANGED <<loop, held, failed, topic>>
    BY <1>1 DEF Track
  <2>4. HeldInv'
    BY <2>3 DEF HeldInv
  <2>5. CASE process # "closed" /\ ~Full
    <3>1. /\ buffer' = Append(buffer, tracked') /\ UNCHANGED <<process, dropped>>
          /\ early' = IF process = "up" THEN early \union {tracked'} ELSE early
      BY <1>1, <2>5 DEF Track
    <3>2. ToSet(buffer') = ToSet(buffer) \union {tracked'}
      BY <2>1, <3>1, ToSetAppend DEF CollectorType
    <3>3. NoSilentLoss'
      BY <2>2, <2>3, <3>1, <3>2 DEF NoSilentLoss, Running
    <3>4. EarlyInv'
      BY <2>2, <2>3, <3>1, <3>2 DEF EarlyInv, DrainCoversSignal, Running
    <3>5. QED
      BY <2>4, <3>3, <3>4
  <2>6. CASE process # "closed" /\ Full
    <3>1. dropped' = dropped \union {tracked'} /\ UNCHANGED <<process, buffer, early>>
      BY <1>1, <2>6 DEF Track
    <3>2. NoSilentLoss'
      BY <2>2, <2>3, <3>1 DEF NoSilentLoss, Running
    <3>3. QED
      BY <2>3, <2>4, <3>1, <3>2 DEF EarlyInv, DrainCoversSignal
  <2>7. CASE process = "closed"
    <3>1. process' = "panicked" /\ UNCHANGED <<buffer, early, dropped>>
      BY <1>1, <2>7 DEF Track
    <3>2. QED
      BY <2>3, <2>4, <3>1 DEF NoSilentLoss, Running, EarlyInv, DrainCoversSignal
  <2>8. QED
    BY <2>5, <2>6, <2>7
<1>2. CASE Receive
  <2>1. /\ buffer # <<>> /\ held' = Head(buffer) /\ buffer' = Tail(buffer) /\ Running
        /\ loop \in {"select", "drain"}
        /\ loop' = IF loop = "select" THEN "publish" ELSE "drainPublish"
        /\ UNCHANGED <<tracked, process, early, dropped, failed, topic>>
    BY <1>2 DEF Receive
  <2>2. ToSet(buffer) = {held'} \union ToSet(buffer') /\ held' \in Events /\ held = 0
    BY <2>1, ToSetTail DEF CollectorType, HeldInv
  <2>3. held' # 0
    BY <2>2 DEF Events
  <2>4. HeldInv' /\ NoSilentLoss'
    BY <2>1, <2>2, <2>3 DEF HeldInv, NoSilentLoss, Running
  <2>5. 0 \notin early
    BY DEF CollectorType
  <2>6. EarlyInv'
    BY <2>1, <2>2, <2>5 DEF EarlyInv, DrainCoversSignal, Running
  <2>7. QED
    BY <2>4, <2>6
<1>3. CASE Publish
  <2>1. /\ Running /\ held' = 0 /\ loop \in {"publish", "drainPublish"}
        /\ loop' = IF loop = "publish" THEN "select" ELSE "drain"
        /\ UNCHANGED <<tracked, buffer, process, early, dropped>>
    BY <1>3 DEF Publish
  <2>2. held \in Events
    BY <2>1 DEF CollectorType, HeldInv, Events
  <2>3. ToSet(topic') \union failed' = ToSet(topic) \union failed \union {held}
    <3>1. /\ ToSet(Append(topic, held)) = ToSet(topic) \union {held}
          /\ ToSet(topic \o <<held, held>>) = ToSet(topic) \union {held}
      <4>1. topic \in Seq(Events)
        BY DEF CollectorType
      <4>2. QED
        BY <2>2, <4>1, ToSetAppend, ToSetTwice
    <3>2. \/ topic' \in {Append(topic, held), topic \o <<held, held>>} /\ failed' = failed
          \/ topic' = topic /\ failed' = failed \union {held}
      BY <1>3 DEF Publish
    <3>3. QED
      BY <3>1, <3>2
  <2>4. HeldInv' /\ NoSilentLoss'
    BY <2>1, <2>2, <2>3 DEF HeldInv, NoSilentLoss, Running
  <2>5. EarlyInv'
    BY <2>1, <2>2, <2>3 DEF EarlyInv, DrainCoversSignal, Running
  <2>6. QED
    BY <2>4, <2>5
<1>4. CASE StopSelect \/ DrainEnds
  <2>1. /\ Running /\ loop \in {"select", "drain"} /\ loop' \in {"drain", "done"}
        /\ (loop' = "done" => buffer = <<>>) /\ (loop = "select" => process # "up")
        /\ UNCHANGED <<tracked, buffer, held, process, early, dropped, failed, topic>>
    BY <1>4 DEF StopSelect, DrainEnds, Running
  <2>2. loop' = "done" => ToSet(buffer) = {}
    BY <2>1, ToSetType DEF CollectorType
  <2>3. QED
    BY <2>1, <2>2 DEF HeldInv, NoSilentLoss, Running, EarlyInv, DrainCoversSignal
<1>5. CASE Signal \/ Close
  BY <1>5 DEF Signal, Close, HeldInv, NoSilentLoss, Running, EarlyInv, DrainCoversSignal
<1>6. CASE Exit
  <2>1. held = 0 /\ 0 \notin early /\ loop = "done"
    BY <1>6 DEF Exit, HeldInv, CollectorType
  <2>2. early \subseteq ToSet(topic) \union failed
    BY <1>6, <2>1 DEF Exit, EarlyInv
  <2>3. QED
    BY <1>6, <2>2 DEF Exit, HeldInv, NoSilentLoss, Running, EarlyInv, DrainCoversSignal
<1>7. CASE UNCHANGED <<collector, kafka>>
  BY <1>7 DEF collector, HeldInv, NoSilentLoss, Running, EarlyInv, DrainCoversSignal
<1>8. CASE ConsumerStep \/ StatsStep \/ (\E a \in {Fed, Served} : ReadTotal(a)) \/ UNCHANGED vars
  <2>1. UNCHANGED <<collector, kafka>>
    BY <1>8 DEF ConsumerStep, RecordTotal, RecordCache, RecordZero, RecordQuery, StatsStep,
       ReadHits, ReadMisses, ReadZeros, ReadRest, ReadTotal, ReadField, vars
  <2>2. QED
    BY <1>7, <2>1
<1>9. QED
  BY <1>1, <1>2, <1>3, <1>4, <1>5, <1>6, <1>8 DEF Next, CollectorStep

\* No event vanishes between Track and the topic without a trace in the log,
\* unless the send on the closed channel ends the process.
THEOREM EventsAreAccounted == Spec => []NoSilentLoss
<1>1. CollectorInv => NoSilentLoss
  BY DEF CollectorInv
<1>2. QED
  BY <1>1, CollectorInit, CollectorNext, PTL DEF Spec

\* Close has waited for a goroutine that drained the channel: whatever was sent
\* before the signal was published or its failure logged.
THEOREM DrainIsComplete == Spec => []DrainCoversSignal
<1>1. CollectorInv => DrainCoversSignal
  BY DEF CollectorInv, EarlyInv
<1>2. QED
  BY <1>1, CollectorInit, CollectorNext, PTL DEF Spec

-----------------------------------------------------------------------------
\* The partition only grows, so the event that is being recorded stays in place.
LEMMA TopicGrows ==
    ASSUME CollectorType, HeldInv, [Next]_vars
    PROVE  /\ Len(topic) \in Nat /\ Len(topic') \in Nat /\ Len(topic) <= Len(topic')
           /\ \A i \in 1 .. Len(topic) : topic'[i] = topic[i]
<1> USE AnalyticsAssumption
<1>0. topic \in Seq(Events) /\ Len(topic) \in Nat
  BY DEF CollectorType
<1>1. CASE Publish
  <2>1. held \in Events
    BY <1>1 DEF Publish, CollectorType, HeldInv, Events
  <2>2. topic' \in {topic, Append(topic, held), topic \o <<held, held>>}
    BY <1>1 DEF Publish
  <2>3. /\ Len(Append(topic, held)) = Len(topic) + 1
        /\ \A i \in 1 .. Len(topic) : Append(topic, held)[i] = topic[i]
    BY <1>0, <2>1
  <2>4. /\ Len(topic \o <<held, held>>) = Len(topic) + 2
        /\ \A i \in 1 .. Len(topic) : (topic \o <<held, held>>)[i] = topic[i]
    BY <1>0, <2>1, ToSetTwice
  <2>5. CASE topic' = topic
    BY <1>0, <2>5
  <2>6. CASE topic' = Append(topic, held)
    BY <1>0, <2>3, <2>6
  <2>7. CASE topic' = topic \o <<held, held>>
    BY <1>0, <2>4, <2>7
  <2>8. QED
    BY <2>2, <2>5, <2>6, <2>7
<1>2. CASE UNCHANGED topic
  BY <1>0, <1>2
<1>3. CASE ~Publish
  <2>1. UNCHANGED topic
    BY <1>3 DEF Next, CollectorStep, Track, Receive, StopSelect, DrainEnds, Signal, Close, Exit,
       ConsumerStep, RecordTotal, RecordCache, RecordZero, RecordQuery, StatsStep, ReadHits,
       ReadMisses, ReadZeros, ReadRest, ReadTotal, ReadField, vars, kafka
  <2>2. QED
    BY <1>2, <2>1
<1>4. QED
  BY <1>1, <1>3

\* What the steps of recordSearchEvent do to the fed Aggregator, field by field.
LEMMA CountFacts ==
    ASSUME RecordType
    PROVE  LET c == counters[Fed] IN
           /\ \A n \in Nat :
                  /\ Count("total", n) => counters'[Fed] = [c EXCEPT !.total = c.total + n]
                  /\ Count("hits", n) => counters'[Fed] = [c EXCEPT !.hits = c.hits + n]
                  /\ Count("misses", n) => counters'[Fed] = [c EXCEPT !.misses = c.misses + n]
                  /\ Count("zeros", n) => counters'[Fed] = [c EXCEPT !.zeros = c.zeros + n]
           /\ RecordQuery =>
                  counters'[Fed] = [c EXCEPT !.latencies = Append(c.latencies, Latency[Event]),
                                             !.zeroQueries = c.zeroQueries + One(Event \in ZeroEvents)]
           /\ ConsumerStep => /\ counters' = [counters EXCEPT ![Fed] = counters'[Fed]]
                              /\ counters'[Served] = counters[Served]
<1> USE DEF RecordType, Aggregators, Fed, Served
<1>1. ASSUME NEW n \in Nat
      PROVE  LET c == counters[Fed] IN
             /\ Count("total", n) => counters'[Fed] = [c EXCEPT !.total = c.total + n]
             /\ Count("hits", n) => counters'[Fed] = [c EXCEPT !.hits = c.hits + n]
             /\ Count("misses", n) => counters'[Fed] = [c EXCEPT !.misses = c.misses + n]
             /\ Count("zeros", n) => counters'[Fed] = [c EXCEPT !.zeros = c.zeros + n]
  BY DEF Count
<1>2. ASSUME RecordQuery
      PROVE  LET c == counters[Fed] IN
             counters'[Fed] = [c EXCEPT !.latencies = Append(c.latencies, Latency[Event]),
                                        !.zeroQueries = c.zeroQueries + One(Event \in ZeroEvents)]
  BY <1>2 DEF RecordQuery, Aggregate
<1>3. ASSUME ConsumerStep
      PROVE  /\ counters' = [counters EXCEPT ![Fed] = counters'[Fed]]
             /\ counters'[Served] = counters[Served]
  BY <1>3 DEF ConsumerStep, RecordTotal, RecordCache, RecordZero, RecordQuery, Count
<1>4. QED
  BY <1>1, <1>2, <1>3

\* Nothing has been recorded or read at first.
LEMMA AggregatorInit == Init => AggregatorInv
<1> SUFFICES ASSUME Init PROVE AggregatorInv
  OBVIOUS
<1>1. CollectorType
  BY CollectorInit DEF CollectorInv
<1>2. <<>> \in Seq(Nat) /\ Len(<<>>) = 0
  BY EmptySeq
<1>3. NewAggregator \in Aggregate
  BY <1>2 DEF NewAggregator, Aggregate
<1>4. RecordType /\ StatsType
  BY <1>3 DEF Init, RecordType, StatsType, Idle, Aggregators, CollectorType
<1>5. RecordInv
  BY <1>2 DEF Init, RecordInv, One, NewAggregator, Fed, Served
<1>6. SnapshotInv
  BY DEF Init, SnapshotInv, SnapshotSkew, Idle
<1>7. QED
  BY <1>1, <1>4, <1>5, <1>6 DEF AggregatorInv

\* A step of recordSearchEvent.  What matters is the fed Aggregator before and
\* after it, and that the latencies and queries change under the lock only.
LEMMA RecordNext ==
    ASSUME AggregatorInv, ConsumerStep
    PROVE  /\ RecordType' /\ RecordInv'
           /\ LET c == counters[Fed]
                  d == counters'[Fed]
              IN /\ \/ d.latencies = c.latencies /\ d.zeroQueries = c.zeroQueries
                    \/ ~StatsHoldsLock(Fed)
                 /\ c.hits <= d.hits /\ c.misses <= d.misses
                 /\ c.misses # d.misses =>
                        c.hits + c.misses = Len(c.latencies) /\ d.misses = c.misses + 1
<1> DEFINE c == counters[Fed]
           d == counters'[Fed]
           n == Len(c.latencies)
<1>0. CollectorType /\ RecordType /\ RecordInv
  BY DEF AggregatorInv
<1>1. /\ c.total \in Nat /\ c.hits \in Nat /\ c.misses \in Nat /\ c.zeros \in Nat
      /\ c.zeroQueries \in Nat /\ c.latencies \in Seq(Nat) /\ n \in Nat /\ c \in Aggregate
  BY <1>0 DEF RecordType, Aggregate, Aggregators
<1>2. /\ c.total = n + One(record # "fetch")
      /\ c.hits + c.misses = n + One(record \in {"zero", "lock"})
      /\ c.zeros = c.zeroQueries + One(record = "lock" /\ Event \in ZeroEvents)
      /\ counters[Served] = NewAggregator
  BY <1>0 DEF RecordInv
<1>3. /\ counters' = [counters EXCEPT ![Fed] = d] /\ counters'[Served] = counters[Served]
  BY <1>0, CountFacts
<1>4. ASSUME d \in Aggregate, position' \in 0 .. Len(topic'), record' # "fetch" => position' # 0,
             record' \in {"fetch", "cache", "zero", "lock"}
      PROVE  RecordType'
  BY <1>0, <1>3, <1>4 DEF RecordType, Aggregators
<1>5. ASSUME d.total = Len(d.latencies) + One(record' # "fetch"),
             d.hits + d.misses = Len(d.latencies) + One(record' \in {"zero", "lock"}),
             d.zeros = d.zeroQueries + One(record' = "lock" /\ Event' \in ZeroEvents)
      PROVE  RecordInv'
  BY <1>2, <1>3, <1>5 DEF RecordInv
<1>6. Len(topic) \in Nat
  BY <1>0 DEF CollectorType
<1> USE <1>1
<1> HIDE DEF c, d, n
<1>7. CASE RecordTotal
  <2>1. /\ record = "fetch" /\ record' = "cache" /\ position' = position + 1
        /\ position < Len(topic) /\ UNCHANGED topic /\ Count("total", 1)
    BY <1>7 DEF RecordTotal, Available, kafka
  <2>2. d = [c EXCEPT !.total = c.total + 1]
    BY <1>0, <2>1, CountFacts DEF c, d
  <2>3. /\ d \in Aggregate /\ d.total = c.total + 1 /\ d.latencies = c.latencies
        /\ d.zeroQueries = c.zeroQueries /\ d.hits = c.hits /\ d.misses = c.misses
        /\ d.zeros = c.zeros
    BY <2>2 DEF Aggregate
  <2>4. RecordType'
    BY <1>0, <1>4, <1>6, <2>1, <2>3 DEF RecordType
  <2>5. RecordInv'
    BY <1>2, <1>5, <2>1, <2>3 DEF One, n
  <2>6. QED
    BY <2>3, <2>4, <2>5 DEF c, d
<1>8. CASE RecordCache
  <2>1. /\ record = "cache" /\ record' = "zero" /\ UNCHANGED <<position, topic>>
        /\ Count("hits", 1) \/ Count("misses", 1)
    BY <1>8 DEF RecordCache, kafka
  <2>2. d = [c EXCEPT !.hits = c.hits + 1] \/ d = [c EXCEPT !.misses = c.misses + 1]
    BY <1>0, <2>1, CountFacts DEF c, d
  <2>3. /\ d \in Aggregate /\ d.total = c.total /\ d.latencies = c.latencies
        /\ d.zeroQueries = c.zeroQueries /\ d.hits + d.misses = c.hits + c.misses + 1
        /\ d.zeros = c.zeros /\ c.hits <= d.hits /\ d.misses \in {c.misses, c.misses + 1}
    <3>1. CASE d = [c EXCEPT !.hits = c.hits + 1]
      <4> DEFINE h == c.hits + 1
      <4>1. h \in Nat /\ d = [c EXCEPT !.hits = h]
        BY <3>1
      <4> HIDE DEF h
      <4>2. /\ d \in Aggregate /\ d.total = c.total /\ d.latencies = c.latencies
            /\ d.zeroQueries = c.zeroQueries /\ d.hits = h
            /\ d.misses = c.misses /\ d.zeros = c.zeros
        BY <4>1 DEF Aggregate
      <4>3. h + c.misses = c.hits + c.misses + 1 /\ c.hits <= h
        BY DEF h
      <4>4. QED
        BY <4>2, <4>3
    <3>2. CASE d = [c EXCEPT !.misses = c.misses + 1]
      <4> DEFINE m == c.misses + 1
      <4>1. m \in Nat /\ d = [c EXCEPT !.misses = m]
        BY <3>2
      <4> HIDE DEF m
      <4>2. /\ d \in Aggregate /\ d.total = c.total /\ d.latencies = c.latencies
            /\ d.zeroQueries = c.zeroQueries /\ d.hits = c.hits
            /\ d.misses = m /\ d.zeros = c.zeros
        BY <4>1 DEF Aggregate
      <4>3. c.hits + m = c.hits + c.misses + 1 /\ c.hits <= c.hits /\ m \in {c.misses, c.misses + 1}
        BY DEF m
      <4>4. QED
        BY <4>2, <4>3
    <3>3. QED
      BY <2>2, <3>1, <3>2
  <2>4. RecordType'
    BY <1>0, <1>4, <1>6, <2>1, <2>3 DEF RecordType
  <2>5. RecordInv'
    BY <1>2, <1>5, <2>1, <2>3 DEF One, n
  <2>6. c.hits + c.misses = Len(c.latencies)
    BY <1>2, <2>1 DEF One, n
  <2>7. QED
    BY <2>3, <2>4, <2>5, <2>6 DEF c, d
<1>9. CASE RecordZero
  <2> DEFINE z == One(Event \in ZeroEvents)
  <2>1. /\ record = "zero" /\ record' = "lock" /\ UNCHANGED <<position, topic>>
        /\ Count("zeros", z) /\ z \in Nat
    BY <1>9 DEF RecordZero, kafka, One
  <2>2. d = [c EXCEPT !.zeros = c.zeros + z]
    BY <1>0, <2>1, CountFacts DEF c, d
  <2>3. /\ d \in Aggregate /\ d.total = c.total /\ d.latencies = c.latencies
        /\ d.zeroQueries = c.zeroQueries /\ d.hits = c.hits /\ d.misses = c.misses
        /\ d.zeros = c.zeros + z
    <3> HIDE DEF z
    <3>1. c.zeros + z \in Nat
      BY <2>1
    <3>2. QED
      BY <2>2, <3>1 DEF Aggregate
  <2>4. RecordType'
    BY <1>0, <1>4, <1>6, <2>1, <2>3 DEF RecordType
  <2>5. RecordInv'
    BY <1>2, <1>5, <2>1, <2>3 DEF One, n, Event
  <2>6. QED
    BY <2>3, <2>4, <2>5 DEF c, d
<1>10. CASE RecordQuery
  <2> DEFINE z == One(Event \in ZeroEvents)
  <2>1. /\ record = "lock" /\ record' = "fetch" /\ UNCHANGED <<position, topic>>
        /\ ~StatsHoldsLock(Fed) /\ z \in Nat
    BY <1>10 DEF RecordQuery, kafka, One
  <2>2. d = [c EXCEPT !.latencies = Append(c.latencies, Latency[Event]),
                      !.zeroQueries = c.zeroQueries + z]
    BY <1>0, <1>10, CountFacts DEF c, d
  <2>3. Latency[Event] \in Nat
    <3>1. Event \in Events
      BY <1>0, <2>1 DEF Event, RecordType, CollectorType
    <3>2. QED
      BY <3>1, AnalyticsAssumption
  <2>4. /\ d \in Aggregate /\ d.total = c.total /\ d.latencies = Append(c.latencies, Latency[Event])
        /\ d.zeroQueries = c.zeroQueries + z /\ d.hits = c.hits /\ d.misses = c.misses
        /\ d.zeros = c.zeros
    <3> DEFINE l == Append(c.latencies, Latency[Event])
               q == c.zeroQueries + z
    <3>1. l \in Seq(Nat)
      BY <2>3
    <3>2. q \in Nat
      BY <2>1
    <3>3. d = [c EXCEPT !.latencies = l, !.zeroQueries = q]
      BY <2>2
    <3> HIDE DEF l, q
    <3>4. /\ d \in Aggregate /\ d.total = c.total /\ d.latencies = l /\ d.zeroQueries = q
          /\ d.hits = c.hits /\ d.misses = c.misses /\ d.zeros = c.zeros
      BY <3>1, <3>2, <3>3 DEF Aggregate
    <3>5. QED
      BY <3>4 DEF l, q
  <2>5. Len(d.latencies) = n + 1
    BY <2>3, <2>4 DEF n
  <2>6. RecordType'
    BY <1>0, <1>4, <1>6, <2>1, <2>4 DEF RecordType
  <2>7. c.zeros = c.zeroQueries + z
    BY <1>2, <2>1 DEF One
  <2>8. RecordInv'
    <3>1. /\ d.total = Len(d.latencies) + One(record' # "fetch")
          /\ d.hits + d.misses = Len(d.latencies) + One(record' \in {"zero", "lock"})
      BY <1>2, <2>1, <2>4, <2>5 DEF One
    <3>2. d.zeros = d.zeroQueries + One(record' = "lock" /\ Event' \in ZeroEvents)
      BY <2>1, <2>4, <2>7 DEF One
    <3>3. QED
      BY <1>5, <3>1, <3>2
  <2>9. QED
    BY <2>1, <2>4, <2>6, <2>8 DEF c, d
<1>11. QED
  BY <1>7, <1>8, <1>9, <1>10 DEF ConsumerStep

\* A snapshot stays at most one event off while the recorder goes on.
LEMMA SnapshotUnderRecord ==
    ASSUME AggregatorInv, ConsumerStep
    PROVE  StatsType' /\ SnapshotInv'
<1> DEFINE s == stats.read
           c == counters[stats.of]
           d == counters'[stats.of]
           n == Len(c.latencies)
<1>0. RecordType /\ StatsType /\ RecordInv /\ SnapshotInv /\ stats' = stats
  BY DEF AggregatorInv, ConsumerStep, RecordTotal, RecordCache, RecordZero, RecordQuery
<1>1. StatsType'
  BY <1>0 DEF StatsType
<1>2. CASE stats.at \in {"idle", "done"}
  BY <1>0, <1>1, <1>2 DEF SnapshotInv, SnapshotSkew
<1>3. CASE stats.at \notin {"idle", "done"}
  <2>1. /\ c.hits \in Nat /\ c.misses \in Nat /\ c.latencies \in Seq(Nat) /\ n \in Nat
        /\ s.hits \in Nat /\ s.misses \in Nat /\ stats.of \in {Fed, Served}
    <3>1. stats.of \in Aggregators /\ s \in Aggregate
      BY <1>0 DEF StatsType
    <3>2. c \in Aggregate
      BY <1>0, <3>1 DEF RecordType
    <3> HIDE DEF s, c
    <3>3. /\ c.hits \in Nat /\ c.misses \in Nat /\ c.latencies \in Seq(Nat)
          /\ s.hits \in Nat /\ s.misses \in Nat
      BY <3>1, <3>2 DEF Aggregate
    <3>4. Len(c.latencies) \in Nat
      BY <3>3
    <3>5. QED
      BY <3>1, <3>3, <3>4 DEF Aggregators
  <2>2. /\ d.latencies = c.latencies /\ d.zeroQueries = c.zeroQueries
        /\ c.hits <= d.hits /\ c.misses <= d.misses /\ d.misses \in Nat
        /\ c.misses # d.misses => c.hits + c.misses = n /\ d.misses = c.misses + 1
    <3>1. CASE stats.of = Served
      <4>1. d = c
        BY <1>0, <3>1, CountFacts
      <4>2. QED
        BY <2>1, <4>1
    <3>2. CASE stats.of = Fed
      <4>1. StatsHoldsLock(Fed)
        BY <1>3, <3>2 DEF StatsHoldsLock
      <4>2. /\ d.latencies = c.latencies /\ d.zeroQueries = c.zeroQueries
            /\ c.hits <= d.hits /\ c.misses <= d.misses
            /\ c.misses # d.misses => c.hits + c.misses = n /\ d.misses = c.misses + 1
        BY <3>2, <4>1, RecordNext
      <4>3. QED
        BY <2>1, <4>2
    <3>3. QED
      BY <2>1, <3>1, <3>2
  <2>3. /\ s.total \in {n, n + 1}
        /\ stats.at = "misses" => s.hits <= c.hits /\ s.hits + c.misses \in {n, n + 1}
        /\ stats.at \in {"zeros", "rest"} => s.hits + s.misses \in {n, n + 1}
        /\ stats.at = "rest" => s.zeros \in {c.zeroQueries, c.zeroQueries + 1}
    BY <1>0, <1>3 DEF SnapshotInv
  <2> HIDE DEF s, c, d, n
  <2>4. ASSUME stats.at = "misses"
        PROVE  s.hits <= d.hits /\ s.hits + d.misses \in {n, n + 1}
    <3>1. d.hits \in Nat
      BY <1>0, RecordNext DEF d, RecordType, Aggregate, Aggregators, StatsType
    <3>2. s.hits <= c.hits /\ s.hits + c.misses \in {n, n + 1}
      BY <2>3, <2>4
    <3>3. c.misses # d.misses => c.hits + c.misses = n /\ d.misses = c.misses + 1
      BY <2>2
    <3>4. /\ s.hits \in Nat /\ c.hits \in Nat /\ d.hits \in Nat /\ c.misses \in Nat
          /\ d.misses \in Nat /\ n \in Nat /\ c.hits <= d.hits
      BY <2>1, <2>2, <3>1
    <3>5. QED
      BY ONLY <3>2, <3>3, <3>4
  <2>5. SnapshotInv'
    BY <1>0, <1>3, <2>2, <2>3, <2>4 DEF SnapshotInv, SnapshotSkew, s, c, d, n
  <2>6. QED
    BY <1>1, <2>5
<1>4. QED
  BY <1>2, <1>3

\* A read of Stats.
LEMMA SnapshotUnderStats ==
    ASSUME AggregatorInv, StatsStep \/ (\E a \in {Fed, Served} : ReadTotal(a))
    PROVE  StatsType' /\ SnapshotInv'
<1>0. RecordType /\ StatsType /\ RecordInv /\ SnapshotInv
  BY DEF AggregatorInv
<1>c. counters' = counters
  BY DEF StatsStep, ReadTotal, ReadHits, ReadMisses, ReadZeros, ReadRest, ReadField, aggregator
<1>1. ASSUME NEW a \in {Fed, Served}
      PROVE  LET c == counters[a]
                 n == Len(c.latencies)
             IN /\ c \in Aggregate /\ n \in Nat
                /\ c.total \in {n, n + 1}
                /\ c.hits + c.misses \in {n, n + 1}
                /\ c.zeros \in {c.zeroQueries, c.zeroQueries + 1}
  <2>1. counters[a] \in Aggregate /\ Len(counters[a].latencies) \in Nat
    BY <1>0 DEF RecordType, Aggregate, Aggregators
  <2>2. CASE a = Fed
    <3> DEFINE c == counters[a]
               n == Len(c.latencies)
    <3>1. /\ c.total = n + One(record # "fetch")
          /\ c.hits + c.misses = n + One(record \in {"zero", "lock"})
          /\ c.zeros = c.zeroQueries + One(record = "lock" /\ Event \in ZeroEvents)
      BY <1>0, <2>2 DEF RecordInv
    <3>2. \A condition : One(condition) \in {0, 1}
      BY DEF One
    <3>3. c.zeroQueries \in Nat
      BY <2>1 DEF Aggregate
    <3> HIDE DEF c
    <3>4. /\ c.total \in {n, n + 1} /\ c.hits + c.misses \in {n, n + 1}
          /\ c.zeros \in {c.zeroQueries, c.zeroQueries + 1}
      BY <2>1, <3>1, <3>2, <3>3 DEF c
    <3>5. QED
      BY <2>1, <3>4 DEF c
  <2>3. CASE a = Served
    <3>1. counters[a] = NewAggregator /\ Len(<<>>) = 0
      BY <1>0, <2>3 DEF RecordInv
    <3>2. QED
      BY <2>1, <3>1 DEF NewAggregator
  <2>4. QED
    BY <2>2, <2>3
<1>2. ASSUME NEW a \in {Fed, Served}, ReadTotal(a) PROVE StatsType' /\ SnapshotInv'
  <2> DEFINE c == counters[a]
  <2>1. /\ c \in Aggregate /\ Len(c.latencies) \in Nat
        /\ c.total \in {Len(c.latencies), Len(c.latencies) + 1}
    BY <1>1
  <2>2. stats' = [at |-> "hits", of |-> a, read |-> [NewAggregator EXCEPT !.total = c.total]]
    BY <1>2 DEF ReadTotal
  <2>3. <<>> \in Seq(Nat)
    BY EmptySeq
  <2>4. /\ stats'.at = "hits" /\ stats'.of = a /\ stats'.read.total = c.total
        /\ stats'.read \in Aggregate
    BY <2>1, <2>2, <2>3 DEF NewAggregator, Aggregate
  <2>5. StatsType'
    BY <2>2, <2>4 DEF StatsType, Aggregators
  <2>6. SnapshotInv'
    BY <1>c, <2>1, <2>4 DEF SnapshotInv, SnapshotSkew
  <2>7. QED
    BY <2>5, <2>6
<1> DEFINE s == stats.read
           c == counters[stats.of]
           n == Len(c.latencies)
<1>3. /\ c \in Aggregate /\ n \in Nat
      /\ c.hits + c.misses \in {n, n + 1}
      /\ c.zeros \in {c.zeroQueries, c.zeroQueries + 1}
      /\ s \in Aggregate /\ stats.of \in Aggregators
  BY <1>0, <1>1 DEF StatsType, Aggregators
<1>4. /\ stats.at \notin {"idle", "done"} => s.total \in {n, n + 1}
      /\ stats.at = "misses" => s.hits <= c.hits /\ s.hits + c.misses \in {n, n + 1}
      /\ stats.at \in {"zeros", "rest"} => s.hits + s.misses \in {n, n + 1}
      /\ stats.at = "rest" => s.zeros \in {c.zeroQueries, c.zeroQueries + 1}
  BY <1>0 DEF SnapshotInv
<1>5. CASE ReadHits
  <2>1. stats.at = "hits" /\ stats' = [stats EXCEPT !.at = "misses", !.read.hits = c.hits]
    BY <1>5 DEF ReadHits, ReadField
  <2>2. /\ stats'.at = "misses" /\ stats'.of = stats.of /\ stats'.read = [s EXCEPT !.hits = c.hits]
        /\ StatsType'
    BY <1>0, <1>3, <2>1 DEF StatsType, Aggregate
  <2>3. stats'.read.hits = c.hits /\ stats'.read.total = s.total
    BY <1>3, <2>2 DEF Aggregate
  <2>4. c.hits \in Nat /\ s.total \in {n, n + 1}
    BY <1>3, <1>4, <2>1 DEF Aggregate
  <2>5. SnapshotInv'
    BY <1>c, <1>3, <2>2, <2>3, <2>4 DEF SnapshotInv, SnapshotSkew
  <2>6. QED
    BY <2>2, <2>5
<1>6. CASE ReadMisses
  <2>1. stats.at = "misses" /\ stats' = [stats EXCEPT !.at = "zeros", !.read.misses = c.misses]
    BY <1>6 DEF ReadMisses, ReadField
  <2>2. /\ stats'.at = "zeros" /\ stats'.of = stats.of
        /\ stats'.read = [s EXCEPT !.misses = c.misses] /\ StatsType'
    BY <1>0, <1>3, <2>1 DEF StatsType, Aggregate
  <2>3. /\ stats'.read.hits = s.hits /\ stats'.read.total = s.total
        /\ stats'.read.misses = c.misses
    BY <1>3, <2>2 DEF Aggregate
  <2>4. SnapshotInv'
    BY <1>c, <1>3, <1>4, <2>1, <2>2, <2>3 DEF SnapshotInv, SnapshotSkew
  <2>5. QED
    BY <2>2, <2>4
<1>7. CASE ReadZeros
  <2>1. stats.at = "zeros" /\ stats' = [stats EXCEPT !.at = "rest", !.read.zeros = c.zeros]
    BY <1>7 DEF ReadZeros, ReadField
  <2>2. /\ stats'.at = "rest" /\ stats'.of = stats.of
        /\ stats'.read = [s EXCEPT !.zeros = c.zeros] /\ StatsType'
    BY <1>0, <1>3, <2>1 DEF StatsType, Aggregate
  <2>3. /\ stats'.read.hits = s.hits /\ stats'.read.total = s.total
        /\ stats'.read.misses = s.misses /\ stats'.read.zeros = c.zeros
    BY <1>3, <2>2 DEF Aggregate
  <2>4. SnapshotInv'
    BY <1>c, <1>3, <1>4, <2>1, <2>2, <2>3 DEF SnapshotInv, SnapshotSkew
  <2>5. QED
    BY <2>2, <2>4
<1>8. CASE ReadRest
  <2>1. /\ stats.at = "rest"
        /\ stats' = [stats EXCEPT !.at = "done", !.read.zeroQueries = c.zeroQueries,
                                  !.read.latencies = c.latencies]
    BY <1>8 DEF ReadRest
  <2>2. /\ stats'.at = "done" /\ stats'.of = stats.of
        /\ stats'.read = [s EXCEPT !.zeroQueries = c.zeroQueries, !.latencies = c.latencies]
        /\ StatsType'
    BY <1>0, <1>3, <2>1 DEF StatsType, Aggregate
  <2>3. /\ stats'.read.hits = s.hits /\ stats'.read.total = s.total
        /\ stats'.read.misses = s.misses /\ stats'.read.zeros = s.zeros
        /\ stats'.read.zeroQueries = c.zeroQueries /\ stats'.read.latencies = c.latencies
    BY <1>3, <2>2 DEF Aggregate
  <2>4. SnapshotInv'
    BY <1>c, <1>3, <1>4, <2>1, <2>2, <2>3 DEF SnapshotInv, SnapshotSkew
  <2>5. QED
    BY <2>2, <2>4
<1>9. QED
  BY <1>2, <1>5, <1>6, <1>7, <1>8 DEF StatsStep

\* Every step keeps the Aggregators and the snapshot in order.
LEMMA AggregatorNext == AggregatorInv /\ HeldInv /\ [Next]_vars => AggregatorInv'
<1> SUFFICES ASSUME AggregatorInv, HeldInv, [Next]_vars PROVE AggregatorInv'
  OBVIOUS
<1>0. CollectorType /\ RecordType /\ StatsType /\ RecordInv /\ SnapshotInv
  BY DEF AggregatorInv
<1>1. CollectorType'
  BY <1>0, CollectorTypeNext
<1>2. CASE ConsumerStep
  BY <1>1, <1>2, RecordNext, SnapshotUnderRecord DEF AggregatorInv
<1>3. CASE StatsStep \/ (\E a \in {Fed, Served} : ReadTotal(a))
  <2>1. UNCHANGED <<topic, aggregator>>
    BY <1>3 DEF StatsStep, ReadTotal, ReadHits, ReadMisses, ReadZeros, ReadRest, ReadField, kafka
  <2>2. RecordType' /\ RecordInv'
    BY <1>0, <2>1 DEF aggregator, RecordType, RecordInv, Event
  <2>3. QED
    BY <1>1, <1>3, <2>2, SnapshotUnderStats DEF AggregatorInv
<1>4. CASE UNCHANGED <<aggregator, stats>>
  <2>1. /\ Len(topic) \in Nat /\ Len(topic') \in Nat /\ Len(topic) <= Len(topic')
        /\ \A i \in 1 .. Len(topic) : topic'[i] = topic[i]
    BY <1>0, TopicGrows
  <2>2. position' = position /\ record' = record /\ counters' = counters /\ stats' = stats
    BY <1>4 DEF aggregator
  <2>3. RecordType' /\ StatsType'
    BY <1>0, <2>1, <2>2 DEF RecordType, StatsType
  <2>4. record = "lock" => Event' = Event
    BY <1>0, <2>1, <2>2 DEF RecordType, Event
  <2>5. RecordInv'
    BY <1>0, <2>2, <2>4 DEF RecordInv, One
  <2>6. SnapshotInv'
    BY <1>0, <2>2 DEF SnapshotInv, SnapshotSkew
  <2>7. QED
    BY <1>1, <2>3, <2>5, <2>6 DEF AggregatorInv
<1>5. CASE Track \/ CollectorStep \/ Signal \/ Close \/ Exit \/ UNCHANGED vars
  <2>1. UNCHANGED <<aggregator, stats>>
    BY <1>5 DEF Track, CollectorStep, Receive, Publish, StopSelect, DrainEnds, Signal, Close,
       Exit, vars
  <2>2. QED
    BY <1>4, <2>1
<1>6. QED
  BY <1>2, <1>3, <1>5 DEF Next

\* The Aggregators and what Stats has read of them, in every reachable state.
LEMMA AggregatorAlways == Spec => []AggregatorInv
<1>1. Init => CollectorInv /\ AggregatorInv
  BY CollectorInit, AggregatorInit
<1>2. CollectorInv /\ AggregatorInv /\ [Next]_vars => (CollectorInv /\ AggregatorInv)'
  BY CollectorNext, AggregatorNext DEF CollectorInv
<1>3. QED
  BY <1>1, <1>2, PTL DEF Spec

\* One answer of Stats mixes at most the event that is being recorded with those
\* before it, although it reads the counters one by one.
THEOREM SnapshotsSkewByOne == Spec => []SnapshotSkew
<1>1. AggregatorInv => SnapshotSkew
  BY DEF AggregatorInv, SnapshotInv
<1>2. QED
  BY <1>1, AggregatorAlways, PTL

-----------------------------------------------------------------------------
\* A set of naturals that is not empty has a least element.
LEMMA Least ==
    ASSUME NEW T, T \subseteq Nat, T # {}
    PROVE  \E x \in T : \A y \in T : x <= y
<1> DEFINE R == {ss \in Nat \X Nat : ss[1] < ss[2]}
<1>1. IsWellFoundedOn(R, Nat)
  BY NatLessThanWellFounded DEF OpToRel
<1> HIDE DEF R
<1>2. PICK x \in T : \A y \in T : ~(<<y, x>> \in R)
  BY <1>1, WFMin
<1>3. \A i, j \in Nat : i < j => <<i, j>> \in R
  BY DEF R
<1>4. ASSUME NEW y \in T PROVE x <= y
  <2>1. x \in Nat /\ y \in Nat /\ ~(y < x)
    BY <1>2, <1>3
  <2>2. QED
    BY <2>1
<1> QED BY <1>4

\* Induction over the naturals, stated for a set.
LEMMA SetInduction ==
    ASSUME NEW S, 0 \in S, \A n \in Nat : n \in S => n + 1 \in S
    PROVE  Nat \subseteq S
<1> DEFINE T == Nat \ S
<1> SUFFICES ASSUME T # {} PROVE FALSE
  OBVIOUS
<1>1. T \subseteq Nat
  OBVIOUS
<1>2. PICK x \in T : \A y \in T : x <= y
  <2> HIDE DEF T
  <2> QED BY <1>1, Least
<1>3. x \in Nat /\ x # 0 /\ x - 1 \in Nat /\ (x - 1) + 1 = x /\ ~(x <= x - 1)
  OBVIOUS
<1>4. x - 1 \in T
  BY <1>3
<1> HIDE DEF T
<1>5. QED
  BY <1>2, <1>3, <1>4

\* p lists the values of f so that they do not decrease.
Sorts(p, f, n) ==
    /\ p \in [1 .. n -> 1 .. n]
    /\ \A w \in 1 .. n : \E v \in 1 .. n : p[v] = w
    /\ \A i, j \in 1 .. n : i < j => f[p[i]] <= f[p[j]]

\* One more value: the least one comes first, then the others as before.
LEMMA SortsOneMore ==
    ASSUME NEW n \in Nat, NEW f \in [1 .. n + 1 -> Nat],
           \A g \in [1 .. n -> Nat] : \E p : Sorts(p, g, n)
    PROVE  \E p : Sorts(p, f, n + 1)
<1>1. PICK m \in 1 .. n + 1 : \A i \in 1 .. n + 1 : f[m] <= f[i]
  <2> DEFINE T == {f[i] : i \in 1 .. n + 1}
  <2>1. T \subseteq Nat /\ f[1] \in T
    OBVIOUS
  <2>2. PICK x \in T : \A y \in T : x <= y
    <3> HIDE DEF T
    <3> QED BY <2>1, Least
  <2>3. QED
    BY <2>2
<1> DEFINE skip(i) == IF i < m THEN i ELSE i + 1
           g == [i \in 1 .. n |-> f[skip(i)]]
<1>2. g \in [1 .. n -> Nat]
  OBVIOUS
<1>3. PICK q : Sorts(q, g, n)
  BY <1>2
<1>4. q \in [1 .. n -> 1 .. n] /\ \A w \in 1 .. n : \E v \in 1 .. n : q[v] = w
  BY <1>3 DEF Sorts
<1>5. \A i, j \in 1 .. n : i < j => f[skip(q[i])] <= f[skip(q[j])]
  <2>1. \A i, j \in 1 .. n : i < j => g[q[i]] <= g[q[j]]
    BY <1>3 DEF Sorts
  <2>2. QED
    BY <2>1, <1>4
<1> DEFINE p == [i \in 1 .. n + 1 |-> IF i = 1 THEN m ELSE skip(q[i - 1])]
<1>6. \A i \in 1 .. n + 1 : i # 1 => i - 1 \in 1 .. n
  OBVIOUS
<1>7. \A i \in 1 .. n : skip(i) \in 1 .. n + 1
  OBVIOUS
<1>8. p \in [1 .. n + 1 -> 1 .. n + 1]
  BY <1>4, <1>6, <1>7
<1>9. ASSUME NEW w \in 1 .. n + 1 PROVE \E v \in 1 .. n + 1 : p[v] = w
  <2>1. CASE w = m
    <3>1. 1 \in 1 .. n + 1 /\ p[1] = w
      BY <2>1
    <3>2. QED
      BY <3>1
  <2>2. CASE w # m
    <3>1. PICK i \in 1 .. n : skip(i) = w
      <4>1. CASE w < m
        <5>1. w \in 1 .. n /\ skip(w) = w
          BY <4>1
        <5>2. QED
          BY <5>1
      <4>2. CASE w > m
        <5>1. w - 1 \in 1 .. n /\ skip(w - 1) = w
          BY <4>2
        <5>2. QED
          BY <5>1
      <4>3. QED
        BY <2>2, <4>1, <4>2
    <3>2. PICK v \in 1 .. n : q[v] = i
      BY <1>4
    <3>3. v + 1 \in 1 .. n + 1 /\ v + 1 # 1 /\ (v + 1) - 1 = v
      OBVIOUS
    <3>4. p[v + 1] = w
      BY <3>1, <3>2, <3>3
    <3>5. QED
      BY <3>3, <3>4
  <2>3. QED
    BY <2>1, <2>2
<1>10. ASSUME NEW i \in 1 .. n + 1, NEW j \in 1 .. n + 1, i < j
       PROVE  f[p[i]] <= f[p[j]]
  <2>1. p[j] \in 1 .. n + 1
    BY <1>8
  <2>2. CASE i = 1
    BY <1>1, <2>1, <2>2
  <2>3. CASE i # 1
    <3>1. i - 1 \in 1 .. n /\ j - 1 \in 1 .. n /\ i - 1 < j - 1 /\ j # 1
      BY <1>10, <2>3
    <3>2. p[i] = skip(q[i - 1]) /\ p[j] = skip(q[j - 1])
      BY <2>3, <3>1
    <3> HIDE DEF p, skip
    <3>3. QED
      BY <1>5, <3>1, <3>2
  <2>4. QED
    BY <2>2, <2>3
<1> HIDE DEF p
<1>11. QED
  BY <1>8, <1>9, <1>10 DEF Sorts

\* Values can always be sorted.
LEMMA SortsExist ==
    ASSUME NEW n \in Nat, NEW f \in [1 .. n -> Nat]
    PROVE  \E p : Sorts(p, f, n)
<1> DEFINE S == {k \in Nat : \A g \in [1 .. k -> Nat] : \E p : Sorts(p, g, k)}
<1>1. 0 \in S
  <2>1. ASSUME NEW g \in [1 .. 0 -> Nat] PROVE \E p : Sorts(p, g, 0)
    <3> DEFINE p == [i \in 1 .. 0 |-> i]
    <3>1. 1 .. 0 = {}
      OBVIOUS
    <3>2. Sorts(p, g, 0)
      BY <3>1 DEF Sorts
    <3>3. QED
      BY <3>2
  <2>2. QED
    BY <2>1
<1>2. ASSUME NEW k \in Nat, k \in S PROVE k + 1 \in S
  <2>1. \A g \in [1 .. k -> Nat] : \E p : Sorts(p, g, k)
    BY <1>2
  <2>2. \A g \in [1 .. k + 1 -> Nat] : \E p : Sorts(p, g, k + 1)
    BY <2>1, SortsOneMore
  <2>3. QED
    BY <2>2
<1>3. Nat \subseteq S
  <2> HIDE DEF S
  <2> QED BY <1>1, <1>2, SetInduction
<1>4. n \in S
  BY <1>3
<1>5. QED
  BY <1>4

\* What Sorted returns: its argument in another order, which is not decreasing.
LEMMA SortedFacts ==
    ASSUME NEW l \in Seq(Nat)
    PROVE  \E p \in Bijection(1 .. Len(l), 1 .. Len(l)) :
               /\ Sorted(l) = [i \in 1 .. Len(l) |-> l[p[i]]]
               /\ \A i, j \in 1 .. Len(l) : i < j => l[p[i]] <= l[p[j]]
<1> DEFINE n == Len(l)
           D == 1 .. n
           B == Bijection(D, D)
           ok(p) == \A i, j \in D : i < j => l[p[i]] <= l[p[j]]
<1>1. n \in Nat /\ DOMAIN l = D /\ l \in [D -> Nat]
  OBVIOUS
<1>2. PICK q : Sorts(q, l, n)
  <2> HIDE DEF n
  <2> QED BY <1>1, SortsExist
<1>3. ok(q) /\ q \in [D -> D] /\ \A w \in D : \E v \in D : q[v] = w
  BY <1>2 DEF Sorts
<1>4. q \in B
  <2>1. q \in Surjection(D, D)
    BY <1>3 DEF Surjection
  <2>2. IsFiniteSet(D)
    BY <1>1, FS_Interval
  <2>3. q \in Injection(D, D)
    BY <2>1, <2>2, FS_SurjSameCardinalityImpliesInj
  <2>4. QED
    BY <2>1, <2>3 DEF Bijection
<1> DEFINE o == CHOOSE p \in B : ok(p)
<1>5. o \in B /\ ok(o)
  <2> HIDE DEF ok, B
  <2> QED BY <1>3, <1>4
<1>6. Sorted(l) = [i \in D |-> l[o[i]]]
  BY <1>1 DEF Sorted
<1> HIDE DEF o
<1>7. QED
  BY <1>5, <1>6

\* Fewer than k of the values lie below v, and at least k do not lie above it.
HasRank(l, v, k) ==
    /\ Cardinality({i \in DOMAIN l : l[i] < v}) \in 0 .. k - 1
    /\ Cardinality({i \in DOMAIN l : l[i] <= v}) \in Nat
    /\ Cardinality({i \in DOMAIN l : l[i] <= v}) >= k

\* The k-th of the sorted values has rank k.
LEMMA SortedRank ==
    ASSUME NEW l \in Seq(Nat), NEW k \in 1 .. Len(l)
    PROVE  HasRank(l, Sorted(l)[k], k)
<1> DEFINE n == Len(l)
           D == 1 .. n
<1>1. n \in Nat /\ DOMAIN l = D /\ l \in [D -> Nat] /\ k \in D
  OBVIOUS
<1>2. PICK p \in Bijection(D, D) :
          /\ Sorted(l) = [i \in D |-> l[p[i]]]
          /\ \A i, j \in D : i < j => l[p[i]] <= l[p[j]]
  BY SortedFacts
<1>3. /\ p \in [D -> D]
      /\ \A w \in D : \E j \in D : p[j] = w
      /\ \A i, j \in D : p[i] = p[j] => i = j
  <2>1. p \in Bijection(D, D)
    BY <1>2
  <2> HIDE DEF D
  <2>2. QED
    BY <2>1, Fun_BijectionProperties
<1> DEFINE v == Sorted(l)[k]
           Below == {i \in D : l[i] < v}
           Upto == {i \in D : l[i] <= v}
           First == {p[j] : j \in 1 .. k}
           Before == {p[j] : j \in 1 .. k - 1}
<1>4. v = l[p[k]] /\ v \in Nat
  <2>1. Sorted(l) = [i \in D |-> l[p[i]]]
    BY <1>2
  <2> HIDE DEF D
  <2>2. v = l[p[k]]
    BY <1>1, <2>1
  <2> HIDE DEF v
  <2>3. QED
    BY <1>1, <1>3, <2>2
<1>5. IsFiniteSet(D)
  BY <1>1, FS_Interval
<1>6. IsFiniteSet(Below) /\ IsFiniteSet(Upto)
  BY <1>5, FS_Subset
<1>7. Below \subseteq Before
  <2>1. ASSUME NEW i \in D, l[i] < v PROVE i \in Before
    <3>1. PICK j \in D : p[j] = i
      BY <1>3
    <3>2. l[p[j]] \in Nat /\ l[p[k]] \in Nat /\ l[p[j]] < l[p[k]]
      BY <1>1, <1>4, <2>1, <3>1
    <3>3. ~(k < j) /\ j # k
      BY <1>1, <1>2, <3>2
    <3>4. j \in 1 .. k - 1
      BY <3>3
    <3>5. QED
      BY <3>1, <3>4
  <2>2. QED
    BY <2>1
<1>8. First \subseteq Upto
  <2>1. ASSUME NEW j \in 1 .. k PROVE p[j] \in Upto
    <3>0. j \in D /\ (j = k \/ j < k)
      BY <1>1
    <3>1. j \in D /\ p[j] \in D /\ (j = k \/ j < k)
      BY <1>3, <3>0
    <3>2. l[p[j]] <= l[p[k]]
      BY <1>1, <1>2, <1>4, <3>1
    <3>3. QED
      BY <1>4, <3>1, <3>2
  <2>2. QED
    BY <2>1
<1>9. Cardinality(Below) \in 0 .. k - 1
  <2> DEFINE f == [j \in 1 .. k - 1 |-> p[j]]
  <2>1. f \in Surjection(1 .. k - 1, Before)
    BY DEF Surjection
  <2>2. k - 1 \in Nat /\ IsFiniteSet(1 .. k - 1) /\ Cardinality(1 .. k - 1) = k - 1
    BY FS_Interval
  <2> HIDE DEF f, Before, Below
  <2>3. IsFiniteSet(Before) /\ Cardinality(Before) <= k - 1
    BY <2>1, <2>2, FS_Surjection
  <2>4. Cardinality(Below) <= Cardinality(Before) /\ Cardinality(Before) \in Nat
        /\ Cardinality(Below) \in Nat
    BY <1>6, <1>7, <2>3, FS_Subset, FS_CardinalityType
  <2>5. QED
    BY <2>2, <2>3, <2>4
<1>10. Cardinality(Upto) \in Nat /\ Cardinality(Upto) >= k
  <2> DEFINE f == [j \in 1 .. k |-> p[j]]
  <2>1. f \in Surjection(1 .. k, First)
    BY DEF Surjection
  <2>2. f \in Injection(1 .. k, First)
    <3>1. \A i, j \in 1 .. k : f[i] = f[j] => i = j
      <4>1. \A i \in 1 .. k : i \in D /\ f[i] = p[i]
        BY <1>1
      <4> HIDE DEF f, D
      <4>2. QED
        BY <1>3, <4>1
    <3>2. f \in [1 .. k -> First]
      OBVIOUS
    <3> HIDE DEF f, First
    <3>3. QED
      BY <3>1, <3>2, Fun_IsInj
  <2>3. ExistsBijection(1 .. k, First)
    <3> HIDE DEF f, First
    <3> QED BY <2>1, <2>2 DEF Bijection, ExistsBijection
  <2> HIDE DEF f, First, Upto
  <2>4. Cardinality(First) = k
    BY <2>3, FS_CountingElements
  <2>5. Cardinality(First) <= Cardinality(Upto) /\ Cardinality(Upto) \in Nat
    BY <1>6, <1>8, FS_Subset, FS_CardinalityType
  <2>6. QED
    BY <2>4, <2>5
<1>11. QED
  BY <1>1, <1>9, <1>10 DEF HasRank

\* An index from zero into n values, where pct per cent of them end.
Divides(k, n, pct) == k \in 0 .. n - 1 /\ 100 * k <= pct * n /\ 100 * (k + 1) >= pct * n

\* percentile's index is in the slice and stands for the rank it is named for.
LEMMA IndexFacts ==
    ASSUME NEW n \in Nat \ {0}, NEW pct \in {50, 95, 99}
    PROVE  Divides(Index(n, pct), n, pct)
<1> DEFINE d == (pct * n) \div 100
<1>1. /\ d \in Nat /\ 100 * d <= pct * n /\ 100 * (d + 1) >= pct * n
      /\ pct * n \in Nat /\ pct * n <= 100 * n
  OBVIOUS
<1>2. Index(n, pct) \in {d, n - 1} /\ Index(n, pct) <= d /\ Index(n, pct) <= n - 1
  <2> HIDE DEF d
  <2>1. PICK x \in {d, n - 1} : \A y \in {d, n - 1} : x <= y
    BY <1>1
  <2>2. QED
    BY <2>1 DEF Index, Min, d
<1> HIDE DEF d
<1>3. QED
  BY <1>1, <1>2 DEF Divides

\* What Stats reports as a percentile of the latencies it read is one, whatever
\* the latencies and however many: the sorting, the integer division and the
\* correction of an index past the end of percentile leave no more than pct per
\* cent of them below the value, and at least pct per cent at it or below.
THEOREM PercentilesAreRanks == Spec => []PercentileRanks
<1>1. AggregatorInv => PercentileRanks
  <2> SUFFICES ASSUME AggregatorInv, stats.read.latencies # <<>>, NEW pct \in {50, 95, 99}
               PROVE  LET l == stats.read.latencies
                          p == Percentile(l, pct)
                      IN /\ 100 * Cardinality({i \in DOMAIN l : l[i] < p}) <= pct * Len(l)
                         /\ 100 * Cardinality({i \in DOMAIN l : l[i] <= p}) >= pct * Len(l)
    BY DEF PercentileRanks
  <2> DEFINE l == stats.read.latencies
             n == Len(l)
             k == Index(n, pct)
             p == Percentile(l, pct)
             below == Cardinality({i \in DOMAIN l : l[i] < p})
             upto == Cardinality({i \in DOMAIN l : l[i] <= p})
  <2>1. l \in Seq(Nat)
    BY DEF AggregatorInv, StatsType, Aggregate
  <2>2. n \in Nat \ {0}
    BY <2>1
  <2> HIDE DEF l, n
  <2>3. k \in 0 .. n - 1 /\ 100 * k <= pct * n /\ 100 * (k + 1) >= pct * n
    <3>1. Divides(k, n, pct)
      BY <2>2, IndexFacts
    <3>2. QED
      BY <3>1 DEF Divides
  <2>4. k + 1 \in 1 .. n /\ p = Sorted(l)[k + 1]
    BY <2>2, <2>3 DEF Percentile, n
  <2> HIDE DEF k, p
  <2>5. below \in 0 .. (k + 1) - 1 /\ upto \in Nat /\ upto >= k + 1
    <3> DEFINE r == k + 1
    <3>1. r \in 1 .. Len(l) /\ p = Sorted(l)[r]
      BY <2>4 DEF n
    <3> HIDE DEF r
    <3>2. below \in 0 .. r - 1 /\ upto \in Nat /\ upto >= r
      <4>1. HasRank(l, p, r)
        BY <2>1, <3>1, SortedRank
      <4>2. QED
        BY <4>1 DEF HasRank
    <3>3. QED
      BY <3>2 DEF r
  <2> HIDE DEF below, upto
  <2>6. 100 * below <= pct * n /\ 100 * upto >= pct * n
    BY <2>2, <2>3, <2>5
  <2>7. QED
    BY <2>6 DEF below, upto, n, l, p
<1>2. QED
  BY <1>1, AggregatorAlways, PTL
=============================================================================
