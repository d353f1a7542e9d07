----------------------------- MODULE Analytics -----------------------------
(***************************************************************************)
(* Search analytics, from the search handler's Track to the statistics:    *)
(* the searcher's Collector with its bounded channel and its shutdown,     *)
(* the Kafka topic, the consumer that feeds an Aggregator, and a caller    *)
(* of Stats.                                                               *)
(*                                                                         *)
(* Events are numbered in the order in which they are tracked.  Of an      *)
(* event only what the aggregator looks at is kept: whether it was a cache *)
(* hit, whether it had no results, its latency.                            *)
(***************************************************************************)
EXTENDS Naturals, Sequences, FiniteSets, SequencesExt

CONSTANTS
    MaxEvents,    \* bound: searches whose handler reaches Track
    BufferSize,   \* capacity of eventCh
    MaxFaults,    \* bound: writes to Kafka that fail or are repeated
    HitEvents,    \* events with CacheHit
    ZeroEvents,   \* events with TotalHits = 0
    Latency       \* LatencyMs of an event

Events == 1..MaxEvents

ASSUME AnalyticsAssumption ==
    /\ MaxEvents \in Nat
    /\ BufferSize \in Nat \ {0}
    /\ MaxFaults \in Nat
    /\ HitEvents \subseteq Events
    /\ ZeroEvents \subseteq Events
    /\ Latency \in [Events -> Nat]

VARIABLES
    tracked,     \* number of events that were tracked
    buffer,      \* eventCh
    loop,        \* where the collector's goroutine is
    held,        \* the event it publishes
    process,     \* the searcher's main
    early,       \* history: events put in the channel before the signal
    dropped,     \* history: events Track dropped
    failed,      \* history: events whose Publish failed
    topic,       \* the partition of key "analytics"
    owner,       \* the group member the partition is assigned to
    position,    \* messages the consumer has fetched
    record,      \* where recordSearchEvent is
    counters,    \* the two Aggregators that main creates
    stats,       \* where Stats is and what it has read
    faults

collector == <<tracked, buffer, loop, held, process, early, dropped, failed>>
kafka == <<topic, owner, faults>>
aggregator == <<position, record, counters>>
vars == <<collector, kafka, aggregator, stats>>

\* main builds an Aggregator for the consumer's handler and then another one,
\* which it starts and serves.  Each Aggregator got a reader of the group, the
\* first one with no loop that fetches from it.
Fed == "first"
Served == "second"

NewAggregator == [total |-> 0, hits |-> 0, misses |-> 0, zeros |-> 0, zeroQueries |-> 0,
                  latencies |-> <<>>]

Idle == [at |-> "idle", of |-> Fed, read |-> NewAggregator]

Init ==
    /\ tracked = 0
    /\ buffer = <<>>
    /\ loop = "select"
    /\ held = 0
    /\ process = "up"
    /\ early = {}
    /\ dropped = {}
    /\ failed = {}
    /\ topic = <<>>
    /\ owner \in {Fed, Served}
    /\ position = 0
    /\ record = "fetch"
    /\ counters = [a \in {Fed, Served} |-> NewAggregator]
    /\ stats = Idle
    /\ faults = 0

-----------------------------------------------------------------------------
Running == process \in {"up", "signalled", "closed"}

\* Mutant of Track: a full channel makes room by forgetting its oldest event.
TrackEvicts ==
    /\ Running
    /\ tracked < MaxEvents
    /\ tracked' = tracked + 1
    /\ buffer' = Append(IF Len(buffer) < BufferSize THEN buffer ELSE Tail(buffer), tracked')
    /\ early' = IF process = "up" THEN early \union {tracked'} ELSE early
    /\ UNCHANGED <<loop, held, process, dropped, failed, kafka, aggregator, stats>>

Full == Len(buffer) = BufferSize

\* Track does not block: a full channel drops the event.  A send on the closed
\* channel panics in a goroutine nobody recovers, which ends the process.
Track ==
    /\ Running
    /\ tracked < MaxEvents
    /\ tracked' = tracked + 1
    /\ \/ /\ process # "closed"
          /\ ~Full
          /\ buffer' = Append(buffer, tracked')
          /\ early' = IF process = "up" THEN early \union {tracked'} ELSE early
          /\ UNCHANGED <<process, dropped>>
       \/ /\ process # "closed"
          /\ Full
          /\ dropped' = dropped \union {tracked'}
          /\ UNCHANGED <<process, buffer, early>>
       \/ /\ process = "closed"
          /\ process' = "panicked"
          /\ UNCHANGED <<buffer, early, dropped>>
    /\ UNCHANGED <<loop, held, failed, kafka, aggregator, stats>>

\* The event of the select in Start, and the one in drainRemaining.
Receive ==
    /\ Running
    /\ loop \in {"select", "drain"}
    /\ buffer # <<>>
    /\ held' = Head(buffer)
    /\ buffer' = Tail(buffer)
    /\ loop' = IF loop = "select" THEN "publish" ELSE "drainPublish"
    /\ UNCHANGED <<tracked, process, early, dropped, failed, kafka, aggregator, stats>>

\* Publish returns.  The writer tries again when an acknowledgement is lost, so
\* the message may be there twice; Start publishes with the context that the
\* signal cancels, drainRemaining with one that is never cancelled.
Publish ==
    /\ Running
    /\ loop \in {"publish", "drainPublish"}
    /\ loop' = IF loop = "publish" THEN "select" ELSE "drain"
    /\ held' = 0
    /\ \/ /\ topic' = Append(topic, held)
          /\ UNCHANGED <<failed, faults>>
       \/ /\ faults < MaxFaults
          /\ faults' = faults + 1
          /\ topic' = topic \o <<held, held>>
          /\ UNCHANGED failed
       \/ /\ \/ faults < MaxFaults /\ faults' = faults + 1
             \/ loop = "publish" /\ process # "up" /\ UNCHANGED faults
          /\ failed' = failed \union {held}
          /\ UNCHANGED topic
    /\ UNCHANGED <<tracked, buffer, process, early, dropped, owner, aggregator, stats>>

\* The context ends: SIGINT or SIGTERM.
Signal ==
    /\ process = "up"
    /\ process' = "signalled"
    /\ UNCHANGED <<tracked, buffer, loop, held, early, dropped, failed, kafka, aggregator, stats>>

\* Mutant of StopSelect: the goroutine ends without draining.
StopUndrained ==
    /\ Running
    /\ loop = "select"
    /\ process # "up"
    /\ loop' = "done"
    /\ UNCHANGED <<tracked, buffer, held, process, early, dropped, failed, kafka, aggregator,
                   stats>>

\* The select takes ctx.Done, whatever the channel holds, or finds the channel
\* closed and empty.
StopSelect ==
    /\ Running
    /\ loop = "select"
    /\ \/ process # "up" /\ loop' = "drain"
       \/ process = "closed" /\ buffer = <<>> /\ loop' = "done"
    /\ UNCHANGED <<tracked, buffer, held, process, early, dropped, failed, kafka, aggregator,
                   stats>>

\* Mutant of DrainEnds: a closed channel is not noticed.
DrainSpins ==
    /\ process # "closed"
    /\ loop = "drain" /\ buffer = <<>> /\ loop' = "done"
    /\ UNCHANGED <<tracked, buffer, held, process, early, dropped, failed, kafka, aggregator,
                   stats>>

\* drainRemaining returns when it finds nothing, closed or not.
DrainEnds ==
    /\ Running
    /\ loop = "drain"
    /\ buffer = <<>>
    /\ loop' = "done"
    /\ UNCHANGED <<tracked, buffer, held, process, early, dropped, failed, kafka, aggregator,
                   stats>>

\* main's deferred Close, with requests that still run: nothing waits for them.
Close ==
    /\ process = "signalled"
    /\ process' = "closed"
    /\ UNCHANGED <<tracked, buffer, loop, held, early, dropped, failed, kafka, aggregator, stats>>

\* Close has waited for the goroutine; main returns.
Exit ==
    /\ process = "closed"
    /\ loop = "done"
    /\ process' = "exited"
    /\ UNCHANGED <<tracked, buffer, loop, held, early, dropped, failed, kafka, aggregator, stats>>

-----------------------------------------------------------------------------
\* The standalone analytics process: the consume loop calls HandleEvent of the
\* Aggregator the handler was made with.  Each atomic counter is a step of its
\* own; the last step needs the lock that Stats reads under.  The topic has what
\* Collector publishes, which always decodes as a SearchEvent.
Event == topic[position]
Count(field, n) == counters' = [counters EXCEPT ![Fed][field] = @ + n]

One(condition) == IF condition THEN 1 ELSE 0

\* FetchMessage has something for the reader that the started Aggregator reads.
Available == owner = Served /\ position < Len(topic)

RecordTotal ==
    /\ record = "fetch"
    /\ Available
    /\ position' = position + 1
    /\ Count("total", 1)
    /\ record' = "cache"
    /\ UNCHANGED <<collector, kafka, stats>>

RecordCache ==
    /\ record = "cache"
    /\ Count(IF Event \in HitEvents THEN "hits" ELSE "misses", 1)
    /\ record' = "zero"
    /\ UNCHANGED <<position, collector, kafka, stats>>

RecordZero ==
    /\ record = "zero"
    /\ Count("zeros", One(Event \in ZeroEvents))
    /\ record' = "lock"
    /\ UNCHANGED <<position, collector, kafka, stats>>

\* Mutant of StatsHoldsLock: Stats takes no lock.
StatsTakesNoLock(a) == FALSE

\* The read lock, from ReadTotal to ReadRest.
StatsHoldsLock(a) == stats.at \notin {"idle", "done"} /\ stats.of = a

RecordQuery ==
    /\ record = "lock"
    /\ ~StatsHoldsLock(Fed)
    /\ counters' = [counters EXCEPT ![Fed].latencies = Append(@, Latency[Event]),
                                    ![Fed].zeroQueries = @ + One(Event \in ZeroEvents)]
    /\ record' = "fetch"
    /\ UNCHANGED <<position, collector, kafka, stats>>

-----------------------------------------------------------------------------
\* Stats of one of the Aggregators loads one atomic after the other under the
\* read lock; totalDocIndexed is left out, nothing emits index events.
ReadField(at, field, next) ==
    /\ stats.at = at
    /\ stats' = [stats EXCEPT !.at = next, !.read[field] = counters[stats.of][field]]
    /\ UNCHANGED <<collector, kafka, aggregator>>

ReadTotal(a) ==
    /\ stats.at \in {"idle", "done"}
    /\ stats' = [at |-> "hits", of |-> a, read |-> [NewAggregator EXCEPT !.total = counters[a].total]]
    /\ UNCHANGED <<collector, kafka, aggregator>>

ReadHits == ReadField("hits", "hits", "misses")
ReadMisses == ReadField("misses", "misses", "zeros")
ReadZeros == ReadField("zeros", "zeros", "rest")

\* The latencies and the queries, copied before the lock is given back.
ReadRest ==
    /\ stats.at = "rest"
    /\ stats' = [stats EXCEPT !.at = "done",
                              !.read.zeroQueries = counters[stats.of].zeroQueries,
                              !.read.latencies = counters[stats.of].latencies]
    /\ UNCHANGED <<collector, kafka, aggregator>>

\* Mutant of Index: counted from one.
IndexFromOne(n, pct) == Min({(pct * n) \div 100 + 1, n - 1})

\* percentile's index from zero into n sorted values.
Index(n, pct) == Min({(pct * n) \div 100, n - 1})

\* The latencies as sort.Slice leaves its copy of them.
Sorted(latencies) ==
    LET order == CHOOSE p \in Bijection(DOMAIN latencies, DOMAIN latencies) :
                     \A i, j \in DOMAIN latencies : i < j => latencies[p[i]] <= latencies[p[j]]
    IN [i \in DOMAIN latencies |-> latencies[order[i]]]

Percentile(latencies, pct) == Sorted(latencies)[Index(Len(latencies), pct) + 1]

-----------------------------------------------------------------------------
CollectorStep == Receive \/ Publish \/ StopSelect \/ DrainEnds
ConsumerStep == RecordTotal \/ RecordCache \/ RecordZero \/ RecordQuery
StatsStep == ReadHits \/ ReadMisses \/ ReadZeros \/ ReadRest

Next ==
    \/ Track
    \/ CollectorStep
    \/ Signal
    \/ Close
    \/ Exit
    \/ ConsumerStep
    \/ \E a \in {Fed, Served} : ReadTotal(a)
    \/ StatsStep

\* Goroutines keep running and main goes on after the signal.  The lock is a
\* sync.RWMutex, which lets a waiting writer in before later readers.
Fairness ==
    /\ WF_vars(CollectorStep)
    /\ WF_vars(Close \/ Exit)
    /\ WF_vars(RecordTotal \/ RecordCache \/ RecordZero)
    /\ SF_vars(RecordQuery)
    /\ WF_vars(StatsStep)

Spec == Init /\ [][Next]_vars /\ Fairness

-----------------------------------------------------------------------------
\* Start's comment, "draining any remaining events before returning": whatever
\* the select chose last, a searcher that exits has tried to publish every event
\* that Track put in the channel before the signal.
DrainCoversSignal ==
    process = "exited" => early \subseteq ToSet(topic) \union failed

\* No event vanishes between Track and the topic: an event that is in neither
\* the channel nor the goroutine's hands was published, or logged as dropped or
\* failed, unless its Track ended the process.
NoSilentLoss ==
    Running => 1..tracked = ToSet(buffer) \union ({held} \ {0}) \union ToSet(topic)
                                \union dropped \union failed

\* What Stats calls a point-in-time snapshot mixes at most one event that is
\* being recorded with those before it: the atomics are not read at one time,
\* but the read lock stops the recorder before a second event.
SnapshotSkew ==
    stats.at = "done" =>
        LET s == stats.read
            n == Len(s.latencies)
        IN /\ s.total \in {n, n + 1}
           /\ s.hits + s.misses \in {n, n + 1}
           /\ s.zeros \in {s.zeroQueries, s.zeroQueries + 1}

\* The percentiles of a snapshot are percentiles: no more than pct% of its
\* latencies are below one, no fewer than pct% are at most it.
PercentileRanks ==
    (stats.at = "done" /\ stats.read.latencies # <<>>) =>
        \A pct \in {50, 95, 99} :
            LET l == stats.read.latencies
                p == Percentile(l, pct)
            IN /\ 100 * Cardinality({i \in DOMAIN l : l[i] < p}) <= pct * Len(l)
               /\ 100 * Cardinality({i \in DOMAIN l : l[i] <= p}) >= pct * Len(l)

\* A signalled searcher ends: Close does not wait for ever for the goroutine,
\* wherever the signal and the closing find it.
CloseReturns == process = "signalled" ~> process \in {"exited", "panicked"}

\* cmd/analytics: the service "consumes search-analytics events from Kafka,
\* aggregates them in memory [...] and exposes an HTTP API".
ServedIsCounted ==
    (owner = Served /\ topic # <<>>) ~> counters[Served].total > 0
=============================================================================
