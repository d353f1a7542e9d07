# A TLA+ model of the Distributed Search Analytics Platform

The modules here model the platform's core: how a document travels from an HTTP
request to a searchable segment, what a query sees while segments come and go,
the query cache and the timeout around it, the analytics events it leaves
behind, the gateway with its keys and its limiter, the circuit breaker and the
RPC server. TLC checks them on small instances; TLAPS proves every safety
property that the runs check for every value of the constants.

## The system

Five Go processes share Kafka, PostgreSQL, Redis and a volume of segment files.

| Component | State it keeps | Operations | Hard behaviour |
|---|---|---|---|
| Ingestion (`internal/ingestion`, `cmd/ingestion`) | a row per document in PostgreSQL | `Publisher.Ingest`: lookup by idempotency key, insert in a transaction, publish | concurrent requests with one key; a commit or a publish whose outcome is unknown |
| Kafka client (`pkg/kafka`) | the group's committed offset, the reader's position | fetch, handle, commit; publish with attempts | duplicates; a failed message that a later commit passes; the start offset |
| Indexer process (`cmd/indexer`, `internal/indexer/consumer`) | where the consume loop is | `HandleMessageSharded`, `updateDocStatus`, shutdown | commit before the document is durable; main does not wait for the flush loop |
| Index engine (`internal/indexer`) | memory index, size, statistics, reader list | `IndexDocument`, `Flush`, `StartFlushLoop`, `Close`, `ReloadSegments`, `Search` | two goroutines inside `Flush`, which holds no lock across its steps; I/O errors; crash and recovery |
| Segment files (`internal/indexer/segment`) | immutable `.spdx` files | write to `.tmp`, rename, open, read, close | crash around the rename; name collisions |
| Shard router (`internal/indexer/shard`) | one engine per shard, a lock | `Route`, `FlushAll`, `ReloadAll`, `Close` | `ReloadAll` and `Close` meet at the lock |
| Searcher process (`cmd/searcher`, `internal/searcher/executor`) | requests in flight | fan-out over shards, Boolean filtering, hot reload, shutdown | reload in the middle of a query; readers closed under a query; no drain |
| Search handler, query cache (`internal/searcher/handler`, `internal/searcher/cache`, `pkg/redis`, `pkg/middleware/timeout.go`) | results in Redis, calls in the singleflight group | `Search`, `GetOrCompute`, `CacheInvalidate`, the `Timeout` wrapper | a result stored after the invalidation that should have covered it; a leader whose context ends while others wait; two writers of one answer |
| Parser, tokenizer, ranker, merger | none | pure functions | the cache key and the plan are read from a query separately |
| Analytics (`internal/analytics`, `cmd/analytics`) | event channel, topic, counters | `Track`, `Close`, `recordSearchEvent`, `Stats` | a full channel; shutdown between select and drain; unsynchronised reads |
| Gateway (`internal/gateway`, `cmd/gateway`) | requests in flight | CORS, `Auth`, `RateLimit`, proxies, documents, keys | a key revoked between validation and handler; a process that ends while it answers |
| API keys (`internal/auth/apikey`, `cmd/auth`) | a row per key | create, validate, revoke, list | expiry; a create whose outcome is unknown |
| Rate limiter (`internal/auth/ratelimit`) | an entry per key | `Allow`, `Reset`, cleanup | lazy refill, forgotten entries, limit 0 |
| Circuit breaker (`pkg/resilience`) | state, failure count, half-open count | `Execute`, `Reset` | results that arrive in another state than the request was admitted in |
| RPC (`pkg/grpc`) | connections, a wait group, a mutex per client | `Serve`, `Stop`, `Call` | `Stop` against `Accept`, idle clients, calls that fail half way |
| Retry, request id, health, metrics, logging, tracing, config, web interface | none that matters | - | - |

Interactions: ingestion publishes to the partition of a document's shard; the
indexer's single consume loop calls that shard's engine and sets the row's
status; the engine's flush loop runs beside it; the searcher never talks to the
indexer but re-scans the directories the indexer renames segments into; the
gateway authenticates, limits and forwards.

What makes each part correct:

* engine: a document, once added, stays findable, is not lost, ends in a
  segment; the buffer stays bounded; a segment never changes;
* pipeline: one document per key; an offset is not committed past a document
  that was never indexed; a status can be believed; what is published is stored;
* searcher: an answer has everything that was loaded when the query began and
  nothing that is excluded; new segments become visible; requests are answered;
* breaker: never half-open with nobody to decide, probes bounded, closes again;
* limiter: answers as a token bucket would;
* search service: an answer answers its own query, stale only as far as a call
  that was under way; a failure that is not the query's is nobody's error;
* analytics: an event is counted or its loss is known; one answer's counters
  disagree by no more than the event being recorded;
* gateway: a dead key reaches nothing, a live one is not refused, handlers run
  no oftener than the limiter allows, a key handed out is a key stored;
* RPC: a call gets its own answer and returns; `Stop` leaves nothing running.

## Modules

| Module | Models | Composition |
|---|---|---|
| `Engine` | one shard's engine in the indexer process | - |
| `IndexBuffer` | what an engine promises (abstract) | - |
| `EngineRefinement` | `Engine` implements `IndexBuffer` | extends `Engine`, instances `IndexBuffer` |
| `EngineProofs` | theorems about `Engine` | extends `EngineRefinement` |
| `Pipeline`, `PipelineProofs` | ingestion, Kafka, PostgreSQL, consume loop | its index is an `IndexBuffer` |
| `Searcher`, `SearcherProofs` | the searcher process | its segments arrive as `Engine` makes them |
| `CircuitBreaker` | `pkg/resilience/circuitbreaker.go` | - |
| `TokenBucket` | what the limiter promises (abstract) | - |
| `RateLimiter` | `internal/auth/ratelimit` | instances `TokenBucket` |
| `GuardProofs` | theorems about `RateLimiter` and `CircuitBreaker` | extends both |
| `SearchService`, `SearchServiceProofs` | handler, cache, timeout middleware of the searcher | what it executes is `Searcher`'s matter: a result is its plan and the index version |
| `Analytics`, `AnalyticsProofs` | collector, topic, aggregator | its events are those `SearchService` tracks |
| `Gateway`, `GatewayProofs` | middleware chain, API keys, pages of documents | its bucket is `RateLimiter`'s, in whole tokens |
| `Rpc`, `RpcProofs` | `pkg/grpc` server and client | - |
| `MCEngine`, `MCPipeline`, `MCSearcher`, `MCRateLimiter`, `MCSearchService`, `MCAnalytics`, `MCGateway`, `MCRpc` | instances for TLC | - |

Definitions whose comment begins with "Mutant of" are deliberately wrong
variants of the definition that follows them. No specification uses them; each
replaces its original to confirm that some property notices.

### Engine

The variables are the fields of `Engine` and `MemoryIndex` and, for each of the
two goroutines, its place (`pc`), where it continues after `Flush` (`ret`) and
`Flush`'s locals (`snap`, `seg`). Every lock acquisition of the code is one
action: `IndexDocument` (statistics, under `docLengthsMu`), `AddDocument`
(index lock), `CheckSize`, then `Snapshot`, `WriteTmp`, `Rename`, `OpenReader`,
`AppendReader`, `Reset` for the steps of `Flush`, by either goroutine;
`FlushError` is its early return. `Tick` and `FinalFlush` are the flush loop,
`FlushAll`, `Close`, `CloseReaders` and `Exit` the shutdown of `cmd/indexer`,
`Crash` a kill, `NewEngine` the start with `loadExistingSegments`.

A document is a model value with a set of terms; a document without terms moves
only the counter, as in the code. `added` and `exposed` are history: what was
put in memory, and what was put there while some flush was between its snapshot
and its reset. That window is the engine's one real weakness. `LossOnlyInWindow`
says it is the *only* way to lose a document; that it is one is in the list of
disagreements below.

### Pipeline

A request goes through `Lookup`, `Insert`, `Publish`, each of which may fail;
`Insert`'s failed commit may have taken effect, `Publish`'s failure may leave
no, one or two messages, and is answered 202 as in the code. The consume loop
is `Fetch`, `Handle`, `UpdateStatus`, `Commit`. `Handle` is one of three:
`DecodeFails` (nothing is indexed, the handler returns nil, the offset is
committed), `RouteFails` (nothing is indexed and the error leaves the message
without a commit) and `IndexDocument`, which puts the document in the index even
when the flush it ends with fails, unless it has no terms: then the index gets
nothing and the row is INDEXED all the same. Which of them a message meets is its
`kind`, chosen in `Init` among those `KindsOf` allows. `StoreSegment` and `ResetIndex`
are the steps of `IndexBuffer`, which `Engine` is proved to implement. A restart
begins at the committed offset or, without one, at the end of the partition.

### Searcher

`readers[sh]` is `Engine.readers` of each shard. The reload goroutine's steps
are the listing, the names read under the lock, each open and the append. A
request runs one goroutine per shard, which for each term copies the reader
list and reads segment after segment; `Execute` filters when all are done.
`Engine.Search` tokenizes and stems the plan's term, a stem already, once more:
`NormalizedTerm` is what it then looks for, or `NoTerm` when nothing is left and
it returns at once.
`Close` and the process's exit race the requests, as in `cmd/searcher`.
Ranking and limits are left out: an answer is its set of candidates.

### CircuitBreaker

`beforeRequest` and the two halves of `afterRequest` are one step each, the
guarded call lies between them; `ResetCircuit` is `Reset`, `Elapse` the clock.
`probing` is history: the requests admitted in the current half-open period. A
guarded call is assumed to return: a panic would skip `afterRequest` and leave its
probe counted for ever.

### RateLimiter

One step per call under the mutex. Tokens are counted in units of a window's
tick, so that the code's `float64` refill is an exact integer; rounding is not
modelled. Limits are naturals: with a negative one, which the `auth` command
takes unchecked, an entry never holds a token, as with 0. `watched`, `spent` and `earned` observe a stretch of time that may
begin anywhere.

### SearchService

A request is two goroutines, as in `pkg/middleware/timeout.go`: `handler[r]` is
the place of `Search` (`get`, `join`, `getAgain`, `execute`, `set`, `reply`,
`write`; `wait` for a request that found a flight; `direct` in place of all up to
`set` when the handler has no cache), `server[r]` that of the
middleware's select. `written` is the `timeoutWriter`'s flag, set before the
bytes go out, so that both can write; what the handler writes once the
middleware has returned is dropped by net/http. `Get` is the first look into Redis,
`Join` is `group.Do`, `EndFlight` hands the leader's result or error to all who
wait; the group itself is `golang.org/x/sync`, external here. A Redis operation fails when Redis does or when the request's context has
ended. `InvalidateStart`, `Delete`, `InvalidateEnd` are `FlushByPattern`'s SCAN:
keys that are there throughout are deleted, others may be.

`ReadWords` is the loop that `parser.Parse` and `normalizeQuery` both have, once
over terms and once over words; `NormalizeQuery` and `Parse` are thus the real
ones up to tokenizing. The key has the words sorted (`Sorted`, in the order of
`Dictionary`) and joined by commas (`Joined`): a word that has commas itself goes
in as its `Pieces`, so that `x,y` and `x y` have one key as in the code. SHA-256 is
taken to tell keys apart. `floor` (what the last complete invalidation had seen
when the request came) and `straddling` (calls that had a result when one
began) are history, and so is `failed` (requests whose own `Execute` failed).
`Execute` fails when all shards do; `Engine.Search` of today never reports an
error, so this path waits for an executor that does.

Two effects cost time or completeness and no property speaks of them. A result
whose leader's context has ended is not stored, so a query slower than the
timeout is never cached. A result that misses the documents of a failed shard
(`executor/sharded.go:178`) is cached like a full one.

### Analytics

`Track`, `Receive`, `Publish`, `StopSelect`, `Close` and the drain are the
searcher's collector; the select's free choice between an event and the end of
the context is kept. `recordSearchEvent` is one step per shared field
(`RecordTotal`, `RecordCache`, `RecordZero`, `RecordQuery` under the lock) and
`Stats` one step per read (`ReadTotal` ... `ReadRest`). There are two
aggregators, `Fed` and `Served`, because `cmd/analytics` and `cmd/searcher`
create two, and `owner` says which of the two group members the partition was
given to: the first reader joins the group and is never read. `Sorted`, `Index` and
`Percentile` are the copy, the sort and the arithmetic behind the reported
percentiles.

### Gateway

`Arrive`, `Auth`, `RateLimit` and the handlers are steps of a request between
which keys may be revoked or expire. A connection carries one request after
another. `CreateAPIKey` leads to `Insert`, whose error may hide a commit, and
to `Answer`, which hands the key out; the `auth` command creates and revokes on
its own. `Restart` ends the process the way `main` does, with requests in
flight. `Answer` may lose a 201: `writeJSON` only logs that the client is gone.
`Cleanup` is a round of the limiter's: it forgets keys that were idle for two
windows, which have a full bucket by then or gain no tokens at all. `dead`,
`served`, `refilled` and `renewed` (how often a key without tokens was forgotten)
are history.

The second half of the module is a client that walks through `ListDocuments`
while documents are stored, anywhere in the order, because `created_at` is set
before the commit. Equal timestamps are not modelled: PostgreSQL may then
return the rows in another order each time.

### Rpc

`Serve` is `Listen`, `Accept`, `Add`, `AcceptFails`: the step between `Accept`
and `wg.Add` is where `Stop` (`CloseDone`, `CloseListener`, `Wait`) can overtake
it. `handleConn` is `Decode`, `Respond`, `HangUp`. Callers of one client wait
for its mutex, `Send` and `Receive`; the wire holds sequences, so that a client
without its mutex would mix answers up. A stop that finds no listener yet goes
on as `waitUnheard`: `Serve` then never returns.

## Runs

Passing runs:

| Run | Checks | Shows |
|---|---|---|
| `engine_safety` | `LossOnlyInWindow`, `AlwaysSearchable`, `BufferBounded`, `CleanExitDurable`, `ImplementsBuffer` | what flush, reader list, shutdown and recovery guarantee with both goroutines in `Flush` at once; the refinement of `IndexBuffer` |
| `engine_liveness` | `BufferDrains`, `ShutdownCompletes` | the buffer empties, a signalled process ends |
| `searcher_reload` | `AnswerExact`, `OpenedOnce` | queries under hot reload, with terms that are stemmed again |
| `searcher_liveness` | `HotReloaded`, `Answered` | new segments become searchable, requests end |
| `pipeline_safety` | `OneDocumentPerKey`, `CommitCovers`, `IndexedIsKept`, `PublishedIsStored` | retries, failures, duplicates, messages of every kind, crashes; every readable and routable message with terms ends in a segment while the indexer lives |
| `breaker_safety` | `HalfOpenHasProbe`, `ProbesBounded`, `ClosedBelowThreshold`, `NeverClosesFromOpen`, `Recovers` | late results of four callers |
| `limiter_token_bucket` | `WindowBound`, `ZeroLimit`, `ImplementsTokenBucket` | the limiter against plain buckets |
| `search_service` | `AnswersOwnQuery`, `StaleOnlyFromFlight`, `AnswerUnderway`, `FailsOnlyByQuery` | shared keys and flights under invalidation, expiry, reload, Redis failures and a timeout |
| `analytics` | `DrainCoversSignal`, `NoSilentLoss`, `SnapshotSkew`, `PercentileRanks`, `CloseReturns` | what can be missing after a full channel, a failing publish, a shutdown; how far one answer's counters disagree |
| `gateway` | `KeyDecides`, `AdmissionBound`, `KeysAccounted`, `WalkMissesNothing` | keys that die while requests are on their way; the limiter's bound over cleanup and restart; creates with an unknown outcome and lost answers; pages under insertion |
| `rpc` | `OwnAnswer`, `StoppedIsQuiet`, `StopReturns`, `CallReturns` | a shared client, an idle client and a stop at any moment |

The types of the engine, the breaker and the limiter are proved
(`TypeCorrect`, `BreakerCorrect`, `LimiterTypeCorrect`) and not checked again.

In one run TLC finds the property violated, a sentence of the repository that
the code does not keep:

| Run | Sentence | What happens |
|---|---|---|
| `analytics_served` | `cmd/analytics/main.go:3-5`: it "consumes search-analytics events from Kafka, aggregates them in memory" and "exposes an HTTP API at GET /api/v1/analytics" | events are recorded by the first of two aggregators and the second is served: its counters stay 0 for ever |

More disagreements are visible in the models without a run of their own:

* `cmd/indexer/main.go:36-37`: the final flush is there "to ensure no data
  loss". A document added between a flush's snapshot and its reset
  (`exposed` of `Engine`) is in no segment at a clean exit.
* `internal/searcher/executor/executor.go:117-118`: documents "present in every
  term's PostingList (AND semantics)". `Candidates` of `Searcher` intersects the
  entries there are, and `fanOut` makes none for a term without postings.
* `docs/runbook.md:179`: "Drain in-flight requests". `Exit` of `Searcher` and
  `Restart` of `Gateway` come while requests run, because `ListenAndServe`
  returns as soon as `Shutdown` is called.
* `docs/architecture.md:133`: the memory index is "Lost on crash (rebuilt from
  Kafka)". `Commit` of `Pipeline` passes a document that no segment has yet.
* `docs/architecture.md:143`: "Backpressure on ingestion (returns 500)".
  `Publish` answers 202 when Kafka has failed.
* `internal/indexer/engine.go:213`: "restoring the index to its pre-restart
  state". `NewEngine` leaves the statistics empty.
* `docs/runbook.md:158`: "try a single request", and "If that succeeds, it
  closes". `ProbesBounded` has a `+ 1`, because the request that turns the
  circuit half-open is not counted, and `OnSuccess` closes it for a request that
  was admitted before it opened.
* `cmd/auth/main.go:135`: "all active (non-revoked, non-expired) API keys".
  `ListKeys` shows expired ones.
* `cache.go:136-137`: the key canonicalises the query. The words of
  `x not the y` and `y x not the` give one key; the plans differ, as the stop
  word "the" leaves its NOT to the next word, also past an operator, as in
  `x not or the y`. And `x,y` has the key of `x y`, but the tokenizer takes only
  its first token: whoever asks second is given the other's results.
  `AnswersOwnQuery` excepts keys that exclude a word without a term and queries
  that have a word with a comma; both are inputs of the run.
* `internal/searcher/parser/parser.go` takes stems into the plan and
  `internal/indexer/engine.go:122` stems them again, and the stemmer is not
  idempotent: a document with `parsers` is indexed under `parser`, and a query
  for `parsers` searches for `pars`; `cans` becomes `can`, which the second pass
  drops as a stop word. Such documents are neither found nor excluded.
  `AnswerExact` speaks of what a search for the term finds (`Finds`).
* `internal/indexer/consumer/consumer.go:40-41`: the status becomes INDEXED
  "after a successful index operation". A document of stop words passes the
  validator and is INDEXED with nothing in the index; one whose message cannot be
  decoded or routed stays PENDING for ever, and commits pass it. `CommitCovers`,
  `IndexedIsKept` and `PublishedIsStored` except these by `kind`.
* `internal/auth/ratelimit/ratelimit.go:38`: Allow "Returns false when the rate
  limit has been exceeded". A key of limit 0 is let in once, and once more each
  time the process or cleanup has forgotten it (`renewed` of `Gateway`).
* `internal/gateway/handler/handler.go:216-220`: the key "cannot be retrieved
  again", and `writeJSON` only logs that it could not be written: a 201 that is
  lost leaves a key that nobody holds and the command cannot revoke.
* `pkg/middleware/timeout.go:36-37`: the flag says whether the wrapper "can
  safely send a 504". It is read before the 504 is written, and the handler may
  begin in between: `response[r]` of `SearchService` then has both. And when the
  flag is set and the body is not yet written, the wrapper returns and net/http
  cuts the handler's answer off.
* `internal/gateway/handler/handler.go:160`: an error that ends the rows is not
  looked at, so a short page is answered as a full one (`cut` of `walk`).
* `pkg/grpc/server.go:83`: `Serve` "blocks until Stop is called"; a `Stop` that
  comes before the listener is stored does not end it.

### Bounds

* Engine: three documents (one that alone reaches the threshold, one that does
  not, one without terms), three deliveries, one I/O error, one restart. Three
  deliveries are enough for a document before, inside and after a flush window
  of either goroutine.
* Pipeline: two requests with one key and one without, whose message is of any
  kind, three messages (two documents and a duplicate), two faults, one crash:
  an unreadable or misrouted message before, between or behind two good ones.
* Searcher: two shards, a document with all terms and up to two segments on
  one, a document with two terms on the other, AND and NOT queries, two of them
  with a term that is stemmed to another and one that is stemmed to nothing: a
  query can begin before, between and after the two reloads. The liveness run has one
  segment per shard, a query of one term and one I/O error.
* Breaker: four callers, threshold 3, two half-open requests: enough for
  requests of the closed phase to be still running in a second half-open period.
* Limiter: limits 0, 1 and 2, a window of two ticks, stretches of two windows.
* Search service: two interchangeable requests, seven inputs (among them two with
  one key and different plans for each of the two reasons, two with one plan and
  different limits, refused ones), with and without a cache, one reload, one invalidation, one timeout, one fault: a leader, a waiter and an
  invalidation in every order. `ShortKeysTellApart` compares the keys and plans
  of all queries of up to four words.
* Analytics: three events for a channel of two, one failing publish, so that the
  channel is full, drained and closed with and without a loss.
* Gateway: two interchangeable connections and keys, limits 0 and 1, one fault,
  one refill, one renewal of a key of limit 0, one restart: a request of each key,
  or two of one, around a revocation, a cleanup or a restart. One of the two keys
  gains tokens or is forgotten (`MCOneGains`). Documents: four, pages of one or two. Keys and documents share no
  variable but the count of faults, and TLC explores them one at a time
  (`MCOneHalf`).
* RPC: two callers of one client, an idle client, one broken connection.

Deadlock is checked for the breaker, the limiter, analytics and the gateway. The
others may stop: a process exits, and the bounds run out.

### Fairness

Goroutines that can run do run (weak fairness per goroutine), tickers tick, and
an operation that may fail is not obliged to fail, so that finitely many faults
do not last. Nothing forces a message, a request, a signal or a crash.
`Pipeline` adds that the indexer is started again, which its container's
restart policy does; `CircuitBreaker` that guarded calls return and that there
is traffic, without which an open circuit has no occasion to close; `Rpc` that
handlers return, and not that clients hang up, which `StopReturns` has as its
premise. `SearchService` and `Gateway` are checked for safety only and state no
fairness. The one strong fairness is that of `RecordQuery` of `Analytics`, which
waits for the write lock: a `sync.RWMutex` lets no later reader pass a waiting
writer.

## Theorems

Each is a theorem about `Spec` (`BreakerSpec`) for every value of the constants: any number of
documents, requests, shards, keys, callers, any limit and threshold. None of the
properties is inductive; what each argument adds is named below, and TLC has
checked it on the instance of the run before it was proved.

`EngineProofs`:

* `TypeCorrect`, `LossOnlyInWindowHolds`, `AlwaysSearchableHolds`. `LossInv`
  adds what each step of a flush has already achieved (`FlushInv`): from the
  snapshot to the reset, memory holds nothing but the goroutine's snapshot and
  documents of `exposed`; the segment it writes holds its snapshot, is complete
  from `open` on and loaded at `reset`. It also adds that readers are on complete
  segments and that a process that is down holds nothing (`DiskInv`). `FlushInv`
  speaks of each of the two goroutines: that is why either one's `Reset` is safe
  while the other is in its own flush.
* `BufferIsBounded`, `CleanExitIsDurable`. `SizeInv` adds that an empty index has
  size 0, so that an early return of `Flush` leaves main below the threshold as a
  reset does, and that without an I/O error main comes to `closeReaders` with an
  empty index; with `LossOnlyInWindow`, everything is then in a segment.
* `EngineImplementsBuffer`: with memory as the buffer and the documents of
  complete segments as what is stored, every step is a step of `IndexBuffer` or
  a stutter. The guard of `Release` follows from `LossInv`; `RefInv` adds that a
  snapshot only holds documents the buffer knows, which `Store` needs.

`PipelineProofs` (`PipelineInv`):

* `OneDocumentPerKeyHolds`. `RowInv`: a key has one row at most, who is about to
  publish has his row, and an accepted request was told a document that has a row
  and the request's own key. Two accepted requests were therefore told one row's
  document, whichever of lookup and insert answered them.
* `CommitCoversHolds`. `ConsInv`: the consumer has put every message of text with
  terms that it went through since `begun` in the index, those included that it did
  not commit because their handler failed. A later commit passes those too, and that is why
  the property needs them.
* `IndexedIsKeptHolds`. `KeptInv`: what was ever put in the index is in memory,
  stored, or raced by a flush, until a crash; and a row is INDEXED only for a
  document that was, or that has no terms. `ConsInv` adds that a status is written
  for no other kind.

`SearcherProofs` (`SearcherInv`):

* `SegmentsAreOpenedOnce`. `ReloadInv`: what a reload has opened and what it has
  still to open are disjoint from each other and from the reader list of its
  shard. Only `ReloadAll` appends, and it does so shard after shard.
* `AnswersAreExact`. `QueryInv` says of each goroutine of a query, against the
  reader list as it is now: what it has found is there and is what a search for
  the term finds (`Reads`); a document that the query is owed is in the list and was, or still
  will be, found by every search for one of its terms (`Caught`); and a document
  that an include term has found is in the list and caught by the exclude terms
  (`ExcludesCaught`). The last is why the order of the terms matters: a document
  that a reload brings between the two searches is found by the exclude terms
  alone. Lists only grow while no reader is closed, which keeps all three.

`SearchServiceProofs` (`ServiceInv`):

* `ErrorsAreOfTheQuery`. `ErrorInv`: who has an error has a key of which some
  request's own `Execute` failed. A leader whose context ends, or whose Redis
  fails, goes on to execute, and those who wait for it get a result.
* `MiddlewareAnswers`. `AnswerInv`: who has set the flag goes on to write.
* `StaleResultsStraddle`. `FreshInv`: while an invalidation scans, every entry
  older than its begin is still to be deleted or straddles it, and a result that
  is about to be stored is as new as that begin or straddles it. Without this part
  a `Set` behind the scan would break the first.
* `AnswersAreToTheQuery`. `QueryInv`: each result in the cache, in a flight or in
  a request's hands was computed for an input with this very key and limit. That
  the plans then agree is the next theorem.
* `KeysTellPlansApart`, about queries of any length. `SameReading` goes through
  the words: as long as `normalizeQuery` excludes no word without a term, its
  type and its pending NOT are those of `Parse`, whose terms are the terms of its
  words (`Same`). Excluded words are never taken back, so that what holds at the
  end held at every prefix. `JoinedFacts`: words without a comma can be read off
  the sorted and joined text, so that equal texts have equal sets of words. TLC
  compares all queries of up to four words (`ShortKeysTellApart`).

`AnalyticsProofs`:

* `EventsAreAccounted`. `HeldInv`: the goroutine holds an event exactly while it
  publishes it, so that no step between the channel and the topic drops one.
* `DrainIsComplete`. `EarlyInv`: an event of the time before the signal is in the
  channel, in the goroutine's hands, published or failed, and a goroutine that has
  ended left none of them in the channel. The goroutine ends only on an empty
  channel, and nothing joins `early` once the process is signalled.
* `SnapshotsSkewByOne`. `RecordInv` is the balance of the recorder: each counter
  is the one that the latencies imply, plus the event that is being recorded as
  far as `recordSearchEvent` has come. `SnapshotInv` says of a `Stats` under way
  that what it has read is at most one off the latencies *as they are now*, and
  that the hits it read and the misses there are now add up: the recorder cannot
  append a latency while the read lock is held, so it cannot begin a second event
  either.
* `PercentilesAreRanks`. `SortsExist`: any values can be listed in order, the least
  first and then the others, by induction over their number; `SortedRank` counts
  the values below the k-th and those up to it; `IndexFacts` is the integer
  arithmetic of `percentile`, with the correction of an index past the end.

`GatewayProofs`:

* `KeyDecidesAlways`. `KeyInv`: a key that is held has a row; a key of no use
  stays of no use, so that `Auth` sees at its moment what was so at arrival; no
  two requests draw the same new key.
* `AdmissionBounded`. `BucketInv` is a balance: *served + requests between
  `RateLimit` and their handler + what the bucket still grants <= limit for each
  process + refilled + renewed*, where a key without an entry is granted its whole
  limit, and at least one request. The bound alone is not inductive, because a
  request is charged one step before it is served; a full bucket that cleanup
  drops grants what it granted before.
* `KeysAreAccounted`. `OrphanInv` bounds the keys nobody has by the failed
  statements and lost answers and, for each restart, the requests it cut off.
* `WalkIsComplete`. `WalkInv`: what was there at the beginning and is not yet seen
  is behind the offset. An insertion anywhere in the order moves documents
  backwards only.

`RpcProofs`:

* `AnswersAreOwn`. `CallInv`: who sends or waits holds its client's mutex; the
  wire holds one message at most, the waiting caller's own; if nobody waits on a
  wire that is not empty, its connection has been given up (`WireInv`). The
  response's unchecked ID is right because of these three together.
* `StopLeavesAtMostOne`. `StopInv`: `wg` is the connections that are served, a
  closed listener stays closed, and at the end of `Wait` there is at most the
  connection between `Accept` and `wg.Add`.

`GuardProofs`, about the breaker (`BreakerSpec`) and the limiter (`Spec`):

* `BreakerCorrect` is the inductive invariant of the breaker (types, a probe of
  this period in flight, their number at most one more than the counted ones, and
  a closed circuit below its threshold), from which `NeverStuckHalfOpen`,
  `ProbesAreBounded`, `ClosedIsBelowThreshold` follow; `LateSuccessKeepsOpen` is
  the action property.
* `LimiterTypeCorrect`; `GrantsAreBounded` from the balance *spent + level <= cap
  + earned*, in which the level is what the key could spend if asked now, so that
  the lazy refill, a denial and cleanup all leave it in place;
  `LimiterImplementsTokenBucket` with the level as the refinement mapping.
* `ZeroLimitHolds`. `ZeroInv`: a key of limit 0 that was let in has an entry no
  older than the watched stretch, which cleanup cannot drop within two windows.

Assumptions are those of the `ASSUME`s of the modules: sizes and limits are
naturals (the limits of the gateway's keys integers), thresholds, windows and timeouts
positive (the breaker's constructor replaces others by defaults, the limiter's window
is a constant of `cmd/gateway`), a document weighs nothing exactly when it has no
terms, a query is two lists of terms with at least one to include (`Execute`
answers others at once), what `Search` makes of a term is a term or nothing, the
words of a search handler's query are operators or words of a finite dictionary
without repetitions, of which each has a term or is known to have none and has its
pieces between commas, requests of the gateway are
finitely many, and the markers for "nothing" are none of the values.

The two inductions over data, on the length of a query and on the number of
latencies, are on a set: `SetInduction` says that a set that has 0 and, with a
number, the next one has every natural number. It follows from the library's
theorem that a non-empty set has a minimal element under a well-founded relation,
which needs no operator as a parameter.

Only model-checked:

* every liveness property (`BufferDrains`, `ShutdownCompletes`, `HotReloaded`,
  `Answered`, `PublishedIsStored`, `Recovers`, `CloseReturns`, `StopReturns`,
  `CallReturns`): temporal proofs under fairness are out of the prover's reach.

## Not modelled

Ranking (floating point), how a stem is made (only that a second pass may change
or drop it is) and the byte layout of segments (data the properties do not tell
apart), HTTP and JSON formatting, logging, metrics,
tracing, health checks, configuration, the web interface and the load test.

The batch collector, the analytics store, the result merger and the retry and
timeout helpers of `pkg/resilience` are constructed or called by no process: how
their callers would interleave is not in the repository.

## Plan

1. The cache composed with the searcher's reload, in place of an index version.
2. Equal timestamps in the pages of `ListDocuments`.
