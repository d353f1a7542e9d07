--------------------------- MODULE SearchService ---------------------------
(***************************************************************************)
(* The searcher's HTTP side: the Timeout middleware around the Search      *)
(* handler, the handler's query cache in Redis with its singleflight       *)
(* group, and CacheInvalidate.  What Execute finds is Searcher's matter:   *)
(* here a result is the plan it answers, the version of the index it saw   *)
(* and the request that computed it.                                       *)
(*                                                                         *)
(* A query is a sequence of words in lower case; a word may hold commas,   *)
(* which the cache's key also has between words.  The hit and miss         *)
(* counters and the metrics are reported only and left out.                *)
(***************************************************************************)
EXTENDS Integers, Sequences, FiniteSets, SequencesExt

CONSTANTS
    Requests,
    Inputs,           \* the requests' parameters: [given, words, limit]: q is not
                      \* empty, its words, and the limit <<>> or <<n>>
    Dictionary,       \* the words, in the order of sort.Strings
    Pieces,           \* the pieces of a word between its commas, <<word>> without
    TermOf,           \* the term that Parse takes of a word, or NoTerm
    NoTerm,
    DefaultLimit, MaxResults,
    None,
    MaxVersion,       \* bound: hot reloads
    MaxInvalidations, \* bound
    MaxTimeouts,      \* bound: requests whose context ends
    MaxFaults         \* bound: Redis operations and queries that fail

\* The words that normalizeQuery and Parse do not take for words of the text.
Operators == {"and", "or", "not"}

ASSUME SearchServiceAssumption ==
    /\ NoTerm \notin Requests /\ None \notin Requests /\ None \notin Inputs
    /\ NoTerm \notin DOMAIN TermOf /\ Operators \intersect DOMAIN TermOf = {}
    /\ Dictionary \in Seq(DOMAIN TermOf) /\ ToSet(Dictionary) = DOMAIN TermOf
    /\ \A m, n \in DOMAIN Dictionary : Dictionary[m] = Dictionary[n] => m = n
    /\ DOMAIN Pieces = DOMAIN TermOf
    /\ \A i \in Inputs : /\ i.words \in Seq(DOMAIN TermOf \union Operators)
                         /\ i.given \/ i.words = <<>>
    /\ DefaultLimit \in Nat \ {0} /\ MaxResults \in Nat \ {0}
    /\ MaxVersion \in Nat /\ MaxInvalidations \in Nat
    /\ MaxTimeouts \in Nat /\ MaxFaults \in Nat

VARIABLES
    caching,    \* the handler has a cache
    input,      \* what a request asks, None before it arrives
    handler,    \* where the handler's goroutine is
    server,     \* where the middleware is
    cancelled,  \* requests whose context has ended
    outcome,    \* the handler's status and result
    written,    \* timeoutWriter.written
    response,   \* what was written to the client
    events,     \* requests whose event was tracked
    cache,      \* Redis: the result under a key, or None
    flight,     \* the group: the leader of a key's call, or None
    index,      \* version of the index
    scan,       \* the invalidation: keys that FlushByPattern must still delete
    since,      \* the version that its caller had seen
    flushed,    \* the version the last complete invalidation had seen
    floor,      \* history: flushed, when the request arrived
    straddling, \* history: calls that had their result when an invalidation began
    failed,     \* history: requests whose Execute failed
    invalidations, faults

request == <<input, handler, server, cancelled, outcome, written, response, events>>
invalidation == <<scan, since, flushed, invalidations>>
vars == <<caching, request, cache, flight, index, invalidation, floor, straddling, failed, faults>>

-----------------------------------------------------------------------------
\* The plan before the first word.
NoWords == [terms |-> <<>>, excludes |-> <<>>, type |-> "and", excludeNext |-> FALSE]

\* A word without a meaning is skipped, and a pending NOT then falls on the next.
ReadWord(plan, w, meaning) ==
    CASE w \in {"and", "or"} -> [plan EXCEPT !.type = w]
      [] w = "not" -> [plan EXCEPT !.excludeNext = TRUE]
      [] w \notin Operators /\ meaning[w] = NoTerm -> plan
      [] w \notin Operators /\ meaning[w] # NoTerm ->
             IF plan.excludeNext
             THEN [plan EXCEPT !.excludes = Append(@, meaning[w]), !.excludeNext = FALSE]
             ELSE [plan EXCEPT !.terms = Append(@, meaning[w])]

\* The loop that Parse and normalizeQuery have in common.
ReadWords(words, meaning) ==
    LET read[n \in 0 .. Len(words)] ==
            IF n = 0 THEN NoWords ELSE ReadWord(read[n - 1], words[n], meaning)
    IN read[Len(words)]

Parse(words) == ReadWords(words, TermOf)

\* What a plan asks of the index.
Asks(plan) == <<plan.type, ToSet(plan.terms), ToSet(plan.excludes)>>

\* Each word of the dictionary as often as it is in s.
Sorted(s) ==
    FlattenSeq([n \in DOMAIN Dictionary |->
        [m \in 1 .. Cardinality({i \in DOMAIN s : s[i] = Dictionary[n]}) |-> Dictionary[n]]])

\* strings.Join: a comma in a word is like the one between two words.
Joined(s) == FlattenSeq([m \in DOMAIN Sorted(s) |-> Pieces[Sorted(s)[m]]])

\* The words are not tokenized here.
NormalizeQuery(words) ==
    LET plan == ReadWords(words, [w \in DOMAIN TermOf |-> w])
    IN <<plan.type, Joined(plan.terms), Joined(plan.excludes)>>

\* The key excludes a word that no term stands for, so the plan excludes another.
ExcludesNoTerm(i) ==
    \E w \in ToSet(ReadWords(i.words, [v \in DOMAIN TermOf |-> v]).excludes) :
        TermOf[w] = NoTerm

HasComma(i) == \E w \in ToSet(i.words) \ Operators : Pieces[w] # <<w>>

Limit(i) == IF i.limit = <<>> THEN DefaultLimit ELSE Min({i.limit[1], MaxResults})

\* Mutant of BuildKey: the limit is not part of the key.
BuildKeyOfQuery(i) == <<NormalizeQuery(i.words)>>

BuildKey(i) == <<NormalizeQuery(i.words), Limit(i)>>

\* The 400s of Search: no query, a limit that is not positive.  A query of blanks is one.
Valid(i) == i.given /\ \A n \in ToSet(i.limit) : n >= 1

\* A valid query without terms is answered without the cache.
Searches(i) == Valid(i) /\ Parse(i.words).terms # <<>>

\* What the inputs become, worked out once.
KeyTable == [i \in {j \in Inputs : Searches(j)} |-> BuildKey(i)]
AsksTable == [i \in Inputs |-> Asks(Parse(i.words))]

Keys == Range(KeyTable)

\* Two queries with one key have one plan, unless the key excludes a word that no
\* term stands for, or a word has a comma: normalizeQuery and Parse read the words
\* in the same way, and the key has every word.
KeysTellApart(inputs) ==
    LET reads == {<<BuildKey(i), Asks(Parse(i.words)), ExcludesNoTerm(i), HasComma(i)>> :
                     i \in inputs}
    IN \A a, b \in reads : a[1] = b[1] => a[2] = b[2] \/ a[3] \/ a[4] \/ b[4]

KeyOf(r) == KeyTable[input[r]]

Result(r) == [asks |-> AsksTable[input[r]], limit |-> Limit(input[r]),
              version |-> index, by |-> r]

NoOutcome == [status |-> 0, result |-> None]

Init ==
    /\ caching \in BOOLEAN
    /\ input = [r \in Requests |-> None]
    /\ handler = [r \in Requests |-> "none"]
    /\ server = [r \in Requests |-> "none"]
    /\ cancelled = {}
    /\ outcome = [r \in Requests |-> NoOutcome]
    /\ written = [r \in Requests |-> FALSE]
    /\ response = [r \in Requests |-> <<>>]
    /\ events = {}
    /\ cache = [k \in Keys |-> None]
    /\ flight = [k \in Keys |-> None]
    /\ index = 0
    /\ scan = None
    /\ since = 0
    /\ flushed = 0
    /\ floor = [r \in Requests |-> 0]
    /\ straddling = {}
    /\ failed = {}
    /\ invalidations = 0
    /\ faults = 0

-----------------------------------------------------------------------------
Goto(r, place) == handler' = [handler EXCEPT ![r] = place]
Fault == faults < MaxFaults /\ faults' = faults + 1

\* An operation with the request's context fails when Redis does or when the
\* context has ended.
RedisFails(r) == \/ Fault
                 \/ r \in cancelled /\ UNCHANGED faults

\* Timeout starts the handler in a goroutine; Search up to the cache.
Search(r, i) ==
    /\ handler[r] = "none"
    /\ input' = [input EXCEPT ![r] = i]
    /\ server' = [server EXCEPT ![r] = "select"]
    /\ floor' = [floor EXCEPT ![r] = flushed]
    /\ \/ /\ Searches(i)
          /\ Goto(r, IF caching THEN "get" ELSE "direct")
          /\ UNCHANGED outcome
       \/ /\ ~Searches(i)
          /\ Goto(r, "reply")
          /\ outcome' = [outcome EXCEPT ![r].status = IF Valid(i) THEN 200 ELSE 400]
    /\ UNCHANGED <<caching, cancelled, written, response, events, cache, flight, index,
                   invalidation, straddling, failed, faults>>

\* Get before the group and, by the leader, inside it.  An error is a miss.
Get(r) ==
    /\ handler[r] = "get"
    /\ \/ /\ cache[KeyOf(r)] # None
          /\ r \notin cancelled
          /\ outcome' = [outcome EXCEPT ![r] = [status |-> 200, result |-> cache[KeyOf(r)]]]
          /\ Goto(r, "reply")
          /\ UNCHANGED faults
       \/ /\ \/ cache[KeyOf(r)] = None /\ UNCHANGED faults
             \/ cache[KeyOf(r)] # None /\ RedisFails(r)
          /\ Goto(r, "join")
          /\ UNCHANGED outcome
    /\ UNCHANGED <<caching, input, server, cancelled, written, response, events, cache, flight,
                   index, invalidation, floor, straddling, failed>>

\* group.Do: the first caller of a key leads, the others wait for it.
Join(r) ==
    /\ handler[r] = "join"
    /\ \/ /\ flight[KeyOf(r)] = None
          /\ flight' = [flight EXCEPT ![KeyOf(r)] = r]
          /\ Goto(r, "getAgain")
       \/ /\ flight[KeyOf(r)] # None
          /\ Goto(r, "wait")
          /\ UNCHANGED flight
    /\ UNCHANGED <<caching, input, server, cancelled, outcome, written, response, events, cache,
                   index, invalidation, floor, straddling, failed, faults>>

Waiting(k) == {r \in Requests : handler[r] = "wait" /\ KeyOf(r) = k}

\* All who wait share the leader's result or its error (singleflight).
Sharing(r) == {r} \union Waiting(KeyOf(r))

Landed(r) == [flight EXCEPT ![KeyOf(r)] = None]

\* The leader's function returns.
EndFlight(r, o) ==
    /\ flight' = Landed(r)
    /\ outcome' = [q \in Requests |-> IF q \in Sharing(r) THEN o ELSE outcome[q]]
    /\ handler' = [q \in Requests |-> IF q \in Sharing(r) THEN "reply" ELSE handler[q]]

GetAgain(r) ==
    /\ handler[r] = "getAgain"
    /\ \/ /\ cache[KeyOf(r)] # None
          /\ r \notin cancelled
          /\ EndFlight(r, [status |-> 200, result |-> cache[KeyOf(r)]])
          /\ UNCHANGED faults
       \/ /\ \/ cache[KeyOf(r)] = None /\ UNCHANGED faults
             \/ cache[KeyOf(r)] # None /\ RedisFails(r)
          /\ Goto(r, "execute")
          /\ UNCHANGED <<flight, outcome>>
    /\ UNCHANGED <<caching, input, server, cancelled, written, response, events, cache, index,
                   invalidation, floor, straddling, failed>>

\* Execute fails when every shard does; Engine.Search of today reports no error, so
\* that only another executor takes this path.
Fails(r) == Fault /\ failed' = failed \union {r}

Error == [status |-> 500, result |-> None]

\* Mutant of Execute: the query ends with the context of the request that runs it.
ExecuteInContext(r) ==
    /\ handler[r] = "execute"
    /\ \/ /\ r \notin cancelled
          /\ Goto(r, "set")
          /\ outcome' = [outcome EXCEPT ![r] = [status |-> 200, result |-> Result(r)]]
          /\ UNCHANGED <<flight, failed, faults>>
       \/ r \in cancelled /\ EndFlight(r, Error) /\ UNCHANGED <<failed, faults>>
    /\ UNCHANGED <<caching, input, server, cancelled, written, response, events, cache, index,
                   invalidation, floor, straddling>>

\* computeFn.  Execute is given the leader's context and ignores it.
Execute(r) ==
    /\ handler[r] = "execute"
    /\ \/ /\ Goto(r, "set")
          /\ outcome' = [outcome EXCEPT ![r] = [status |-> 200, result |-> Result(r)]]
          /\ UNCHANGED <<flight, failed, faults>>
       \/ Fails(r) /\ EndFlight(r, Error)
    /\ UNCHANGED <<caching, input, server, cancelled, written, response, events, cache, index,
                   invalidation, floor, straddling>>

\* Without a cache every request executes its own query.
ExecuteDirect(r) ==
    /\ handler[r] = "direct"
    /\ \/ /\ outcome' = [outcome EXCEPT ![r] = [status |-> 200, result |-> Result(r)]]
          /\ UNCHANGED <<failed, faults>>
       \/ Fails(r) /\ outcome' = [outcome EXCEPT ![r] = Error]
    /\ Goto(r, "reply")
    /\ UNCHANGED <<caching, input, server, cancelled, written, response, events, cache, flight,
                   index, invalidation, floor, straddling>>

\* Set only logs its error: a result that took too long is not stored.
Set(r) ==
    /\ handler[r] = "set"
    /\ \/ /\ r \notin cancelled
          /\ cache' = [cache EXCEPT ![KeyOf(r)] = outcome[r].result]
          /\ UNCHANGED faults
       \/ RedisFails(r) /\ UNCHANGED cache
    /\ EndFlight(r, outcome[r])
    /\ UNCHANGED <<caching, input, server, cancelled, written, response, events, index,
                   invalidation, floor, straddling, failed>>

\* The event is tracked, then WriteHeader of the timeoutWriter sets its flag.
Reply(r) ==
    /\ handler[r] = "reply"
    /\ written' = [written EXCEPT ![r] = TRUE]
    /\ events' = IF outcome[r].result # None THEN events \union {r} ELSE events
    /\ Goto(r, "write")
    /\ UNCHANGED <<caching, input, server, cancelled, outcome, response, cache, flight, index,
                   invalidation, floor, straddling, failed, faults>>

\* The status and the body go to the connection, also behind a 504; when the
\* middleware has returned, net/http drops them.
Write(r) ==
    /\ handler[r] = "write"
    /\ response' = IF server[r] = "returned" THEN response
                   ELSE [response EXCEPT ![r] = Append(@, outcome[r].status)]
    /\ outcome' = [outcome EXCEPT ![r] = NoOutcome]
    /\ Goto(r, "done")
    /\ UNCHANGED <<caching, input, server, cancelled, written, events, cache, flight, index,
                   invalidation, floor, straddling, failed, faults>>

-----------------------------------------------------------------------------
\* The request's context ends: the timeout, or a client that goes away.
ContextEnds(r) ==
    /\ server[r] = "select"
    /\ r \notin cancelled
    /\ Cardinality(cancelled) < MaxTimeouts
    /\ cancelled' = cancelled \union {r}
    /\ UNCHANGED <<caching, input, handler, server, outcome, written, response, events, cache,
                   flight, index, invalidation, floor, straddling, failed, faults>>

\* Mutant of AfterTimeout: no 504.
AfterTimeoutSilent(r) == "returned"

AfterTimeout(r) == IF written[r] THEN "returned" ELSE "timeout"

\* The middleware's select, and its read of the flag when the context ended.
Select(r) ==
    /\ server[r] = "select"
    /\ \/ handler[r] = "done" /\ server' = [server EXCEPT ![r] = "returned"]
       \/ r \in cancelled /\ server' = [server EXCEPT ![r] = AfterTimeout(r)]
    /\ UNCHANGED <<caching, input, handler, cancelled, outcome, written, response, events,
                   cache, flight, index, invalidation, floor, straddling, failed, faults>>

\* http.Error writes the 504 past the timeoutWriter.
AnswerTimeout(r) ==
    /\ server[r] = "timeout"
    /\ response' = [response EXCEPT ![r] = Append(@, 504)]
    /\ server' = [server EXCEPT ![r] = "returned"]
    /\ UNCHANGED <<caching, input, handler, cancelled, outcome, written, events, cache, flight,
                   index, invalidation, floor, straddling, failed, faults>>

-----------------------------------------------------------------------------
\* CacheInvalidate.  SCAN returns every key that is there from beginning to
\* end, and may return one that is stored meanwhile.
InvalidateStart ==
    /\ caching
    /\ scan = None
    /\ invalidations < MaxInvalidations
    /\ invalidations' = invalidations + 1
    /\ scan' = {k \in Keys : cache[k] # None}
    /\ since' = index
    /\ straddling' = straddling \union {r \in Requests : handler[r] = "set"}
    /\ UNCHANGED <<caching, request, cache, flight, index, flushed, floor, failed, faults>>

Delete(k) ==
    /\ scan # None
    /\ k \in scan \/ cache[k] # None
    /\ cache' = [cache EXCEPT ![k] = None]
    /\ scan' = scan \ {k}
    /\ UNCHANGED <<caching, request, flight, index, since, flushed, invalidations, floor,
                   straddling, failed, faults>>

\* Mutant of ScanDone: the iteration may stop early.
ScanStopped == TRUE

ScanDone == scan = {}

\* The end, or the first error: the keys deleted so far stay deleted.
InvalidateEnd ==
    /\ scan # None
    /\ \/ ScanDone /\ flushed' = since /\ UNCHANGED faults
       \/ Fault /\ UNCHANGED flushed
    /\ scan' = None
    /\ UNCHANGED <<caching, request, cache, flight, index, since, invalidations, floor,
                   straddling, failed>>

\* The time to live of a key ends.
Expire(k) ==
    /\ cache[k] # None
    /\ cache' = [cache EXCEPT ![k] = None]
    /\ UNCHANGED <<caching, request, flight, index, invalidation, floor, straddling, failed,
                   faults>>

HotReload ==
    /\ index < MaxVersion
    /\ index' = index + 1
    /\ UNCHANGED <<caching, request, cache, flight, invalidation, floor, straddling, failed,
                   faults>>

-----------------------------------------------------------------------------
HandlerStep(r) ==
    \/ Get(r) \/ Join(r) \/ GetAgain(r) \/ Execute(r) \/ Set(r)
    \/ ExecuteDirect(r) \/ Reply(r) \/ Write(r)

ServerStep(r) == Select(r) \/ AnswerTimeout(r)

Next ==
    \/ \E r \in Requests, i \in Inputs : Search(r, i)
    \/ \E r \in Requests : HandlerStep(r) \/ ContextEnds(r) \/ ServerStep(r)
    \/ InvalidateStart
    \/ \E k \in Keys : Delete(k) \/ Expire(k)
    \/ InvalidateEnd
    \/ HotReload

Spec == Init /\ [][Next]_vars

-----------------------------------------------------------------------------
\* A result from the cache or from another request's flight answers the query
\* that was asked, with the limit that was asked: buildKey tells apart what
\* Parse tells apart.  It does not when a word after NOT has no token ("x not the
\* y": the key excludes "the", the plan excludes "y"), and when a word of one of the
\* two queries has a comma ("x,y" has the key of "x y", and asks for x only).
AnswersOwnQuery ==
    \A r \in Requests : outcome[r].result # None =>
        /\ outcome[r].result.limit = Limit(input[r])
        /\ \/ outcome[r].result.asks = AsksTable[input[r]]
           \/ ExcludesNoTerm(input[r])
           \/ HasComma(input[r]) \/ HasComma(input[outcome[r].result.by])

\* After an invalidation that succeeded no later request is given what was
\* computed before it, except by a call that had its result when the invalidation
\* began and stored or shared it afterwards.
StaleOnlyFromFlight ==
    \A r \in Requests : outcome[r].result # None =>
        \/ outcome[r].result.version >= floor[r]
        \/ outcome[r].result.by \in straddling

\* The middleware returns only when an answer has been written or the handler
\* has begun to write one.
AnswerUnderway ==
    \A r \in Requests : server[r] = "returned" => written[r] \/ 504 \in ToSet(response[r])

\* A request is answered 500 only when the query itself failed, for it or for one
\* with its key: neither an error of Redis nor the end of the context of the request
\* that leads the group's call, by its timeout or because its client left, makes an
\* error for the requests that wait for the call.
FailsOnlyByQuery ==
    \A r \in Requests : outcome[r].status = 500 => \E q \in failed : KeyOf(q) = KeyOf(r)
=============================================================================
