------------------------ MODULE SearchServiceProofs ------------------------
(***************************************************************************)
(* Proofs about SearchService, for any requests, queries, faults,          *)
(* timeouts, reloads and invalidations.                                    *)
(***************************************************************************)
EXTENDS SearchService, WellFoundedInduction, SequenceTheorems, FiniteSetTheorems, TLAPS

\* The inputs that have a key.
Keyed == DOMAIN KeyTable

Results ==
    [asks : {AsksTable[i] : i \in Inputs}, limit : {Limit(i) : i \in Inputs},
     version : Nat, by : Requests]

Outcomes == [status : Nat, result : Results \union {None}]

\* The places in the group's function, and the ones where the key is used.
Leading == {"getAgain", "execute", "set"}
Searching == {"get", "join", "wait", "direct"} \union Leading
Places == {"none", "reply", "write", "done"} \union Searching

RequestType ==
    /\ input \in [Requests -> Inputs \union {None}]
    /\ handler \in [Requests -> Places]
    /\ server \in [Requests -> {"none", "select", "timeout", "returned"}]
    /\ outcome \in [Requests -> Outcomes]
    /\ written \in [Requests -> BOOLEAN]
    /\ response \in [Requests -> Seq(Nat)]
    /\ floor \in [Requests -> Nat]
    /\ \A r \in Requests : handler[r] \in Searching => input[r] \in Keyed
    /\ \A r \in Requests : handler[r] = "none" => input[r] = None /\ outcome[r].result = None

CacheType ==
    /\ cache \in [Keys -> Results \union {None}]
    /\ flight \in [Keys -> Requests \union {None}]
    /\ index \in Nat /\ since \in Nat /\ flushed \in Nat

ServiceType == RequestType /\ CacheType

-----------------------------------------------------------------------------
\* Who has set the flag goes on to write.
AnswerInv ==
    /\ \A r \in Requests : handler[r] \in {"write", "done"} => written[r] = TRUE
    /\ AnswerUnderway

\* A result of at least this version, or one that straddles an invalidation.
Fresh(result, version) == result.version >= version \/ result.by \in straddling

\* During an invalidation what is older than its begin is still to be deleted, and
\* nothing older is on its way into the cache but what straddles.
FreshInv ==
    /\ flushed <= since /\ since <= index
    /\ \A r \in Requests : floor[r] <= flushed
    /\ \A k \in Keys : cache[k] # None => Fresh(cache[k], flushed)
    /\ scan # None => \A k \in Keys \ scan : cache[k] # None => Fresh(cache[k], since)
    /\ \A r \in Requests : handler[r] = "set" =>
           /\ outcome[r].result \in Results
           /\ outcome[r].result.by = r
           /\ Fresh(outcome[r].result, since)
    /\ StaleOnlyFromFlight

\* The result was computed for a request with this key.
ComputedFor(result, k) ==
    /\ input[result.by] \in Keyed
    /\ KeyTable[input[result.by]] = k
    /\ result.asks = AsksTable[input[result.by]]
    /\ result.limit = Limit(input[result.by])

QueryInv ==
    /\ \A k \in Keys : cache[k] # None => ComputedFor(cache[k], k)
    /\ \A r \in Requests : outcome[r].result # None =>
           input[r] \in Keyed /\ ComputedFor(outcome[r].result, KeyTable[input[r]])

\* Who has an error has the key of a query that failed.
FailedWithKey(k) == \E q \in failed : input[q] \in Keyed /\ KeyTable[input[q]] = k

ErrorInv ==
    /\ failed \subseteq Requests
    /\ \A r \in Requests : outcome[r].status = 500 =>
           input[r] \in Keyed /\ FailedWithKey(KeyTable[input[r]])

-----------------------------------------------------------------------------
LEMMA KeyedFacts ==
    ASSUME NEW i \in Keyed
    PROVE  i \in Inputs /\ Searches(i) /\ KeyTable[i] \in Keys /\ KeyTable[i] = BuildKey(i)
BY DEF Keyed, KeyTable, Keys, Range

LEMMA SearchedIsKeyed ==
    ASSUME NEW i \in Inputs, Searches(i)
    PROVE  i \in Keyed
BY DEF Keyed, KeyTable

\* What Execute computes.
LEMMA ResultFacts ==
    ASSUME NEW r \in Requests, input[r] \in Inputs, index \in Nat
    PROVE  /\ Result(r) \in Results
           /\ Result(r).asks = AsksTable[input[r]]
           /\ Result(r).limit = Limit(input[r])
           /\ Result(r).version = index
           /\ Result(r).by = r
BY DEF Result, Results

\* The leader's call ends: its key is free, and it and all who waited go on with
\* the outcome; nobody else moves.
Shared(r, q, o) ==
    /\ handler[q] = "wait" \/ q = r
    /\ KeyOf(q) = KeyOf(r)
    /\ handler'[q] = "reply"
    /\ outcome'[q] = o

Passed(r, q) ==
    /\ q # r
    /\ handler[q] = "wait" => KeyOf(q) # KeyOf(r)
    /\ handler'[q] = handler[q]
    /\ outcome'[q] = outcome[q]

LEMMA EndFlightFacts ==
    ASSUME ServiceType, NEW r \in Requests, handler[r] \in Leading,
           NEW o \in Outcomes, EndFlight(r, o)
    PROVE  /\ KeyOf(r) \in Keys
           /\ handler' \in [Requests -> Places]
           /\ outcome' \in [Requests -> Outcomes]
           /\ flight' \in [Keys -> Requests \union {None}]
           /\ flight'[KeyOf(r)] = None
           /\ \A k \in Keys : k # KeyOf(r) => flight'[k] = flight[k]
           /\ \A q \in Requests : Shared(r, q, o) \/ Passed(r, q)
<1>1. input[r] \in Keyed
  BY DEF ServiceType, RequestType, Searching
<1>2. PICK key \in Keys : key = KeyOf(r)
  BY <1>1, KeyedFacts DEF KeyOf
<1>3. flight' = [flight EXCEPT ![key] = None]
  BY <1>2 DEF EndFlight, Landed
<1>4. flight \in [Keys -> Requests \union {None}]
  BY DEF ServiceType, CacheType
<1>5. DEFINE S == {r} \union Waiting(key)
<1>6. /\ outcome' = [q \in Requests |-> IF q \in S THEN o ELSE outcome[q]]
      /\ handler' = [q \in Requests |-> IF q \in S THEN "reply" ELSE handler[q]]
  BY <1>2 DEF EndFlight, Sharing
<1>7. \A q \in Requests : q \in S <=> q = r \/ (handler[q] = "wait" /\ KeyOf(q) = key)
  BY DEF Waiting
<1>8. \A q \in Requests : q \in S \/ q \notin S
  OBVIOUS
<1> HIDE DEF S
<1>9. handler \in [Requests -> Places] /\ outcome \in [Requests -> Outcomes]
  BY DEF ServiceType, RequestType
<1>10. "reply" \in Places
  BY DEF Places
<1>11. handler' \in [Requests -> Places] /\ outcome' \in [Requests -> Outcomes]
  BY <1>6, <1>9, <1>10
<1>12. ASSUME NEW q \in Requests PROVE Shared(r, q, o) \/ Passed(r, q)
  BY <1>2, <1>6, <1>7 DEF Shared, Passed
<1>13. QED
  BY <1>2, <1>3, <1>4, <1>11, <1>12

\* The steps of the specification.
LEMMA ActionCases ==
    ASSUME [Next]_vars
    PROVE  \/ \E r \in Requests, i \in Inputs : Search(r, i)
           \/ \E r \in Requests : \/ Get(r) \/ Join(r) \/ GetAgain(r) \/ Execute(r)
                                  \/ Set(r) \/ ExecuteDirect(r) \/ Reply(r) \/ Write(r)
                                  \/ ContextEnds(r) \/ Select(r) \/ AnswerTimeout(r)
           \/ InvalidateStart
           \/ \E k \in Keys : Delete(k) \/ Expire(k)
           \/ InvalidateEnd
           \/ HotReload
           \/ UNCHANGED vars
BY DEF Next, HandlerStep, ServerStep

LEMMA NoOutcomeType ==
    /\ NoOutcome \in Outcomes /\ NoOutcome.result = None /\ NoOutcome.status # 500
    /\ Error \in Outcomes /\ Error.result = None
BY DEF NoOutcome, Error, Outcomes

LEMMA InitType == Init => ServiceType
<1> SUFFICES ASSUME Init PROVE ServiceType
  OBVIOUS
<1>1. RequestType
  BY NoOutcomeType DEF Init, RequestType, Places, Searching, Leading
<1>2. CacheType
  BY DEF Init, CacheType
<1>3. QED
  BY <1>1, <1>2 DEF ServiceType

LEMMA SearchType ==
    ASSUME ServiceType, NEW r \in Requests, NEW i \in Inputs, Search(r, i)
    PROVE  ServiceType'
<1> USE DEF ServiceType
<1>1. /\ handler[r] = "none"
      /\ input' = [input EXCEPT ![r] = i]
      /\ server' = [server EXCEPT ![r] = "select"]
      /\ floor' = [floor EXCEPT ![r] = flushed]
      /\ UNCHANGED <<written, response, cache, flight, index, since, flushed>>
  BY DEF Search, invalidation
<1>2. CacheType'
  BY <1>1 DEF CacheType
<1>3. \/ /\ Searches(i) /\ outcome' = outcome
         /\ \E place \in {"get", "direct"} : handler' = [handler EXCEPT ![r] = place]
      \/ /\ handler' = [handler EXCEPT ![r] = "reply"]
         /\ outcome' = [outcome EXCEPT ![r].status = 200]
            \/ outcome' = [outcome EXCEPT ![r].status = 400]
  BY DEF Search, Goto
<1>4. outcome \in [Requests -> Outcomes]
  BY DEF RequestType
<1>5. outcome' \in [Requests -> Outcomes] /\ \A q \in Requests : outcome'[q].result = outcome[q].result
  BY <1>3, <1>4 DEF Outcomes
<1>6. \/ i \in Keyed /\ \E place \in {"get", "direct"} : handler' = [handler EXCEPT ![r] = place]
      \/ handler' = [handler EXCEPT ![r] = "reply"]
  BY <1>3, SearchedIsKeyed
<1>7. RequestType'
  BY <1>1, <1>5, <1>6 DEF RequestType, CacheType, Places, Searching, Leading
<1>8. QED
  BY <1>2, <1>7

LEMMA EndFlightType ==
    ASSUME ServiceType, NEW r \in Requests, handler[r] \in Leading,
           NEW o \in Outcomes, EndFlight(r, o),
           UNCHANGED <<input, server, written, response, floor, index, since, flushed>>,
           cache' \in [Keys -> Results \union {None}]
    PROVE  ServiceType'
<1>1. /\ handler' \in [Requests -> Places]
      /\ outcome' \in [Requests -> Outcomes]
      /\ flight' \in [Keys -> Requests \union {None}]
      /\ \A q \in Requests : Shared(r, q, o) \/ Passed(r, q)
  BY EndFlightFacts
<1>2. ASSUME NEW q \in Requests
      PROVE  handler'[q] = "reply" \/ (handler'[q] = handler[q] /\ outcome'[q] = outcome[q])
  BY <1>1 DEF Shared, Passed
<1>3. RequestType'
  BY <1>1, <1>2 DEF ServiceType, RequestType, Searching, Leading
<1>4. CacheType'
  BY <1>1 DEF ServiceType, CacheType
<1>5. QED
  BY <1>3, <1>4 DEF ServiceType

\* A handler that moves with its own outcome.
LEMMA MoveType ==
    ASSUME ServiceType, NEW r \in Requests, handler[r] # "none",
           NEW place \in Places \ {"none"}, place \in Searching => handler[r] \in Searching,
           Goto(r, place), NEW o \in Outcomes,
           outcome' = [outcome EXCEPT ![r] = o] \/ outcome' = outcome,
           written' \in [Requests -> BOOLEAN], response' \in [Requests -> Seq(Nat)],
           flight' \in [Keys -> Requests \union {None}],
           UNCHANGED <<input, server, floor, cache, index, since, flushed>>
    PROVE  ServiceType'
<1>1. handler' = [handler EXCEPT ![r] = place]
  BY DEF Goto
<1>2. outcome' \in [Requests -> Outcomes] /\ \A q \in Requests : q # r => outcome'[q] = outcome[q]
  BY DEF ServiceType, RequestType
<1>3. RequestType'
  BY <1>1, <1>2 DEF ServiceType, RequestType
<1>4. CacheType'
  BY DEF ServiceType, CacheType
<1>5. QED
  BY <1>3, <1>4 DEF ServiceType

LEMMA KeyOfType ==
    ASSUME ServiceType, NEW r \in Requests, handler[r] \in Searching
    PROVE  /\ input[r] \in Keyed /\ KeyOf(r) \in Keys
           /\ cache[KeyOf(r)] \in Results \union {None}
BY KeyedFacts DEF ServiceType, RequestType, CacheType, KeyOf

\* A hit.
LEMMA HitType ==
    ASSUME ServiceType, NEW r \in Requests, handler[r] \in Searching
    PROVE  [status |-> 200, result |-> cache[KeyOf(r)]] \in Outcomes
BY KeyOfType DEF Outcomes

LEMMA StepType == ServiceType /\ [Next]_vars => ServiceType'
<1> SUFFICES ASSUME ServiceType, [Next]_vars PROVE ServiceType'
  OBVIOUS
<1> USE DEF Places, Searching, Leading
<1>1. ASSUME NEW r \in Requests, NEW i \in Inputs, Search(r, i) PROVE ServiceType'
  BY <1>1, SearchType
<1>a. flight \in [Keys -> Requests \union {None}] /\ cache \in [Keys -> Results \union {None}]
  BY DEF ServiceType, CacheType
<1>b. /\ written \in [Requests -> BOOLEAN] /\ response \in [Requests -> Seq(Nat)]
      /\ outcome \in [Requests -> Outcomes]
  BY DEF ServiceType, RequestType
<1>2. ASSUME NEW r \in Requests, Get(r) PROVE ServiceType'
  <2>1. /\ handler[r] = "get"
        /\ UNCHANGED <<input, server, written, response, cache, flight, index, since, flushed, floor>>
    BY <1>2 DEF Get, invalidation
  <2>2. CASE /\ outcome' = [outcome EXCEPT ![r] = [status |-> 200, result |-> cache[KeyOf(r)]]]
             /\ Goto(r, "reply")
    <3>1. PICK o \in Outcomes : o = [status |-> 200, result |-> cache[KeyOf(r)]]
      BY <2>1, HitType
    <3>2. QED
      BY <1>a, <1>b, <2>1, <2>2, <3>1, MoveType
  <2>3. CASE Goto(r, "join") /\ UNCHANGED outcome
    BY <1>a, <1>b, <2>1, <2>3, NoOutcomeType, MoveType
  <2>4. QED
    BY <1>2, <2>2, <2>3 DEF Get
<1>3. ASSUME NEW r \in Requests, Join(r) PROVE ServiceType'
  <2>1. /\ handler[r] = "join"
        /\ UNCHANGED <<input, server, outcome, written, response, cache, index, since, flushed, floor>>
    BY <1>3 DEF Join, invalidation
  <2>2. PICK key \in Keys : key = KeyOf(r)
    BY <2>1, KeyOfType
  <2>3. \/ flight' = [flight EXCEPT ![key] = r] /\ Goto(r, "getAgain")
        \/ flight' = flight /\ Goto(r, "wait")
    BY <1>3, <2>2 DEF Join
  <2>4. flight' \in [Keys -> Requests \union {None}]
    BY <1>a, <2>2, <2>3
  <2>5. QED
    BY <1>b, <2>1, <2>3, <2>4, NoOutcomeType, MoveType
<1>4. ASSUME NEW r \in Requests, GetAgain(r) PROVE ServiceType'
  <2>1. /\ handler[r] = "getAgain"
        /\ UNCHANGED <<input, server, written, response, cache, index, since, flushed, floor>>
    BY <1>4 DEF GetAgain, invalidation
  <2>2. PICK o \in Outcomes : o = [status |-> 200, result |-> cache[KeyOf(r)]]
    BY <2>1, HitType
  <2>3. CASE EndFlight(r, o)
    BY <1>a, <2>1, <2>3, EndFlightType
  <2>4. CASE Goto(r, "execute") /\ UNCHANGED <<flight, outcome>>
    BY <1>a, <1>b, <2>1, <2>4, NoOutcomeType, MoveType
  <2>5. QED
    BY <1>4, <2>2, <2>3, <2>4 DEF GetAgain
<1>5. ASSUME NEW r \in Requests, Execute(r) PROVE ServiceType'
  <2>1. /\ handler[r] = "execute"
        /\ UNCHANGED <<input, server, written, response, cache, index, since, flushed, floor>>
    BY <1>5 DEF Execute, invalidation
  <2>2. input[r] \in Inputs /\ index \in Nat
    BY <2>1, KeyOfType, KeyedFacts DEF ServiceType, CacheType
  <2>3. PICK o \in Outcomes : o = [status |-> 200, result |-> Result(r)]
    BY <2>2, ResultFacts DEF Outcomes
  <2>a. Error \in Outcomes
    BY NoOutcomeType
  <2>4. PICK e \in Outcomes : e = Error
    BY <2>a
  <2>5. CASE Goto(r, "set") /\ outcome' = [outcome EXCEPT ![r] = o] /\ UNCHANGED flight
    BY <1>a, <1>b, <2>1, <2>5, MoveType
  <2>6. CASE EndFlight(r, e)
    BY <1>a, <2>1, <2>6, EndFlightType
  <2>7. QED
    BY <1>5, <2>3, <2>4, <2>5, <2>6 DEF Execute
<1>6. ASSUME NEW r \in Requests, Set(r) PROVE ServiceType'
  <2>1. /\ handler[r] = "set"
        /\ UNCHANGED <<input, server, written, response, index, since, flushed, floor>>
    BY <1>6 DEF Set, invalidation
  <2>2. PICK o \in Outcomes : o = outcome[r]
    BY <1>b
  <2>3. PICK key \in Keys : key = KeyOf(r)
    BY <2>1, KeyOfType
  <2>4. cache' = [cache EXCEPT ![key] = o.result] \/ cache' = cache
    BY <1>6, <2>2, <2>3 DEF Set
  <2>5. cache' \in [Keys -> Results \union {None}]
    BY <1>a, <2>2, <2>4 DEF Outcomes
  <2>6. EndFlight(r, o)
    BY <1>6, <2>2 DEF Set
  <2>7. QED
    BY <2>1, <2>5, <2>6, EndFlightType
<1>d. ASSUME NEW r \in Requests, ExecuteDirect(r) PROVE ServiceType'
  <2>1. /\ handler[r] = "direct" /\ Goto(r, "reply")
        /\ UNCHANGED <<input, server, written, response, cache, flight, index, since, flushed, floor>>
    BY <1>d DEF ExecuteDirect, invalidation
  <2>2. input[r] \in Inputs /\ index \in Nat
    BY <2>1, KeyOfType, KeyedFacts DEF ServiceType, CacheType
  <2>3. [status |-> 200, result |-> Result(r)] \in Outcomes /\ Error \in Outcomes
    BY <2>2, ResultFacts, NoOutcomeType DEF Outcomes
  <2>4. PICK o \in Outcomes : outcome' = [outcome EXCEPT ![r] = o]
    BY <1>d, <2>3 DEF ExecuteDirect
  <2>5. QED
    BY <1>a, <1>b, <2>1, <2>4, MoveType
<1>7. ASSUME NEW r \in Requests, Reply(r) PROVE ServiceType'
  <2>1. /\ handler[r] = "reply" /\ written' = [written EXCEPT ![r] = TRUE] /\ Goto(r, "write")
        /\ UNCHANGED <<input, server, outcome, response, cache, flight, index, since, flushed, floor>>
    BY <1>7 DEF Reply, invalidation
  <2>2. written' \in [Requests -> BOOLEAN]
    BY <1>b, <2>1
  <2>3. QED
    BY <1>a, <1>b, <2>1, <2>2, NoOutcomeType, MoveType
<1>8. ASSUME NEW r \in Requests, Write(r) PROVE ServiceType'
  <2>1. /\ handler[r] = "write" /\ Goto(r, "done")
        /\ \/ response' = response
           \/ response' = [response EXCEPT ![r] = Append(response[r], outcome[r].status)]
        /\ outcome' = [outcome EXCEPT ![r] = NoOutcome]
        /\ UNCHANGED <<input, server, written, cache, flight, index, since, flushed, floor>>
    BY <1>8 DEF Write, invalidation
  <2>2. response' \in [Requests -> Seq(Nat)]
    <3>1. outcome[r].status \in Nat /\ response[r] \in Seq(Nat)
      BY <1>b DEF Outcomes
    <3>a. Append(response[r], outcome[r].status) \in Seq(Nat)
      BY <3>1
    <3>2. PICK answer \in Seq(Nat) : answer = Append(response[r], outcome[r].status)
      BY <3>a
    <3>3. response' = response \/ response' = [response EXCEPT ![r] = answer]
      BY <2>1, <3>2
    <3>4. QED
      BY <1>b, <3>3
  <2>3. QED
    BY <1>a, <1>b, <2>1, <2>2, NoOutcomeType, MoveType
<1>9. ASSUME NEW r \in Requests, ContextEnds(r) \/ Select(r) \/ AnswerTimeout(r) PROVE ServiceType'
  <2>1. UNCHANGED <<input, handler, outcome, written, cache, flight, index, since, flushed, floor>>
    BY <1>9 DEF ContextEnds, Select, AnswerTimeout, invalidation
  <2>a. AfterTimeout(r) \in {"timeout", "returned"}
    BY DEF AfterTimeout
  <2>b. \/ server' = server
        \/ \E place \in {"timeout", "returned"} : server' = [server EXCEPT ![r] = place]
    BY <1>9, <2>a DEF ContextEnds, Select, AnswerTimeout
  <2>2. server' \in [Requests -> {"none", "select", "timeout", "returned"}]
    BY <2>b DEF ServiceType, RequestType
  <2>3. response' = response \/ response' = [response EXCEPT ![r] = Append(response[r], 504)]
    BY <1>9 DEF ContextEnds, Select, AnswerTimeout
  <2>4. response' \in [Requests -> Seq(Nat)]
    <3>1. Append(response[r], 504) \in Seq(Nat)
      BY <1>b
    <3>2. PICK answer \in Seq(Nat) : answer = Append(response[r], 504)
      BY <3>1
    <3>3. response' = response \/ response' = [response EXCEPT ![r] = answer]
      BY <2>3, <3>2
    <3>4. QED
      BY <1>b, <3>3
  <2>5. RequestType'
    BY <2>1, <2>2, <2>4 DEF ServiceType, RequestType
  <2>6. QED
    BY <2>1, <2>5 DEF ServiceType, CacheType
<1>10. ASSUME UNCHANGED <<request, flight, floor>>, cache' \in [Keys -> Results \union {None}],
              index' \in Nat, since' \in Nat, flushed' \in Nat
       PROVE  ServiceType'
  BY <1>10 DEF ServiceType, RequestType, CacheType, request
<1>c. index \in Nat /\ since \in Nat /\ flushed \in Nat
  BY DEF ServiceType, CacheType
<1>11. CASE InvalidateStart
  BY <1>a, <1>c, <1>10, <1>11 DEF InvalidateStart
<1>12. ASSUME NEW k \in Keys, Delete(k) \/ Expire(k) PROVE ServiceType'
  <2>1. /\ cache' = [cache EXCEPT ![k] = None]
        /\ UNCHANGED <<request, flight, index, since, flushed, floor>>
    BY <1>12 DEF Delete, Expire, invalidation
  <2>2. cache' \in [Keys -> Results \union {None}]
    BY <1>a, <2>1
  <2>3. QED
    BY <1>c, <1>10, <2>1, <2>2
<1>13. CASE InvalidateEnd
  BY <1>a, <1>c, <1>10, <1>13 DEF InvalidateEnd
<1>14. CASE HotReload
  BY <1>a, <1>c, <1>10, <1>14 DEF HotReload, invalidation
<1>15. CASE UNCHANGED vars
  BY <1>a, <1>c, <1>10, <1>15 DEF vars, invalidation
<1>16. QED
  BY <1>1, <1>2, <1>3, <1>4, <1>5, <1>6, <1>d, <1>7, <1>8, <1>9, <1>11, <1>12, <1>13, <1>14,
     <1>15, ActionCases

-----------------------------------------------------------------------------
LEMMA AnswerFrame ==
    ASSUME AnswerInv, UNCHANGED <<written, response, server>>,
           \A q \in Requests : handler'[q] \in {"write", "done"} => handler'[q] = handler[q]
    PROVE  AnswerInv'
BY DEF AnswerInv, AnswerUnderway

\* Nobody who shares an outcome is beyond its reply.
LEMMA EndFlightWrites ==
    ASSUME ServiceType, NEW r \in Requests, handler[r] \in Leading,
           NEW o \in Outcomes, EndFlight(r, o)
    PROVE  \A q \in Requests : handler'[q] \in {"write", "done"} => handler'[q] = handler[q]
BY EndFlightFacts DEF Shared, Passed

LEMMA AppendToSet ==
    ASSUME NEW S, NEW s \in Seq(S), NEW e \in S
    PROVE  e \in ToSet(Append(s, e)) /\ ToSet(s) \subseteq ToSet(Append(s, e))
<1>1. /\ Append(s, e) \in Seq(S) /\ Len(Append(s, e)) = Len(s) + 1 /\ Len(s) \in Nat
      /\ Append(s, e)[Len(s) + 1] = e
      /\ \A i \in 1 .. Len(s) : Append(s, e)[i] = s[i]
  OBVIOUS
<1>2. DOMAIN s = 1 .. Len(s) /\ DOMAIN Append(s, e) = 1 .. Len(s) + 1
  BY <1>1
<1>3. QED
  BY <1>1, <1>2 DEF ToSet

LEMMA StepAnswer == ServiceType /\ AnswerInv /\ [Next]_vars => AnswerInv'
<1> SUFFICES ASSUME ServiceType, AnswerInv, [Next]_vars PROVE AnswerInv'
  OBVIOUS
<1> USE DEF Searching, Leading
<1>a. /\ handler \in [Requests -> Places] /\ written \in [Requests -> BOOLEAN]
      /\ server \in [Requests -> {"none", "select", "timeout", "returned"}]
      /\ response \in [Requests -> Seq(Nat)] /\ outcome \in [Requests -> Outcomes]
  BY DEF ServiceType, RequestType
<1>b. ASSUME NEW r \in Requests, NEW place \in Places \ {"write", "done"}, Goto(r, place)
      PROVE  \A q \in Requests : handler'[q] \in {"write", "done"} => handler'[q] = handler[q]
  BY <1>a, <1>b DEF Goto
<1> USE DEF Places
<1>1. ASSUME NEW r \in Requests, NEW i \in Inputs, Search(r, i) PROVE AnswerInv'
  <2>1. /\ handler[r] = "none" /\ server' = [server EXCEPT ![r] = "select"]
        /\ UNCHANGED <<written, response>>
    BY <1>1 DEF Search
  <2>2. Goto(r, "get") \/ Goto(r, "direct") \/ Goto(r, "reply")
    BY <1>1 DEF Search
  <2>3. \A q \in Requests : handler'[q] \in {"write", "done"} => handler'[q] = handler[q]
    BY <1>b, <2>2
  <2>4. \A q \in Requests : server'[q] = "returned" => server[q] = "returned"
    BY <1>a, <2>1
  <2>5. QED
    BY <2>1, <2>3, <2>4 DEF AnswerInv, AnswerUnderway
<1>2. ASSUME NEW r \in Requests, Get(r) \/ Join(r) \/ ExecuteDirect(r) PROVE AnswerInv'
  <2>1. UNCHANGED <<written, response, server>>
    BY <1>2 DEF Get, Join, ExecuteDirect
  <2>2. \E place \in Places \ {"write", "done"} : Goto(r, place)
    BY <1>2 DEF Get, Join, ExecuteDirect
  <2>3. QED
    BY <1>b, <2>1, <2>2, AnswerFrame
<1>3. ASSUME NEW r \in Requests, GetAgain(r) PROVE AnswerInv'
  <2>1. handler[r] = "getAgain" /\ UNCHANGED <<written, response, server>>
    BY <1>3 DEF GetAgain
  <2>2. PICK o \in Outcomes : o = [status |-> 200, result |-> cache[KeyOf(r)]]
    BY <2>1, HitType
  <2>3. EndFlight(r, o) \/ Goto(r, "execute")
    BY <1>3, <2>2 DEF GetAgain
  <2>4. QED
    BY <1>b, <2>1, <2>3, EndFlightWrites, AnswerFrame
<1>4. ASSUME NEW r \in Requests, Execute(r) PROVE AnswerInv'
  <2>1. handler[r] = "execute" /\ UNCHANGED <<written, response, server>>
    BY <1>4 DEF Execute
  <2>2. Error \in Outcomes /\ Error.result = None
    BY NoOutcomeType
  <2>3. EndFlight(r, Error) \/ Goto(r, "set")
    BY <1>4 DEF Execute
  <2>4. QED
    BY <1>b, <2>1, <2>2, <2>3, EndFlightWrites, AnswerFrame
<1>5. ASSUME NEW r \in Requests, Set(r) PROVE AnswerInv'
  <2>1. /\ handler[r] = "set" /\ EndFlight(r, outcome[r])
        /\ UNCHANGED <<written, response, server>>
    BY <1>5 DEF Set
  <2>2. QED
    BY <1>a, <2>1, EndFlightWrites, AnswerFrame
<1>6. ASSUME NEW r \in Requests, Reply(r) PROVE AnswerInv'
  <2>1. /\ written' = [written EXCEPT ![r] = TRUE] /\ handler' = [handler EXCEPT ![r] = "write"]
        /\ UNCHANGED <<server, response>>
    BY <1>6 DEF Reply, Goto
  <2>2. /\ written'[r] = TRUE
        /\ \A q \in Requests : q # r => handler'[q] = handler[q] /\ written'[q] = written[q]
    BY <1>a, <2>1
  <2>3. QED
    BY <2>1, <2>2 DEF AnswerInv, AnswerUnderway
<1>7. ASSUME NEW r \in Requests, Write(r) PROVE AnswerInv'
  <2>1. /\ handler[r] = "write" /\ handler' = [handler EXCEPT ![r] = "done"]
        /\ \/ response' = response
           \/ response' = [response EXCEPT ![r] = Append(response[r], outcome[r].status)]
        /\ UNCHANGED <<server, written>>
    BY <1>7 DEF Write, Goto
  <2>2. outcome[r].status \in Nat /\ response[r] \in Seq(Nat)
    BY <1>a DEF Outcomes
  <2>3. ToSet(response[r]) \subseteq ToSet(Append(response[r], outcome[r].status))
    BY <2>2, AppendToSet
  <2>4. \A q \in Requests : ToSet(response[q]) \subseteq ToSet(response'[q])
    BY <1>a, <2>1, <2>3
  <2>5. written[r] = TRUE
    BY <2>1 DEF AnswerInv
  <2>6. \A q \in Requests : q # r => handler'[q] = handler[q]
    BY <1>a, <2>1
  <2>7. QED
    BY <2>1, <2>4, <2>5, <2>6 DEF AnswerInv, AnswerUnderway
<1>8. ASSUME NEW r \in Requests, ContextEnds(r) PROVE AnswerInv'
  BY <1>8, AnswerFrame DEF ContextEnds
<1>9. ASSUME NEW r \in Requests, Select(r) PROVE AnswerInv'
  <2>1. /\ UNCHANGED <<handler, written, response>>
        /\ \/ handler[r] = "done" /\ server' = [server EXCEPT ![r] = "returned"]
           \/ server' = [server EXCEPT ![r] = AfterTimeout(r)]
    BY <1>9 DEF Select
  <2>2. AfterTimeout(r) = "returned" => written[r]
    BY DEF AfterTimeout
  <2>3. server'[r] = "returned" => written[r]
    BY <1>a, <2>1, <2>2 DEF AnswerInv
  <2>4. \A q \in Requests : q # r => server'[q] = server[q]
    BY <1>a, <2>1
  <2>5. QED
    BY <2>1, <2>3, <2>4 DEF AnswerInv, AnswerUnderway
<1>10. ASSUME NEW r \in Requests, AnswerTimeout(r) PROVE AnswerInv'
  <2>1. /\ UNCHANGED <<handler, written>>
        /\ response' = [response EXCEPT ![r] = Append(response[r], 504)]
        /\ server' = [server EXCEPT ![r] = "returned"]
    BY <1>10 DEF AnswerTimeout
  <2>2. 504 \in ToSet(Append(response[r], 504))
    BY <1>a, AppendToSet
  <2>3. 504 \in ToSet(response'[r])
    BY <1>a, <2>1, <2>2
  <2>4. \A q \in Requests : q # r => server'[q] = server[q] /\ response'[q] = response[q]
    BY <1>a, <2>1
  <2>5. QED
    BY <2>1, <2>3, <2>4 DEF AnswerInv, AnswerUnderway
<1>11. ASSUME NEW k \in Keys, Delete(k) \/ Expire(k) PROVE AnswerInv'
  BY <1>11, AnswerFrame DEF Delete, Expire, request
<1>12. CASE InvalidateStart \/ InvalidateEnd \/ HotReload \/ UNCHANGED vars
  BY <1>12, AnswerFrame DEF InvalidateStart, InvalidateEnd, HotReload, vars, request
<1>13. QED
  BY <1>1, <1>2, <1>3, <1>4, <1>5, <1>6, <1>7, <1>8, <1>9, <1>10, <1>11, <1>12, ActionCases

-----------------------------------------------------------------------------
\* What is fresh enough for a version is so for an older one.
LEMMA FreshWeaken ==
    ASSUME NEW result \in Results, NEW m \in Nat, NEW n \in Nat, m <= n, Fresh(result, n)
    PROVE  Fresh(result, m)
<1>1. result.version \in Nat
  BY DEF Results
<1>2. QED
  BY <1>1 DEF Fresh

LEMMA FreshFrame ==
    ASSUME FreshInv, UNCHANGED <<cache, index, scan, since, flushed, floor, straddling>>,
           \A q \in Requests : outcome'[q].result = outcome[q].result,
           \A q \in Requests : handler'[q] = "set" => handler[q] = "set"
    PROVE  FreshInv'
BY DEF FreshInv, Fresh, StaleOnlyFromFlight

\* The leader and all who waited have a result that no complete invalidation was to
\* have removed.
LEMMA FreshEnds ==
    ASSUME ServiceType, FreshInv, NEW r \in Requests, handler[r] \in Leading,
           NEW o \in Outcomes, EndFlight(r, o),
           UNCHANGED <<index, scan, since, flushed, floor, straddling>>,
           o.result # None => Fresh(o.result, flushed),
           \/ cache' = cache
           \/ /\ cache' = [cache EXCEPT ![KeyOf(r)] = o.result]
              /\ o.result # None => Fresh(o.result, since)
    PROVE  FreshInv'
<1>1. \A q \in Requests : Shared(r, q, o) \/ Passed(r, q)
  BY EndFlightFacts
<1>2. /\ cache \in [Keys -> Results \union {None}] /\ floor \in [Requests -> Nat]
      /\ since \in Nat /\ flushed \in Nat
  BY DEF ServiceType, CacheType, RequestType
<1>3. ASSUME NEW q \in Requests, outcome'[q].result # None
      PROVE  Fresh(outcome'[q].result, floor[q])
  <2>1. CASE Passed(r, q)
    BY <1>3, <2>1 DEF Passed, FreshInv, StaleOnlyFromFlight, Fresh
  <2>2. CASE Shared(r, q, o)
    <3>1. o.result \in Results /\ Fresh(o.result, flushed)
      BY <1>3, <2>2 DEF Shared, Outcomes
    <3>2. floor[q] \in Nat /\ floor[q] <= flushed
      BY <1>2 DEF FreshInv
    <3>3. Fresh(o.result, floor[q])
      BY <1>2, <3>1, <3>2, FreshWeaken
    <3>4. QED
      BY <2>2, <3>3 DEF Shared
  <2>3. QED
    BY <1>1, <2>1, <2>2
<1>4. ASSUME NEW q \in Requests, handler'[q] = "set"
      PROVE  handler[q] = "set" /\ outcome'[q] = outcome[q]
  BY <1>1, <1>4 DEF Shared, Passed
<1>5. PICK key : key = KeyOf(r)
  OBVIOUS
<1>6. ASSUME NEW k \in Keys, cache'[k] # None
      PROVE  \/ cache'[k] = cache[k]
             \/ Fresh(cache'[k], since) /\ Fresh(cache'[k], flushed)
  BY <1>2, <1>5, <1>6
<1>7. \A k \in Keys : cache'[k] # None => Fresh(cache'[k], flushed)
  BY <1>6 DEF FreshInv
<1>8. scan # None => \A k \in Keys \ scan : cache'[k] # None => Fresh(cache'[k], since)
  BY <1>6 DEF FreshInv
<1>9. QED
  BY <1>3, <1>4, <1>7, <1>8 DEF FreshInv, Fresh, StaleOnlyFromFlight

LEMMA StepFresh == ServiceType /\ FreshInv /\ [Next]_vars => FreshInv'
<1> SUFFICES ASSUME ServiceType, FreshInv, [Next]_vars PROVE FreshInv'
  OBVIOUS
<1> USE DEF Searching, Leading
<1>a. /\ handler \in [Requests -> Places] /\ outcome \in [Requests -> Outcomes]
      /\ floor \in [Requests -> Nat]
      /\ cache \in [Keys -> Results \union {None}]
      /\ index \in Nat /\ since \in Nat /\ flushed \in Nat
  BY DEF ServiceType, CacheType, RequestType
<1>b. flushed <= since /\ since <= index /\ \A q \in Requests : floor[q] <= flushed
  BY DEF FreshInv
<1>c. ASSUME NEW k \in Keys, cache[k] # None
      PROVE  /\ cache[k] \in Results /\ Fresh(cache[k], flushed)
             /\ \A q \in Requests : Fresh(cache[k], floor[q])
  <2>1. cache[k] \in Results /\ Fresh(cache[k], flushed)
    BY <1>a, <1>c DEF FreshInv
  <2>2. QED
    BY <1>a, <1>b, <2>1, FreshWeaken
<1>1. ASSUME NEW r \in Requests, NEW i \in Inputs, Search(r, i) PROVE FreshInv'
  <2>1. /\ handler[r] = "none" /\ floor' = [floor EXCEPT ![r] = flushed]
        /\ UNCHANGED <<cache, index, scan, since, flushed, straddling>>
    BY <1>1 DEF Search, invalidation
  <2>2. \E place \in {"get", "direct", "reply"} : handler' = [handler EXCEPT ![r] = place]
    BY <1>1 DEF Search, Goto
  <2>3. \/ outcome' = outcome
        \/ outcome' = [outcome EXCEPT ![r].status = 200]
        \/ outcome' = [outcome EXCEPT ![r].status = 400]
    BY <1>1 DEF Search
  <2>4. \A q \in Requests : outcome'[q].result = outcome[q].result
    BY <1>a, <2>3 DEF Outcomes
  <2>5. outcome[r].result = None
    BY <2>1 DEF ServiceType, RequestType
  <2>6. \A q \in Requests : floor'[q] <= flushed /\ (q # r => floor'[q] = floor[q])
    BY <1>a, <1>b, <2>1
  <2>7. \A q \in Requests : handler'[q] = "set" => handler[q] = "set"
    BY <1>a, <2>2
  <2>8. StaleOnlyFromFlight'
    BY <2>1, <2>4, <2>5, <2>6 DEF FreshInv, StaleOnlyFromFlight
  <2>9. QED
    BY <2>1, <2>4, <2>6, <2>7, <2>8 DEF FreshInv, Fresh
<1>2. ASSUME NEW r \in Requests, Get(r) PROVE FreshInv'
  <2>1. /\ handler[r] = "get"
        /\ UNCHANGED <<cache, index, scan, since, flushed, floor, straddling>>
    BY <1>2 DEF Get, invalidation
  <2>2. \E place \in {"join", "reply"} : handler' = [handler EXCEPT ![r] = place]
    BY <1>2 DEF Get, Goto
  <2>3. \A q \in Requests : handler'[q] = "set" => handler[q] = "set" /\ q # r
    BY <1>a, <2>1, <2>2
  <2>4. PICK key \in Keys : key = KeyOf(r)
    BY <2>1, KeyOfType
  <2>5. \/ outcome' = outcome
        \/ /\ cache[key] # None
           /\ outcome' = [outcome EXCEPT ![r] = [status |-> 200, result |-> cache[key]]]
    BY <1>2, <2>4 DEF Get
  <2>6. CASE outcome' = outcome
    BY <2>1, <2>3, <2>6, FreshFrame
  <2>7. CASE /\ cache[key] # None
             /\ outcome' = [outcome EXCEPT ![r] = [status |-> 200, result |-> cache[key]]]
    <3>1. Fresh(cache[key], floor[r])
      BY <1>c, <2>4, <2>7
    <3>2. outcome'[r].result = cache[key] /\ \A q \in Requests : q # r => outcome'[q] = outcome[q]
      BY <1>a, <2>7
    <3>3. StaleOnlyFromFlight'
      BY <2>1, <3>1, <3>2 DEF FreshInv, StaleOnlyFromFlight, Fresh
    <3>4. QED
      BY <2>1, <2>3, <3>2, <3>3 DEF FreshInv, Fresh
  <2>8. QED
    BY <2>5, <2>6, <2>7
<1>3. ASSUME NEW r \in Requests, Join(r) PROVE FreshInv'
  <2>1. /\ UNCHANGED <<cache, index, scan, since, flushed, floor, straddling, outcome>>
        /\ \E place \in {"getAgain", "wait"} : handler' = [handler EXCEPT ![r] = place]
    BY <1>3 DEF Join, Goto, invalidation
  <2>2. \A q \in Requests : handler'[q] = "set" => handler[q] = "set"
    BY <1>a, <2>1
  <2>3. QED
    BY <2>1, <2>2, FreshFrame
<1>4. ASSUME NEW r \in Requests, GetAgain(r) PROVE FreshInv'
  <2>1. /\ handler[r] = "getAgain"
        /\ UNCHANGED <<cache, index, scan, since, flushed, floor, straddling>>
    BY <1>4 DEF GetAgain, invalidation
  <2>2. PICK o \in Outcomes : o = [status |-> 200, result |-> cache[KeyOf(r)]]
    BY <2>1, HitType
  <2>3. PICK key \in Keys : key = KeyOf(r)
    BY <2>1, KeyOfType
  <2>4. CASE cache[KeyOf(r)] # None /\ EndFlight(r, o)
    <3>1. Fresh(o.result, flushed)
      BY <1>c, <2>2, <2>3, <2>4
    <3>2. QED
      BY <2>1, <2>4, <3>1, FreshEnds
  <2>5. CASE Goto(r, "execute") /\ UNCHANGED outcome
    <3>1. \A q \in Requests : handler'[q] = "set" => handler[q] = "set"
      BY <1>a, <2>5 DEF Goto
    <3>2. QED
      BY <2>1, <2>5, <3>1, FreshFrame
  <2>6. QED
    BY <1>4, <2>2, <2>4, <2>5 DEF GetAgain
<1>5. ASSUME NEW r \in Requests, Execute(r) PROVE FreshInv'
  <2>1. /\ handler[r] = "execute"
        /\ UNCHANGED <<cache, index, scan, since, flushed, floor, straddling>>
    BY <1>5 DEF Execute, invalidation
  <2>2. Error \in Outcomes /\ Error.result = None
    BY NoOutcomeType
  <2>3. CASE EndFlight(r, Error)
    BY <2>1, <2>2, <2>3, FreshEnds
  <2>4. CASE /\ Goto(r, "set")
             /\ outcome' = [outcome EXCEPT ![r] = [status |-> 200, result |-> Result(r)]]
    <3>1. input[r] \in Inputs
      BY <2>1, KeyOfType, KeyedFacts
    <3>2. PICK res \in Results : res = Result(r) /\ res.version = index /\ res.by = r
      BY <1>a, <3>1, ResultFacts
    <3>3. /\ outcome'[r].result = res
          /\ \A q \in Requests : q # r => outcome'[q] = outcome[q] /\ handler'[q] = handler[q]
      BY <1>a, <2>4, <3>2 DEF Goto
    <3>4. Fresh(res, index)
      BY <1>a, <3>2 DEF Fresh
    <3>5. Fresh(res, since) /\ Fresh(res, flushed)
      BY <1>a, <1>b, <3>4, FreshWeaken
    <3>6. Fresh(res, floor[r])
      BY <1>a, <1>b, <3>5, FreshWeaken
    <3>7. StaleOnlyFromFlight'
      BY <2>1, <3>3, <3>6 DEF FreshInv, StaleOnlyFromFlight, Fresh
    <3>8. ASSUME NEW q \in Requests, handler'[q] = "set"
          PROVE  /\ outcome'[q].result \in Results
                 /\ outcome'[q].result.by = q
                 /\ Fresh(outcome'[q].result, since)
      BY <3>2, <3>3, <3>5, <3>8 DEF FreshInv
    <3>9. QED
      BY <2>1, <3>7, <3>8 DEF FreshInv, Fresh
  <2>5. QED
    BY <1>5, <2>3, <2>4 DEF Execute
<1>6. ASSUME NEW r \in Requests, Set(r) PROVE FreshInv'
  <2>1. /\ handler[r] = "set" /\ EndFlight(r, outcome[r])
        /\ cache' = cache \/ cache' = [cache EXCEPT ![KeyOf(r)] = outcome[r].result]
        /\ UNCHANGED <<index, scan, since, flushed, floor, straddling>>
    BY <1>6 DEF Set, invalidation
  <2>2. outcome[r].result \in Results /\ Fresh(outcome[r].result, since)
    BY <2>1 DEF FreshInv
  <2>3. Fresh(outcome[r].result, flushed)
    BY <1>a, <1>b, <2>2, FreshWeaken
  <2>4. QED
    BY <1>a, <2>1, <2>2, <2>3, FreshEnds
<1>d. ASSUME NEW r \in Requests, ExecuteDirect(r) PROVE FreshInv'
  <2>1. /\ handler[r] = "direct" /\ handler' = [handler EXCEPT ![r] = "reply"]
        /\ UNCHANGED <<cache, index, scan, since, flushed, floor, straddling>>
    BY <1>d DEF ExecuteDirect, Goto, invalidation
  <2>2. \A q \in Requests : handler'[q] = "set" => handler[q] = "set" /\ q # r
    BY <1>a, <2>1
  <2>3. input[r] \in Inputs
    BY <2>1, KeyOfType, KeyedFacts
  <2>4. PICK res \in Results : res = Result(r) /\ res.version = index
    BY <1>a, <2>3, ResultFacts
  <2>5. \/ outcome' = [outcome EXCEPT ![r] = [status |-> 200, result |-> res]]
        \/ outcome' = [outcome EXCEPT ![r] = Error]
    BY <1>d, <2>4 DEF ExecuteDirect
  <2>6. /\ outcome'[r].result = res \/ outcome'[r].result = None
        /\ \A q \in Requests : q # r => outcome'[q] = outcome[q]
    BY <1>a, <2>5, NoOutcomeType
  <2>7. res.version >= floor[r]
    BY <1>a, <1>b, <2>4
  <2>8. StaleOnlyFromFlight'
    BY <2>1, <2>6, <2>7 DEF FreshInv, StaleOnlyFromFlight
  <2>9. QED
    BY <2>1, <2>2, <2>6, <2>8 DEF FreshInv, Fresh
<1>7. ASSUME NEW r \in Requests, Reply(r) PROVE FreshInv'
  <2>1. /\ UNCHANGED <<cache, index, scan, since, flushed, floor, straddling, outcome>>
        /\ handler' = [handler EXCEPT ![r] = "write"]
    BY <1>7 DEF Reply, Goto, invalidation
  <2>2. \A q \in Requests : handler'[q] = "set" => handler[q] = "set"
    BY <1>a, <2>1
  <2>3. QED
    BY <2>1, <2>2, FreshFrame
<1>8. ASSUME NEW r \in Requests, Write(r) PROVE FreshInv'
  <2>1. /\ UNCHANGED <<cache, index, scan, since, flushed, floor, straddling>>
        /\ outcome' = [outcome EXCEPT ![r] = NoOutcome]
        /\ handler' = [handler EXCEPT ![r] = "done"]
    BY <1>8 DEF Write, Goto, invalidation
  <2>2. \A q \in Requests : handler'[q] = "set" => handler[q] = "set" /\ q # r
    BY <1>a, <2>1
  <2>3. outcome'[r].result = None /\ \A q \in Requests : q # r => outcome'[q] = outcome[q]
    BY <1>a, <2>1, NoOutcomeType
  <2>4. StaleOnlyFromFlight'
    BY <2>1, <2>3 DEF FreshInv, StaleOnlyFromFlight
  <2>5. QED
    BY <2>1, <2>2, <2>3, <2>4 DEF FreshInv, Fresh
<1>9. ASSUME NEW r \in Requests, ContextEnds(r) \/ Select(r) \/ AnswerTimeout(r) PROVE FreshInv'
  BY <1>9, FreshFrame DEF ContextEnds, Select, AnswerTimeout, invalidation
<1>10. CASE InvalidateStart
  <2>1. /\ scan' = {k \in Keys : cache[k] # None}
        /\ since' = index
        /\ straddling' = straddling \union {r \in Requests : handler[r] = "set"}
        /\ UNCHANGED <<handler, outcome, cache, index, flushed, floor>>
    BY <1>10 DEF InvalidateStart, request
  <2>2. \A k \in Keys \ scan' : cache'[k] = None
    BY <2>1
  <2>3. ASSUME NEW result, NEW n, Fresh(result, n)
        PROVE  result.version >= n \/ result.by \in straddling'
    BY <2>1, <2>3 DEF Fresh
  <2>4. ASSUME NEW q \in Requests, handler'[q] = "set"
        PROVE  /\ outcome'[q].result \in Results
               /\ outcome'[q].result.by = q
               /\ q \in straddling'
    BY <2>1, <2>4 DEF FreshInv
  <2>5. flushed' <= since' /\ since' <= index'
    BY <1>a, <1>b, <2>1
  <2>6. StaleOnlyFromFlight'
    BY <2>1 DEF FreshInv, StaleOnlyFromFlight
  <2>7. ASSUME NEW k \in Keys, cache'[k] # None
        PROVE  cache'[k].version >= flushed' \/ cache'[k].by \in straddling'
    BY <2>1, <2>3, <2>7 DEF FreshInv
  <2>8. QED
    BY <1>b, <2>1, <2>2, <2>4, <2>5, <2>6, <2>7 DEF FreshInv, Fresh
<1>11. ASSUME NEW k \in Keys, Delete(k) \/ Expire(k) PROVE FreshInv'
  <2>1. /\ cache' = [cache EXCEPT ![k] = None]
        /\ scan' = scan \/ (scan # None /\ scan' = scan \ {k})
        /\ UNCHANGED <<handler, outcome, index, since, flushed, floor, straddling>>
    BY <1>11 DEF Delete, Expire, request, invalidation
  <2>2. \A j \in Keys : cache'[j] # None => cache'[j] = cache[j] /\ j # k
    BY <1>a, <2>1
  <2>3. ASSUME scan' # None, NEW j \in Keys \ scan', cache'[j] # None
        PROVE  Fresh(cache'[j], since)
    BY <2>1, <2>2, <2>3 DEF FreshInv
  <2>4. QED
    BY <2>1, <2>2, <2>3 DEF FreshInv, Fresh, StaleOnlyFromFlight
<1>12. CASE InvalidateEnd
  <2>1. /\ scan # None /\ scan' = None
        /\ (scan = {} /\ flushed' = since) \/ flushed' = flushed
        /\ UNCHANGED <<handler, outcome, cache, index, since, floor, straddling>>
    BY <1>12 DEF InvalidateEnd, ScanDone, request
  <2>2. flushed' <= since /\ \A q \in Requests : floor[q] <= flushed'
    BY <1>a, <1>b, <2>1
  <2>3. ASSUME NEW k \in Keys, cache[k] # None PROVE Fresh(cache[k], flushed')
    <3>1. scan = {} => Fresh(cache[k], since)
      BY <2>1, <2>3 DEF FreshInv
    <3>2. QED
      BY <1>c, <2>1, <2>3, <3>1
  <2>4. QED
    BY <2>1, <2>2, <2>3 DEF FreshInv, Fresh, StaleOnlyFromFlight
<1>13. CASE HotReload
  <2>1. index' = index + 1
        /\ UNCHANGED <<handler, outcome, cache, scan, since, flushed, floor, straddling>>
    BY <1>13 DEF HotReload, request, invalidation
  <2>2. since <= index'
    BY <1>a, <1>b, <2>1
  <2>3. QED
    BY <2>1, <2>2 DEF FreshInv, Fresh, StaleOnlyFromFlight
<1>14. CASE UNCHANGED vars
  BY <1>14, FreshFrame DEF vars, request, invalidation
<1>15. QED
  BY <1>1, <1>2, <1>3, <1>4, <1>5, <1>6, <1>d, <1>7, <1>8, <1>9, <1>10, <1>11, <1>12, <1>13,
     <1>14, ActionCases

-----------------------------------------------------------------------------
LEMMA QueryFrame ==
    ASSUME QueryInv, UNCHANGED <<cache, input>>,
           \A q \in Requests : outcome'[q].result \in {outcome[q].result, None}
    PROVE  QueryInv'
BY DEF QueryInv, ComputedFor

\* All who share the leader's outcome have its key.
LEMMA QueryEnds ==
    ASSUME ServiceType, QueryInv, NEW r \in Requests, handler[r] \in Leading,
           NEW o \in Outcomes, EndFlight(r, o), UNCHANGED input,
           o.result # None => ComputedFor(o.result, KeyOf(r)),
           cache' = cache \/ cache' = [cache EXCEPT ![KeyOf(r)] = o.result]
    PROVE  QueryInv'
<1>1. \A q \in Requests : Shared(r, q, o) \/ Passed(r, q)
  BY EndFlightFacts
<1>2. cache \in [Keys -> Results \union {None}]
  BY DEF ServiceType, CacheType
<1>3. PICK key : key = KeyOf(r)
  OBVIOUS
<1>4. ASSUME NEW k \in Keys, cache'[k] # None PROVE ComputedFor(cache'[k], k)
  <2>1. cache'[k] = cache[k] \/ (k = key /\ cache'[k] = o.result)
    BY <1>2, <1>3
  <2>2. QED
    BY <1>3, <1>4, <2>1 DEF QueryInv
<1>5. ASSUME NEW q \in Requests, outcome'[q].result # None
      PROVE  input[q] \in Keyed /\ ComputedFor(outcome'[q].result, KeyTable[input[q]])
  <2>1. CASE Passed(r, q)
    BY <1>5, <2>1 DEF Passed, QueryInv
  <2>2. CASE Shared(r, q, o)
    <3>1. input[q] \in Keyed
      BY <2>2, KeyOfType DEF Shared, Searching
    <3>2. KeyTable[input[q]] = KeyOf(r) /\ outcome'[q] = o
      BY <2>2 DEF Shared, KeyOf
    <3>3. QED
      BY <1>5, <3>1, <3>2
  <2>3. QED
    BY <1>1, <2>1, <2>2
<1>6. QED
  BY <1>4, <1>5 DEF QueryInv, ComputedFor

\* A request that has arrived keeps its input.
LEMMA SearchKeeps ==
    ASSUME ServiceType, NEW r \in Requests, handler[r] = "none", NEW i,
           input' = [input EXCEPT ![r] = i]
    PROVE  \A q \in Requests : input[q] \in Keyed => input'[q] = input[q]
<1>1. input[r] = None /\ input \in [Requests -> Inputs \union {None}]
  BY DEF ServiceType, RequestType
<1>2. None \notin Keyed
  BY KeyedFacts, SearchServiceAssumption
<1>3. QED
  BY <1>1, <1>2

LEMMA StepQuery == ServiceType /\ QueryInv /\ [Next]_vars => QueryInv'
<1> SUFFICES ASSUME ServiceType, QueryInv, [Next]_vars PROVE QueryInv'
  OBVIOUS
<1> USE DEF Searching, Leading
<1>a. /\ outcome \in [Requests -> Outcomes] /\ input \in [Requests -> Inputs \union {None}]
      /\ cache \in [Keys -> Results \union {None}]
  BY DEF ServiceType, CacheType, RequestType
<1>1. ASSUME NEW r \in Requests, NEW i \in Inputs, Search(r, i) PROVE QueryInv'
  <2>1. handler[r] = "none" /\ cache' = cache /\ input' = [input EXCEPT ![r] = i]
    BY <1>1 DEF Search
  <2>2. \/ outcome' = outcome
        \/ outcome' = [outcome EXCEPT ![r].status = 200]
        \/ outcome' = [outcome EXCEPT ![r].status = 400]
    BY <1>1 DEF Search
  <2>3. \A q \in Requests : outcome'[q].result = outcome[q].result
    BY <1>a, <2>2 DEF Outcomes
  <2>4. outcome[r].result = None
    BY <2>1 DEF ServiceType, RequestType
  <2>5. \A q \in Requests : input[q] \in Keyed => input'[q] = input[q]
    BY <2>1, SearchKeeps
  <2>6. \A k \in Keys : cache[k] # None => cache[k].by \in Requests
    BY <1>a DEF Results
  <2>7. \A q \in Requests : outcome[q].result # None => outcome[q].result.by \in Requests
    BY <1>a DEF Outcomes, Results
  <2>8. QED
    BY <2>1, <2>3, <2>4, <2>5, <2>6, <2>7 DEF QueryInv, ComputedFor
<1>2. ASSUME NEW r \in Requests, Get(r) PROVE QueryInv'
  <2>1. handler[r] = "get" /\ UNCHANGED <<cache, input>>
    BY <1>2 DEF Get
  <2>2. PICK key \in Keys : key = KeyTable[input[r]] /\ input[r] \in Keyed
    BY <2>1, KeyOfType DEF KeyOf
  <2>3. \/ outcome' = outcome
        \/ /\ cache[key] # None
           /\ outcome' = [outcome EXCEPT ![r] = [status |-> 200, result |-> cache[key]]]
    BY <1>2, <2>2 DEF Get, KeyOf
  <2>4. \A q \in Requests : \/ outcome'[q] = outcome[q]
                            \/ q = r /\ cache[key] # None /\ outcome'[q].result = cache[key]
    BY <1>a, <2>3
  <2>5. QED
    BY <2>1, <2>2, <2>4 DEF QueryInv, ComputedFor
<1>3. ASSUME NEW r \in Requests, GetAgain(r) PROVE QueryInv'
  <2>1. handler[r] = "getAgain" /\ UNCHANGED <<cache, input>>
    BY <1>3 DEF GetAgain
  <2>2. PICK o \in Outcomes : o = [status |-> 200, result |-> cache[KeyOf(r)]]
    BY <2>1, HitType
  <2>3. KeyOf(r) \in Keys
    BY <2>1, KeyOfType
  <2>4. CASE EndFlight(r, o)
    <3>1. o.result # None => ComputedFor(o.result, KeyOf(r))
      BY <2>2, <2>3 DEF QueryInv
    <3>2. QED
      BY <2>1, <2>4, <3>1, QueryEnds
  <2>5. CASE outcome' = outcome
    BY <2>1, <2>5, QueryFrame
  <2>6. QED
    BY <1>3, <2>2, <2>4, <2>5 DEF GetAgain
<1>4. ASSUME NEW r \in Requests, Execute(r) PROVE QueryInv'
  <2>1. handler[r] = "execute" /\ UNCHANGED <<cache, input>>
    BY <1>4 DEF Execute
  <2>2. Error \in Outcomes /\ Error.result = None
    BY NoOutcomeType
  <2>3. CASE EndFlight(r, Error)
    BY <2>1, <2>2, <2>3, QueryEnds
  <2>4. CASE outcome' = [outcome EXCEPT ![r] = [status |-> 200, result |-> Result(r)]]
    <3>1. input[r] \in Keyed /\ input[r] \in Inputs /\ index \in Nat
      BY <2>1, KeyOfType, KeyedFacts DEF ServiceType, CacheType
    <3>2. ComputedFor(Result(r), KeyTable[input[r]])
      BY <3>1, ResultFacts DEF ComputedFor
    <3>3. \A q \in Requests : outcome'[q] = outcome[q] \/ (q = r /\ outcome'[q].result = Result(r))
      BY <1>a, <2>4
    <3>4. QED
      BY <2>1, <3>1, <3>2, <3>3 DEF QueryInv, ComputedFor
  <2>5. QED
    BY <1>4, <2>3, <2>4 DEF Execute
<1>5. ASSUME NEW r \in Requests, Set(r) PROVE QueryInv'
  <2>1. /\ handler[r] = "set" /\ EndFlight(r, outcome[r]) /\ input' = input
        /\ cache' = cache \/ cache' = [cache EXCEPT ![KeyOf(r)] = outcome[r].result]
    BY <1>5 DEF Set
  <2>2. outcome[r].result # None => ComputedFor(outcome[r].result, KeyOf(r))
    BY DEF QueryInv, KeyOf
  <2>3. QED
    BY <1>a, <2>1, <2>2, QueryEnds
<1>d. ASSUME NEW r \in Requests, ExecuteDirect(r) PROVE QueryInv'
  <2>1. handler[r] = "direct" /\ UNCHANGED <<cache, input>>
    BY <1>d DEF ExecuteDirect
  <2>2. input[r] \in Keyed /\ input[r] \in Inputs /\ index \in Nat
    BY <2>1, KeyOfType, KeyedFacts DEF ServiceType, CacheType
  <2>3. ComputedFor(Result(r), KeyTable[input[r]])
    BY <2>2, ResultFacts DEF ComputedFor
  <2>4. \A q \in Requests : \/ outcome'[q] = outcome[q]
                            \/ q = r /\ outcome'[q].result \in {Result(r), None}
    BY <1>a, <1>d, NoOutcomeType DEF ExecuteDirect
  <2>5. QED
    BY <2>1, <2>2, <2>3, <2>4 DEF QueryInv, ComputedFor
<1>6. ASSUME NEW r \in Requests, Write(r) PROVE QueryInv'
  <2>1. UNCHANGED <<cache, input>> /\ outcome' = [outcome EXCEPT ![r] = NoOutcome]
    BY <1>6 DEF Write
  <2>2. \A q \in Requests : outcome'[q].result \in {outcome[q].result, None}
    BY <1>a, <2>1, NoOutcomeType
  <2>3. QED
    BY <2>1, <2>2, QueryFrame
<1>7. ASSUME NEW r \in Requests,
             Join(r) \/ Reply(r) \/ ContextEnds(r) \/ Select(r) \/ AnswerTimeout(r)
      PROVE  QueryInv'
  BY <1>7, QueryFrame DEF Join, Reply, ContextEnds, Select, AnswerTimeout
<1>8. ASSUME NEW k \in Keys, Delete(k) \/ Expire(k) PROVE QueryInv'
  <2>1. cache' = [cache EXCEPT ![k] = None] /\ UNCHANGED <<outcome, input>>
    BY <1>8 DEF Delete, Expire, request
  <2>2. \A j \in Keys : cache'[j] # None => cache'[j] = cache[j]
    BY <1>a, <2>1
  <2>3. QED
    BY <2>1, <2>2 DEF QueryInv, ComputedFor
<1>9. CASE InvalidateStart \/ InvalidateEnd \/ HotReload \/ UNCHANGED vars
  BY <1>9, QueryFrame DEF InvalidateStart, InvalidateEnd, HotReload, vars, request
<1>10. QED
  BY <1>1, <1>2, <1>3, <1>4, <1>5, <1>d, <1>6, <1>7, <1>8, <1>9, ActionCases

-----------------------------------------------------------------------------
LEMMA ErrorFrame ==
    ASSUME ErrorInv, UNCHANGED <<failed, input>>,
           \A q \in Requests : outcome'[q].status = 500 => outcome[q].status = 500
    PROVE  ErrorInv'
BY DEF ErrorInv, FailedWithKey

\* An error of a flight reaches those that have its key.
LEMMA ErrorEnds ==
    ASSUME ServiceType, ErrorInv, NEW r \in Requests, handler[r] \in Leading,
           NEW o \in Outcomes, EndFlight(r, o), UNCHANGED input,
           failed \subseteq failed', failed' \subseteq Requests,
           o.status = 500 => FailedWithKey(KeyOf(r)) \/ r \in failed'
    PROVE  ErrorInv'
<1>1. \A q \in Requests : Shared(r, q, o) \/ Passed(r, q)
  BY EndFlightFacts
<1>2. input[r] \in Keyed
  BY KeyOfType DEF Searching
<1>3. ASSUME NEW q \in Requests, outcome'[q].status = 500
      PROVE  input[q] \in Keyed /\ \E f \in failed' : input[f] \in Keyed /\ KeyTable[input[f]] = KeyTable[input[q]]
  <2>1. CASE Passed(r, q)
    BY <1>3, <2>1 DEF Passed, ErrorInv, FailedWithKey
  <2>2. CASE Shared(r, q, o)
    <3>1. input[q] \in Keyed
      BY <2>2, KeyOfType DEF Shared, Searching
    <3>2. KeyTable[input[q]] = KeyTable[input[r]] /\ o.status = 500
      BY <1>3, <2>2 DEF Shared, KeyOf
    <3>3. QED
      BY <1>2, <3>1, <3>2 DEF FailedWithKey, KeyOf
  <2>3. QED
    BY <1>1, <2>1, <2>2
<1>4. QED
  BY <1>3 DEF ErrorInv, FailedWithKey

LEMMA StepError == ServiceType /\ ErrorInv /\ [Next]_vars => ErrorInv'
<1> SUFFICES ASSUME ServiceType, ErrorInv, [Next]_vars PROVE ErrorInv'
  OBVIOUS
<1> USE DEF Searching, Leading
<1>a. /\ outcome \in [Requests -> Outcomes] /\ input \in [Requests -> Inputs \union {None}]
      /\ failed \subseteq Requests
  BY DEF ServiceType, RequestType, ErrorInv
<1>1. ASSUME NEW r \in Requests, NEW i \in Inputs, Search(r, i) PROVE ErrorInv'
  <2>1. handler[r] = "none" /\ failed' = failed /\ input' = [input EXCEPT ![r] = i]
    BY <1>1 DEF Search
  <2>2. \/ outcome' = outcome
        \/ outcome' = [outcome EXCEPT ![r].status = 200]
        \/ outcome' = [outcome EXCEPT ![r].status = 400]
    BY <1>1 DEF Search
  <2>3. \A q \in Requests : outcome'[q].status = 500 => outcome[q].status = 500
    BY <1>a, <2>2 DEF Outcomes
  <2>4. \A q \in Requests : input[q] \in Keyed => input'[q] = input[q]
    BY <2>1, SearchKeeps
  <2>5. QED
    BY <1>a, <2>1, <2>3, <2>4 DEF ErrorInv, FailedWithKey
<1>2. ASSUME NEW r \in Requests, Get(r) PROVE ErrorInv'
  <2>1. \/ outcome' = outcome
        \/ outcome' = [outcome EXCEPT ![r] = [status |-> 200, result |-> cache[KeyOf(r)]]]
    BY <1>2 DEF Get
  <2>2. \A q \in Requests : outcome'[q].status = 500 => outcome[q].status = 500
    BY <1>a, <2>1
  <2>3. QED
    BY <1>2, <2>2, ErrorFrame DEF Get
<1>3. ASSUME NEW r \in Requests, GetAgain(r) PROVE ErrorInv'
  <2>1. handler[r] = "getAgain" /\ UNCHANGED <<failed, input>>
    BY <1>3 DEF GetAgain
  <2>2. PICK o \in Outcomes : o = [status |-> 200, result |-> cache[KeyOf(r)]]
    BY <2>1, HitType
  <2>3. o.status # 500
    BY <2>2
  <2>4. EndFlight(r, o) \/ outcome' = outcome
    BY <1>3, <2>2 DEF GetAgain
  <2>5. QED
    BY <1>a, <2>1, <2>3, <2>4, ErrorEnds, ErrorFrame
<1>4. ASSUME NEW r \in Requests, Execute(r) PROVE ErrorInv'
  <2>1. handler[r] = "execute" /\ UNCHANGED input
    BY <1>4 DEF Execute
  <2>2. CASE failed' = failed /\ outcome' = [outcome EXCEPT ![r] = [status |-> 200, result |-> Result(r)]]
    <3>1. \A q \in Requests : outcome'[q].status = 500 => outcome[q].status = 500
      BY <1>a, <2>2
    <3>2. QED
      BY <2>1, <2>2, <3>1, ErrorFrame
  <2>3. CASE Fails(r) /\ EndFlight(r, Error)
    <3>1. failed \subseteq failed' /\ failed' \subseteq Requests /\ r \in failed'
      BY <1>a, <2>3 DEF Fails
    <3>2. QED
      BY <2>1, <2>3, <3>1, NoOutcomeType, ErrorEnds
  <2>4. QED
    BY <1>4, <2>2, <2>3 DEF Execute
<1>5. ASSUME NEW r \in Requests, Set(r) PROVE ErrorInv'
  <2>1. handler[r] = "set" /\ EndFlight(r, outcome[r]) /\ UNCHANGED <<failed, input>>
    BY <1>5 DEF Set
  <2>2. outcome[r].status = 500 => FailedWithKey(KeyOf(r))
    BY DEF ErrorInv, KeyOf
  <2>3. QED
    BY <1>a, <2>1, <2>2, ErrorEnds
<1>d. ASSUME NEW r \in Requests, ExecuteDirect(r) PROVE ErrorInv'
  <2>1. handler[r] = "direct" /\ UNCHANGED input
    BY <1>d DEF ExecuteDirect
  <2>2. input[r] \in Keyed
    BY <2>1, KeyOfType
  <2>3. CASE failed' = failed /\ outcome' = [outcome EXCEPT ![r] = [status |-> 200, result |-> Result(r)]]
    <3>1. \A q \in Requests : outcome'[q].status = 500 => outcome[q].status = 500
      BY <1>a, <2>3
    <3>2. QED
      BY <2>1, <2>3, <3>1, ErrorFrame
  <2>4. CASE Fails(r) /\ outcome' = [outcome EXCEPT ![r] = Error]
    <3>1. failed' = failed \union {r} /\ \A q \in Requests : q # r => outcome'[q] = outcome[q]
      BY <1>a, <2>4 DEF Fails
    <3>2. QED
      BY <1>a, <2>1, <2>2, <3>1 DEF ErrorInv, FailedWithKey
  <2>5. QED
    BY <1>d, <2>3, <2>4 DEF ExecuteDirect
<1>6. ASSUME NEW r \in Requests, Write(r) PROVE ErrorInv'
  <2>1. UNCHANGED <<failed, input>> /\ outcome' = [outcome EXCEPT ![r] = NoOutcome]
    BY <1>6 DEF Write
  <2>2. \A q \in Requests : outcome'[q].status = 500 => outcome[q].status = 500
    BY <1>a, <2>1, NoOutcomeType
  <2>3. QED
    BY <2>1, <2>2, ErrorFrame
<1>7. ASSUME NEW r \in Requests,
             Join(r) \/ Reply(r) \/ ContextEnds(r) \/ Select(r) \/ AnswerTimeout(r)
      PROVE  ErrorInv'
  BY <1>7, ErrorFrame DEF Join, Reply, ContextEnds, Select, AnswerTimeout
<1>8. ASSUME NEW k \in Keys, Delete(k) \/ Expire(k) PROVE ErrorInv'
  BY <1>8, ErrorFrame DEF Delete, Expire, request
<1>9. CASE InvalidateStart \/ InvalidateEnd \/ HotReload \/ UNCHANGED vars
  BY <1>9, ErrorFrame DEF InvalidateStart, InvalidateEnd, HotReload, vars, request
<1>10. QED
  BY <1>1, <1>2, <1>3, <1>4, <1>5, <1>d, <1>6, <1>7, <1>8, <1>9, ActionCases

-----------------------------------------------------------------------------
ServiceInv == ServiceType /\ AnswerInv /\ FreshInv /\ QueryInv /\ ErrorInv

LEMMA InitInv == Init => ServiceInv
<1> SUFFICES ASSUME Init PROVE ServiceInv
  OBVIOUS
<1>1. ErrorInv
  BY NoOutcomeType DEF Init, ErrorInv
<1>2. AnswerInv
  BY DEF Init, AnswerInv, AnswerUnderway
<1>3. FreshInv
  BY NoOutcomeType DEF Init, FreshInv, StaleOnlyFromFlight
<1>4. QueryInv
  BY NoOutcomeType DEF Init, QueryInv
<1>5. QED
  BY <1>1, <1>2, <1>3, <1>4, InitType DEF ServiceInv

LEMMA InvAlways == Spec => []ServiceInv
<1>1. ServiceInv /\ [Next]_vars => ServiceInv'
  BY StepType, StepAnswer, StepFresh, StepQuery, StepError DEF ServiceInv
<1>2. QED
  BY InitInv, <1>1, PTL DEF Spec

\* A request gets a 500 only when Execute failed for a query with its key, its own
\* or the one that led the call it shared (GetOrCompute): no end of a context and no
\* error of Redis turns into one.
THEOREM ErrorsAreOfTheQuery == Spec => []FailsOnlyByQuery
<1>1. ServiceInv => FailsOnlyByQuery
  BY DEF ServiceInv, ErrorInv, FailedWithKey, FailsOnlyByQuery, KeyOf
<1>2. QED
  BY <1>1, InvAlways, PTL

\* The Timeout middleware never returns without an answer: one has been written or
\* the handler's goroutine has set the flag and writes.
THEOREM MiddlewareAnswers == Spec => []AnswerUnderway
<1>1. ServiceInv => AnswerUnderway
  BY DEF ServiceInv, AnswerInv
<1>2. QED
  BY <1>1, InvAlways, PTL

\* After an invalidation that succeeded a later request gets an older result only
\* from a call that straddled its begin (CacheInvalidate, FlushByPattern).
THEOREM StaleResultsStraddle == Spec => []StaleOnlyFromFlight
<1>1. ServiceInv => StaleOnlyFromFlight
  BY DEF ServiceInv, FreshInv
<1>2. QED
  BY <1>1, InvAlways, PTL

-----------------------------------------------------------------------------
\* Induction over the naturals, stated for a set.
LEMMA SetInduction ==
    ASSUME NEW S, 0 \in S, \A n \in Nat : n \in S => n + 1 \in S
    PROVE  Nat \subseteq S
<1> DEFINE T == Nat \ S
           R == {ss \in Nat \X Nat : ss[1] < ss[2]}
<1> SUFFICES ASSUME T # {} PROVE FALSE
  OBVIOUS
<1>1. IsWellFoundedOn(R, Nat)
  BY NatLessThanWellFounded DEF OpToRel
<1>2. T \subseteq Nat
  OBVIOUS
<1> HIDE DEF R, T
<1>3. PICK x \in T : \A y \in T : ~(<<y, x>> \in R)
  BY <1>1, <1>2, WFMin
<1>4. \A i, j \in Nat : i < j => <<i, j>> \in R
  BY DEF R
<1>5. x \in Nat /\ x # 0 /\ x - 1 \in Nat /\ x - 1 < x /\ (x - 1) + 1 = x
  BY DEF T
<1>6. x - 1 \in T
  BY <1>5 DEF T
<1>7. QED
  BY <1>3, <1>4, <1>5, <1>6

\* The loop's plans after each of the first n words.
IsReading(f, words, meaning, n) ==
    f = [i \in 0 .. n |-> IF i = 0 THEN NoWords ELSE ReadWord(f[i - 1], words[i], meaning)]

LEMMA ReadingExists ==
    ASSUME NEW words, NEW meaning, NEW n \in Nat
    PROVE  \E f : IsReading(f, words, meaning, n)
<1> DEFINE S == {k \in Nat : \E f : IsReading(f, words, meaning, k)}
<1>1. 0 \in S
  <2> DEFINE f == [i \in 0 .. 0 |-> NoWords]
  <2>1. 0 .. 0 = {0}
    OBVIOUS
  <2>2. IsReading(f, words, meaning, 0)
    BY <2>1 DEF IsReading
  <2>3. QED
    BY <2>2
<1>2. ASSUME NEW k \in Nat, k \in S PROVE k + 1 \in S
  <2>1. PICK f : IsReading(f, words, meaning, k)
    BY <1>2
  <2> DEFINE last == ReadWord(f[k], words[k + 1], meaning)
             g == [i \in 0 .. k + 1 |-> IF i = k + 1 THEN last ELSE f[i]]
  <2>2. \A i \in 0 .. k : f[i] = IF i = 0 THEN NoWords ELSE ReadWord(f[i - 1], words[i], meaning)
    BY <2>1 DEF IsReading
  <2>3. ASSUME NEW i \in 0 .. k + 1
        PROVE  g[i] = IF i = 0 THEN NoWords ELSE ReadWord(g[i - 1], words[i], meaning)
    <3>1. CASE i = k + 1
      <4>1. i # 0 /\ i - 1 = k /\ g[i] = last /\ g[k] = f[k]
        BY <3>1
      <4>2. QED
        BY <3>1, <4>1
    <3>2. CASE i # k + 1
      <4>1. i \in 0 .. k /\ g[i] = f[i] /\ (i # 0 => i - 1 \in 0 .. k + 1 /\ i - 1 # k + 1)
        BY <3>2
      <4>2. i # 0 => g[i - 1] = f[i - 1]
        BY <4>1
      <4> HIDE DEF g
      <4>3. QED
        BY <2>2, <4>1, <4>2
    <3>3. QED
      BY <3>1, <3>2
  <2>4. g = [i \in 0 .. k + 1 |-> g[i]]
    OBVIOUS
  <2> HIDE DEF g
  <2>5. g = [i \in 0 .. k + 1 |-> IF i = 0 THEN NoWords ELSE ReadWord(g[i - 1], words[i], meaning)]
    BY <2>3, <2>4, Zenon
  <2>6. QED
    BY <2>5 DEF IsReading
<1>3. Nat \subseteq S
  <2> HIDE DEF S
  <2> QED BY <1>1, <1>2, SetInduction
<1>4. n \in S
  BY <1>3
<1>5. QED
  BY <1>4

\* ReadWords is what the loop has after the last word.
LEMMA ReadWordsFacts ==
    ASSUME NEW words, Len(words) \in Nat, NEW meaning
    PROVE  \E f : /\ f[0] = NoWords
                  /\ \A i \in 1 .. Len(words) : f[i] = ReadWord(f[i - 1], words[i], meaning)
                  /\ ReadWords(words, meaning) = f[Len(words)]
<1> DEFINE n == Len(words)
           f == CHOOSE g : IsReading(g, words, meaning, n)
<1>1. IsReading(f, words, meaning, n)
  BY ReadingExists
<1>2. ReadWords(words, meaning) = f[n]
  BY DEF ReadWords, IsReading
<1> HIDE DEF f
<1>3. f[0] = NoWords /\ \A i \in 1 .. n : f[i] = ReadWord(f[i - 1], words[i], meaning)
  BY <1>1 DEF IsReading
<1>4. QED
  BY <1>2, <1>3

-----------------------------------------------------------------------------
Words == DOMAIN TermOf
Terms == {TermOf[w] : w \in Words}

\* normalizeQuery's reading takes a word for itself.
Itself == [w \in Words |-> w]

Plans(T) == [terms : Seq(T), excludes : Seq(T), type : {"and", "or"}, excludeNext : BOOLEAN]

LEMMA ToSetAppend ==
    ASSUME NEW T, NEW s \in Seq(T), NEW e \in T
    PROVE  Append(s, e) \in Seq(T) /\ ToSet(Append(s, e)) = ToSet(s) \union {e}
<1> DEFINE a == Append(s, e)
           n == Len(s)
<1>1. /\ a \in Seq(T) /\ n \in Nat /\ DOMAIN s = 1 .. n /\ DOMAIN a = 1 .. n + 1
      /\ a[n + 1] = e /\ \A i \in 1 .. n : a[i] = s[i]
  OBVIOUS
<1> HIDE DEF a, n
<1>2. \A i \in 1 .. n + 1 : i = n + 1 \/ i \in 1 .. n
  BY <1>1
<1>3. n + 1 \in 1 .. n + 1 /\ \A i \in 1 .. n : i \in 1 .. n + 1
  BY <1>1
<1>4. ToSet(a) = {a[i] : i \in 1 .. n + 1} /\ ToSet(s) = {s[i] : i \in 1 .. n}
  BY <1>1 DEF ToSet
<1>5. ToSet(a) \subseteq ToSet(s) \union {e}
  BY <1>1, <1>2, <1>4
<1>6. ToSet(s) \union {e} \subseteq ToSet(a)
  BY <1>1, <1>3, <1>4
<1>7. QED
  BY <1>1, <1>5, <1>6 DEF a

\* What one word, with its meaning m, makes of a plan.
ReadsAs(p, w, m, q) ==
    /\ w \in {"and", "or"} =>
           /\ q.type = w /\ q.terms = p.terms /\ q.excludes = p.excludes
           /\ q.excludeNext = p.excludeNext
    /\ w = "not" =>
           /\ q.type = p.type /\ q.terms = p.terms /\ q.excludes = p.excludes
           /\ q.excludeNext = TRUE
    /\ w \notin Operators /\ m = NoTerm => q = p
    /\ w \notin Operators /\ m # NoTerm /\ p.excludeNext =>
           /\ q.type = p.type /\ q.terms = p.terms
           /\ ToSet(q.excludes) = ToSet(p.excludes) \union {m}
           /\ q.excludeNext = FALSE
    /\ w \notin Operators /\ m # NoTerm /\ ~p.excludeNext =>
           /\ q.type = p.type /\ q.excludes = p.excludes
           /\ ToSet(q.terms) = ToSet(p.terms) \union {m}
           /\ q.excludeNext = p.excludeNext

LEMMA ReadWordFacts ==
    ASSUME NEW T, NEW p \in Plans(T), NEW meaning, NEW w \in Words \union Operators,
           w \in Words /\ meaning[w] # NoTerm => meaning[w] \in T
    PROVE  /\ ReadWord(p, w, meaning) \in Plans(T)
           /\ ReadsAs(p, w, meaning[w], ReadWord(p, w, meaning))
<1> DEFINE q == ReadWord(p, w, meaning)
           m == meaning[w]
<1>0. /\ p.terms \in Seq(T) /\ p.excludes \in Seq(T) /\ p.type \in {"and", "or"}
      /\ p.excludeNext \in BOOLEAN
  BY DEF Plans
<1>1. CASE w \in {"and", "or"}
  <2>1. q = [p EXCEPT !.type = w] /\ w # "not" /\ w \in Operators
    BY <1>1 DEF ReadWord, Operators
  <2> HIDE DEF q
  <2>2. QED
    BY <1>0, <1>1, <2>1 DEF Plans, q, ReadsAs
<1>2. CASE w = "not"
  <2>1. q = [p EXCEPT !.excludeNext = TRUE] /\ w \notin {"and", "or"} /\ w \in Operators
    BY <1>2 DEF ReadWord, Operators
  <2> HIDE DEF q
  <2>2. QED
    BY <1>0, <1>2, <2>1 DEF Plans, q, ReadsAs
<1>3. CASE w \notin Operators /\ m = NoTerm
  <2>1. q = p /\ w \notin {"and", "or"} /\ w # "not"
    BY <1>3 DEF ReadWord, Operators
  <2> HIDE DEF q
  <2>2. QED
    BY <1>3, <2>1 DEF q, ReadsAs
<1>4. CASE w \notin Operators /\ m # NoTerm
  <2>1. w \notin {"and", "or"} /\ w # "not" /\ m \in T
    BY <1>4 DEF Operators
  <2>2. q = IF p.excludeNext
            THEN [p EXCEPT !.excludes = Append(p.excludes, m), !.excludeNext = FALSE]
            ELSE [p EXCEPT !.terms = Append(p.terms, m)]
    BY <1>4, <2>1 DEF ReadWord
  <2> DEFINE x == Append(p.excludes, m)
             t == Append(p.terms, m)
  <2>3. /\ x \in Seq(T) /\ ToSet(x) = ToSet(p.excludes) \union {m}
        /\ t \in Seq(T) /\ ToSet(t) = ToSet(p.terms) \union {m}
    BY <1>0, <2>1, ToSetAppend
  <2>4. q = IF p.excludeNext THEN [p EXCEPT !.excludes = x, !.excludeNext = FALSE]
                             ELSE [p EXCEPT !.terms = t]
    BY <2>2
  <2> HIDE DEF x, t, q
  <2>5. /\ q \in Plans(T) /\ q.type = p.type
        /\ p.excludeNext => q.terms = p.terms /\ q.excludes = x /\ q.excludeNext = FALSE
        /\ ~p.excludeNext => q.excludes = p.excludes /\ q.terms = t
                               /\ q.excludeNext = p.excludeNext
    BY <1>0, <2>3, <2>4 DEF Plans
  <2> HIDE DEF m
  <2>6. QED
    BY <1>4, <2>1, <2>3, <2>5 DEF q, m, ReadsAs
<1>5. QED
  BY <1>1, <1>2, <1>3, <1>4 DEF Operators

\* No word that the plan excludes is without a term.
Tokenized(q) == \A v \in ToSet(q.excludes) : TermOf[v] # NoTerm

\* Parse's plan is the one of normalizeQuery, with terms for words.
Same(p, q) ==
    /\ p.type = q.type
    /\ p.excludeNext = q.excludeNext
    /\ ToSet(p.terms) = {TermOf[v] : v \in ToSet(q.terms)} \ {NoTerm}
    /\ ToSet(p.excludes) = {TermOf[v] : v \in ToSet(q.excludes)}

\* One word, read by both.
LEMMA SameStep ==
    ASSUME NEW p \in Plans(Terms), NEW q \in Plans(Words), NEW w \in Words \union Operators
    PROVE  LET p2 == ReadWord(p, w, TermOf)
               q2 == ReadWord(q, w, Itself)
           IN /\ p2 \in Plans(Terms) /\ q2 \in Plans(Words)
              /\ Tokenized(q2) => Tokenized(q)
              /\ Tokenized(q2) /\ Same(p, q) => Same(p2, q2)
<1> DEFINE p2 == ReadWord(p, w, TermOf)
           q2 == ReadWord(q, w, Itself)
<1>0. w \in Words => TermOf[w] \in Terms /\ Itself[w] = w /\ w # NoTerm
  BY SearchServiceAssumption DEF Terms, Itself, Words
<1>1. p2 \in Plans(Terms) /\ ReadsAs(p, w, TermOf[w], p2)
  BY <1>0, ReadWordFacts
<1>2. /\ q2 \in Plans(Words)
      /\ ReadsAs(q, w, Itself[w], q2)
      /\ w \notin Operators => Itself[w] = w /\ w # NoTerm
  BY <1>0, ReadWordFacts
<1> HIDE DEF p2, q2
<1>3. CASE w \in {"and", "or"}
  BY <1>1, <1>2, <1>3 DEF Tokenized, Same, ReadsAs, p2, q2
<1>4. CASE w = "not"
  BY <1>1, <1>2, <1>4 DEF Tokenized, Same, ReadsAs, p2, q2
<1>5. CASE w \notin Operators /\ q.excludeNext
  <2>1. Tokenized(q2) => Tokenized(q) /\ TermOf[w] # NoTerm
    BY <1>2, <1>5 DEF Tokenized, ReadsAs
  <2>2. ASSUME Tokenized(q2), Same(p, q) PROVE Same(p2, q2)
    <3>1. p.excludeNext = q.excludeNext /\ TermOf[w] # NoTerm
      BY <2>1, <2>2 DEF Same
    <3>2. {TermOf[v] : v \in ToSet(q.excludes) \union {w}}
            = {TermOf[v] : v \in ToSet(q.excludes)} \union {TermOf[w]}
      OBVIOUS
    <3>3. QED
      BY <1>1, <1>2, <1>5, <2>2, <3>1, <3>2 DEF Same, ReadsAs
  <2>3. QED
    BY <1>1, <1>2, <2>1, <2>2 DEF p2, q2
<1>6. CASE w \notin Operators /\ ~q.excludeNext
  <2>1. Tokenized(q2) => Tokenized(q)
    BY <1>2, <1>6 DEF Tokenized, ReadsAs
  <2>2. ASSUME Same(p, q) PROVE Same(p2, q2)
    <3>1. p.excludeNext = q.excludeNext
      BY <2>2 DEF Same
    <3>2. {TermOf[v] : v \in ToSet(q.terms) \union {w}}
            = {TermOf[v] : v \in ToSet(q.terms)} \union {TermOf[w]}
      OBVIOUS
    <3>3. CASE TermOf[w] = NoTerm
      BY <1>1, <1>2, <1>6, <2>2, <3>2, <3>3 DEF Same, ReadsAs
    <3>4. CASE TermOf[w] # NoTerm
      BY <1>1, <1>2, <1>6, <2>2, <3>1, <3>2, <3>4 DEF Same, ReadsAs
    <3>5. QED
      BY <3>3, <3>4
  <2>3. QED
    BY <1>1, <1>2, <2>1, <2>2 DEF p2, q2
<1>7. QED
  BY <1>3, <1>4, <1>5, <1>6 DEF Operators

\* normalizeQuery and Parse read a query in the same way, unless the first
\* excludes a word without a term.
LEMMA SameReading ==
    ASSUME NEW words \in Seq(Words \union Operators),
           Tokenized(ReadWords(words, Itself))
    PROVE  Same(Parse(words), ReadWords(words, Itself))
<1> DEFINE n == Len(words)
<1>0. n \in Nat /\ \A i \in 1 .. n : words[i] \in Words \union Operators
  OBVIOUS
<1>1. PICK f : /\ f[0] = NoWords
               /\ \A i \in 1 .. n : f[i] = ReadWord(f[i - 1], words[i], TermOf)
               /\ ReadWords(words, TermOf) = f[n]
  BY <1>0, ReadWordsFacts
<1>2. PICK g : /\ g[0] = NoWords
               /\ \A i \in 1 .. n : g[i] = ReadWord(g[i - 1], words[i], Itself)
               /\ ReadWords(words, Itself) = g[n]
  BY <1>0, ReadWordsFacts
<1> HIDE DEF n
<1> DEFINE S == {k \in Nat : k <= n => /\ f[k] \in Plans(Terms) /\ g[k] \in Plans(Words)
                                       /\ Tokenized(g[k]) => Same(f[k], g[k])}
<1>3. 0 \in S
  <2>1. /\ NoWords \in Plans(Terms) /\ NoWords \in Plans(Words)
        /\ ToSet(NoWords.terms) = {} /\ ToSet(NoWords.excludes) = {}
    BY DEF NoWords, Plans, ToSet
  <2>2. Same(NoWords, NoWords)
    BY <2>1 DEF Same
  <2>3. QED
    BY <1>1, <1>2, <2>1, <2>2
<1>4. ASSUME NEW k \in Nat, k \in S PROVE k + 1 \in S
  <2> SUFFICES ASSUME k + 1 <= n
               PROVE  /\ f[k + 1] \in Plans(Terms) /\ g[k + 1] \in Plans(Words)
                      /\ Tokenized(g[k + 1]) => Same(f[k + 1], g[k + 1])
    OBVIOUS
  <2>1. k <= n /\ k + 1 \in 1 .. n /\ (k + 1) - 1 = k
    BY <1>0
  <2>2. /\ f[k] \in Plans(Terms) /\ g[k] \in Plans(Words)
        /\ Tokenized(g[k]) => Same(f[k], g[k])
    BY <1>4, <2>1
  <2> DEFINE w == words[k + 1]
  <2>3. /\ f[k + 1] = ReadWord(f[k], w, TermOf) /\ g[k + 1] = ReadWord(g[k], w, Itself)
        /\ w \in Words \union Operators
    BY <1>0, <1>1, <1>2, <2>1
  <2> HIDE DEF w
  <2>4. QED
    BY <2>2, <2>3, SameStep
<1>5. Nat \subseteq S
  <2> HIDE DEF S
  <2> QED BY <1>3, <1>4, SetInduction
<1>6. n \in S /\ n <= n
  BY <1>0, <1>5
<1>7. QED
  BY <1>1, <1>2, <1>6 DEF Parse

\* Both readings take their words from the query.
LEMMA PlanWords ==
    ASSUME NEW words \in Seq(Words \union Operators)
    PROVE  ReadWords(words, Itself) \in Plans(ToSet(words) \intersect Words)
<1> DEFINE n == Len(words)
           T == ToSet(words) \intersect Words
<1>0. n \in Nat /\ \A i \in 1 .. n : words[i] \in Words \union Operators /\ words[i] \in ToSet(words)
  BY DEF ToSet
<1>1. PICK g : /\ g[0] = NoWords
               /\ \A i \in 1 .. n : g[i] = ReadWord(g[i - 1], words[i], Itself)
               /\ ReadWords(words, Itself) = g[n]
  BY <1>0, ReadWordsFacts
<1> HIDE DEF n
<1> DEFINE S == {k \in Nat : k <= n => g[k] \in Plans(T)}
<1>2. 0 \in S
  <2>1. NoWords \in Plans(T)
    BY DEF NoWords, Plans
  <2>2. QED
    BY <1>1, <2>1
<1>3. ASSUME NEW k \in Nat, k \in S PROVE k + 1 \in S
  <2> SUFFICES ASSUME k + 1 <= n PROVE g[k + 1] \in Plans(T)
    OBVIOUS
  <2>1. k <= n /\ k + 1 \in 1 .. n /\ (k + 1) - 1 = k
    BY <1>0
  <2>2. g[k] \in Plans(T)
    BY <1>3, <2>1
  <2> DEFINE w == words[k + 1]
  <2>3. /\ g[k + 1] = ReadWord(g[k], w, Itself)
        /\ w \in Words \union Operators /\ w \in ToSet(words)
    BY <1>0, <1>1, <2>1
  <2> HIDE DEF w
  <2>4. w \in Words => Itself[w] \in T
    BY <2>3 DEF Itself
  <2> HIDE DEF T
  <2>5. QED
    BY <2>2, <2>3, <2>4, ReadWordFacts
<1>4. Nat \subseteq S
  <2> HIDE DEF S
  <2> QED BY <1>2, <1>3, SetInduction
<1>5. n \in S
  <2> HIDE DEF S
  <2> QED BY <1>0, <1>4
<1>6. n <= n
  BY <1>0
<1>7. QED
  BY <1>1, <1>5, <1>6

-----------------------------------------------------------------------------
LEMMA ToSetConcat ==
    ASSUME NEW T, NEW s \in Seq(T), NEW t \in Seq(T)
    PROVE  s \o t \in Seq(T) /\ ToSet(s \o t) = ToSet(s) \union ToSet(t)
<1> DEFINE a == s \o t
           m == Len(s)
           n == Len(t)
<1>1. /\ a \in Seq(T) /\ m \in Nat /\ n \in Nat
      /\ DOMAIN s = 1 .. m /\ DOMAIN t = 1 .. n /\ DOMAIN a = 1 .. m + n
      /\ \A i \in 1 .. m + n : a[i] = IF i <= m THEN s[i] ELSE t[i - m]
  OBVIOUS
<1> HIDE DEF a, m, n
<1>2. \A i \in 1 .. m + n : a[i] \in ToSet(s) \union ToSet(t)
  <2> TAKE i \in 1 .. m + n
  <2>1. CASE i <= m
    BY <1>1, <2>1 DEF ToSet
  <2>2. CASE ~(i <= m)
    <3>1. i - m \in 1 .. n /\ a[i] = t[i - m]
      BY <1>1, <2>2
    <3>2. QED
      BY <1>1, <3>1 DEF ToSet
  <2>3. QED
    BY <2>1, <2>2
<1>3. ASSUME NEW i \in 1 .. m PROVE s[i] \in ToSet(a)
  <2>1. i \in 1 .. m + n /\ a[i] = s[i]
    BY <1>1
  <2>2. QED
    BY <1>1, <2>1 DEF ToSet
<1>4. ASSUME NEW i \in 1 .. n PROVE t[i] \in ToSet(a)
  <2>1. m + i \in 1 .. m + n /\ ~(m + i <= m) /\ (m + i) - m = i
    BY <1>1
  <2>2. a[m + i] = t[i]
    BY <1>1, <2>1
  <2>3. QED
    BY <1>1, <2>1, <2>2 DEF ToSet
<1>5. ToSet(a) = {a[i] : i \in 1 .. m + n} /\ ToSet(s) = {s[i] : i \in 1 .. m} /\ ToSet(t) = {t[i] : i \in 1 .. n}
  BY <1>1 DEF ToSet
<1>6. ToSet(a) = ToSet(s) \union ToSet(t)
  BY <1>2, <1>3, <1>4, <1>5
<1>7. QED
  BY <1>1, <1>6 DEF a

\* The concatenations of the first sequences.
IsFlat(f, ss, n) ==
    f = [i \in 1 .. n |-> IF i = 1 THEN ss[i] ELSE f[i - 1] \o ss[i]]

LEMMA FlatExists ==
    ASSUME NEW ss, NEW n \in Nat
    PROVE  \E f : IsFlat(f, ss, n)
<1> DEFINE S == {k \in Nat : \E f : IsFlat(f, ss, k)}
<1>1. 0 \in S
  <2> DEFINE f == [i \in 1 .. 0 |-> ss[i]]
  <2>1. IsFlat(f, ss, 0)
    BY DEF IsFlat
  <2>2. QED
    BY <2>1
<1>2. ASSUME NEW k \in Nat, k \in S PROVE k + 1 \in S
  <2>1. PICK f : IsFlat(f, ss, k)
    BY <1>2
  <2> DEFINE last == IF k = 0 THEN ss[1] ELSE f[k] \o ss[k + 1]
             g == [i \in 1 .. k + 1 |-> IF i = k + 1 THEN last ELSE f[i]]
  <2>2. \A i \in 1 .. k : f[i] = IF i = 1 THEN ss[i] ELSE f[i - 1] \o ss[i]
    BY <2>1 DEF IsFlat
  <2>3. ASSUME NEW i \in 1 .. k + 1
        PROVE  g[i] = IF i = 1 THEN ss[i] ELSE g[i - 1] \o ss[i]
    <3>1. CASE i = k + 1
      <4>1. g[i] = last /\ (i = 1 <=> k = 0) /\ (k # 0 => i - 1 = k /\ g[k] = f[k])
        BY <3>1
      <4> HIDE DEF g
      <4>2. QED
        BY <3>1, <4>1
    <3>2. CASE i # k + 1
      <4>1. i \in 1 .. k /\ g[i] = f[i] /\ (i # 1 => i - 1 \in 1 .. k + 1 /\ i - 1 # k + 1)
        BY <3>2
      <4>2. i # 1 => g[i - 1] = f[i - 1]
        BY <4>1
      <4> HIDE DEF g
      <4>3. QED
        BY <2>2, <4>1, <4>2
    <3>3. QED
      BY <3>1, <3>2
  <2>4. g = [i \in 1 .. k + 1 |-> g[i]]
    OBVIOUS
  <2> HIDE DEF g
  <2>5. g = [i \in 1 .. k + 1 |-> IF i = 1 THEN ss[i] ELSE g[i - 1] \o ss[i]]
    BY <2>3, <2>4, Zenon
  <2>6. IsFlat(g, ss, k + 1)
    BY <2>5, Zenon DEF IsFlat
  <2>7. QED
    BY <2>6
<1>3. Nat \subseteq S
  <2> HIDE DEF S
  <2> QED BY <1>1, <1>2, SetInduction
<1>4. n \in S
  BY <1>3
<1>5. QED
  BY <1>4

\* Flattening loses nothing and adds nothing.
LEMMA FlattenFacts ==
    ASSUME NEW T, NEW ss \in Seq(Seq(T))
    PROVE  /\ FlattenSeq(ss) \in Seq(T)
           /\ ToSet(FlattenSeq(ss)) = UNION {ToSet(ss[i]) : i \in DOMAIN ss}
<1> DEFINE n == Len(ss)
           f == CHOOSE g : IsFlat(g, ss, n)
           Upto(k) == UNION {ToSet(ss[i]) : i \in 1 .. k}
<1>0. n \in Nat /\ DOMAIN ss = 1 .. n /\ \A i \in 1 .. n : ss[i] \in Seq(T)
  OBVIOUS
<1>1. IsFlat(f, ss, n)
  BY <1>0, FlatExists
<1>2. n # 0 => FlattenSeq(ss) = f[n]
  BY DEF FlattenSeq, IsFlat
<1>3. n = 0 => FlattenSeq(ss) = <<>>
  BY DEF FlattenSeq
<1> HIDE DEF f, n
<1>4. \A i \in 1 .. n : f[i] = IF i = 1 THEN ss[i] ELSE f[i - 1] \o ss[i]
  BY <1>1 DEF IsFlat
<1> DEFINE S == {k \in Nat : k \in 1 .. n => f[k] \in Seq(T) /\ ToSet(f[k]) = Upto(k)}
<1>5. 0 \in S
  OBVIOUS
<1>6. ASSUME NEW k \in Nat, k \in S PROVE k + 1 \in S
  <2> SUFFICES ASSUME k + 1 \in 1 .. n PROVE f[k + 1] \in Seq(T) /\ ToSet(f[k + 1]) = Upto(k + 1)
    OBVIOUS
  <2>1. \A i \in 1 .. k + 1 : i = k + 1 \/ i \in 1 .. k
    OBVIOUS
  <2>2. k + 1 \in 1 .. k + 1 /\ 1 .. k \subseteq 1 .. k + 1
    OBVIOUS
  <2>3. Upto(k + 1) = Upto(k) \union ToSet(ss[k + 1])
    BY <2>1, <2>2
  <2>4. CASE k = 0
    <3>1. f[k + 1] = ss[k + 1] /\ Upto(k) = {}
      BY <1>4, <2>4
    <3> HIDE DEF Upto
    <3>2. QED
      BY <1>0, <2>3, <3>1
  <2>5. CASE k # 0
    <3>1. k \in 1 .. n /\ k + 1 # 1 /\ (k + 1) - 1 = k
      BY <1>0, <2>5
    <3>2. f[k] \in Seq(T) /\ ToSet(f[k]) = Upto(k)
      BY <1>6, <3>1
    <3>3. f[k + 1] = f[k] \o ss[k + 1]
      BY <1>4, <3>1
    <3>4. ss[k + 1] \in Seq(T)
      BY <1>0
    <3>5. PICK x \in Seq(T), y \in Seq(T) : x = f[k] /\ y = ss[k + 1]
      BY <3>2, <3>4
    <3>6. x \o y \in Seq(T) /\ ToSet(x \o y) = ToSet(x) \union ToSet(y)
      BY ToSetConcat
    <3> HIDE DEF Upto
    <3>7. QED
      BY <2>3, <3>2, <3>3, <3>5, <3>6, Zenon
  <2>6. QED
    BY <2>4, <2>5
<1>7. Nat \subseteq S
  <2> HIDE DEF S
  <2> QED BY <1>5, <1>6, SetInduction
<1>8. CASE n = 0
  <2>1. 1 .. n = {} /\ ToSet(<<>>) = {} /\ <<>> \in Seq(T)
    BY <1>8 DEF ToSet
  <2>2. UNION {ToSet(ss[i]) : i \in DOMAIN ss} = {}
    BY <1>0, <2>1, Zenon
  <2>3. QED
    BY <1>3, <1>8, <2>1, <2>2
<1>9. CASE n # 0
  <2>a. n \in S
    <3> HIDE DEF S
    <3> QED BY <1>0, <1>7
  <2>1. n \in 1 .. n /\ n \in S
    BY <1>0, <1>9, <2>a
  <2>2. f[n] \in Seq(T) /\ ToSet(f[n]) = Upto(n)
    BY <2>1
  <2>3. QED
    BY <1>0, <1>2, <1>9, <2>2
<1>10. QED
  BY <1>8, <1>9

\* Sorting keeps the words.
LEMMA SortedFacts ==
    ASSUME NEW s \in Seq(Words)
    PROVE  Sorted(s) \in Seq(Words) /\ ToSet(Sorted(s)) = ToSet(s)
<1> DEFINE At(n) == {i \in DOMAIN s : s[i] = Dictionary[n]}
           Copies(n) == [m \in 1 .. Cardinality(At(n)) |-> Dictionary[n]]
           ss == [n \in DOMAIN Dictionary |-> Copies(n)]
<1>1. /\ Dictionary \in Seq(Words) /\ ToSet(Dictionary) = Words
      /\ Len(Dictionary) \in Nat /\ DOMAIN Dictionary = 1 .. Len(Dictionary)
  BY SearchServiceAssumption DEF Words
<1>2. ASSUME NEW n \in DOMAIN Dictionary
      PROVE  /\ Copies(n) \in Seq(Words)
             /\ ToSet(Copies(n)) = IF Dictionary[n] \in ToSet(s) THEN {Dictionary[n]} ELSE {}
  <2>1. Dictionary[n] \in Words /\ DOMAIN s = 1 .. Len(s) /\ Len(s) \in Nat
    BY <1>1
  <2>a. IsFiniteSet(1 .. Len(s))
    BY <2>1, FS_Interval
  <2>b. At(n) \subseteq 1 .. Len(s)
    BY <2>1
  <2>2. IsFiniteSet(At(n))
    BY <2>a, <2>b, FS_Subset
  <2> DEFINE c == Cardinality(At(n))
  <2>3. c \in Nat /\ (c = 0 <=> At(n) = {})
    BY <2>2, FS_CardinalityType, FS_EmptySet
  <2>4. At(n) = {} <=> Dictionary[n] \notin ToSet(s)
    BY DEF ToSet
  <2> HIDE DEF c, At
  <2>5. Copies(n) = [m \in 1 .. c |-> Dictionary[n]]
    BY DEF c
  <2> HIDE DEF Copies
  <2>6. Copies(n) \in Seq(Words) /\ DOMAIN Copies(n) = 1 .. c
    BY <2>1, <2>3, <2>5
  <2>7. ToSet(Copies(n)) = {Dictionary[n] : m \in 1 .. c}
    BY <2>5 DEF ToSet
  <2>8. c = 0 => 1 .. c = {}
    OBVIOUS
  <2>9. c # 0 => 1 \in 1 .. c
    BY <2>3
  <2>10. QED
    BY <2>3, <2>4, <2>6, <2>7, <2>8, <2>9
<1>3. Sorted(s) = FlattenSeq(ss)
  BY DEF Sorted
<1> HIDE DEF Copies
<1>4. ss \in Seq(Seq(Words)) /\ DOMAIN ss = DOMAIN Dictionary
  BY <1>1, <1>2
<1>5. \A n \in DOMAIN Dictionary : ss[n] = Copies(n)
  OBVIOUS
<1> HIDE DEF ss
<1>6. /\ Sorted(s) \in Seq(Words)
      /\ ToSet(Sorted(s)) = UNION {ToSet(ss[n]) : n \in DOMAIN Dictionary}
  BY <1>3, <1>4, FlattenFacts
<1>7. ToSet(s) \subseteq Words /\ \A w \in Words : \E n \in DOMAIN Dictionary : w = Dictionary[n]
  BY <1>1 DEF ToSet
<1>8. ToSet(Sorted(s)) \subseteq ToSet(s)
  BY <1>2, <1>5, <1>6
<1>9. ASSUME NEW w \in ToSet(s) PROVE w \in ToSet(Sorted(s))
  <2>1. PICK n \in DOMAIN Dictionary : w = Dictionary[n]
    BY <1>7
  <2>2. w \in ToSet(ss[n])
    BY <1>2, <1>5, <2>1
  <2>3. QED
    BY <1>6, <2>2
<1>10. QED
  BY <1>6, <1>8, <1>9

\* The join of words without commas has these words.
LEMMA JoinedFacts ==
    ASSUME NEW s \in Seq(Words), \A w \in ToSet(s) : Pieces[w] = <<w>>
    PROVE  ToSet(Joined(s)) = ToSet(s)
<1> DEFINE t == Sorted(s)
           ss == [m \in DOMAIN t |-> Pieces[t[m]]]
<1>1. t \in Seq(Words) /\ ToSet(t) = ToSet(s)
  BY SortedFacts
<1>2. Joined(s) = FlattenSeq(ss)
  BY DEF Joined
<1> HIDE DEF t
<1>3. DOMAIN t = 1 .. Len(t) /\ Len(t) \in Nat
  BY <1>1
<1>4. ASSUME NEW m \in DOMAIN t PROVE ss[m] = <<t[m]>> /\ <<t[m]>> \in Seq(Words)
  <2>1. t[m] \in ToSet(t) /\ t[m] \in Words
    BY <1>1 DEF ToSet
  <2>2. QED
    BY <1>1, <2>1
<1>5. ss = [m \in 1 .. Len(t) |-> ss[m]]
  BY <1>3
<1> HIDE DEF ss
<1>a. \A m \in 1 .. Len(t) : ss[m] \in Seq(Words)
  BY <1>3, <1>4
<1>6. ss \in Seq(Seq(Words)) /\ DOMAIN ss = DOMAIN t
  BY <1>3, <1>5, <1>a
<1>7. ToSet(Joined(s)) = UNION {ToSet(ss[m]) : m \in DOMAIN t}
  BY <1>2, <1>6, FlattenFacts
<1>8. ASSUME NEW w PROVE ToSet(<<w>>) = {w}
  BY DEF ToSet
<1>9. \A m \in DOMAIN t : ToSet(ss[m]) = {t[m]}
  BY <1>4, <1>8
<1>10. ToSet(t) = {t[m] : m \in DOMAIN t}
  BY DEF ToSet
<1>11. ToSet(Joined(s)) = {t[m] : m \in DOMAIN t}
  <2>1. \A e : e \in UNION {ToSet(ss[m]) : m \in DOMAIN t} <=> \E m \in DOMAIN t : e \in ToSet(ss[m])
    BY Zenon
  <2>2. ASSUME NEW e PROVE e \in ToSet(Joined(s)) <=> \E m \in DOMAIN t : e \in ToSet(ss[m])
    BY <1>7, <2>1, Zenon
  <2>3. ASSUME NEW e, NEW m \in DOMAIN t PROVE e \in ToSet(ss[m]) <=> e = t[m]
    BY <1>9
  <2>4. QED
    BY <2>2, <2>3
<1>12. QED
  BY <1>1, <1>10, <1>11

\* Whatever the queries: two with one cache key have one plan, unless the key
\* excludes a word that the tokenizer drops or a word of one of them has a comma.
\* normalizeQuery leaves nothing out that Parse tells apart.
THEOREM KeysTellPlansApart == KeysTellApart(Inputs)
<1>1. ASSUME NEW i \in Inputs, NEW j \in Inputs, BuildKey(i) = BuildKey(j),
             ~ExcludesNoTerm(i), ~HasComma(i), ~HasComma(j)
      PROVE  Asks(Parse(i.words)) = Asks(Parse(j.words))
  <2> DEFINE p == Parse(i.words)
             r == Parse(j.words)
             q == ReadWords(i.words, Itself)
             s == ReadWords(j.words, Itself)
  <2>1. i.words \in Seq(Words \union Operators) /\ j.words \in Seq(Words \union Operators)
    BY SearchServiceAssumption DEF Words
  <2>2. /\ NormalizeQuery(i.words) = <<q.type, Joined(q.terms), Joined(q.excludes)>>
        /\ NormalizeQuery(j.words) = <<s.type, Joined(s.terms), Joined(s.excludes)>>
    BY DEF NormalizeQuery, Itself, Words
  <2>3. NormalizeQuery(i.words) = NormalizeQuery(j.words)
    BY <1>1 DEF BuildKey
  <2>4. Tokenized(q)
    BY <1>1 DEF ExcludesNoTerm, Tokenized, Itself, Words
  <2>5. q \in Plans(ToSet(i.words) \intersect Words) /\ s \in Plans(ToSet(j.words) \intersect Words)
    BY <2>1, PlanWords
  <2> HIDE DEF p, q, r, s
  <2>6. q.type = s.type /\ Joined(q.terms) = Joined(s.terms) /\ Joined(q.excludes) = Joined(s.excludes)
    BY <2>2, <2>3
  <2>7. ASSUME NEW h \in {i, j}, NEW l \in Seq(ToSet(h.words) \intersect Words)
        PROVE  ToSet(Joined(l)) = ToSet(l)
    <3>1. l \in Seq(Words) /\ ToSet(l) \subseteq ToSet(h.words) \intersect Words
      BY DEF ToSet
    <3>2. \A w \in Words : w \notin Operators
      BY SearchServiceAssumption DEF Words
    <3>3. \A w \in ToSet(l) : Pieces[w] = <<w>>
      BY <1>1, <3>1, <3>2 DEF HasComma
    <3>4. QED
      BY <3>1, <3>3, JoinedFacts
  <2>8. /\ ToSet(Joined(q.terms)) = ToSet(q.terms) /\ ToSet(Joined(q.excludes)) = ToSet(q.excludes)
        /\ ToSet(Joined(s.terms)) = ToSet(s.terms) /\ ToSet(Joined(s.excludes)) = ToSet(s.excludes)
    BY <2>5, <2>7 DEF Plans
  <2>9. ToSet(q.terms) = ToSet(s.terms) /\ ToSet(q.excludes) = ToSet(s.excludes)
    BY <2>6, <2>8
  <2>10. Tokenized(s)
    BY <2>4, <2>9 DEF Tokenized
  <2>11. Same(p, q) /\ Same(r, s)
    BY <2>1, <2>4, <2>10, SameReading DEF p, q, r, s
  <2>12. p.type = r.type /\ ToSet(p.terms) = ToSet(r.terms) /\ ToSet(p.excludes) = ToSet(r.excludes)
    BY <2>6, <2>9, <2>11 DEF Same
  <2>13. QED
    BY <2>12 DEF Asks, p, r
<1>2. QED
  BY <1>1 DEF KeysTellApart

\* Cache, group and handler never mix up answers: every request is answered with
\* the result of its own query and limit, unless its key excludes a word that the
\* tokenizer drops, or its query or the one that was computed has a comma in a word.
THEOREM AnswersAreToTheQuery == Spec => []AnswersOwnQuery
<1>1. ServiceInv => AnswersOwnQuery
  <2> SUFFICES ASSUME ServiceInv, NEW r \in Requests, outcome[r].result # None
               PROVE  /\ outcome[r].result.limit = Limit(input[r])
                      /\ \/ outcome[r].result.asks = AsksTable[input[r]]
                         \/ ExcludesNoTerm(input[r])
                         \/ HasComma(input[r]) \/ HasComma(input[outcome[r].result.by])
    BY DEF AnswersOwnQuery
  <2>1. input[r] \in Keyed /\ ComputedFor(outcome[r].result, KeyTable[input[r]])
    BY DEF ServiceInv, QueryInv
  <2>2. PICK i \in Keyed : i = input[r]
    BY <2>1
  <2>3. PICK j \in Keyed : /\ j = input[outcome[r].result.by]
                           /\ KeyTable[j] = KeyTable[i]
                           /\ outcome[r].result.asks = AsksTable[j]
                           /\ outcome[r].result.limit = Limit(j)
    BY <2>1, <2>2 DEF ComputedFor
  <2>4. i \in Inputs /\ j \in Inputs /\ BuildKey(i) = BuildKey(j)
    BY <2>3, KeyedFacts
  <2>5. Limit(i) = Limit(j)
    BY <2>4 DEF BuildKey
  <2>6. AsksTable[i] = Asks(Parse(i.words)) /\ AsksTable[j] = Asks(Parse(j.words))
    BY <2>4 DEF AsksTable
  <2>7. Asks(Parse(i.words)) = Asks(Parse(j.words)) \/ ExcludesNoTerm(i) \/ HasComma(i) \/ HasComma(j)
    <3> DEFINE Read(h) == <<BuildKey(h), Asks(Parse(h.words)), ExcludesNoTerm(h), HasComma(h)>>
    <3>1. \A a, b \in {Read(h) : h \in Inputs} : a[1] = b[1] => a[2] = b[2] \/ a[3] \/ a[4] \/ b[4]
      BY KeysTellPlansApart, Zenon DEF KeysTellApart
    <3>2. Read(i)[1] = Read(j)[1] => Read(i)[2] = Read(j)[2] \/ Read(i)[3] \/ Read(i)[4] \/ Read(j)[4]
      BY <2>4, <3>1, Zenon
    <3>3. QED
      BY <2>4, <3>2
  <2>8. QED
    BY <2>2, <2>3, <2>5, <2>6, <2>7
<1>2. QED
  BY <1>1, InvAlways, PTL
=============================================================================
