------------------------------ MODULE Gateway ------------------------------
(***************************************************************************)
(* The API gateway: the chain CORS -> Auth -> RateLimit -> mux around its  *)
(* handlers, the api_keys table that the gateway and the auth command      *)
(* share, and the end of the gateway process.  RateLimiter checks the      *)
(* limiter itself; here a bucket counts whole tokens and is refilled one   *)
(* at a time.                                                              *)
(*                                                                         *)
(* A raw key stands for itself and for the hash and the id of its row.     *)
(* Which route a request asks for matters only to the mux, and is chosen   *)
(* there; "health" is known from the start because Auth looks for it.      *)
(***************************************************************************)
EXTENDS Integers, FiniteSets, SequencesExt

CONSTANTS
    Requests,      \* connections; each carries one request after another
    Keys,          \* the raw keys that generateRawKey returns
    Stray,         \* a key that was never created
    None,
    RateLimits,    \* what creators ask for
    DefaultLimit,  \* the 100 of CreateAPIKey
    DefaultPage, MaxPage,  \* the 20 and the 100 of ListDocuments
    MaxDocs,       \* bound
    MaxFaults,     \* bound: statements that fail and answers that are lost
    MaxRefills,    \* bound: tokens a key is refilled with
    MaxRenewals,   \* bound: times cleanup forgets a key that gains no tokens
    MaxRestarts    \* bound

ASSUME GatewayAssumption ==
    /\ IsFiniteSet(Requests)
    /\ Stray \notin Keys /\ None \notin Keys /\ Stray # None
    /\ None \notin Int
    /\ None \notin [limit : Int, active : BOOLEAN, expiry : {"never", "later", "past"}]
    /\ RateLimits \subseteq Int /\ DefaultLimit \in Nat \ {0}
    /\ DefaultPage \in 1..MaxPage /\ MaxPage \in Nat \ {0}
    /\ MaxDocs \in Nat /\ MaxFaults \in Nat /\ MaxRefills \in Nat
    /\ MaxRenewals \in Nat /\ MaxRestarts \in Nat

VARIABLES
    row,       \* api_keys: the row of a key, or None
    held,      \* the keys that a client or an operator was given
    bucket,    \* the limiter's tokens of a key, None without an entry
    place,     \* where the request's goroutine is
    key,       \* the key it presents; the new key while a create is answered
    status,    \* the status it is about to answer
    dead,      \* history: its key was of no use when it arrived
    served,    \* history: requests that reached a handler by the key's right
    refilled,  \* history: tokens the key gained
    renewed,   \* history: times cleanup forgot the key although it gains no tokens
    docs,      \* the documents table, newest first
    walk,      \* the client that reads it page by page
    faults, restarts

gateway == <<row, held, bucket, place, key, status, dead, served, refilled, renewed, restarts>>
documents == <<docs, walk>>
vars == <<gateway, documents, faults>>

\* No expires_in, or one that ends sooner or later (at once, if it is negative).
Expiries == {"never", "later"}

NoWalk == [at |-> "none", limit |-> 0, offset |-> 0, base |-> {}, seen |-> {}, cut |-> FALSE]

Init ==
    /\ row = [k \in Keys |-> None]
    /\ held = {}
    /\ bucket = [k \in Keys |-> None]
    /\ place = [r \in Requests |-> "idle"]
    /\ key = [r \in Requests |-> None]
    /\ status = [r \in Requests |-> 0]
    /\ dead = [r \in Requests |-> FALSE]
    /\ served = [k \in Keys |-> 0]
    /\ refilled = [k \in Keys |-> 0]
    /\ renewed = [k \in Keys |-> 0]
    /\ docs = <<>>
    /\ walk = NoWalk
    /\ faults = 0
    /\ restarts = 0

-----------------------------------------------------------------------------
Active(k) == k \in Keys /\ row[k] # None /\ row[k].active

\* Mutant of Usable: the statement finds revoked keys too.
UsableRevoked(k) == k \in Keys /\ row[k] # None /\ row[k].expiry # "past"

\* Validate's SELECT and its check of the expiry.
Usable(k) == Active(k) /\ row[k].expiry # "past"

Fault == faults < MaxFaults /\ faults' = faults + 1

Reply(r, s) ==
    /\ place' = [place EXCEPT ![r] = "reply"]
    /\ status' = [status EXCEPT ![r] = s]

Goto(r, p) == place' = [place EXCEPT ![r] = p] /\ UNCHANGED status

\* A request arrives with the key that extractAPIKey finds, or with none; a
\* preflight is answered by CORS, a health check skips Auth and RateLimit.
Arrive(r, k) ==
    /\ place[r] = "idle"
    /\ key' = [key EXCEPT ![r] = k]
    /\ dead' = [dead EXCEPT ![r] = ~(Active(k) /\ row[k].expiry # "past")]
    /\ Goto(r, "auth")
    /\ UNCHANGED <<row, held, bucket, served, refilled, renewed, faults,
                   restarts, documents>>

Exempt(r) ==
    /\ place[r] = "idle"
    /\ Reply(r, 200)
    /\ UNCHANGED <<row, held, bucket, key, dead, served, refilled, renewed, faults,
                   restarts, documents>>

\* Auth: no key, no row that is active, or one that has expired is a 401, any
\* other error a 500.
Auth(r) ==
    /\ place[r] = "auth"
    /\ \/ Usable(key[r]) /\ Goto(r, "limit") /\ UNCHANGED faults
       \/ ~Usable(key[r]) /\ Reply(r, 401) /\ UNCHANGED faults
       \/ key[r] # None /\ Fault /\ Reply(r, 500)
    /\ UNCHANGED <<row, held, bucket, key, dead, served, refilled, renewed, restarts, documents>>

\* The first request of a key is granted whatever its limit.
Granted(k) == bucket[k] # None => bucket[k] >= 1

\* Mutant of Charged: the info does not reach the context, nothing is charged.
ChargedNot(k) == bucket

Charged(k) == [bucket EXCEPT ![k] = (IF @ = None THEN row[k].limit ELSE @) - 1]

\* RateLimit with the info that Auth read.
RateLimit(r) ==
    /\ place[r] = "limit"
    /\ \/ Granted(key[r]) /\ bucket' = Charged(key[r]) /\ Goto(r, "mux")
       \/ ~Granted(key[r]) /\ Reply(r, 429) /\ UNCHANGED bucket
    /\ UNCHANGED <<row, held, key, dead, served, refilled, renewed, faults,
                   restarts, documents>>

\* The limiter's lazy refill, one token; with a limit of 0 or less there is none.
Refill(k) ==
    /\ bucket[k] # None
    /\ 0 < row[k].limit /\ bucket[k] < row[k].limit
    /\ refilled[k] < MaxRefills
    /\ bucket' = [bucket EXCEPT ![k] = @ + 1]
    /\ refilled' = [refilled EXCEPT ![k] = @ + 1]
    /\ UNCHANGED <<row, held, place, key, status, dead, served, renewed, faults, restarts,
                   documents>>

\* The limiter's cleanup may forget a key that was not asked for in two windows,
\* by which time a bucket that is refilled at all is full.
Forgettable(k) ==
    /\ bucket[k] # None
    /\ 0 < row[k].limit => bucket[k] >= row[k].limit
    /\ row[k].limit <= 0 => renewed[k] < MaxRenewals

\* One round of cleanup: the stale entries go.
Cleanup(S) ==
    /\ S # {} /\ \A k \in S : Forgettable(k)
    /\ bucket' = [k \in Keys |-> IF k \in S THEN None ELSE bucket[k]]
    /\ renewed' = [k \in Keys |->
           IF k \in S /\ row[k].limit <= 0 THEN renewed[k] + 1 ELSE renewed[k]]
    /\ UNCHANGED <<row, held, place, key, status, dead, served, refilled, faults, restarts,
                   documents>>

-----------------------------------------------------------------------------
\* The mux hands the request to its handler.
Enters(r) ==
    /\ place[r] = "mux"
    /\ served' = [served EXCEPT ![key[r]] = @ + 1]

\* The reverse proxies, the handlers that read, a create that is refused: 200
\* stands for any answer (a 400, 404 or 405 too), 500 for a failure of the backend
\* or of PostgreSQL.
ProxyOrRead(r) ==
    /\ Enters(r)
    /\ \/ Reply(r, 200) /\ UNCHANGED faults
       \/ Reply(r, 500) /\ Fault
    /\ UNCHANGED <<row, held, bucket, key, dead, refilled, renewed, restarts, documents>>

\* CreateAPIKey with a body that it accepts draws a key and goes to the INSERT;
\* from here the request stands for the key that it creates.
CreateAPIKey(r, k) ==
    /\ Enters(r)
    /\ row[k] = None
    /\ \A q \in Requests : key[q] = k => place[q] # "insert"
    /\ key' = [key EXCEPT ![r] = k]
    /\ Goto(r, "insert")
    /\ UNCHANGED <<row, held, bucket, dead, refilled, renewed, faults, restarts,
                   documents>>

NewRow(limit, expiry) == [limit |-> limit, active |-> TRUE, expiry |-> expiry]

\* The gateway's create never stores a limit below 1.
OrDefault(limit) == IF limit <= 0 THEN DefaultLimit ELSE limit

\* Mutant of CreatedStatus: the error of CreateKey is not looked at.
CreatedStatusAlways(err) == 201

CreatedStatus(err) == IF err THEN 500 ELSE 201

\* CreateKey: an INSERT whose error the caller sees may have been committed.
Insert(r, limit, expiry) ==
    /\ place[r] = "insert"
    /\ \/ /\ row' = [row EXCEPT ![key[r]] = NewRow(OrDefault(limit), expiry)]
          /\ \/ Reply(r, CreatedStatus(FALSE)) /\ UNCHANGED faults
             \/ Reply(r, CreatedStatus(TRUE)) /\ Fault
       \/ Fault /\ Reply(r, CreatedStatus(TRUE)) /\ UNCHANGED row
    /\ UNCHANGED <<held, bucket, key, dead, served, refilled, renewed, restarts, documents>>

\* The answer is written.  A 201 hands out the key, unless the client is gone or
\* its connection is too slow: writeJSON only logs the error.
Answer(r) ==
    /\ place[r] = "reply"
    /\ \/ status[r] = 201 /\ held' = held \union {key[r]} /\ UNCHANGED faults
       \/ status[r] = 201 /\ UNCHANGED held /\ Fault
       \/ status[r] # 201 /\ UNCHANGED <<held, faults>>
    /\ place' = [place EXCEPT ![r] = "idle"]
    /\ key' = [key EXCEPT ![r] = None]
    /\ status' = [status EXCEPT ![r] = 0]
    /\ dead' = [dead EXCEPT ![r] = FALSE]
    /\ UNCHANGED <<row, bucket, served, refilled, renewed, restarts, documents>>

-----------------------------------------------------------------------------
\* The auth command.  Its create takes any limit; the key is printed unless the
\* command fails, before or after the INSERT.
CmdCreate(k, limit, expiry) ==
    /\ row[k] = None
    /\ \A q \in Requests : key[q] = k => place[q] # "insert"
    /\ row' = [row EXCEPT ![k] = NewRow(limit, expiry)]
    /\ \/ held' = held \union {k} /\ UNCHANGED faults
       \/ Fault /\ UNCHANGED held
    /\ UNCHANGED <<bucket, place, key, status, dead, served, refilled, renewed, restarts,
                   documents>>

\* RevokeKey's UPDATE: no other column, and no other key.
Revoked(k) == [row EXCEPT ![k].active = FALSE]

\* Revoke needs the raw key; one that was revoked before is revoked again.
CmdRevoke(k) ==
    /\ k \in held
    /\ row' = Revoked(k)
    /\ UNCHANGED <<held, bucket, place, key, status, dead, served, refilled, renewed, faults,
                   restarts, documents>>

\* ListKeys, for the gateway and the command: expired keys are still listed.
ListKeys == {k \in Keys : Active(k)}

\* Time passes the expiry of a key.
Expires(k) ==
    /\ row[k] # None
    /\ row[k].expiry = "later"
    /\ row' = [row EXCEPT ![k].expiry = "past"]
    /\ UNCHANGED <<held, bucket, place, key, status, dead, served, refilled, renewed, faults,
                   restarts, documents>>

\* main returns as soon as ListenAndServe does, which Shutdown does not delay:
\* requests in flight are cut off.  A new process starts with an empty limiter.
Restart ==
    /\ restarts < MaxRestarts
    /\ restarts' = restarts + 1
    /\ bucket' = [k \in Keys |-> None]
    /\ place' = [r \in Requests |-> "idle"]
    /\ key' = [r \in Requests |-> None]
    /\ status' = [r \in Requests |-> 0]
    /\ dead' = [r \in Requests |-> FALSE]
    /\ UNCHANGED <<row, held, served, refilled, renewed, faults, documents>>

-----------------------------------------------------------------------------
\* The documents table, newest first, and a client that walks through its pages.
\* created_at is set before the commit, so a late one may appear anywhere.
StoreDocument(i) ==
    /\ Len(docs) < MaxDocs
    /\ docs' = InsertAt(docs, i, Len(docs) + 1)
    /\ UNCHANGED <<gateway, walk, faults>>

WalkBegin(limit) ==
    /\ walk.at = "none"
    /\ docs # <<>>
    /\ walk' = [NoWalk EXCEPT !.at = "read", !.limit = limit, !.base = ToSet(docs)]
    /\ UNCHANGED <<gateway, docs, faults>>

\* A limit outside 1..MaxPage is the default one.
PageLimit(limit) == IF limit \in 1..MaxPage THEN limit ELSE DefaultPage

\* Mutant of Page: the row at the offset counts as read.
PageAfter(limit, offset) ==
    SubSeq(docs, offset + 2, Min({Len(docs), offset + PageLimit(limit)}))

Page(limit, offset) == SubSeq(docs, offset + 1, Min({Len(docs), offset + PageLimit(limit)}))

\* ListDocuments.  The client goes on by the limit of the answer until a page is
\* not full.  rows.Err is not looked at: a lost connection shortens the page.
ListDocuments(cut) ==
    LET page == Page(walk.limit, walk.offset)
        rows == IF cut THEN Front(page) ELSE page
    IN  /\ walk.at = "read"
        /\ cut => page # <<>> /\ Fault
        /\ ~cut => UNCHANGED faults
        /\ walk' = [walk EXCEPT
               !.at = IF Len(rows) < PageLimit(walk.limit) THEN "end" ELSE "read",
               !.offset = @ + PageLimit(walk.limit),
               !.seen = @ \union ToSet(rows),
               !.cut = @ \/ cut]
        /\ UNCHANGED <<gateway, docs>>

-----------------------------------------------------------------------------
Step(r) ==
    \/ Auth(r) \/ RateLimit(r) \/ ProxyOrRead(r) \/ Answer(r)
    \/ \E k \in Keys : CreateAPIKey(r, k)
    \/ \E limit \in RateLimits, expiry \in Expiries : Insert(r, limit, expiry)

Next ==
    \/ \E r \in Requests : Step(r) \/ Exempt(r)
    \/ \E r \in Requests, k \in held \union {Stray, None} : Arrive(r, k)
    \/ \E S \in SUBSET Keys : Cleanup(S)
    \/ \E k \in Keys : Refill(k) \/ CmdRevoke(k) \/ Expires(k)
    \/ \E k \in Keys, limit \in RateLimits, expiry \in Expiries : CmdCreate(k, limit, expiry)
    \/ \E i \in 1 .. Len(docs) + 1 : StoreDocument(i)
    \/ \E limit \in 0 .. MaxPage + 1 : WalkBegin(limit)
    \/ \E cut \in BOOLEAN : ListDocuments(cut)
    \/ Restart

Spec == Init /\ [][Next]_vars

-----------------------------------------------------------------------------
\* Whether a request is authenticated depends on its key alone, whatever other
\* requests, the command and the process do meanwhile.  A key that was revoked,
\* had expired or was never issued when the request came is answered 401 or,
\* without PostgreSQL, 500, reaches no handler and is charged to nobody; and no
\* request with a key that someone was given is refused before the key is
\* revoked or expires, whichever way it was created.
KeyDecides ==
    \A r \in Requests :
        /\ dead[r] => place[r] \in {"auth", "reply"} /\ status[r] \in {0, 401, 500}
        /\ status[r] = 401 =>
               ~(key[r] \in held /\ row[key[r]].active /\ row[key[r]].expiry # "past")

\* Requests that run their handler in the name of a key, however they overlap,
\* are no more than its limit, the same again for every restart of the process
\* (the limiter forgets), and what its bucket gained.  A key's first request is
\* always granted; a key that gains no tokens has one more request each time
\* cleanup has forgotten it.
AdmissionBound ==
    \A k \in Keys : row[k] # None =>
        served[k] <= (1 + restarts) * Max({row[k].limit, 1}) + refilled[k] + renewed[k]

\* The keys people hold and the keys in the table are the same ones, up to
\* failures.  A key's row is stored before the key is handed out, also when
\* statements fail; a key that ListKeys shows although nobody was given it, and
\* which the command cannot revoke as that needs the raw key, comes from a failed
\* statement, from an answer that was lost on its way to the client or from a
\* process that ended while it answered, one key each.
KeysAccounted ==
    LET answered == {key[r] : r \in {q \in Requests : status[q] = 201}}
    IN  /\ \A k \in held \union answered : row[k] # None
        /\ Cardinality(ListKeys \ (held \union answered))
               <= faults + restarts * Cardinality(Requests)

\* A walk through the pages misses no document that was there at its beginning,
\* although others are stored meanwhile and move the rest.  (When a page is cut
\* short by an error that is not reported, it can end too early.)
WalkMissesNothing == (walk.at = "end" /\ ~walk.cut) => walk.base \subseteq walk.seen
=============================================================================
