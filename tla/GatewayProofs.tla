--------------------------- MODULE GatewayProofs ---------------------------
(***************************************************************************)
(* Proofs about Gateway, for any number of requests and keys, any limits   *)
(* and any page size.                                                      *)
(***************************************************************************)
EXTENDS Gateway, FiniteSetTheorems, SequenceTheorems, TLAPS

Row == [limit : Int, active : BOOLEAN, expiry : {"never", "later", "past"}]

TableType ==
    /\ row \in [Keys -> Row \union {None}]
    /\ held \subseteq Keys

LimiterType ==
    /\ bucket \in [Keys -> Int \union {None}]
    /\ served \in [Keys -> Nat]
    /\ refilled \in [Keys -> Nat]
    /\ renewed \in [Keys -> Nat]

RequestType ==
    /\ place \in [Requests -> {"idle", "auth", "limit", "mux", "insert", "reply"}]
    /\ key \in [Requests -> Keys \union {Stray, None}]
    /\ status \in [Requests -> {0, 200, 201, 401, 429, 500}]
    /\ dead \in [Requests -> BOOLEAN]

CountType == faults \in Nat /\ restarts \in Nat

GatewayType == TableType /\ LimiterType /\ RequestType /\ CountType

-----------------------------------------------------------------------------
\* A key that was never created has no row; no other has none.
Known(k) == k \in Keys => row[k] # None

\* What a request stands for.  It has the key of a row, except between the draw
\* of a new key and its INSERT.
KeyOf(r) ==
    /\ place[r] \in {"auth", "limit", "mux"} => Known(key[r])
    /\ place[r] \in {"limit", "mux", "insert"} => key[r] \in Keys
    /\ place[r] = "insert" => row[key[r]] = None
    /\ place[r] # "reply" => status[r] = 0
    /\ status[r] = 201 => key[r] \in Keys
    /\ status[r] \in {201, 401} => Known(key[r])

\* A key of no use stays so, which Auth sees.
DeadOf(r) ==
    /\ dead[r] => place[r] \in {"auth", "reply"} /\ status[r] \in {0, 401, 500}
    /\ dead[r] /\ place[r] = "auth" => ~Usable(key[r])
    /\ status[r] = 401 => ~Usable(key[r])

\* No two requests draw the same new key.
DrawnOnce ==
    \A r, q \in Requests :
        (place[r] = "insert" /\ place[q] = "insert" /\ key[r] = key[q]) => r = q

RequestInv ==
    /\ \A k \in held : row[k] # None
    /\ \A r \in Requests : KeyOf(r)
    /\ DrawnOnce

DeadInv == \A r \in Requests : DeadOf(r)

KeyInv == GatewayType /\ RequestInv /\ DeadInv

\* The requests that RateLimit has let through and no handler has yet.
InMux(k) == {r \in Requests : place[r] = "mux" /\ key[r] = k}

\* What a key has right to when its entry is new, what its bucket still grants,
\* what it has used, and all that it ever had a right to.
Burst(k) == IF row[k].limit >= 1 THEN row[k].limit ELSE 1
Credit(k) == IF bucket[k] = None THEN Burst(k) ELSE IF bucket[k] >= 0 THEN bucket[k] ELSE 0
Spent(k) == served[k] + Cardinality(InMux(k))
Rights(k) == (1 + restarts) * Burst(k) + refilled[k] + renewed[k]

\* Tokens are not made: what a key has used and what its bucket still grants is
\* within its rights.  A key without a row has used nothing.
BucketOf(k) ==
    /\ row[k] = None => bucket[k] = None /\ served[k] = 0 /\ InMux(k) = {}
    /\ row[k] # None => Spent(k) + Credit(k) <= Rights(k)

BucketInv == \A k \in Keys : BucketOf(k)

\* The keys on their way to a client.
Answered == {key[r] : r \in {q \in Requests : status[q] = 201}}

Orphans == ListKeys \ (held \union Answered)

OrphanInv ==
    /\ IsFiniteSet(Orphans)
    /\ Cardinality(Orphans) <= faults + restarts * Cardinality(Requests)

WalkType ==
    /\ docs \in Seq(Nat)
    /\ walk \in [at : {"none", "read", "end"}, limit : Nat, offset : Nat,
                 base : SUBSET Nat, seen : SUBSET Nat, cut : BOOLEAN]

\* What the walk has not seen is behind its offset, or it has been cut short.
Ahead(d) == \E i \in 1 .. Len(docs) : i > walk.offset /\ docs[i] = d

WalkInv ==
    ~walk.cut =>
        /\ walk.at = "none" => walk.base = {}
        /\ walk.at = "read" => \A d \in walk.base \ walk.seen : Ahead(d)
        /\ walk.at = "end" => walk.base \subseteq walk.seen

-----------------------------------------------------------------------------
\* The larger and the smaller of two numbers, which SequencesExt takes from a set.
LEMMA MaxOfTwo == ASSUME NEW a \in Int, NEW b \in Int
                  PROVE  Max({a, b}) = IF a >= b THEN a ELSE b
<1>1. \E x \in {a, b} : \A y \in {a, b} : x >= y
  OBVIOUS
<1>2. Max({a, b}) \in {a, b} /\ \A y \in {a, b} : Max({a, b}) >= y
  BY <1>1 DEF Max
<1> QED BY <1>2

LEMMA MinOfTwo == ASSUME NEW a \in Int, NEW b \in Int
                  PROVE  Min({a, b}) = IF a <= b THEN a ELSE b
<1>1. \E x \in {a, b} : \A y \in {a, b} : x <= y
  OBVIOUS
<1>2. Min({a, b}) \in {a, b} /\ \A y \in {a, b} : Min({a, b}) <= y
  BY <1>1 DEF Min
<1> QED BY <1>2

\* A row that is inserted moves the ones from its place on by one.
LEMMA InsertMoves == ASSUME NEW S, NEW s \in Seq(S), NEW e \in S, NEW i \in 1 .. Len(s) + 1
                     PROVE  /\ InsertAt(s, i, e) \in Seq(S)
                            /\ Len(InsertAt(s, i, e)) = Len(s) + 1
                            /\ \A j \in 1 .. Len(s) :
                                   InsertAt(s, i, e)[IF j < i THEN j ELSE j + 1] = s[j]
<1> DEFINE a == SubSeq(s, 1, i - 1)
           b == SubSeq(s, i, Len(s))
<1>1. a \in Seq(S) /\ Len(a) = i - 1 /\ \A j \in 1 .. i - 1 : a[j] = s[j]
  OBVIOUS
<1>2. b \in Seq(S) /\ Len(b) = Len(s) - i + 1 /\ \A j \in 1 .. Len(s) - i + 1 : b[j] = s[i + j - 1]
  OBVIOUS
<1>3. InsertAt(s, i, e) = (a \o <<e>>) \o b
  BY DEF InsertAt
<1> HIDE DEF a, b
<1> DEFINE c == a \o <<e>>
<1>4. c \in Seq(S) /\ Len(c) = i /\ \A j \in 1 .. i - 1 : c[j] = s[j]
  BY <1>1
<1>5. InsertAt(s, i, e) = c \o b
  BY <1>3
<1> HIDE DEF c
<1>6. /\ c \o b \in Seq(S)
      /\ Len(c \o b) = Len(s) + 1
      /\ \A j \in 1 .. Len(s) + 1 : (c \o b)[j] = IF j <= i THEN c[j] ELSE b[j - i]
  <2>1. Len(c) + Len(b) = Len(s) + 1
    BY <1>2, <1>4
  <2> QED BY <1>2, <1>4, <2>1, ConcatProperties
<1>7. ASSUME NEW j \in 1 .. Len(s) PROVE (c \o b)[IF j < i THEN j ELSE j + 1] = s[j]
  <2>1. CASE j < i
    BY <1>4, <1>6, <2>1
  <2>2. CASE ~(j < i)
    <3>1. (c \o b)[j + 1] = b[j + 1 - i]
      BY <1>6, <2>2
    <3>2. b[j + 1 - i] = s[i + (j + 1 - i) - 1]
      BY <1>2, <2>2
    <3>3. i + (j + 1 - i) - 1 = j
      OBVIOUS
    <3>4. (c \o b)[j + 1] = s[j]
      BY <3>1, <3>2, <3>3
    <3> QED BY <2>2, <3>4
  <2> QED BY <2>1, <2>2
<1> QED BY <1>5, <1>6, <1>7

-----------------------------------------------------------------------------
\* The documents have no part in the rest but that a statement may fail.
LEMMA DocumentsApart ==
    ASSUME NEW i, NEW limit, NEW cut \in BOOLEAN,
           StoreDocument(i) \/ WalkBegin(limit) \/ ListDocuments(cut)
    PROVE  UNCHANGED gateway /\ (UNCHANGED faults \/ Fault)
<1>1. CASE StoreDocument(i)
  BY <1>1 DEF StoreDocument
<1>2. CASE WalkBegin(limit)
  BY <1>2 DEF WalkBegin
<1>3. CASE ListDocuments(cut)
  BY <1>3 DEF ListDocuments
<1> QED BY <1>1, <1>2, <1>3

LEMMA CountNext == CountType /\ [Next]_vars => CountType'
<1> SUFFICES ASSUME CountType, [Next]_vars PROVE CountType'
  OBVIOUS
<1>1. (UNCHANGED faults \/ Fault) /\ (UNCHANGED restarts \/ restarts' = restarts + 1)
  <2>1. CASE \E i \in 1 .. Len(docs) + 1 : StoreDocument(i)
    BY <2>1 DEF StoreDocument, gateway
  <2>2. CASE \E limit \in 0 .. MaxPage + 1 : WalkBegin(limit)
    BY <2>2 DEF WalkBegin, gateway
  <2>3. CASE \E cut \in BOOLEAN : ListDocuments(cut)
    BY <2>3 DEF ListDocuments, gateway
  <2>4. ASSUME NEW r \in Requests, Step(r) PROVE <1>1!:
    BY <2>4 DEF Step, Auth, RateLimit, ProxyOrRead, Answer, CreateAPIKey, Insert
  <2> QED BY <2>1, <2>2, <2>3, <2>4
      DEF Next, vars, gateway, Exempt, Arrive, Refill, Cleanup, CmdRevoke, Expires, CmdCreate, Restart
<1> QED BY <1>1 DEF CountType, Fault

-----------------------------------------------------------------------------
\* Rows stay, with their limit, and a key of no use never becomes one again.
RowsStay ==
    \A k \in Keys : row[k] # None =>
        /\ row'[k] # None
        /\ row'[k].limit = row[k].limit
        /\ Usable(k)' => Usable(k)

LEMMA NewRowType == ASSUME NEW limit \in RateLimits, NEW expiry \in Expiries
                    PROVE  /\ NewRow(limit, expiry) \in Row
                           /\ NewRow(OrDefault(limit), expiry) \in Row
  BY GatewayAssumption DEF NewRow, OrDefault, Row, Expiries

LEMMA RowIsNotNone == None \notin Row
  BY GatewayAssumption DEF Row

LEMMA TableNext ==
    ASSUME TableType, RequestType, RequestInv, [Next]_vars
    PROVE  TableType' /\ RowsStay
<1> USE RowIsNotNone, GatewayAssumption
<1>1. ASSUME UNCHANGED <<row, held>> PROVE TableType' /\ RowsStay
  BY <1>1 DEF TableType, RowsStay, Usable, Active
<1>2. ASSUME NEW r \in Requests, Step(r) PROVE TableType' /\ RowsStay
  <2>1. CASE Auth(r) \/ RateLimit(r) \/ ProxyOrRead(r) \/ \E k \in Keys : CreateAPIKey(r, k)
    BY <1>1, <2>1 DEF Auth, RateLimit, ProxyOrRead, CreateAPIKey
  <2>2. CASE Answer(r)
    <3>1. row' = row /\ held' \subseteq Keys
      BY <2>2 DEF Answer, TableType, RequestInv, KeyOf
    <3> QED BY <3>1 DEF TableType, RowsStay, Usable, Active
  <2>3. ASSUME NEW limit \in RateLimits, NEW expiry \in Expiries, Insert(r, limit, expiry)
        PROVE TableType' /\ RowsStay
    <3>1. CASE UNCHANGED <<row, held>>
      BY <1>1, <3>1
    <3>2. CASE row' = [row EXCEPT ![key[r]] = NewRow(OrDefault(limit), expiry)] /\ held' = held
      <4>1. key[r] \in Keys /\ row[key[r]] = None
        BY <2>3 DEF Insert, RequestInv, KeyOf
      <4>2. \A k \in Keys : k # key[r] => row'[k] = row[k]
        BY <3>2 DEF TableType
      <4>3. RowsStay
        BY <4>1, <4>2 DEF RowsStay, Usable, Active
      <4>4. TableType'
        BY <3>2, <4>1, NewRowType DEF TableType
      <4> QED BY <4>3, <4>4
    <3> QED BY <2>3, <3>1, <3>2 DEF Insert
  <2> QED BY <1>2, <2>1, <2>2, <2>3 DEF Step
<1>3. ASSUME NEW k \in Keys, CmdRevoke(k) \/ Expires(k) PROVE TableType' /\ RowsStay
  <2>1. row[k] \in Row /\ held' = held
    BY <1>3 DEF CmdRevoke, Expires, RequestInv, TableType
  <2>2. \E new \in Row :
           /\ row' = [row EXCEPT ![k] = new]
           /\ new.limit = row[k].limit
           /\ new.active => row[k].active
           /\ new.expiry # "past" => row[k].expiry # "past"
    <3>1. CASE CmdRevoke(k)
      <4>1. row' = [row EXCEPT ![k] = [row[k] EXCEPT !.active = FALSE]]
        BY <3>1 DEF CmdRevoke, Revoked
      <4> DEFINE new == [row[k] EXCEPT !.active = FALSE]
      <4>2. new \in Row /\ new.limit = row[k].limit /\ new.expiry = row[k].expiry /\ ~new.active
        BY <2>1 DEF Row
      <4> QED BY <4>1, <4>2
    <3>2. CASE Expires(k)
      <4>1. row' = [row EXCEPT ![k] = [row[k] EXCEPT !.expiry = "past"]]
        BY <3>2 DEF Expires
      <4> DEFINE new == [row[k] EXCEPT !.expiry = "past"]
      <4>2. new \in Row /\ new.limit = row[k].limit /\ new.expiry = "past"
        BY <2>1 DEF Row
      <4>3. new.active = row[k].active
        BY <2>1 DEF Row
      <4> QED BY <4>1, <4>2, <4>3
    <3> QED BY <1>3, <3>1, <3>2
  <2>3. PICK new \in Row : <2>2!(new)
    BY <2>2
  <2>4. row'[k] = new /\ \A j \in Keys : j # k => row'[j] = row[j]
    BY <2>3 DEF TableType
  <2>5. TableType'
    BY <2>1, <2>3 DEF TableType
  <2>6. RowsStay
    BY <2>3, <2>4 DEF RowsStay, Usable, Active
  <2> QED BY <2>5, <2>6
<1>4. ASSUME NEW k \in Keys, NEW limit \in RateLimits, NEW expiry \in Expiries,
             CmdCreate(k, limit, expiry)
      PROVE TableType' /\ RowsStay
  <2>1. row' = [row EXCEPT ![k] = NewRow(limit, expiry)] /\ row[k] = None /\ held' \subseteq Keys
    BY <1>4 DEF CmdCreate, TableType
  <2>2. TableType'
    BY <2>1, NewRowType DEF TableType
  <2>3. \A j \in Keys : j # k => row'[j] = row[j]
    BY <2>1 DEF TableType
  <2>4. RowsStay
    BY <2>1, <2>3 DEF RowsStay, Usable, Active
  <2> QED BY <2>2, <2>4
<1>5. ASSUME NEW r \in Requests, NEW k, Exempt(r) \/ Arrive(r, k) PROVE TableType' /\ RowsStay
  BY <1>1, <1>5 DEF Exempt, Arrive
<1>6. ASSUME NEW k \in Keys, Refill(k) PROVE TableType' /\ RowsStay
  BY <1>1, <1>6 DEF Refill
<1>9. ASSUME NEW S \in SUBSET Keys, Cleanup(S) PROVE TableType' /\ RowsStay
  BY <1>1, <1>9 DEF Cleanup
<1>7. CASE Restart \/ UNCHANGED vars
  BY <1>1, <1>7 DEF Restart, vars, gateway
<1>8. ASSUME UNCHANGED gateway PROVE TableType' /\ RowsStay
  BY <1>1, <1>8 DEF gateway
<1> QED BY <1>2, <1>3, <1>4, <1>5, <1>6, <1>7, <1>8, <1>9, DocumentsApart DEF Next

-----------------------------------------------------------------------------
\* Whatever the others do, a request that does nothing is as it was.
Idles(q) == /\ place'[q] = place[q] /\ key'[q] = key[q]
            /\ status'[q] = status[q] /\ dead'[q] = dead[q]

LEMMA IdleKeeps ==
    ASSUME NEW q \in Requests, RequestType, KeyOf(q), DeadOf(q), RowsStay, Idles(q),
           place[q] = "insert" => row'[key[q]] = None
    PROVE  KeyOf(q)' /\ DeadOf(q)'
<1>1. Known(key[q]) => Known(key[q])'
  BY DEF Known, RowsStay, Idles
<1>2. Known(key[q]) /\ ~Usable(key[q]) => ~Usable(key[q])'
  <2>1. CASE key[q] \in Keys
    BY <2>1 DEF Known, RowsStay, Idles, Usable, Active
  <2>2. CASE key[q] \notin Keys
    BY <2>2 DEF Idles, Usable, Active
  <2> QED BY <2>1, <2>2
<1>3. KeyOf(q)'
  BY <1>1 DEF KeyOf, Idles
<1>4. DeadOf(q)'
  BY <1>1, <1>2 DEF DeadOf, KeyOf, Idles
<1> QED BY <1>3, <1>4

\* A step of one request: it is enough to look at that one.
LEMMA OneMoves ==
    ASSUME NEW r \in Requests, RequestType, RequestInv, DeadInv, RowsStay,
           \A q \in Requests \ {r} : Idles(q),
           \A q \in Requests \ {r} : place[q] = "insert" => row'[key[q]] = None,
           \A k \in held' : row'[k] # None,
           KeyOf(r)', DeadOf(r)',
           place'[r] = "insert" =>
               \A q \in Requests \ {r} : ~(place[q] = "insert" /\ key[q] = key'[r])
    PROVE  RequestInv' /\ DeadInv'
<1>1. \A q \in Requests \ {r} : KeyOf(q)' /\ DeadOf(q)'
  BY IdleKeeps DEF RequestInv, DeadInv
<1>2. DrawnOnce'
  BY DEF RequestInv, DrawnOnce, Idles
<1> QED BY <1>1, <1>2 DEF RequestInv, DeadInv

\* A request arrives, is authenticated, charged, handled and answered: each step
\* leaves it with a key it may have.
LEMMA RequestNext ==
    ASSUME KeyInv, [Next]_vars
    PROVE  RequestType' /\ RequestInv' /\ DeadInv'
<1>1. TableType /\ RequestType /\ RequestInv /\ DeadInv /\ TableType' /\ RowsStay
  BY TableNext DEF KeyInv, GatewayType
<1>2. \A k \in Keys : row[k] = None \/ row[k] \in Row
  BY <1>1 DEF TableType
<1>3. \A k \in held : k \in Keys /\ row[k] # None /\ row'[k] # None
  BY <1>1 DEF TableType, RequestInv, RowsStay
<1>4. \A q \in Requests : KeyOf(q) /\ DeadOf(q)
  BY <1>1 DEF RequestInv, DeadInv
<1>5. ASSUME UNCHANGED <<place, key, status, dead>>,
             \A q \in Requests : place[q] = "insert" => row'[key[q]] = None,
             \A k \in held' : row'[k] # None
      PROVE  RequestType' /\ RequestInv' /\ DeadInv'
  <2>1. \A q \in Requests : KeyOf(q)' /\ DeadOf(q)'
    BY <1>1, <1>4, <1>5, IdleKeeps DEF Idles
  <2>2. RequestType' /\ DrawnOnce'
    BY <1>1, <1>5 DEF RequestType, RequestInv, DrawnOnce
  <2> QED BY <1>5, <2>1, <2>2 DEF RequestInv, DeadInv
<1>6. ASSUME UNCHANGED <<row, held, place, key, status, dead>>
      PROVE  RequestType' /\ RequestInv' /\ DeadInv'
  BY <1>3, <1>4, <1>5, <1>6 DEF KeyOf
<1>7. ASSUME UNCHANGED row
      PROVE  \A q \in Requests : place[q] = "insert" => row'[key[q]] = None
  BY <1>4, <1>7 DEF KeyOf
<1>8. ASSUME NEW r \in Requests, NEW k \in held \union {Stray, None}, Arrive(r, k)
      PROVE  RequestType' /\ RequestInv' /\ DeadInv'
  <2>1. /\ place' = [place EXCEPT ![r] = "auth"] /\ key' = [key EXCEPT ![r] = k]
        /\ dead' = [dead EXCEPT ![r] = ~(Active(k) /\ row[k].expiry # "past")]
        /\ UNCHANGED <<status, row, held>> /\ place[r] = "idle"
    BY <1>8 DEF Arrive, Goto
  <2>2. RequestType'
    BY <1>1, <1>8, <2>1 DEF RequestType, TableType
  <2>3. /\ place'[r] = "auth" /\ key'[r] = k /\ status'[r] = status[r]
        /\ dead'[r] = ~(Active(k) /\ row[k].expiry # "past")
        /\ \A q \in Requests \ {r} : Idles(q)
    BY <1>1, <2>1 DEF RequestType, Idles
  <2>4. Known(k)' /\ (~(Active(k) /\ row[k].expiry # "past") => ~Usable(k)')
    <3>1. row' = row
      BY <2>1
    <3>2. k \in Keys => k \in held
      BY GatewayAssumption
    <3> QED BY <1>3, <3>1, <3>2 DEF Known, Usable, Active
  <2>5. Known(key[r])' /\ (dead'[r] => ~Usable(key[r])')
    BY <2>3, <2>4 DEF Known, Usable, Active
  <2>6. status[r] = 0
    BY <1>4, <2>1 DEF KeyOf
  <2>7. KeyOf(r)' /\ DeadOf(r)'
    BY <2>3, <2>5, <2>6 DEF KeyOf, DeadOf
  <2> QED BY <1>1, <1>3, <1>7, <2>1, <2>2, <2>3, <2>7, OneMoves
<1>9. ASSUME NEW r \in Requests, NEW s \in {200, 401, 429, 500},
             Reply(r, s), UNCHANGED <<row, held, key, dead>>, dead[r] => s \in {401, 500},
             s = 401 => Known(key[r]) /\ ~Usable(key[r])
      PROVE  RequestType' /\ RequestInv' /\ DeadInv'
  <2>1. RequestType'
    BY <1>1, <1>9 DEF RequestType, Reply
  <2>2. /\ place'[r] = "reply" /\ key'[r] = key[r] /\ status'[r] = s /\ dead'[r] = dead[r]
        /\ \A q \in Requests \ {r} : Idles(q)
    BY <1>1, <1>9 DEF RequestType, Reply, Idles
  <2>3. s = 401 => Known(key[r])' /\ ~Usable(key[r])'
    BY <1>9 DEF Known, Usable, Active
  <2>4. KeyOf(r)' /\ DeadOf(r)'
    BY <1>9, <2>2, <2>3 DEF KeyOf, DeadOf
  <2> QED BY <1>1, <1>3, <1>7, <1>9, <2>1, <2>2, <2>4, OneMoves
<1>10. ASSUME NEW r \in Requests, NEW p \in {"limit", "mux"}, place' = [place EXCEPT ![r] = p],
              UNCHANGED <<row, held, key, dead, status>>, ~dead[r], status[r] = 0,
              key[r] \in Keys /\ row[key[r]] # None
       PROVE  RequestType' /\ RequestInv' /\ DeadInv'
  <2>1. RequestType'
    BY <1>1, <1>10 DEF RequestType
  <2>2. /\ place'[r] = p /\ key'[r] = key[r] /\ status'[r] = 0 /\ dead'[r] = FALSE
        /\ \A q \in Requests \ {r} : Idles(q)
    BY <1>1, <1>10 DEF RequestType, Idles
  <2>3. Known(key[r])'
    BY <1>10 DEF Known
  <2>4. KeyOf(r)' /\ DeadOf(r)'
    BY <1>10, <2>2, <2>3 DEF KeyOf, DeadOf
  <2> QED BY <1>1, <1>3, <1>7, <1>10, <2>1, <2>2, <2>4, OneMoves
<1>11. ASSUME NEW r \in Requests, Exempt(r) PROVE RequestType' /\ RequestInv' /\ DeadInv'
  <2>1. ~dead[r]
    BY <1>4, <1>11 DEF Exempt, DeadOf
  <2> QED BY <1>9, <1>11, <2>1 DEF Exempt
<1>12. ASSUME NEW r \in Requests, Auth(r) PROVE RequestType' /\ RequestInv' /\ DeadInv'
  <2>1. Known(key[r]) /\ status[r] = 0 /\ (dead[r] => ~Usable(key[r]))
    BY <1>4, <1>12 DEF Auth, KeyOf, DeadOf
  <2>2. CASE Usable(key[r]) /\ Goto(r, "limit")
    <3>1. key[r] \in Keys /\ row[key[r]] # None /\ ~dead[r]
      BY <2>1, <2>2 DEF Usable, Active
    <3> QED BY <1>10, <1>12, <2>1, <2>2, <3>1 DEF Auth, Goto
  <2>3. CASE ~Usable(key[r]) /\ Reply(r, 401)
    BY <1>9, <1>12, <2>1, <2>3 DEF Auth
  <2>4. CASE Reply(r, 500)
    BY <1>9, <1>12, <2>4 DEF Auth
  <2> QED BY <1>12, <2>2, <2>3, <2>4 DEF Auth
<1>13. ASSUME NEW r \in Requests, RateLimit(r) PROVE RequestType' /\ RequestInv' /\ DeadInv'
  <2>1. key[r] \in Keys /\ row[key[r]] # None /\ status[r] = 0 /\ ~dead[r]
    BY <1>4, <1>13 DEF RateLimit, KeyOf, DeadOf, Known
  <2>2. CASE Goto(r, "mux")
    BY <1>10, <1>13, <2>1, <2>2 DEF RateLimit, Goto
  <2>3. CASE Reply(r, 429)
    BY <1>9, <1>13, <2>1, <2>3 DEF RateLimit
  <2> QED BY <1>13, <2>2, <2>3 DEF RateLimit
<1>14. ASSUME NEW r \in Requests, ProxyOrRead(r) PROVE RequestType' /\ RequestInv' /\ DeadInv'
  <2>1. ~dead[r]
    BY <1>4, <1>14 DEF ProxyOrRead, Enters, DeadOf
  <2>2. CASE Reply(r, 200)
    BY <1>9, <1>14, <2>1, <2>2 DEF ProxyOrRead
  <2>3. CASE Reply(r, 500)
    BY <1>9, <1>14, <2>1, <2>3 DEF ProxyOrRead
  <2> QED BY <1>14, <2>2, <2>3 DEF ProxyOrRead
<1>15. ASSUME NEW r \in Requests, NEW k \in Keys, CreateAPIKey(r, k)
       PROVE  RequestType' /\ RequestInv' /\ DeadInv'
  <2>1. /\ place' = [place EXCEPT ![r] = "insert"] /\ key' = [key EXCEPT ![r] = k]
        /\ UNCHANGED <<row, held, status, dead>> /\ place[r] = "mux" /\ row[k] = None
        /\ \A q \in Requests : key[q] = k => place[q] # "insert"
    BY <1>15 DEF CreateAPIKey, Enters, Goto
  <2>2. RequestType'
    BY <1>1, <2>1 DEF RequestType
  <2>3. /\ place'[r] = "insert" /\ key'[r] = k /\ status'[r] = status[r] /\ dead'[r] = dead[r]
        /\ \A q \in Requests \ {r} : Idles(q)
    BY <1>1, <2>1 DEF RequestType, Idles
  <2>4. status[r] = 0 /\ ~dead[r]
    BY <1>4, <2>1 DEF KeyOf, DeadOf
  <2>5. KeyOf(r)' /\ DeadOf(r)'
    BY <2>1, <2>3, <2>4 DEF KeyOf, DeadOf
  <2> QED BY <1>1, <1>3, <1>7, <2>1, <2>2, <2>3, <2>5, OneMoves
<1>16. ASSUME NEW r \in Requests, NEW limit \in RateLimits, NEW expiry \in Expiries,
              Insert(r, limit, expiry)
       PROVE  RequestType' /\ RequestInv' /\ DeadInv'
  <2>1. place[r] = "insert" /\ key[r] \in Keys /\ row[key[r]] = None /\ ~dead[r]
    BY <1>4, <1>16 DEF Insert, KeyOf, DeadOf
  <2>2. /\ place' = [place EXCEPT ![r] = "reply"] /\ UNCHANGED <<held, key, dead>>
        /\ \/ status' = [status EXCEPT ![r] = 500]
           \/ /\ status' = [status EXCEPT ![r] = 201]
              /\ row' = [row EXCEPT ![key[r]] = NewRow(OrDefault(limit), expiry)]
        /\ \/ row' = row
           \/ row' = [row EXCEPT ![key[r]] = NewRow(OrDefault(limit), expiry)]
    BY <1>16 DEF Insert, Reply, CreatedStatus
  <2>3. RequestType'
    BY <1>1, <2>2 DEF RequestType
  <2>4. /\ place'[r] = "reply" /\ key'[r] = key[r] /\ dead'[r] = dead[r]
        /\ status'[r] \in {201, 500} /\ \A q \in Requests \ {r} : Idles(q)
    BY <1>1, <2>2 DEF RequestType, Idles
  <2>5. status'[r] = 201 => row'[key[r]] # None
    BY <1>1, <2>1, <2>2, NewRowType, RowIsNotNone DEF RequestType, TableType
  <2>6. KeyOf(r)' /\ DeadOf(r)'
    BY <2>1, <2>4, <2>5 DEF KeyOf, DeadOf, Known
  <2>7. ASSUME NEW q \in Requests \ {r}, place[q] = "insert" PROVE row'[key[q]] = None
    <3>1. key[q] \in Keys /\ row[key[q]] = None /\ key[q] # key[r]
      BY <1>1, <1>4, <2>1, <2>7 DEF KeyOf, RequestInv, DrawnOnce
    <3> QED BY <1>1, <2>2, <3>1 DEF TableType
  <2> QED BY <1>1, <1>3, <2>2, <2>3, <2>4, <2>6, <2>7, OneMoves
<1>17. ASSUME NEW r \in Requests, Answer(r) PROVE RequestType' /\ RequestInv' /\ DeadInv'
  <2>1. /\ place' = [place EXCEPT ![r] = "idle"] /\ key' = [key EXCEPT ![r] = None]
        /\ status' = [status EXCEPT ![r] = 0] /\ dead' = [dead EXCEPT ![r] = FALSE]
        /\ UNCHANGED row
        /\ held' = held \/ (status[r] = 201 /\ held' = held \union {key[r]})
    BY <1>17 DEF Answer
  <2>2. RequestType'
    BY <1>1, <2>1 DEF RequestType
  <2>3. /\ place'[r] = "idle" /\ status'[r] = 0 /\ ~dead'[r]
        /\ \A q \in Requests \ {r} : Idles(q)
    BY <1>1, <2>1 DEF RequestType, Idles
  <2>4. KeyOf(r)' /\ DeadOf(r)'
    BY <2>3 DEF KeyOf, DeadOf
  <2>5. \A k \in held' : row'[k] # None
    BY <1>3, <1>4, <2>1 DEF KeyOf, Known
  <2> QED BY <1>1, <1>7, <2>1, <2>2, <2>3, <2>4, <2>5, OneMoves
<1>18. ASSUME NEW k \in Keys, NEW limit \in RateLimits, NEW expiry \in Expiries,
              CmdCreate(k, limit, expiry)
       PROVE  RequestType' /\ RequestInv' /\ DeadInv'
  <2>1. /\ row' = [row EXCEPT ![k] = NewRow(limit, expiry)] /\ held' \subseteq held \union {k}
        /\ UNCHANGED <<place, key, status, dead>>
        /\ \A q \in Requests : key[q] = k => place[q] # "insert"
    BY <1>18 DEF CmdCreate
  <2>2. \A q \in Requests : place[q] = "insert" => row'[key[q]] = None
    BY <1>1, <1>4, <2>1 DEF KeyOf, TableType
  <2>3. row'[k] # None
    BY <1>1, <2>1, NewRowType, RowIsNotNone DEF TableType
  <2> QED BY <1>3, <1>5, <2>1, <2>2, <2>3
<1>19. ASSUME NEW k \in Keys, CmdRevoke(k) \/ Expires(k)
       PROVE  RequestType' /\ RequestInv' /\ DeadInv'
  <2>1. row[k] # None /\ UNCHANGED <<held, place, key, status, dead>>
    BY <1>3, <1>19 DEF CmdRevoke, Expires
  <2>2. \A j \in Keys \ {k} : row'[j] = row[j]
    BY <1>1, <1>19 DEF CmdRevoke, Revoked, Expires, TableType
  <2>3. \A q \in Requests : place[q] = "insert" => row'[key[q]] = None
    BY <1>4, <2>1, <2>2 DEF KeyOf
  <2> QED BY <1>3, <1>5, <2>1, <2>3
<1>20. CASE Restart
  <2>1. /\ place' = [r \in Requests |-> "idle"] /\ status' = [r \in Requests |-> 0]
        /\ key' = [r \in Requests |-> None] /\ dead' = [r \in Requests |-> FALSE]
        /\ UNCHANGED <<row, held>>
    BY <1>20 DEF Restart
  <2>2. RequestType' /\ \A q \in Requests : KeyOf(q)' /\ DeadOf(q)'
    BY <2>1 DEF RequestType, KeyOf, DeadOf
  <2>3. DrawnOnce'
    BY <2>1 DEF DrawnOnce
  <2> QED BY <1>3, <2>1, <2>2, <2>3 DEF RequestInv, DeadInv
<1>21. ASSUME NEW k \in Keys, Refill(k) PROVE RequestType' /\ RequestInv' /\ DeadInv'
  BY <1>6, <1>21 DEF Refill
<1>24. ASSUME NEW S \in SUBSET Keys, Cleanup(S) PROVE RequestType' /\ RequestInv' /\ DeadInv'
  BY <1>6, <1>24 DEF Cleanup
<1>22. ASSUME UNCHANGED gateway PROVE RequestType' /\ RequestInv' /\ DeadInv'
  BY <1>6, <1>22 DEF gateway
<1>23. CASE UNCHANGED vars
  BY <1>22, <1>23 DEF vars
<1> QED BY <1>8, <1>11, <1>12, <1>13, <1>14, <1>15, <1>16, <1>17, <1>18, <1>19, <1>20, <1>21,
           <1>22, <1>23, <1>24, DocumentsApart DEF Next, Step

-----------------------------------------------------------------------------
LEMMA InMuxFinite == \A k : IsFiniteSet(InMux(k)) /\ Cardinality(InMux(k)) \in Nat
<1> SUFFICES ASSUME NEW k PROVE IsFiniteSet(InMux(k)) /\ Cardinality(InMux(k)) \in Nat
  OBVIOUS
<1>1. InMux(k) \in SUBSET Requests
  BY DEF InMux
<1> QED BY <1>1, FS_Subset, FS_CardinalityType, GatewayAssumption

\* The quantities of a key that has a row, as numbers.
Numbers(k) ==
    /\ row[k].limit \in Int /\ Burst(k) \in Nat \ {0} /\ Credit(k) \in Nat
    /\ Spent(k) \in Nat /\ served[k] \in Nat /\ refilled[k] \in Nat /\ renewed[k] \in Nat
    /\ bucket[k] \in Int \union {None} /\ Cardinality(InMux(k)) \in Nat
    /\ (1 + restarts) * Burst(k) \in Nat /\ Burst(k) <= (1 + restarts) * Burst(k)
    /\ (1 + (restarts + 1)) * Burst(k) = (1 + restarts) * Burst(k) + Burst(k)

BucketType == TableType /\ LimiterType /\ CountType

LEMMA AreNumbers == BucketType => \A k \in Keys : row[k] # None => Numbers(k)
<1> SUFFICES ASSUME NEW k \in Keys, TableType, LimiterType, CountType, row[k] # None
             PROVE  Numbers(k)
  BY DEF BucketType
<1>1. row[k].limit \in Int
  BY DEF TableType, Row
<1>2. /\ served[k] \in Nat /\ refilled[k] \in Nat /\ renewed[k] \in Nat
      /\ bucket[k] \in Int \union {None} /\ Cardinality(InMux(k)) \in Nat /\ restarts \in Nat
  BY InMuxFinite DEF LimiterType, CountType
<1>3. Burst(k) \in Nat \ {0}
  BY <1>1 DEF Burst
<1>4. Credit(k) \in Nat /\ Spent(k) \in Nat
  BY <1>2, <1>3 DEF Credit, Spent
<1>5. \A a, c \in Nat : /\ (1 + a) * c \in Nat /\ c <= (1 + a) * c
                        /\ (1 + (a + 1)) * c = (1 + a) * c + c
  <2>1. \A a, c \in Nat : (1 + a) * c = a * c + c /\ a * c \in Nat
    OBVIOUS
  <2>2. \A a, c \in Nat : (1 + (a + 1)) * c = (a + 1) * c + c
    BY <2>1
  <2>3. \A a, c \in Nat : (a + 1) * c = a * c + c
    OBVIOUS
  <2> QED BY <2>1, <2>2, <2>3
<1> QED BY <1>1, <1>2, <1>3, <1>4, <1>5 DEF Numbers

LEMMA AreNumbersNext == (BucketType => \A k \in Keys : row[k] # None => Numbers(k))'
  BY AreNumbers, PTL

\* A step that adds no more to what the key has used and can use than to its rights.
LEMMA BucketStep ==
    ASSUME NEW k \in Keys, BucketType, BucketType',
           BucketOf(k), RowsStay, row[k] # None, restarts' = restarts,
           Spent(k)' + Credit(k)' + refilled[k] + renewed[k]
               <= Spent(k) + Credit(k) + refilled'[k] + renewed'[k]
    PROVE  BucketOf(k)'
<1>1. row'[k] # None /\ row'[k].limit = row[k].limit
  BY DEF RowsStay
<1>2. Burst(k)' = Burst(k)
  BY <1>1 DEF Burst
<1>3. Numbers(k) /\ Numbers(k)'
  BY <1>1, AreNumbers, AreNumbersNext
<1> DEFINE P == (1 + restarts) * Burst(k)
<1>4. P \in Nat /\ Rights(k) = P + refilled[k] + renewed[k]
  BY <1>3 DEF Numbers, Rights
<1>5. Rights(k)' = P + refilled'[k] + renewed'[k]
  BY <1>2 DEF Rights
<1>6. Spent(k) + Credit(k) <= P + refilled[k] + renewed[k]
  BY <1>4 DEF BucketOf
<1> HIDE DEF P
<1>7. Spent(k)' + Credit(k)' <= P + refilled'[k] + renewed'[k]
  BY <1>3, <1>4, <1>6 DEF Numbers
<1> QED BY <1>1, <1>5, <1>7 DEF BucketOf

\* A key that no request is charged for and that enters no handler; its row may be
\* created.
LEMMA BucketKeeps ==
    ASSUME NEW k \in Keys, BucketType, BucketType', BucketOf(k), RowsStay, restarts' = restarts,
           bucket'[k] = bucket[k], served'[k] = served[k], refilled'[k] = refilled[k],
           renewed'[k] = renewed[k], InMux(k)' = InMux(k)
    PROVE  BucketOf(k)'
<1>1. CASE row[k] # None
  <2>1. Spent(k)' = Spent(k) /\ Credit(k)' = Credit(k)
    BY <1>1 DEF Spent, Credit, Burst, RowsStay
  <2>2. Numbers(k)
    BY <1>1, AreNumbers
  <2> QED BY <1>1, <2>1, <2>2, BucketStep DEF Numbers
<1>2. CASE row[k] = None /\ row'[k] = None
  BY <1>2 DEF BucketOf
<1>3. CASE row[k] = None /\ row'[k] # None
  <2>1. Numbers(k)'
    BY <1>3, AreNumbersNext
  <2>2. bucket'[k] = None /\ served'[k] = 0 /\ InMux(k)' = {}
    BY <1>3 DEF BucketOf
  <2>3. Spent(k)' = 0
    BY <2>2, FS_EmptySet DEF Spent
  <2>4. Credit(k)' = Burst(k)'
    BY <2>2 DEF Credit
  <2>5. (Spent(k) + Credit(k) <= Rights(k))'
    BY <2>1, <2>3, <2>4 DEF Numbers, Rights
  <2> QED BY <1>3, <2>5 DEF BucketOf
<1> QED BY <1>1, <1>2, <1>3

\* Tokens are kept: RateLimit moves one from the bucket to a request, and a
\* handler takes it from there.  Cleanup takes away a full bucket, or counts.
LEMMA BucketNext ==
    ASSUME KeyInv, BucketInv, [Next]_vars
    PROVE  LimiterType' /\ BucketInv'
<1> USE GatewayAssumption
<1>1. TableType /\ RequestType /\ RequestInv /\ RowsStay /\ TableType' /\ LimiterType
  BY TableNext DEF KeyInv, GatewayType
<1>c. CountType /\ CountType' /\ BucketType
  BY CountNext DEF KeyInv, GatewayType, BucketType
<1>b. ASSUME LimiterType' PROVE BucketType'
  BY <1>1, <1>c, <1>b DEF BucketType
<1>2. \A k \in Keys : BucketOf(k) /\ (row[k] # None => Numbers(k))
  BY <1>c, AreNumbers DEF BucketInv
<1>3. ASSUME UNCHANGED <<bucket, served, refilled, renewed, restarts>>,
             \A k \in Keys : InMux(k)' = InMux(k)
      PROVE  LimiterType' /\ BucketInv'
  <2>1. LimiterType'
    BY <1>1, <1>3 DEF LimiterType
  <2> QED BY <1>1, <1>2, <1>b, <1>c, <1>3, <2>1, BucketKeeps DEF BucketInv
<1>4. ASSUME UNCHANGED <<bucket, served, refilled, renewed, restarts, place, key>>
      PROVE  LimiterType' /\ BucketInv'
  BY <1>3, <1>4 DEF InMux
<1>5. ASSUME NEW r \in Requests, NEW k, NEW p \in {"idle", "auth", "limit", "insert", "reply"},
             UNCHANGED <<bucket, served, refilled, renewed, restarts>>, place[r] # "mux",
             place' = [place EXCEPT ![r] = p],
             key' = [key EXCEPT ![r] = k] \/ key' = key
      PROVE  LimiterType' /\ BucketInv'
  <2>1. \A q \in Requests : \A j : (place'[q] = "mux" /\ key'[q] = j)
                                      <=> (place[q] = "mux" /\ key[q] = j)
    BY <1>1, <1>5 DEF RequestType
  <2> QED BY <1>3, <1>5, <2>1 DEF InMux
<1>6. ASSUME NEW r \in Requests, Exempt(r) \/ Auth(r) \/ Answer(r)
      PROVE  LimiterType' /\ BucketInv'
  <2>1. CASE Exempt(r)
    BY <1>5, <2>1 DEF Exempt, Reply
  <2>2. CASE Auth(r)
    BY <1>5, <2>2 DEF Auth, Reply, Goto
  <2>3. CASE Answer(r)
    BY <1>5, <2>3 DEF Answer
  <2> QED BY <1>6, <2>1, <2>2, <2>3
<1>7. ASSUME NEW r \in Requests, NEW k, Arrive(r, k) PROVE LimiterType' /\ BucketInv'
  BY <1>5, <1>7 DEF Arrive, Goto
<1>8. ASSUME NEW r \in Requests, NEW limit, NEW expiry, Insert(r, limit, expiry)
      PROVE  LimiterType' /\ BucketInv'
  BY <1>5, <1>8 DEF Insert, Reply
<1>9. ASSUME NEW r \in Requests, RateLimit(r) PROVE LimiterType' /\ BucketInv'
  <2>1. place[r] = "limit" /\ key[r] \in Keys /\ row[key[r]] # None
    BY <1>1, <1>9 DEF RateLimit, RequestInv, KeyOf, Known
  <2>2. CASE Reply(r, 429) /\ UNCHANGED bucket
    BY <1>5, <1>9, <2>1, <2>2 DEF RateLimit, Reply
  <2>3. CASE Granted(key[r]) /\ bucket' = Charged(key[r]) /\ Goto(r, "mux")
    <3>0. PICK j \in Keys : j = key[r]
      BY <2>1
    <3>1. UNCHANGED <<key, served, refilled, renewed, restarts, row>>
          /\ place' = [place EXCEPT ![r] = "mux"]
      BY <1>9, <2>1, <3>0, <2>3 DEF RateLimit, Goto, Reply
    <3>2. bucket' = [bucket EXCEPT ![j] = (IF @ = None THEN row[j].limit ELSE @) - 1]
      BY <2>3, <3>0 DEF Charged
    <3>3. InMux(j)' = InMux(j) \union {r} /\ r \notin InMux(j)
      BY <1>1, <2>1, <3>0, <3>1 DEF InMux, RequestType
    <3>4. \A k \in Keys \ {j} : InMux(k)' = InMux(k)
      BY <1>1, <2>1, <3>0, <3>1 DEF InMux, RequestType
    <3>5. Cardinality(InMux(j))' = Cardinality(InMux(j)) + 1 /\ Cardinality(InMux(j)) \in Nat
      BY <3>3, InMuxFinite, FS_AddElement
    <3>n. row[j] # None /\ Numbers(j)
      BY <1>2, <2>1, <3>0
    <3>6. LimiterType'
      BY <1>1, <3>n, <3>1, <3>2 DEF LimiterType, Numbers
    <3>7. \A k \in Keys \ {j} : BucketOf(k)'
      BY <1>1, <1>2, <1>b, <1>c, <3>1, <3>2, <3>4, <3>6, BucketKeeps DEF LimiterType
    <3>8. BucketOf(j)'
      <4>1. bucket'[j] = (IF bucket[j] = None THEN row[j].limit ELSE bucket[j]) - 1
        BY <1>1, <3>2 DEF LimiterType
      <4>2. bucket[j] # None => bucket[j] >= 1
        BY <2>3, <3>0 DEF Granted
      <4>3. Credit(j)' = Credit(j) - 1
        <5>1. bucket'[j] \in Int
          BY <3>n, <4>1 DEF Numbers
        <5> QED BY <3>n, <4>1, <4>2, <5>1 DEF Credit, Burst, Numbers
      <4>4. Spent(j)' = Spent(j) + 1
        BY <3>1, <3>5, <3>n DEF Spent, Numbers
      <4>5. Spent(j)' + Credit(j)' = Spent(j) + Credit(j)
        BY <3>n, <4>3, <4>4 DEF Numbers
      <4>6. Spent(j)' + Credit(j)' + refilled[j] + renewed[j]
               <= Spent(j) + Credit(j) + refilled'[j] + renewed'[j]
        BY <3>n, <3>1, <4>5 DEF Numbers
      <4> QED BY <1>1, <1>2, <1>b, <1>c, <3>1, <3>6, <3>n, <4>6, BucketStep
    <3> QED BY <3>6, <3>7, <3>8 DEF BucketInv
  <2> QED BY <1>9, <2>2, <2>3 DEF RateLimit
<1>10. ASSUME NEW r \in Requests, ProxyOrRead(r) \/ \E k \in Keys : CreateAPIKey(r, k)
       PROVE  LimiterType' /\ BucketInv'
  <2>1. /\ served' = [served EXCEPT ![key[r]] = @ + 1]
        /\ UNCHANGED <<bucket, refilled, renewed, restarts, row>>
        /\ place[r] = "mux"
        /\ place' = [place EXCEPT ![r] = "reply"] \/ place' = [place EXCEPT ![r] = "insert"]
        /\ key' = key \/ \E k \in Keys : key' = [key EXCEPT ![r] = k]
    BY <1>10 DEF ProxyOrRead, CreateAPIKey, Enters, Reply, Goto
  <2>2. PICK j \in Keys : j = key[r]
    BY <1>1, <2>1 DEF RequestInv, KeyOf
  <2>3. InMux(j)' = InMux(j) \ {r} /\ r \in InMux(j)
    BY <1>1, <2>1, <2>2 DEF InMux, RequestType
  <2>4. \A k \in Keys \ {j} : InMux(k)' = InMux(k)
    BY <1>1, <2>1, <2>2 DEF InMux, RequestType
  <2>5. Cardinality(InMux(j))' = Cardinality(InMux(j)) - 1 /\ Cardinality(InMux(j)) \in Nat
    BY <2>3, InMuxFinite, FS_RemoveElement
  <2>n. row[j] # None /\ Numbers(j)
    BY <1>2, <2>2, <2>3 DEF BucketOf
  <2>6. LimiterType'
    BY <1>1, <2>1, <2>2 DEF LimiterType
  <2>7. \A k \in Keys \ {j} : BucketOf(k)'
    BY <1>1, <1>2, <1>b, <1>c, <2>1, <2>2, <2>4, <2>6, BucketKeeps DEF LimiterType
  <2>8. BucketOf(j)'
    <3>1. served'[j] = served[j] + 1
      BY <1>1, <2>1, <2>2 DEF LimiterType
    <3>2. Spent(j)' = Spent(j)
      BY <2>5, <2>n, <3>1 DEF Spent, Numbers
    <3>3. Credit(j)' = Credit(j)
      BY <2>1 DEF Credit, Burst
    <3>4. Spent(j)' + Credit(j)' + refilled[j] + renewed[j]
             <= Spent(j) + Credit(j) + refilled'[j] + renewed'[j]
      BY <2>n, <2>1, <3>2, <3>3 DEF Numbers
    <3> QED BY <1>1, <1>2, <1>b, <1>c, <2>1, <2>6, <2>n, <3>4, BucketStep
  <2> QED BY <2>6, <2>7, <2>8 DEF BucketInv
<1>11. ASSUME NEW j \in Keys, Refill(j) PROVE LimiterType' /\ BucketInv'
  <2>1. /\ bucket' = [bucket EXCEPT ![j] = @ + 1] /\ refilled' = [refilled EXCEPT ![j] = @ + 1]
        /\ bucket[j] # None /\ UNCHANGED <<row, place, key, served, renewed, restarts>>
    BY <1>11 DEF Refill
  <2>2. LimiterType'
    BY <1>1, <2>1 DEF LimiterType
  <2>3. \A k \in Keys : InMux(k)' = InMux(k)
    BY <2>1 DEF InMux
  <2>4. \A k \in Keys \ {j} : BucketOf(k)'
    BY <1>1, <1>2, <1>b, <1>c, <2>1, <2>2, <2>3, BucketKeeps DEF LimiterType
  <2>5. BucketOf(j)'
    <3>1. row[j] # None /\ Numbers(j)
      BY <1>2, <2>1 DEF BucketOf
    <3>2. bucket'[j] = bucket[j] + 1 /\ refilled'[j] = refilled[j] + 1
      BY <1>1, <2>1 DEF LimiterType
    <3>3. Spent(j)' = Spent(j)
      BY <2>1, <2>3 DEF Spent
    <3>4. Credit(j)' \in Nat /\ Credit(j)' <= Credit(j) + 1
      BY <2>1, <3>1, <3>2 DEF Credit, Burst, Numbers
    <3>5. Spent(j)' + Credit(j)' + refilled[j] + renewed[j]
             <= Spent(j) + Credit(j) + refilled'[j] + renewed'[j]
      BY <2>1, <3>1, <3>2, <3>3, <3>4 DEF Numbers
    <3> QED BY <1>1, <1>2, <1>b, <1>c, <2>1, <2>2, <3>1, <3>5, BucketStep
  <2> QED BY <2>2, <2>4, <2>5 DEF BucketInv
<1>12. CASE Restart
  <2>1. /\ bucket' = [k \in Keys |-> None] /\ place' = [r \in Requests |-> "idle"]
        /\ UNCHANGED <<row, served, refilled, renewed>> /\ restarts' = restarts + 1
    BY <1>12 DEF Restart
  <2>2. \A k \in Keys : InMux(k)' = {}
    BY <2>1 DEF InMux
  <2>3. LimiterType'
    BY <1>1, <2>1 DEF LimiterType
  <2>4. ASSUME NEW k \in Keys PROVE BucketOf(k)'
    <3>1. CASE row[k] = None
      BY <1>2, <2>1, <2>2, <3>1 DEF BucketOf
    <3>2. CASE row[k] # None
      <4>1. Numbers(k) /\ Spent(k) + Credit(k) <= Rights(k)
        BY <1>2, <3>2 DEF BucketOf
      <4>2. Burst(k)' = Burst(k) /\ Credit(k)' = Burst(k)
        BY <2>1 DEF Credit, Burst
      <4>3. Spent(k)' = served[k] /\ served[k] <= Spent(k)
        <5>1. Spent(k)' = served[k] + 0
          BY <2>1, <2>2, FS_EmptySet DEF Spent
        <5> QED BY <4>1, <5>1 DEF Spent, Numbers
      <4> DEFINE P == (1 + restarts) * Burst(k)
      <4>4. Rights(k) = P + refilled[k] + renewed[k] /\ P \in Nat
        BY <4>1 DEF Rights, Numbers
      <4>5. Rights(k)' = (P + Burst(k)) + refilled[k] + renewed[k]
        <5>1. Rights(k)' = (1 + (restarts + 1)) * Burst(k) + refilled[k] + renewed[k]
          BY <2>1, <4>2 DEF Rights
        <5>2. (1 + (restarts + 1)) * Burst(k) = P + Burst(k)
          BY <4>1 DEF Numbers
        <5> QED BY <5>1, <5>2
      <4> HIDE DEF P
      <4>6. Spent(k)' + Credit(k)' <= Rights(k)'
        BY <4>1, <4>2, <4>3, <4>4, <4>5 DEF Numbers
      <4> QED BY <2>1, <3>2, <4>6 DEF BucketOf
    <3> QED BY <3>1, <3>2
  <2> QED BY <2>3, <2>4 DEF BucketInv
<1>16. ASSUME NEW S \in SUBSET Keys, Cleanup(S) PROVE LimiterType' /\ BucketInv'
  <2>1. /\ bucket' = [k \in Keys |-> IF k \in S THEN None ELSE bucket[k]]
        /\ renewed' = [k \in Keys |->
               IF k \in S /\ row[k].limit <= 0 THEN renewed[k] + 1 ELSE renewed[k]]
        /\ UNCHANGED <<row, place, key, served, refilled, restarts>>
        /\ \A k \in S : Forgettable(k)
    BY <1>16 DEF Cleanup
  <2>2. LimiterType'
    BY <1>1, <2>1 DEF LimiterType
  <2>3. \A k \in Keys : InMux(k)' = InMux(k)
    BY <2>1 DEF InMux
  <2>4. \A k \in Keys \ S : BucketOf(k)'
    BY <1>1, <1>2, <1>b, <1>c, <2>1, <2>2, <2>3, BucketKeeps
  <2>5. ASSUME NEW k \in S PROVE BucketOf(k)'
    <3>0. k \in Keys
      OBVIOUS
    <3>1. bucket[k] # None /\ (0 < row[k].limit => bucket[k] >= row[k].limit)
      BY <2>1 DEF Forgettable
    <3>2. row[k] # None /\ Numbers(k)
      BY <1>2, <3>0, <3>1 DEF BucketOf
    <3>3. Spent(k)' = Spent(k)
      BY <2>1, <2>3, <3>0 DEF Spent
    <3>4. Credit(k)' = Burst(k)
      BY <2>1, <3>0 DEF Credit, Burst
    <3>5. Credit(k)' + renewed[k] <= Credit(k) + renewed'[k]
      <4>1. CASE row[k].limit <= 0
        <5>1. renewed'[k] = renewed[k] + 1 /\ Burst(k) = 1
          BY <2>1, <3>0, <3>2, <4>1 DEF Burst, Numbers
        <5> QED BY <3>2, <3>4, <5>1 DEF Numbers
      <4>2. CASE ~(row[k].limit <= 0)
        <5>1. renewed'[k] = renewed[k] /\ Burst(k) <= Credit(k)
          BY <2>1, <3>0, <3>1, <3>2, <4>2 DEF Burst, Credit, Numbers
        <5> QED BY <3>2, <3>4, <5>1 DEF Numbers
      <4> QED BY <4>1, <4>2
    <3>6. renewed'[k] \in Nat /\ Credit(k)' \in Nat
      BY <2>2, <3>0, <3>2, <3>4 DEF LimiterType, Numbers
    <3>7. Spent(k)' + Credit(k)' + refilled[k] + renewed[k]
             <= Spent(k) + Credit(k) + refilled'[k] + renewed'[k]
      BY <2>1, <3>2, <3>3, <3>5, <3>6 DEF Numbers
    <3> QED BY <1>1, <1>2, <1>b, <1>c, <2>1, <2>2, <3>0, <3>2, <3>7, BucketStep
  <2> QED BY <2>2, <2>4, <2>5 DEF BucketInv
<1>13. ASSUME NEW k, NEW limit, NEW expiry, CmdCreate(k, limit, expiry) \/ CmdRevoke(k) \/ Expires(k)
       PROVE  LimiterType' /\ BucketInv'
  BY <1>4, <1>13 DEF CmdCreate, CmdRevoke, Expires
<1>14. ASSUME UNCHANGED gateway PROVE LimiterType' /\ BucketInv'
  BY <1>4, <1>14 DEF gateway
<1>15. CASE UNCHANGED vars
  BY <1>14, <1>15 DEF vars
<1> QED BY <1>6, <1>7, <1>8, <1>9, <1>10, <1>11, <1>12, <1>13, <1>14, <1>15, <1>16, DocumentsApart
    DEF Next, Step

-----------------------------------------------------------------------------
\* The orphans were orphans before, but for the keys of K.
LEMMA OrphansGrow ==
    ASSUME IsFiniteSet(Orphans), NEW K, IsFiniteSet(K), Orphans' \subseteq Orphans \union K
    PROVE  /\ IsFiniteSet(Orphans')
           /\ Cardinality(Orphans') \in Nat /\ Cardinality(Orphans) \in Nat
           /\ Cardinality(Orphans') <= Cardinality(Orphans) + Cardinality(K)
<1>1. /\ IsFiniteSet(Orphans \union K)
      /\ Cardinality(Orphans \union K)
            = Cardinality(Orphans) + Cardinality(K) - Cardinality(Orphans \intersect K)
  BY FS_Union
<1>2. IsFiniteSet(Orphans \intersect K)
  BY FS_Intersection
<1>3. /\ Cardinality(Orphans) \in Nat /\ Cardinality(K) \in Nat
      /\ Cardinality(Orphans \intersect K) \in Nat
  BY <1>2, FS_CardinalityType
<1>4. IsFiniteSet(Orphans') /\ Cardinality(Orphans') <= Cardinality(Orphans \union K)
  BY <1>1, FS_Subset
<1> QED BY <1>1, <1>3, <1>4, FS_CardinalityType

\* Each request answers with one key.
LEMMA AnsweredBound ==
    /\ IsFiniteSet(Answered)
    /\ Cardinality(Answered) <= Cardinality(Requests)
    /\ Cardinality(Answered) \in Nat /\ Cardinality(Requests) \in Nat
<1> DEFINE R == {q \in Requests : status[q] = 201}
           f == [r \in R |-> key[r]]
<1>1. IsFiniteSet(R) /\ Cardinality(R) <= Cardinality(Requests)
  BY FS_Subset, GatewayAssumption
<1>2. f \in Surjection(R, Answered)
  BY DEF Surjection, Answered
<1>3. IsFiniteSet(Answered) /\ Cardinality(Answered) <= Cardinality(R)
  <2> HIDE DEF f, R
  <2> QED BY <1>1, <1>2, FS_Surjection
<1> QED BY <1>1, <1>3, FS_CardinalityType, GatewayAssumption

\* A key becomes an orphan in a statement that fails, in an answer that is lost or
\* in a process that ends.
LEMMA OrphanNext ==
    ASSUME KeyInv, OrphanInv, [Next]_vars
    PROVE  OrphanInv'
<1>1. TableType /\ RequestType /\ RequestInv /\ TableType' /\ RowsStay
  BY TableNext DEF KeyInv, GatewayType
<1>2. CountType /\ CountType'
  BY CountNext DEF KeyInv, GatewayType
<1>3. \A q \in Requests : KeyOf(q)
  BY <1>1 DEF RequestInv
<1>4. restarts * Cardinality(Requests) \in Nat
  BY <1>2, AnsweredBound DEF CountType
<1>5. ASSUME Orphans' \subseteq Orphans, UNCHANGED restarts, UNCHANGED faults \/ Fault
      PROVE  OrphanInv'
  <2>1. Orphans' \subseteq Orphans \union {} /\ IsFiniteSet({}) /\ Cardinality({}) = 0
    BY <1>5, FS_EmptySet
  <2>2. /\ IsFiniteSet(Orphans') /\ Cardinality(Orphans') <= Cardinality(Orphans)
        /\ Cardinality(Orphans') \in Nat /\ Cardinality(Orphans) \in Nat
    BY <2>1, OrphansGrow DEF OrphanInv
  <2>3. faults' >= faults
    BY <1>2, <1>5 DEF Fault, CountType
  <2> QED BY <1>2, <1>4, <1>5, <2>2, <2>3 DEF OrphanInv, CountType
<1>6. ASSUME NEW k, Orphans' \subseteq Orphans \union {k}, UNCHANGED restarts, Fault
      PROVE  OrphanInv'
  <2>1. IsFiniteSet({k}) /\ Cardinality({k}) = 1
    BY FS_Singleton
  <2>2. /\ IsFiniteSet(Orphans') /\ Cardinality(Orphans') <= Cardinality(Orphans) + 1
        /\ Cardinality(Orphans') \in Nat /\ Cardinality(Orphans) \in Nat
    BY <1>6, <2>1, OrphansGrow DEF OrphanInv
  <2>3. faults' = faults + 1
    BY <1>6 DEF Fault
  <2> QED BY <1>2, <1>4, <1>6, <2>2, <2>3 DEF OrphanInv, CountType
<1>7. ASSUME UNCHANGED <<row, held, restarts>>, UNCHANGED faults \/ Fault,
             Answered' = Answered
      PROVE  OrphanInv'
  <2>1. Orphans' = Orphans
    BY <1>7 DEF Orphans, ListKeys, Active
  <2> QED BY <1>5, <1>7, <2>1
<1>8. ASSUME NEW r \in Requests, UNCHANGED <<row, held, restarts>>, UNCHANGED faults \/ Fault,
             status[r] # 201, status'[r] # 201,
             \A q \in Requests \ {r} : status'[q] = status[q] /\ key'[q] = key[q]
      PROVE  OrphanInv'
  <2>1. Answered' = Answered
    BY <1>8 DEF Answered
  <2> QED BY <1>7, <1>8, <2>1
<1>9. ASSUME NEW r \in Requests,
             Exempt(r) \/ Auth(r) \/ RateLimit(r) \/ ProxyOrRead(r) \/ \E k \in Keys : CreateAPIKey(r, k)
      PROVE  OrphanInv'
  <2>1. /\ UNCHANGED <<row, held, restarts>> /\ place[r] # "reply"
        /\ UNCHANGED faults \/ Fault
        /\ \/ status' = status
           \/ \E s \in {200, 401, 429, 500} : status' = [status EXCEPT ![r] = s]
        /\ key' = key \/ \E k \in Keys : key' = [key EXCEPT ![r] = k]
    BY <1>9 DEF Exempt, Auth, RateLimit, ProxyOrRead, CreateAPIKey, Enters, Reply, Goto
  <2>2. status[r] = 0
    BY <1>3, <2>1 DEF KeyOf
  <2>3. status'[r] # 201 /\ \A q \in Requests \ {r} : status'[q] = status[q] /\ key'[q] = key[q]
    BY <1>1, <2>1, <2>2 DEF RequestType
  <2> QED BY <1>8, <2>1, <2>2, <2>3
<1>10. ASSUME NEW r \in Requests, NEW k, Arrive(r, k) PROVE OrphanInv'
  <2>1. /\ UNCHANGED <<row, held, restarts, faults, status>> /\ place[r] = "idle"
        /\ key' = [key EXCEPT ![r] = k]
    BY <1>10 DEF Arrive, Goto
  <2>2. status[r] = 0 /\ status'[r] = 0
    BY <1>3, <2>1 DEF KeyOf
  <2>3. \A q \in Requests \ {r} : status'[q] = status[q] /\ key'[q] = key[q]
    BY <1>1, <2>1 DEF RequestType
  <2> QED BY <1>8, <2>1, <2>2, <2>3
<1>11. ASSUME NEW r \in Requests, NEW limit, NEW expiry, Insert(r, limit, expiry) PROVE OrphanInv'
  <2>1. /\ UNCHANGED <<held, key, restarts>> /\ place[r] = "insert"
        /\ \/ row' = row
           \/ row' = [row EXCEPT ![key[r]] = NewRow(OrDefault(limit), expiry)]
        /\ \/ status' = [status EXCEPT ![r] = 201] /\ UNCHANGED faults
           \/ status' = [status EXCEPT ![r] = 500] /\ Fault
    BY <1>11 DEF Insert, Reply, CreatedStatus
  <2>2. PICK k \in Keys : k = key[r] /\ status[r] = 0
    BY <1>3, <2>1 DEF KeyOf
  <2>3. \A q \in Requests \ {r} : status'[q] = status[q] /\ key'[q] = key[q]
    BY <1>1, <2>1 DEF RequestType
  <2>4. ListKeys' \subseteq ListKeys \union {k}
    BY <1>1, <2>1, <2>2 DEF ListKeys, Active, TableType
  <2>5. Answered \subseteq Answered'
    BY <2>2, <2>3 DEF Answered
  <2>6. Orphans' \subseteq Orphans \union {k}
    BY <2>1, <2>4, <2>5 DEF Orphans
  <2>7. CASE status' = [status EXCEPT ![r] = 201] /\ UNCHANGED faults
    <3>1. k \in Answered'
      BY <1>1, <2>1, <2>2, <2>7 DEF Answered, RequestType
    <3>2. Orphans' \subseteq Orphans
      BY <2>6, <3>1 DEF Orphans
    <3> QED BY <1>5, <2>1, <2>7, <3>2
  <2>8. CASE Fault
    BY <1>6, <2>1, <2>6, <2>8
  <2> QED BY <2>1, <2>7, <2>8
<1>12. ASSUME NEW r \in Requests, Answer(r) PROVE OrphanInv'
  <2>1. /\ UNCHANGED <<row, restarts>>
        /\ \/ status[r] = 201 /\ held' = held \union {key[r]} /\ UNCHANGED faults
           \/ status[r] = 201 /\ held' = held /\ Fault
           \/ status[r] # 201 /\ held' = held /\ UNCHANGED faults
        /\ status' = [status EXCEPT ![r] = 0] /\ key' = [key EXCEPT ![r] = None]
    BY <1>12 DEF Answer
  <2>2. \A q \in Requests \ {r} : status'[q] = status[q] /\ key'[q] = key[q]
    BY <1>1, <2>1 DEF RequestType
  <2>3. ListKeys' = ListKeys
    BY <2>1 DEF ListKeys, Active
  <2>4. held \union Answered \subseteq (held \union Answered)' \union {key[r]}
    BY <2>1, <2>2 DEF Answered
  <2>5. CASE Fault
    <3>1. Orphans' \subseteq Orphans \union {key[r]}
      BY <2>3, <2>4 DEF Orphans
    <3> QED BY <1>6, <2>1, <2>5, <3>1
  <2>6. CASE UNCHANGED faults
    <3>1. \/ status[r] = 201 /\ held' = held \union {key[r]}
          \/ status[r] # 201 /\ held' = held
      BY <1>2, <2>1, <2>6 DEF Fault, CountType
    <3>2. held \union Answered \subseteq (held \union Answered)'
      BY <2>2, <3>1 DEF Answered
    <3>3. Orphans' \subseteq Orphans
      BY <2>3, <3>2 DEF Orphans
    <3> QED BY <1>5, <2>1, <2>6, <3>3
  <2> QED BY <2>1, <2>5, <2>6
<1>13. ASSUME NEW k \in Keys, NEW limit, NEW expiry, CmdCreate(k, limit, expiry) PROVE OrphanInv'
  <2>1. /\ row' = [row EXCEPT ![k] = NewRow(limit, expiry)] /\ UNCHANGED <<restarts, status, key>>
        /\ (held' = held \union {k} /\ UNCHANGED faults) \/ (Fault /\ UNCHANGED held)
    BY <1>13 DEF CmdCreate
  <2>2. ListKeys' \subseteq ListKeys \union {k}
    BY <1>1, <2>1 DEF ListKeys, Active, TableType
  <2>3. Answered' = Answered
    BY <2>1 DEF Answered
  <2>4. CASE held' = held \union {k} /\ UNCHANGED faults
    <3>1. Orphans' \subseteq Orphans
      BY <2>2, <2>3, <2>4 DEF Orphans
    <3> QED BY <1>5, <2>1, <2>4, <3>1
  <2>5. CASE Fault /\ UNCHANGED held
    <3>1. Orphans' \subseteq Orphans \union {k}
      BY <2>2, <2>3, <2>5 DEF Orphans
    <3> QED BY <1>6, <2>1, <2>5, <3>1
  <2> QED BY <2>1, <2>4, <2>5
<1>14. ASSUME NEW k \in Keys, CmdRevoke(k) \/ Expires(k) PROVE OrphanInv'
  <2>1. UNCHANGED <<restarts, faults, held, status, key>> /\ row[k] \in Row
    BY <1>1, <1>14 DEF CmdRevoke, Expires, RequestInv, TableType
  <2>2. \/ row' = [row EXCEPT ![k] = [row[k] EXCEPT !.active = FALSE]]
        \/ row' = [row EXCEPT ![k] = [row[k] EXCEPT !.expiry = "past"]]
    BY <1>14 DEF CmdRevoke, Revoked, Expires
  <2>3. [row[k] EXCEPT !.expiry = "past"].active = row[k].active
    BY <2>1 DEF Row
  <2>4. ~[row[k] EXCEPT !.active = FALSE].active
    BY <2>1 DEF Row
  <2>5. row'[k].active => row[k].active
    BY <1>1, <2>2, <2>3, <2>4 DEF TableType
  <2>6. \A j \in Keys \ {k} : row'[j] = row[j]
    BY <1>1, <2>2 DEF TableType
  <2>7. row[k] # None
    BY <2>1, RowIsNotNone
  <2>8. ListKeys' \subseteq ListKeys
    BY <2>5, <2>6, <2>7 DEF ListKeys, Active
  <2>9. Answered' = Answered
    BY <2>1 DEF Answered
  <2>10. Orphans' \subseteq Orphans
    BY <2>1, <2>8, <2>9 DEF Orphans
  <2> QED BY <1>5, <2>1, <2>10
<1>15. ASSUME NEW k \in Keys, Refill(k) PROVE OrphanInv'
  BY <1>7, <1>15 DEF Refill, Answered
<1>19. ASSUME NEW S \in SUBSET Keys, Cleanup(S) PROVE OrphanInv'
  BY <1>7, <1>19 DEF Cleanup, Answered
<1>16. CASE Restart
  <2>1. /\ UNCHANGED <<row, held, faults>> /\ restarts' = restarts + 1
        /\ status' = [r \in Requests |-> 0]
    BY <1>16 DEF Restart
  <2>2. ListKeys' = ListKeys
    BY <2>1 DEF ListKeys, Active
  <2>3. Orphans' \subseteq Orphans \union Answered
    BY <2>1, <2>2 DEF Orphans
  <2>4. /\ IsFiniteSet(Orphans')
        /\ Cardinality(Orphans') <= Cardinality(Orphans) + Cardinality(Answered)
        /\ Cardinality(Orphans') \in Nat /\ Cardinality(Orphans) \in Nat
    BY <2>3, AnsweredBound, OrphansGrow DEF OrphanInv
  <2>5. \A a, c \in Nat : (a + 1) * c = a * c + c
    OBVIOUS
  <2>6. restarts' * Cardinality(Requests)
          = restarts * Cardinality(Requests) + Cardinality(Requests)
    BY <1>2, <2>1, <2>5, AnsweredBound DEF CountType
  <2>7. Cardinality(Orphans') <= faults + restarts * Cardinality(Requests) + Cardinality(Requests)
    BY <1>2, <1>4, <2>4, AnsweredBound DEF OrphanInv, CountType
  <2>8. faults' + restarts' * Cardinality(Requests)
          = faults + restarts * Cardinality(Requests) + Cardinality(Requests)
    BY <1>2, <1>4, <2>1, <2>6, AnsweredBound DEF CountType
  <2>9. Cardinality(Orphans') <= faults' + restarts' * Cardinality(Requests)
    BY <2>7, <2>8
  <2> QED BY <2>4, <2>9 DEF OrphanInv
<1>17. ASSUME UNCHANGED gateway, UNCHANGED faults \/ Fault PROVE OrphanInv'
  BY <1>7, <1>17 DEF gateway, Answered
<1>18. CASE UNCHANGED vars
  BY <1>17, <1>18 DEF vars
<1> QED BY <1>9, <1>10, <1>11, <1>12, <1>13, <1>14, <1>15, <1>16, <1>17, <1>18, <1>19, DocumentsApart
    DEF Next, Step

-----------------------------------------------------------------------------
LEMMA PageLimitType == \A limit : PageLimit(limit) \in Nat \ {0}
  BY GatewayAssumption DEF PageLimit

\* A page has the documents behind the offset, as many as the limit says.
LEMMA PageHas ==
    ASSUME docs \in Seq(Nat), NEW limit, NEW offset \in Nat
    PROVE  /\ Page(limit, offset) \in Seq(Nat)
           /\ \A i \in 1 .. Len(docs) : i \in offset + 1 .. offset + PageLimit(limit) =>
                  docs[i] \in ToSet(Page(limit, offset))
           /\ Len(docs) > offset + PageLimit(limit) => Len(Page(limit, offset)) = PageLimit(limit)
<1> DEFINE L == PageLimit(limit)
           last == IF Len(docs) <= offset + L THEN Len(docs) ELSE offset + L
           p == Page(limit, offset)
<1>1. L \in Nat \ {0} /\ Len(docs) \in Nat
  BY PageLimitType
<1>2. p = SubSeq(docs, offset + 1, last) /\ last \in Nat /\ last <= Len(docs)
  <2>1. p = SubSeq(docs, offset + 1, Min({Len(docs), offset + L}))
    BY DEF Page
  <2> HIDE DEF L
  <2>2. Min({Len(docs), offset + L}) = last
    BY <1>1, MinOfTwo
  <2>3. last \in Nat /\ last <= Len(docs)
    BY <1>1
  <2> HIDE DEF last
  <2> QED BY <2>1, <2>2, <2>3
<1>3. \A i \in offset + 1 .. last : docs[i] \in Nat
  BY <1>2
<1> HIDE DEF L, last, p
<1>4. /\ p \in Seq(Nat)
      /\ Len(p) = IF offset + 1 <= last THEN last - (offset + 1) + 1 ELSE 0
      /\ \A i \in 1 .. last - (offset + 1) + 1 : p[i] = docs[offset + 1 + i - 1]
  BY <1>2, <1>3, SubSeqProperties
<1>5. ASSUME NEW i \in 1 .. Len(docs), i \in offset + 1 .. offset + L
      PROVE  docs[i] \in ToSet(p)
  <2>1. i <= last /\ i >= offset + 1
    BY <1>1, <1>5 DEF last
  <2>2. i - offset \in 1 .. last - (offset + 1) + 1
    BY <1>2, <2>1
  <2>3. Len(p) = last - (offset + 1) + 1
    BY <1>2, <1>4, <2>1
  <2>4. p[i - offset] = docs[i]
    <3>1. p[i - offset] = docs[offset + 1 + (i - offset) - 1]
      BY <1>4, <2>2
    <3>2. offset + 1 + (i - offset) - 1 = i
      OBVIOUS
    <3> QED BY <3>1, <3>2
  <2>5. i - offset \in DOMAIN p
    BY <1>4, <2>2, <2>3
  <2> QED BY <2>4, <2>5 DEF ToSet
<1>6. Len(docs) > offset + L => Len(p) = L
  BY <1>1, <1>4 DEF last
<1> QED BY <1>4, <1>5, <1>6 DEF L, p

\* No step lets a document that was there fall behind the offset unseen: a new
\* one moves the others away from it, never towards it.
LEMMA WalkNext ==
    ASSUME WalkType, WalkInv, [Next]_vars
    PROVE  WalkType' /\ WalkInv'
<1>1. docs \in Seq(Nat) /\ walk.offset \in Nat /\ Len(docs) \in Nat
  BY DEF WalkType
<1>2. ASSUME NEW i \in 1 .. Len(docs) + 1, StoreDocument(i) PROVE WalkType' /\ WalkInv'
  <2>1. docs' = InsertAt(docs, i, Len(docs) + 1) /\ walk' = walk
    BY <1>2 DEF StoreDocument
  <2>2. /\ docs' \in Seq(Nat) /\ Len(docs') = Len(docs) + 1
        /\ \A j \in 1 .. Len(docs) : docs'[IF j < i THEN j ELSE j + 1] = docs[j]
    <3>1. Len(docs) + 1 \in Nat
      BY <1>1
    <3> QED BY <1>1, <2>1, <3>1, InsertMoves
  <2>3. ASSUME NEW d, Ahead(d) PROVE Ahead(d)'
    <3>1. PICK j \in 1 .. Len(docs) : j > walk.offset /\ docs[j] = d
      BY <2>3 DEF Ahead
    <3>2. PICK m : m = IF j < i THEN j ELSE j + 1
      OBVIOUS
    <3>3. docs'[m] = d
      BY <2>2, <3>1, <3>2
    <3>4. m \in 1 .. Len(docs) + 1 /\ m > walk.offset
      BY <1>1, <3>1, <3>2
    <3> QED BY <2>1, <2>2, <3>3, <3>4 DEF Ahead
  <2>4. WalkType'
    BY <2>1, <2>2 DEF WalkType
  <2>5. WalkInv'
    BY <2>1, <2>3 DEF WalkInv
  <2> QED BY <2>4, <2>5
<1>3. ASSUME NEW limit \in 0 .. MaxPage + 1, WalkBegin(limit) PROVE WalkType' /\ WalkInv'
  <2>1. /\ docs' = docs
        /\ walk' = [at |-> "read", limit |-> limit, offset |-> 0, base |-> ToSet(docs),
                    seen |-> {}, cut |-> FALSE]
    BY <1>3 DEF WalkBegin, NoWalk
  <2>2. ToSet(docs) \subseteq Nat /\ limit \in Nat
    BY <1>1, <1>3, GatewayAssumption DEF ToSet
  <2>3. WalkType'
    BY <1>1, <2>1, <2>2 DEF WalkType
  <2>4. ASSUME NEW d \in ToSet(docs) PROVE Ahead(d)'
    <3>1. PICK i \in 1 .. Len(docs) : docs[i] = d
      BY <1>1, <2>4 DEF ToSet
    <3> QED BY <2>1, <3>1 DEF Ahead
  <2>5. WalkInv'
    BY <2>1, <2>4 DEF WalkInv
  <2> QED BY <2>3, <2>5
<1>4. ASSUME NEW cut \in BOOLEAN, ListDocuments(cut) PROVE WalkType' /\ WalkInv'
  <2> DEFINE L == PageLimit(walk.limit)
             page == Page(walk.limit, walk.offset)
             rows == IF cut THEN Front(page) ELSE page
  <2>0. walk.at = "read" /\ docs' = docs /\ (cut => page # <<>>)
    BY <1>4 DEF ListDocuments
  <2>1. walk' = [walk EXCEPT !.at = IF Len(rows) < L THEN "end" ELSE "read", !.offset = @ + L,
                             !.seen = @ \union ToSet(rows), !.cut = @ \/ cut]
    BY <1>4 DEF ListDocuments
  <2>2. page \in Seq(Nat) /\ L \in Nat
    BY <1>1, PageHas, PageLimitType
  <2>3. rows \in Seq(Nat)
    <3>1. page # <<>> => Front(page) \in Seq(Nat)
      <4> HIDE DEF page
      <4>1. \A i \in 1 .. Len(page) - 1 : page[i] \in Nat
        BY <2>2
      <4>2. Len(page) - 1 \in Int
        BY <2>2
      <4> QED BY <4>1, <4>2, SubSeqProperties DEF Front
    <3> QED BY <2>0, <2>2, <3>1
  <2>4. ToSet(rows) \subseteq Nat
    <3> HIDE DEF rows
    <3> QED BY <2>3 DEF ToSet
  <2>5. PICK at \in {"read", "end"} : at = IF Len(rows) < L THEN "end" ELSE "read"
    OBVIOUS
  <2>c. PICK c \in BOOLEAN : c = (walk.cut \/ cut)
    OBVIOUS
  <2>6. /\ walk'.at = at /\ walk'.offset = walk.offset + L /\ walk'.base = walk.base
        /\ walk'.seen = walk.seen \union ToSet(rows) /\ walk'.limit = walk.limit
        /\ walk' \in [at : {"none", "read", "end"}, limit : Nat, offset : Nat,
                      base : SUBSET Nat, seen : SUBSET Nat, cut : BOOLEAN]
    <3>1. walk' = [walk EXCEPT !.at = at, !.offset = walk.offset + L,
                               !.seen = walk.seen \union ToSet(rows), !.cut = c]
      <4> HIDE DEF rows, L
      <4> QED BY <2>1, <2>5, <2>c, Zenon
    <3> HIDE DEF rows, L
    <3>2. walk.seen \union ToSet(rows) \in SUBSET Nat /\ walk.offset + L \in Nat
      BY <1>1, <2>2, <2>4 DEF WalkType
    <3>3. PICK new \in SUBSET Nat, next \in Nat : /\ new = walk.seen \union ToSet(rows)
                                                 /\ next = walk.offset + L
      BY <3>2
    <3>4. walk' = [walk EXCEPT !.at = at, !.offset = next, !.seen = new, !.cut = c]
      BY <3>1, <3>3
    <3>5. /\ walk'.at = at /\ walk'.offset = next /\ walk'.base = walk.base
          /\ walk'.seen = new /\ walk'.limit = walk.limit
      BY <3>4 DEF WalkType
    <3>6. walk' \in [at : {"none", "read", "end"}, limit : Nat, offset : Nat,
                     base : SUBSET Nat, seen : SUBSET Nat, cut : BOOLEAN]
      BY <3>4 DEF WalkType
    <3> QED BY <3>3, <3>5, <3>6
  <2>7. walk'.cut = (walk.cut \/ cut)
    <3> HIDE DEF rows, L
    <3> QED BY <2>1 DEF WalkType
  <2>8. WalkType'
    BY <1>1, <2>0, <2>6 DEF WalkType
  <2>9. CASE walk.cut \/ cut
    BY <2>7, <2>8, <2>9 DEF WalkInv
  <2>10. CASE ~walk.cut /\ ~cut
    <3>1. rows = page /\ walk'.cut = FALSE
      BY <2>7, <2>10
    <3>2. ASSUME NEW d \in walk.base, d \notin walk'.seen
          PROVE  Ahead(d)' /\ at = "read"
      <4>1. d \notin walk.seen /\ d \notin ToSet(page)
        BY <2>6, <3>1, <3>2
      <4>2. PICK i \in 1 .. Len(docs) : i > walk.offset /\ docs[i] = d
        BY <2>0, <2>10, <3>2, <4>1 DEF WalkInv, Ahead
      <4>3. i > walk.offset + L
        <5>1. i \notin walk.offset + 1 .. walk.offset + L
          BY <1>1, <4>1, <4>2, PageHas
        <5> QED BY <1>1, <2>2, <4>2, <5>1
      <4>4. Len(page) = L
        BY <1>1, <2>2, <4>2, <4>3, PageHas
      <4>5. at = "read"
        BY <2>2, <2>5, <3>1, <4>4
      <4>6. Ahead(d)'
        BY <2>0, <2>6, <4>2, <4>3 DEF Ahead
      <4> QED BY <4>5, <4>6
    <3>3. WalkInv'
      BY <2>5, <2>6, <3>2 DEF WalkInv
    <3> QED BY <2>8, <3>3
  <2> QED BY <2>8, <2>9, <2>10
<1>5. CASE UNCHANGED documents
  BY <1>5 DEF documents, WalkType, WalkInv, Ahead
<1>6. ASSUME NEW r \in Requests, Step(r) \/ Exempt(r) PROVE UNCHANGED documents
  BY <1>6 DEF Step, Exempt, Auth, RateLimit, ProxyOrRead, Answer, CreateAPIKey, Insert
<1>7. ASSUME NEW r \in Requests, NEW k, Arrive(r, k) PROVE UNCHANGED documents
  BY <1>7 DEF Arrive
<1>8. ASSUME NEW k \in Keys, Refill(k) \/ CmdRevoke(k) \/ Expires(k) PROVE UNCHANGED documents
  BY <1>8 DEF Refill, CmdRevoke, Expires
<1>11. ASSUME NEW S \in SUBSET Keys, Cleanup(S) PROVE UNCHANGED documents
  BY <1>11 DEF Cleanup
<1>9. ASSUME NEW k \in Keys, NEW limit, NEW expiry, CmdCreate(k, limit, expiry)
      PROVE UNCHANGED documents
  BY <1>9 DEF CmdCreate
<1>10. CASE Restart \/ UNCHANGED vars
  BY <1>5, <1>10 DEF Restart, vars
<1> QED BY <1>2, <1>3, <1>4, <1>5, <1>6, <1>7, <1>8, <1>9, <1>10, <1>11 DEF Next

-----------------------------------------------------------------------------
LEMMA GatewayInit ==
    Init => KeyInv /\ BucketInv /\ OrphanInv /\ WalkType /\ WalkInv
<1> SUFFICES ASSUME Init PROVE KeyInv /\ BucketInv /\ OrphanInv /\ WalkType /\ WalkInv
  OBVIOUS
<1>1. TableType /\ LimiterType /\ CountType /\ RequestType
  BY DEF Init, TableType, LimiterType, CountType, RequestType
<1>2. RequestInv /\ DeadInv
  BY DEF Init, RequestInv, DeadInv, KeyOf, DeadOf, DrawnOnce
<1>3. \A k \in Keys : InMux(k) = {}
  BY DEF Init, InMux
<1>4. BucketInv
  BY <1>3 DEF Init, BucketInv, BucketOf
<1>5. OrphanInv
  <2>1. Orphans = {}
    BY DEF Init, Orphans, ListKeys, Active
  <2>2. faults = 0 /\ restarts * Cardinality(Requests) = 0
    BY AnsweredBound DEF Init
  <2> QED BY <2>1, <2>2, FS_EmptySet DEF OrphanInv
<1>6. WalkType /\ WalkInv
  BY DEF Init, NoWalk, WalkType, WalkInv
<1> QED BY <1>1, <1>2, <1>4, <1>5, <1>6 DEF KeyInv, GatewayType

LEMMA KeyInvNext == KeyInv /\ BucketInv /\ [Next]_vars => KeyInv'
  BY TableNext, RequestNext, BucketNext, CountNext DEF KeyInv, GatewayType

\* Authentication: for any number of requests and keys, whoever presents a key of
\* no use gets a 401 or a 500 and reaches no handler, and a 401 means that the key
\* is of no use.
THEOREM KeyDecidesAlways == Spec => []KeyDecides
<1>1. Init => KeyInv /\ BucketInv
  BY GatewayInit
<1>2. KeyInv /\ BucketInv /\ [Next]_vars => (KeyInv /\ BucketInv)'
  BY KeyInvNext, BucketNext DEF KeyInv, GatewayType
<1>3. KeyInv => KeyDecides
  BY DEF KeyInv, GatewayType, TableType, DeadInv, DeadOf, RequestInv, KeyDecides, Usable, Active
<1> QED BY <1>1, <1>2, <1>3, PTL DEF Spec

\* Rate limiting: no key is served more than its limit once for every start of the
\* process, what its bucket regained and, without a limit above 0, once for every
\* time that cleanup forgot it; for any number of requests at once and any limits.
THEOREM AdmissionBounded == Spec => []AdmissionBound
<1>1. Init => KeyInv /\ BucketInv
  BY GatewayInit
<1>2. KeyInv /\ BucketInv /\ [Next]_vars => (KeyInv /\ BucketInv)'
  BY KeyInvNext, BucketNext DEF KeyInv, GatewayType
<1>3. KeyInv /\ BucketInv => AdmissionBound
  <2> SUFFICES ASSUME KeyInv, BucketInv, NEW k \in Keys, row[k] # None
               PROVE  served[k] <= (1 + restarts) * Max({row[k].limit, 1}) + refilled[k] + renewed[k]
    BY DEF AdmissionBound
  <2>1. Numbers(k)
    BY AreNumbers DEF KeyInv, GatewayType, BucketType
  <2>2. Max({row[k].limit, 1}) = Burst(k)
    BY <2>1, MaxOfTwo DEF Burst, Numbers
  <2>3. Spent(k) + Credit(k) <= Rights(k)
    BY DEF BucketInv, BucketOf
  <2> DEFINE P == (1 + restarts) * Burst(k)
  <2>4. Rights(k) = P + refilled[k] + renewed[k] /\ P \in Nat
    BY <2>1 DEF Rights, Numbers
  <2> HIDE DEF P
  <2>5. served[k] <= P + refilled[k] + renewed[k]
    BY <2>1, <2>3, <2>4 DEF Numbers, Spent
  <2> QED BY <2>2, <2>5 DEF P
<1> QED BY <1>1, <1>2, <1>3, PTL DEF Spec

\* Keys: every key that was handed out has its row, and a key that is listed
\* although nobody holds it stands for a failed statement, a lost answer or a
\* request that a restart has cut off.
THEOREM KeysAreAccounted == Spec => []KeysAccounted
<1>1. Init => KeyInv /\ BucketInv /\ OrphanInv
  BY GatewayInit
<1>2. KeyInv /\ BucketInv /\ OrphanInv /\ [Next]_vars => (KeyInv /\ BucketInv /\ OrphanInv)'
  BY KeyInvNext, BucketNext, OrphanNext DEF KeyInv, GatewayType
<1>3. KeyInv /\ OrphanInv => KeysAccounted
  <2> SUFFICES ASSUME KeyInv, OrphanInv PROVE KeysAccounted
    OBVIOUS
  <2>1. \A k \in held \union Answered : row[k] # None
    BY DEF KeyInv, RequestInv, Answered, KeyOf, Known
  <2> QED BY <2>1 DEF OrphanInv, Orphans, Answered, KeysAccounted
<1> QED BY <1>1, <1>2, <1>3, PTL DEF Spec

\* Paging: a walk that no error cuts short sees every document that was there at
\* its beginning, for any limit and wherever others are stored meanwhile.
THEOREM WalkIsComplete == Spec => []WalkMissesNothing
<1>1. Init => WalkType /\ WalkInv
  BY GatewayInit
<1>2. WalkType /\ WalkInv /\ [Next]_vars => (WalkType /\ WalkInv)'
  BY WalkNext
<1>3. WalkInv => WalkMissesNothing
  BY DEF WalkInv, WalkMissesNothing
<1> QED BY <1>1, <1>2, <1>3, PTL DEF Spec
=============================================================================
