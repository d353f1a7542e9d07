--------------------------- MODULE SearcherProofs ---------------------------
(***************************************************************************)
(* Proofs about Searcher, for any shards, documents, queries and requests, *)
(* and any number of segments that appear and reloads that run meanwhile.  *)
(***************************************************************************)
EXTENDS Searcher, FiniteSetTheorems, TLAPS

Segments == [name : Nat, docs : SUBSET Docs]
Readers == [seg : Segments, born : Nat]
Goroutines == [term : Nat, reading : BOOLEAN, todo : Seq(Readers), acc : SUBSET Docs,
               postings : [Terms -> SUBSET Docs]]
Reloads == [at : {"idle", "shard", "known", "open"}, left : SUBSET Shards,
            shard : SUBSET Shards, listing : SUBSET Segments, todo : SUBSET Segments,
            opened : Seq(Readers)]

FilesType ==
    /\ files \in [Shards -> SUBSET Segments]
    /\ \A sh \in Shards : IsFiniteSet(files[sh])

EngineType ==
    /\ readers \in [Shards -> Seq(Readers)]
    /\ closes \in [Shards -> {0, 1}]
    /\ server \in {"up", "stopping", "closing", "exited"}
    /\ reload \in Reloads
    /\ faults \in Nat

RequestType ==
    /\ query \in [Requests -> Queries \union {NoQuery}]
    /\ gor \in [Requests -> [Shards -> Goroutines]]
    /\ answer \in [Requests -> [done : BOOLEAN, docs : SUBSET Docs]]
    /\ owed \in [Requests -> SUBSET Docs]

SearcherType == FilesType /\ EngineType /\ RequestType

-----------------------------------------------------------------------------
SegsOf(rs) == {rd.seg : rd \in ToSet(rs)}
DocsOf(rs) == UNION {rd.seg.docs : rd \in ToSet(rs)}

Distinct(rs) == \A i, j \in 1 .. Len(rs) : rs[i].seg = rs[j].seg => i = j

\* What a reload is about to append is new and has no segment twice.
ReloadInv ==
    /\ OpenedOnce
    /\ Distinct(reload.opened)
    /\ SegsOf(reload.opened) \intersect reload.todo = {}
    /\ reload.at # "open" => reload.todo = {} /\ reload.opened = <<>>
    /\ \A sh \in Shards : reload.shard = {sh} =>
           (SegsOf(reload.opened) \union reload.todo) \intersect SegsOf(readers[sh]) = {}

-----------------------------------------------------------------------------
\* A goroutine's reading of a query in a reader list: what it has found is there and
\* has the term, and what it has still to read is in the list.
Reads(g, q, rs) ==
    /\ g.term \in 1 .. Len(AllTerms(q)) + 1
    /\ g.reading = TRUE => g.term \in 1 .. Len(AllTerms(q))
    /\ g.reading = FALSE => g.todo = <<>> /\ g.acc = {}
    /\ ToSet(g.todo) \subseteq ToSet(rs)
    /\ \A d \in g.acc : d \in DocsOf(rs) /\ Finds(AllTerms(q)[g.term], d)
    /\ \A t \in Terms : \A d \in g.postings[t] : d \in DocsOf(rs) /\ Finds(t, d)

\* The document is found by every search for one of its terms from the n-th on.
Caught(g, q, rs, d, n) ==
    /\ d \in DocsOf(rs)
    /\ \A j \in n .. g.term - 1 :
           Finds(AllTerms(q)[j], d) => d \in g.postings[AllTerms(q)[j]]
    /\ g.reading = TRUE /\ g.term >= n /\ Finds(AllTerms(q)[g.term], d) =>
           d \in g.acc \union DocsOf(g.todo)

\* What an include term has found the exclude terms find.
ExcludesCaught(g, q, rs) ==
    \A t \in ToSet(q.terms) \ ToSet(q.exclude) : \A d \in g.postings[t] :
        Caught(g, q, rs, d, Len(q.terms) + 1)

Calm == faults = 0 /\ server \in {"up", "stopping"}

\* Without an error and before the readers are closed.
OpenInv ==
    /\ \A sh \in Shards : closes[sh] = 0 /\ \A rd \in ToSet(readers[sh]) : rd.born = 0
    /\ \A rd \in ToSet(reload.opened) : rd.born = 0

\* A request under way.
UnderwayInv(r) ==
    /\ \A sh \in Shards : /\ Reads(gor[r][sh], query[r], readers[sh])
                          /\ ExcludesCaught(gor[r][sh], query[r], readers[sh])
    /\ \A d \in owed[r] : /\ Matches(d, query[r])
                          /\ \E sh \in Shards : Caught(gor[r][sh], query[r], readers[sh], d, 1)

AnsweredInv(r) ==
    /\ answer[r].done = FALSE => answer[r].docs = {}
    /\ \A d \in answer[r].docs : \A t \in ToSet(query[r].exclude) : ~Finds(t, d)
    /\ answer[r].done = TRUE => query[r] # NoQuery /\ owed[r] \subseteq answer[r].docs

QueryInv ==
    Calm => /\ OpenInv
            /\ \A r \in Requests : /\ InFlight(r) => UnderwayInv(r)
                                   /\ AnsweredInv(r)

-----------------------------------------------------------------------------
LEMMA ToSetConcat ==
    ASSUME NEW S, NEW a \in Seq(S), NEW b \in Seq(S)
    PROVE  a \o b \in Seq(S) /\ ToSet(a \o b) = ToSet(a) \union ToSet(b)
<1>1. /\ a \o b \in Seq(S) /\ Len(a \o b) = Len(a) + Len(b)
      /\ Len(a) \in Nat /\ Len(b) \in Nat
      /\ \A i \in 1 .. Len(a) : (a \o b)[i] = a[i]
      /\ \A i \in 1 .. Len(b) : (a \o b)[Len(a) + i] = b[i]
  OBVIOUS
<1>2. DOMAIN a = 1 .. Len(a) /\ DOMAIN b = 1 .. Len(b) /\ DOMAIN (a \o b) = 1 .. Len(a) + Len(b)
  BY <1>1
<1>3. ToSet(a) \subseteq ToSet(a \o b) /\ ToSet(b) \subseteq ToSet(a \o b)
  <2>1. \A i \in DOMAIN a : i \in DOMAIN (a \o b) /\ (a \o b)[i] = a[i]
    BY <1>1, <1>2
  <2>2. \A i \in DOMAIN b : Len(a) + i \in DOMAIN (a \o b) /\ (a \o b)[Len(a) + i] = b[i]
    BY <1>1, <1>2
  <2>3. QED
    BY <2>1, <2>2 DEF ToSet
<1>4. ToSet(a \o b) \subseteq ToSet(a) \union ToSet(b)
  <2>1. ASSUME NEW i \in 1 .. Len(a) + Len(b)
        PROVE  (a \o b)[i] \in ToSet(a) \union ToSet(b)
    <3>1. CASE i \in 1 .. Len(a)
      BY <1>1, <1>2, <3>1 DEF ToSet
    <3>2. CASE i \notin 1 .. Len(a)
      <4>1. i - Len(a) \in 1 .. Len(b) /\ i = Len(a) + (i - Len(a))
        BY <1>1, <2>1, <3>2
      <4>2. (a \o b)[i] = b[i - Len(a)]
        BY <1>1, <4>1
      <4>3. QED
        BY <1>2, <4>1, <4>2 DEF ToSet
    <3>3. QED
      BY <3>1, <3>2
  <2>2. QED
    BY <1>2, <2>1 DEF ToSet
<1>5. QED
  BY <1>1, <1>3, <1>4

LEMMA ToSetAppend ==
    ASSUME NEW S, NEW a \in Seq(S), NEW e \in S
    PROVE  Append(a, e) \in Seq(S) /\ ToSet(Append(a, e)) = ToSet(a) \union {e}
<1>1. /\ Append(a, e) \in Seq(S) /\ Len(Append(a, e)) = Len(a) + 1 /\ Len(a) \in Nat
      /\ Append(a, e)[Len(a) + 1] = e
      /\ \A i \in 1 .. Len(a) : Append(a, e)[i] = a[i]
  OBVIOUS
<1>2. DOMAIN a = 1 .. Len(a) /\ DOMAIN Append(a, e) = 1 .. Len(a) + 1
  BY <1>1
<1>3. QED
  BY <1>1, <1>2 DEF ToSet

LEMMA ToSetTail ==
    ASSUME NEW S, NEW a \in Seq(S), a # <<>>
    PROVE  /\ Head(a) \in S /\ Tail(a) \in Seq(S)
           /\ ToSet(a) = {Head(a)} \union ToSet(Tail(a))
<1>1. /\ Tail(a) \in Seq(S) /\ Len(a) \in Nat /\ Len(a) >= 1 /\ Len(Tail(a)) = Len(a) - 1
      /\ Head(a) = a[1]
      /\ \A i \in 1 .. Len(a) - 1 : Tail(a)[i] = a[i + 1]
  OBVIOUS
<1>2. DOMAIN a = 1 .. Len(a) /\ DOMAIN Tail(a) = 1 .. Len(a) - 1
  BY <1>1
<1>3. \A i \in DOMAIN a : i = 1 \/ (i - 1 \in DOMAIN Tail(a) /\ a[i] = Tail(a)[i - 1])
  BY <1>1, <1>2
<1>4. ToSet(a) \subseteq {Head(a)} \union ToSet(Tail(a))
  BY <1>1, <1>3 DEF ToSet
<1>5. \A i \in DOMAIN Tail(a) : i + 1 \in DOMAIN a /\ Tail(a)[i] = a[i + 1]
  BY <1>1, <1>2
<1>6. {Head(a)} \union ToSet(Tail(a)) \subseteq ToSet(a)
  BY <1>1, <1>2, <1>5 DEF ToSet
<1>7. QED
  BY <1>1, <1>4, <1>6

LEMMA ToSetType ==
    ASSUME NEW S, NEW a \in Seq(S)
    PROVE  ToSet(a) \subseteq S /\ (a = <<>> => ToSet(a) = {}) /\ (a # <<>> => ToSet(a) # {})
<1>1. DOMAIN a = 1 .. Len(a) /\ Len(a) \in Nat /\ \A i \in 1 .. Len(a) : a[i] \in S
  OBVIOUS
<1>2. a = <<>> => DOMAIN a = {}
  OBVIOUS
<1>3. a # <<>> => 1 \in DOMAIN a
  BY <1>1
<1>4. QED
  BY <1>1, <1>2, <1>3 DEF ToSet

\* The terms that a goroutine searches.
LEMMA AllTermsFacts ==
    ASSUME NEW q \in Queries
    PROVE  /\ AllTerms(q) \in Seq(Terms)
           /\ q.terms \in Seq(Terms) /\ q.exclude \in Seq(Terms)
           /\ Len(q.terms) \in Nat /\ Len(AllTerms(q)) \in Nat
           /\ Len(q.terms) <= Len(AllTerms(q))
           /\ q # NoQuery /\ q.terms # <<>>
           /\ ToSet(q.terms) \subseteq Terms /\ ToSet(q.exclude) \subseteq Terms
           /\ \A i \in 1 .. Len(AllTerms(q)) : AllTerms(q)[i] \in Terms
           /\ \A i \in 1 .. Len(AllTerms(q)) : i > Len(q.terms) => AllTerms(q)[i] \in ToSet(q.exclude)
           /\ \A t \in ToSet(q.terms) : \E i \in 1 .. Len(q.terms) : AllTerms(q)[i] = t
           /\ \A t \in ToSet(q.exclude) :
                  \E i \in Len(q.terms) + 1 .. Len(AllTerms(q)) : AllTerms(q)[i] = t
<1>1. q.terms \in Seq(Terms) /\ q.exclude \in Seq(Terms) /\ q.terms # <<>>
  BY SearcherAssumption
<1>2. PICK a \in Seq(Terms) : a = q.terms
  BY <1>1
<1>3. PICK b \in Seq(Terms) : b = q.exclude
  BY <1>1
<1>4. PICK all : all = a \o b
  OBVIOUS
<1>5. AllTerms(q) = all
  BY <1>2, <1>3, <1>4 DEF AllTerms
<1>6. /\ all \in Seq(Terms) /\ Len(all) = Len(a) + Len(b) /\ Len(a) \in Nat /\ Len(b) \in Nat
      /\ \A i \in 1 .. Len(a) : all[i] = a[i]
      /\ \A i \in 1 .. Len(b) : all[Len(a) + i] = b[i]
      /\ DOMAIN a = 1 .. Len(a) /\ DOMAIN b = 1 .. Len(b)
  BY <1>4
<1>7. ASSUME NEW i \in 1 .. Len(all), i > Len(a) PROVE all[i] \in ToSet(b)
  <2>1. i - Len(a) \in 1 .. Len(b) /\ i = Len(a) + (i - Len(a))
    BY <1>6, <1>7
  <2>2. all[i] = b[i - Len(a)]
    BY <1>6, <2>1
  <2>3. QED
    BY <1>6, <2>1, <2>2 DEF ToSet
<1>8. ASSUME NEW t \in ToSet(a) PROVE \E i \in 1 .. Len(a) : all[i] = t
  BY <1>6 DEF ToSet
<1>9. ASSUME NEW t \in ToSet(b) PROVE \E i \in Len(a) + 1 .. Len(all) : all[i] = t
  <2>1. PICK i \in 1 .. Len(b) : b[i] = t
    BY <1>6 DEF ToSet
  <2>2. Len(a) + i \in Len(a) + 1 .. Len(all)
    BY <1>6
  <2>3. QED
    BY <1>6, <2>1, <2>2
<1>10. ToSet(a) \subseteq Terms /\ ToSet(b) \subseteq Terms
  BY ToSetType
<1>11. q # NoQuery
  BY <1>1 DEF NoQuery
<1>12. \A i \in 1 .. Len(all) : all[i] \in Terms
  BY <1>6
<1>13. Len(all) \in Nat /\ Len(a) <= Len(all)
  BY <1>6
<1>14. QED
  BY <1>1, <1>2, <1>3, <1>5, <1>6, <1>7, <1>8, <1>9, <1>10, <1>11, <1>12, <1>13

-----------------------------------------------------------------------------
LEMMA DocsOfGrow ==
    ASSUME NEW a, NEW b, ToSet(a) \subseteq ToSet(b)
    PROVE  DocsOf(a) \subseteq DocsOf(b)
BY DEF DocsOf

\* A reader list that grows leaves a goroutine's reading right.
LEMMA ReadsGrow ==
    ASSUME NEW g, NEW q, NEW a, NEW b, ToSet(a) \subseteq ToSet(b)
    PROVE  /\ Reads(g, q, a) => Reads(g, q, b)
           /\ \A d, n : Caught(g, q, a, d, n) => Caught(g, q, b, d, n)
           /\ ExcludesCaught(g, q, a) => ExcludesCaught(g, q, b)
<1>1. DocsOf(a) \subseteq DocsOf(b)
  BY DocsOfGrow
<1>2. Reads(g, q, a) => Reads(g, q, b)
  BY <1>1 DEF Reads
<1>3. ASSUME NEW d, NEW n, Caught(g, q, a, d, n) PROVE Caught(g, q, b, d, n)
  BY <1>1, <1>3 DEF Caught
<1>4. QED
  BY <1>2, <1>3 DEF ExcludesCaught

\* The step of a goroutine keeps what Reads and Caught say of it.
Kept(g, h, q, rs) ==
    /\ h \in Goroutines
    /\ Reads(h, q, rs)
    /\ ExcludesCaught(h, q, rs)
    /\ \A d \in Docs, n \in Nat \ {0} : Caught(g, q, rs, d, n) => Caught(h, q, rs, d, n)

LEMMA CopyKept ==
    ASSUME NEW q \in Queries, NEW g \in Goroutines, NEW rs \in Seq(Readers),
           Reads(g, q, rs), ExcludesCaught(g, q, rs),
           g.reading = FALSE, g.term \in 1 .. Len(AllTerms(q)),
           NEW h, h = [g EXCEPT !.reading = TRUE, !.todo = rs]
    PROVE  Kept(g, h, q, rs)
<1>1. /\ h \in Goroutines /\ h.term = g.term /\ h.reading = TRUE /\ h.todo = rs
      /\ h.acc = g.acc /\ h.postings = g.postings
  BY DEF Goroutines
<1>2. Reads(h, q, rs)
  BY <1>1 DEF Reads
<1>3. ASSUME NEW d \in Docs, NEW n, Caught(g, q, rs, d, n) PROVE Caught(h, q, rs, d, n)
  BY <1>1, <1>3 DEF Caught
<1>4. \A t \in Terms : h.postings[t] \subseteq Docs
  BY <1>1 DEF Goroutines
<1>5. ExcludesCaught(h, q, rs)
  <2>1. ToSet(q.terms) \subseteq Terms
    BY AllTermsFacts
  <2>2. QED
    BY <1>1, <1>3, <1>4, <2>1 DEF ExcludesCaught
<1>6. QED
  BY <1>1, <1>2, <1>3, <1>5 DEF Kept

\* A term without a token finds nothing.
LEMMA SkipKept ==
    ASSUME NEW q \in Queries, NEW g \in Goroutines, NEW rs \in Seq(Readers),
           Reads(g, q, rs), ExcludesCaught(g, q, rs),
           g.reading = FALSE, g.term \in 1 .. Len(AllTerms(q)),
           NormalizedTerm[AllTerms(q)[g.term]] = NoTerm,
           NEW h, h = [g EXCEPT !.term = @ + 1]
    PROVE  Kept(g, h, q, rs)
<1>1. /\ h \in Goroutines /\ h.term = g.term + 1 /\ h.reading = FALSE /\ h.todo = g.todo
      /\ h.acc = g.acc /\ h.postings = g.postings /\ g.term \in Nat
  <2>1. g.term \in Nat
    BY DEF Goroutines
  <2>2. PICK next \in Nat : next = g.term + 1
    BY <2>1
  <2>3. h = [g EXCEPT !.term = next]
    BY <2>2
  <2>4. /\ h \in Goroutines /\ h.term = next /\ h.reading = g.reading /\ h.todo = g.todo
        /\ h.acc = g.acc /\ h.postings = g.postings
    BY <2>3 DEF Goroutines
  <2>5. QED
    BY <2>1, <2>2, <2>4
<1>2. Reads(h, q, rs)
  <2>1. g.term + 1 \in 1 .. Len(AllTerms(q)) + 1 /\ g.acc = {} /\ g.todo = <<>>
    BY AllTermsFacts DEF Reads
  <2>2. QED
    BY <1>1, <2>1 DEF Reads
<1>3. ASSUME NEW d \in Docs, NEW n \in Nat \ {0}, Caught(g, q, rs, d, n) PROVE Caught(h, q, rs, d, n)
  <2>1. ~Finds(AllTerms(q)[g.term], d)
    BY SearcherAssumption DEF Finds
  <2>2. \A j \in n .. h.term - 1 : j = g.term \/ j \in n .. g.term - 1
    BY <1>1
  <2>3. QED
    BY <1>1, <1>3, <2>1, <2>2 DEF Caught
<1>4. \A t \in Terms : h.postings[t] \subseteq Docs
  BY <1>1 DEF Goroutines
<1>5. ExcludesCaught(h, q, rs)
  <2>1. ToSet(q.terms) \subseteq Terms /\ Len(q.terms) + 1 \in Nat \ {0}
    BY AllTermsFacts
  <2>2. QED
    BY <1>1, <1>3, <1>4, <2>1 DEF ExcludesCaught
<1>6. QED
  BY <1>1, <1>2, <1>3, <1>5 DEF Kept

LEMMA ReadKept ==
    ASSUME NEW q \in Queries, NEW g \in Goroutines, NEW rs \in Seq(Readers),
           Reads(g, q, rs), ExcludesCaught(g, q, rs), g.todo # <<>>,
           NEW h, h = [g EXCEPT !.todo = Tail(@),
                                !.acc = @ \union {d \in Head(g.todo).seg.docs :
                                                    Finds(AllTerms(q)[g.term], d)}]
    PROVE  Kept(g, h, q, rs)
<1>1. g.todo \in Seq(Readers) /\ g.reading \in BOOLEAN /\ g.acc \subseteq Docs
  BY DEF Goroutines
<1>2. g.reading = TRUE /\ g.term \in 1 .. Len(AllTerms(q))
  BY <1>1 DEF Reads
<1>3. PICK head \in Readers : head = Head(g.todo)
  BY <1>1, ToSetTail
<1>4. PICK tail \in Seq(Readers) : tail = Tail(g.todo)
  BY <1>1, ToSetTail
<1>5. ToSet(g.todo) = {head} \union ToSet(tail)
  BY <1>1, <1>3, <1>4, ToSetTail
<1>6. PICK term \in Terms : term = AllTerms(q)[g.term]
  BY <1>2, AllTermsFacts
<1>7. PICK found : found = {d \in head.seg.docs : Finds(term, d)}
  OBVIOUS
<1>8. head.seg.docs \subseteq Docs
  BY DEF Readers, Segments
<1>9. /\ h \in Goroutines /\ h.term = g.term /\ h.reading = g.reading /\ h.todo = tail
      /\ h.acc = g.acc \union found /\ h.postings = g.postings
  <2>1. h = [g EXCEPT !.todo = tail, !.acc = g.acc \union found]
    BY <1>3, <1>4, <1>6, <1>7
  <2>2. g.acc \union found \in SUBSET Docs
    BY <1>1, <1>7, <1>8
  <2>3. QED
    BY <2>1, <2>2 DEF Goroutines
<1>10. DocsOf(g.todo) = head.seg.docs \union DocsOf(tail)
  BY <1>5 DEF DocsOf
<1>11. head.seg.docs \subseteq DocsOf(rs)
  BY <1>5 DEF DocsOf, Reads
<1>12. Reads(h, q, rs)
  BY <1>2, <1>5, <1>6, <1>7, <1>9, <1>11 DEF Reads
<1>13. ASSUME NEW d \in Docs, NEW n, Caught(g, q, rs, d, n) PROVE Caught(h, q, rs, d, n)
  BY <1>6, <1>7, <1>9, <1>10, <1>13 DEF Caught
<1>14. ExcludesCaught(h, q, rs)
  <2>1. ToSet(q.terms) \subseteq Terms
    BY AllTermsFacts
  <2>2. \A t \in Terms : h.postings[t] \subseteq Docs
    BY <1>9 DEF Goroutines
  <2>3. QED
    BY <1>9, <1>13, <2>1, <2>2 DEF ExcludesCaught
<1>15. QED
  BY <1>9, <1>12, <1>13, <1>14 DEF Kept

LEMMA EndKept ==
    ASSUME NEW q \in Queries, NEW g \in Goroutines, NEW rs \in Seq(Readers),
           Reads(g, q, rs), ExcludesCaught(g, q, rs), g.reading = TRUE, g.todo = <<>>,
           NEW h, h = [g EXCEPT !.term = @ + 1, !.reading = FALSE, !.acc = {},
                                !.postings[AllTerms(q)[g.term]] = IF g.acc = {} THEN @ ELSE g.acc]
    PROVE  Kept(g, h, q, rs)
<1>1. /\ g.term \in 1 .. Len(AllTerms(q)) /\ g.acc \subseteq Docs /\ g.term \in Nat
      /\ g.postings \in [Terms -> SUBSET Docs] /\ g.todo \in Seq(Readers)
  BY DEF Reads, Goroutines
<1>2. PICK term \in Terms : term = AllTerms(q)[g.term]
  BY <1>1, AllTermsFacts
<1>3. PICK found \in SUBSET Docs : found = IF g.acc = {} THEN g.postings[term] ELSE g.acc
  BY <1>1
<1>4. PICK posts \in [Terms -> SUBSET Docs] : posts = [g.postings EXCEPT ![term] = found]
  BY <1>1
<1>5. h = [g EXCEPT !.term = g.term + 1, !.reading = FALSE, !.acc = {}, !.postings = posts]
  BY <1>2, <1>3, <1>4
<1>6. /\ h \in Goroutines /\ h.term = g.term + 1 /\ h.reading = FALSE /\ h.todo = <<>>
      /\ h.acc = {} /\ h.postings = posts
  <2>1. PICK next \in Nat : next = g.term + 1
    BY <1>1
  <2>2. PICK none \in SUBSET Docs : none = {}
    OBVIOUS
  <2>3. h = [g EXCEPT !.term = next, !.reading = FALSE, !.acc = none, !.postings = posts]
    BY <1>5, <2>1, <2>2
  <2>4. /\ h \in Goroutines /\ h.term = next /\ h.reading = FALSE /\ h.todo = g.todo
        /\ h.acc = none /\ h.postings = posts
    BY <2>3 DEF Goroutines
  <2>5. QED
    BY <2>1, <2>2, <2>4
<1>7. posts[term] = found /\ \A t \in Terms : t # term => posts[t] = g.postings[t]
  BY <1>1, <1>4
<1>8. ToSet(<<>>) = {} /\ DocsOf(<<>>) = {}
  BY DEF DocsOf, ToSet
<1>9. \A d \in found : d \in DocsOf(rs) /\ Finds(term, d)
  BY <1>2, <1>3 DEF Reads
<1>10. Reads(h, q, rs)
  <2>1. g.term + 1 \in 1 .. Len(AllTerms(q)) + 1
    BY <1>1, AllTermsFacts
  <2>2. \A t \in Terms : \A d \in posts[t] : d \in DocsOf(rs) /\ Finds(t, d)
    BY <1>7, <1>9 DEF Reads
  <2>3. QED
    BY <1>6, <1>8, <2>1, <2>2 DEF Reads
<1>11. ASSUME NEW d \in Docs, NEW n \in Nat \ {0}, Caught(g, q, rs, d, n) PROVE Caught(h, q, rs, d, n)
  <2>1. g.term >= n /\ Finds(term, d) => d \in g.acc
    BY <1>2, <1>8, <1>11 DEF Caught
  <2>2. g.term >= n /\ Finds(term, d) => d \in found
    BY <1>3, <2>1
  <2>3. ASSUME NEW j \in n .. g.term, Finds(AllTerms(q)[j], d)
        PROVE  d \in posts[AllTerms(q)[j]]
    <3>1. AllTerms(q)[j] \in Terms
      <4>1. j \in 1 .. Len(AllTerms(q))
        BY <1>1, <2>3, AllTermsFacts
      <4>2. QED
        BY <4>1, AllTermsFacts
    <3>2. CASE AllTerms(q)[j] = term
      <4>1. g.term >= n
        BY <1>1, <2>3
      <4>2. QED
        BY <1>7, <2>2, <2>3, <3>2, <4>1
    <3>3. CASE AllTerms(q)[j] # term
      <4>1. j \in n .. g.term - 1
        BY <1>1, <1>2, <2>3, <3>3
      <4>2. d \in g.postings[AllTerms(q)[j]]
        BY <1>11, <2>3, <4>1 DEF Caught
      <4>3. QED
        BY <1>7, <3>1, <3>3, <4>2
    <3>4. QED
      BY <3>2, <3>3
  <2>4. n .. h.term - 1 = n .. g.term
    BY <1>1, <1>6
  <2>5. d \in DocsOf(rs)
    BY <1>11 DEF Caught
  <2>6. QED
    BY <1>6, <2>3, <2>4, <2>5 DEF Caught
<1>12. ASSUME NEW t \in ToSet(q.terms) \ ToSet(q.exclude), NEW d \in h.postings[t]
       PROVE  Caught(h, q, rs, d, Len(q.terms) + 1)
  <2>1. t \in Terms /\ Len(q.terms) + 1 \in Nat \ {0}
    BY AllTermsFacts
  <2>2. d \in Docs /\ d \in DocsOf(rs)
    BY <1>6, <1>10, <2>1 DEF Reads
  <2>3. CASE t = term
    <3>1. g.term <= Len(q.terms)
      BY <1>1, <1>2, <2>3, AllTermsFacts
    <3>2. Len(q.terms) + 1 .. h.term - 1 = {}
      BY <1>1, <1>6, <2>1, <3>1, AllTermsFacts
    <3>3. QED
      BY <1>6, <2>2, <3>2 DEF Caught
  <2>4. CASE t # term
    <3>1. d \in g.postings[t]
      BY <1>6, <1>7, <2>1, <2>4
    <3>2. Caught(g, q, rs, d, Len(q.terms) + 1)
      BY <3>1 DEF ExcludesCaught
    <3>3. QED
      BY <1>11, <2>1, <2>2, <3>2
  <2>5. QED
    BY <2>3, <2>4
<1>13. QED
  BY <1>6, <1>10, <1>11, <1>12 DEF Kept, ExcludesCaught

-----------------------------------------------------------------------------
LEMMA GoroutineMoves ==
    ASSUME gor \in [Requests -> [Shards -> Goroutines]], NEW r \in Requests, NEW sh \in Shards,
           NEW h \in Goroutines, gor' = [gor EXCEPT ![r][sh] = h]
    PROVE  /\ gor' \in [Requests -> [Shards -> Goroutines]]
           /\ gor'[r][sh] = h
           /\ \A p \in Requests, s \in Shards : p # r \/ s # sh => gor'[p][s] = gor[p][s]
<1>1. PICK row \in [Shards -> Goroutines] : row = [gor[r] EXCEPT ![sh] = h]
  OBVIOUS
<1>2. gor' = [gor EXCEPT ![r] = row]
  BY <1>1
<1>3. QED
  BY <1>1, <1>2

LEMMA IdleTypes == IdleReload \in Reloads /\ IdleGoroutine \in Goroutines
<1>1. <<>> \in Seq(Readers) /\ [t \in Terms |-> {}] \in [Terms -> SUBSET Docs]
  OBVIOUS
<1>2. QED
  BY <1>1 DEF IdleReload, Reloads, IdleGoroutine, Goroutines

\* The steps of a goroutine: it moves to h.
LEMMA GoroutineSteps ==
    ASSUME RequestType, readers \in [Shards -> Seq(Readers)], NEW r \in Requests, NEW sh \in Shards,
           CopyReaders(r, sh) \/ ReadSegment(r, sh) \/ EndTerm(r, sh)
    PROVE  \E h \in Goroutines : gor' = [gor EXCEPT ![r][sh] = h]
<1>1. PICK g \in Goroutines : g = gor[r][sh]
  BY DEF RequestType
<1>2. /\ g.term \in Nat /\ g.acc \in SUBSET Docs /\ g.postings \in [Terms -> SUBSET Docs]
      /\ g.todo \in Seq(Readers) /\ readers[sh] \in Seq(Readers)
  BY DEF Goroutines
<1>3. CASE CopyReaders(r, sh)
  <2>1. \/ gor' = [gor EXCEPT ![r][sh] = [g EXCEPT !.reading = TRUE, !.todo = readers[sh]]]
        \/ gor' = [gor EXCEPT ![r][sh] = [g EXCEPT !.term = @ + 1]]
    BY <1>1, <1>3 DEF CopyReaders
  <2>2. PICK next \in Nat : next = g.term + 1
    BY <1>2
  <2>3. /\ [g EXCEPT !.reading = TRUE, !.todo = readers[sh]] \in Goroutines
        /\ [g EXCEPT !.term = next] \in Goroutines
    BY <1>2 DEF Goroutines
  <2>4. [g EXCEPT !.term = @ + 1] = [g EXCEPT !.term = next]
    BY <2>2
  <2>5. QED
    BY <2>1, <2>3, <2>4
<1>4. CASE ReadSegment(r, sh)
  <2>1. g.todo # <<>>
    BY <1>1, <1>4 DEF ReadSegment
  <2>2. PICK term : term = AllTerms(query[r])[g.term]
    OBVIOUS
  <2>3. PICK tail \in Seq(Readers) : tail = Tail(g.todo)
    BY <1>2, <2>1, ToSetTail
  <2>a. Head(g.todo) \in Readers
    BY <1>2, <2>1, ToSetTail
  <2>4. Head(g.todo).seg.docs \subseteq Docs
    BY <2>a DEF Readers, Segments
  <2>5. PICK acc \in SUBSET Docs :
           acc = g.acc \union {d \in Head(g.todo).seg.docs : Finds(term, d)}
    BY <1>2, <2>4
  <2>6. \/ gor' = [gor EXCEPT ![r][sh] = [g EXCEPT !.todo = tail, !.acc = acc]]
        \/ gor' = [gor EXCEPT ![r][sh] = [g EXCEPT !.todo = tail]]
    BY <1>1, <1>4, <2>2, <2>3, <2>5 DEF ReadSegment
  <2>7. /\ [g EXCEPT !.todo = tail, !.acc = acc] \in Goroutines
        /\ [g EXCEPT !.todo = tail] \in Goroutines
    BY DEF Goroutines
  <2>8. QED
    BY <2>6, <2>7
<1>5. CASE EndTerm(r, sh)
  <2>1. PICK term : term = AllTerms(query[r])[g.term]
    OBVIOUS
  <2>2. PICK posts : posts = [g.postings EXCEPT ![term] = IF g.acc = {} THEN @ ELSE g.acc]
    OBVIOUS
  <2>3. posts \in [Terms -> SUBSET Docs]
    BY <1>2, <2>2
  <2>4. PICK next \in Nat : next = g.term + 1
    BY <1>2
  <2>5. PICK none \in SUBSET Docs : none = {}
    OBVIOUS
  <2>6. gor' = [gor EXCEPT ![r][sh] =
                  [g EXCEPT !.term = next, !.reading = FALSE, !.acc = none, !.postings = posts]]
    BY <1>1, <1>5, <2>1, <2>2, <2>4, <2>5 DEF EndTerm
  <2>7. [g EXCEPT !.term = next, !.reading = FALSE, !.acc = none, !.postings = posts] \in Goroutines
    BY <2>3 DEF Goroutines
  <2>8. QED
    BY <2>6, <2>7
<1>6. QED
  BY <1>3, <1>4, <1>5

LEMMA LoadedFacts ==
    ASSUME readers \in [Shards -> Seq(Readers)]
    PROVE  /\ LoadedDocs \subseteq Docs
           /\ \A d \in LoadedDocs : \E sh \in Shards : d \in DocsOf(readers[sh])
           /\ \A sh \in Shards : Loaded(sh) = SegsOf(readers[sh])
<1>1. ASSUME NEW d \in LoadedDocs PROVE \E sh \in Shards : d \in DocsOf(readers[sh])
  BY DEF LoadedDocs, Loaded, DocsOf
<1>2. ASSUME NEW sh \in Shards PROVE DocsOf(readers[sh]) \subseteq Docs
  <2>1. ToSet(readers[sh]) \subseteq Readers
    BY ToSetType
  <2>2. QED
    BY <2>1 DEF DocsOf, Readers, Segments
<1>3. QED
  BY <1>1, <1>2 DEF Loaded, SegsOf
LEMMA SearcherSteps ==
    ASSUME [Next]_vars
    PROVE  \/ \E sh \in Shards : \E D \in SUBSET Docs : SegmentAppears(sh, D)
           \/ ReloadTick
           \/ \E sh \in Shards : ReloadList(sh) \/ ReloadKnown(sh) \/ ReloadAppend(sh)
           \/ \E sh \in Shards : \E s \in files[sh] : ReloadOpen(sh, s)
           \/ ReloadDone
           \/ \E r \in Requests, q \in Queries : StartQuery(r, q)
           \/ \E r \in Requests : \E sh \in Shards :
                  CopyReaders(r, sh) \/ ReadSegment(r, sh) \/ EndTerm(r, sh)
           \/ \E r \in Requests : Execute(r)
           \/ Signal \/ RouterClose \/ Exit
           \/ \E sh \in Shards : CloseEngine(sh)
           \/ UNCHANGED vars
<1>1. ASSUME NEW sh \in Shards, NEW D \in SUBSET {d \in Docs : ShardOf[d] = sh},
             SegmentAppears(sh, D)
      PROVE  \E E \in SUBSET Docs : SegmentAppears(sh, E)
  BY <1>1
<1>2. QED
  BY <1>1 DEF Next, ReloadStep, RequestStep

\* What a step does to the reload goroutine.
LEMMA ReloadSteps ==
    ASSUME SearcherType, NEW sh \in Shards,
           \/ ReloadList(sh) \/ ReloadKnown(sh) \/ ReloadAppend(sh)
           \/ \E s \in files[sh] : ReloadOpen(sh, s)
    PROVE  reload' \in Reloads
<1>1. reload \in Reloads
  BY DEF SearcherType, EngineType
<1>2. files[sh] \subseteq Segments /\ closes[sh] \in Nat
  BY DEF SearcherType, FilesType, EngineType
<1>3. reload.opened \in Seq(Readers)
  BY <1>1 DEF Reloads
<1>4. CASE ReloadList(sh)
  <2>1. PICK L \in SUBSET Segments : L = files[sh]
    BY <1>2
  <2>2. PICK S \in SUBSET Shards : S = {sh}
    OBVIOUS
  <2>3. PICK left \in SUBSET Shards : left = reload.left \ {sh}
    BY <1>1 DEF Reloads
  <2>4. \/ reload' = [reload EXCEPT !.at = "known", !.left = left, !.shard = S, !.listing = L]
        \/ reload' = [reload EXCEPT !.left = left]
    BY <1>4, <2>1, <2>2, <2>3 DEF ReloadList
  <2>5. QED
    BY <1>1, <2>4 DEF Reloads
<1>5. CASE ReloadKnown(sh)
  BY <1>1, <1>5 DEF ReloadKnown, Reloads
<1>6. CASE ReloadAppend(sh)
  <2>1. PICK S \in SUBSET Shards : S = {}
    OBVIOUS
  <2>2. PICK L \in SUBSET Segments : L = {}
    OBVIOUS
  <2>a. <<>> \in Seq(Readers)
    OBVIOUS
  <2>3. PICK opened \in Seq(Readers) : opened = <<>>
    BY <2>a
  <2>4. reload' = [reload EXCEPT !.at = "shard", !.shard = S, !.listing = L, !.opened = opened]
    BY <1>6, <2>1, <2>2, <2>3 DEF ReloadAppend
  <2>5. QED
    BY <1>1, <2>4 DEF Reloads
<1>7. ASSUME NEW s \in files[sh], ReloadOpen(sh, s) PROVE reload' \in Reloads
  <2>1. Reader(s, sh) \in Readers
    BY <1>2 DEF Reader, Readers
  <2>2. PICK opened \in Seq(Readers) : opened = Append(reload.opened, Reader(s, sh))
    BY <1>3, <2>1, ToSetAppend
  <2>3. \/ reload' = [reload EXCEPT !.todo = @ \ {s}, !.opened = opened]
        \/ reload' = [reload EXCEPT !.todo = @ \ {s}]
    BY <1>7, <2>2 DEF ReloadOpen
  <2>4. QED
    BY <1>1, <2>3 DEF Reloads
<1>8. QED
  BY <1>4, <1>5, <1>6, <1>7

LEMMA StepType == SearcherType /\ [Next]_vars => SearcherType'
<1> SUFFICES ASSUME SearcherType, [Next]_vars PROVE SearcherType'
  OBVIOUS
<1>a. FilesType /\ EngineType /\ RequestType
  BY DEF SearcherType
<1>b. ASSUME UNCHANGED files PROVE FilesType'
  BY <1>a, <1>b DEF FilesType
<1>c. ASSUME UNCHANGED <<readers, closes, server, reload, faults>> PROVE EngineType'
  BY <1>a, <1>c DEF EngineType
<1>d. ASSUME UNCHANGED <<query, gor, answer, owed>> PROVE RequestType'
  BY <1>a, <1>d DEF RequestType
<1>e. ASSUME Fault \/ UNCHANGED faults PROVE faults' \in Nat
  BY <1>a, <1>e DEF Fault, EngineType
<1>1. ASSUME NEW sh \in Shards, NEW D \in SUBSET Docs, SegmentAppears(sh, D) PROVE SearcherType'
  <2>1. IsFiniteSet(files[sh]) /\ files \in [Shards -> SUBSET Segments]
    BY <1>a DEF FilesType
  <2>2. Cardinality(files[sh]) \in Nat
    BY <2>1, FS_CardinalityType
  <2>3. PICK s \in Segments : s = [name |-> Cardinality(files[sh]), docs |-> D]
    BY <2>2 DEF Segments
  <2>4. PICK F \in SUBSET Segments : F = files[sh] \union {s}
    BY <2>1
  <2>5. IsFiniteSet(F)
    BY <2>1, <2>4, FS_AddElement
  <2>6. files' = [files EXCEPT ![sh] = F]
    BY <1>1, <2>3, <2>4 DEF SegmentAppears
  <2>7. FilesType'
    BY <1>a, <2>1, <2>5, <2>6 DEF FilesType
  <2>8. UNCHANGED <<readers, closes, server, reload, query, gor, answer, owed, faults>>
    BY <1>1 DEF SegmentAppears
  <2>9. QED
    BY <1>c, <1>d, <2>7, <2>8 DEF SearcherType
<1>2. CASE ReloadTick \/ ReloadDone
  <2>1. reload' \in Reloads
    BY <1>2, IdleTypes DEF ReloadTick, ReloadDone, Reloads
  <2>2. UNCHANGED <<files, readers, closes, server, query, gor, answer, owed, faults>>
    BY <1>2 DEF ReloadTick, ReloadDone
  <2>3. EngineType'
    BY <1>a, <2>1, <2>2 DEF EngineType
  <2>4. QED
    BY <1>b, <1>d, <2>2, <2>3 DEF SearcherType
<1>3. ASSUME NEW sh \in Shards,
             \/ ReloadList(sh) \/ ReloadKnown(sh) \/ ReloadAppend(sh)
             \/ \E s \in files[sh] : ReloadOpen(sh, s)
      PROVE  SearcherType'
  <2>1. reload' \in Reloads
    BY <1>3, ReloadSteps
  <2>2. UNCHANGED <<files, closes, server, query, gor, answer, owed>>
    BY <1>3 DEF ReloadList, ReloadKnown, ReloadAppend, ReloadOpen
  <2>3. Fault \/ UNCHANGED faults
    BY <1>3 DEF ReloadList, ReloadKnown, ReloadAppend, ReloadOpen
  <2>4. readers' = readers \/ readers' = [readers EXCEPT ![sh] = readers[sh] \o reload.opened]
    BY <1>3 DEF ReloadList, ReloadKnown, ReloadAppend, ReloadOpen
  <2>5. readers[sh] \o reload.opened \in Seq(Readers)
    BY <1>a, ToSetConcat DEF EngineType, Reloads
  <2>6. readers' \in [Shards -> Seq(Readers)]
    BY <1>a, <2>4, <2>5 DEF EngineType
  <2>7. EngineType'
    BY <1>a, <1>e, <2>1, <2>2, <2>3, <2>6 DEF EngineType
  <2>8. QED
    BY <1>b, <1>d, <2>2, <2>7 DEF SearcherType
<1>4. ASSUME NEW r \in Requests, NEW q \in Queries, StartQuery(r, q) PROVE SearcherType'
  <2>1. PICK g \in Goroutines : g = [IdleGoroutine EXCEPT !.term = 1]
    BY IdleTypes DEF Goroutines
  <2>2. PICK row \in [Shards -> Goroutines] : row = [sh \in Shards |-> g]
    OBVIOUS
  <2>3. gor' = [gor EXCEPT ![r] = row]
    BY <1>4, <2>1, <2>2 DEF StartQuery
  <2>4. PICK O \in SUBSET Docs : O = {d \in LoadedDocs : Matches(d, q)}
    BY <1>a, LoadedFacts DEF EngineType
  <2>5. owed' = [owed EXCEPT ![r] = O] /\ query' = [query EXCEPT ![r] = q] /\ answer' = answer
    BY <1>4, <2>4 DEF StartQuery
  <2>6. RequestType'
    BY <1>a, <2>3, <2>5 DEF RequestType
  <2>7. UNCHANGED <<files, readers, closes, server, reload, faults>>
    BY <1>4 DEF StartQuery
  <2>8. QED
    BY <1>b, <1>c, <2>6, <2>7 DEF SearcherType
<1>5. ASSUME NEW r \in Requests, NEW sh \in Shards,
             CopyReaders(r, sh) \/ ReadSegment(r, sh) \/ EndTerm(r, sh)
      PROVE  SearcherType'
  <2>1. \E h \in Goroutines : gor' = [gor EXCEPT ![r][sh] = h]
    BY <1>a, <1>5, GoroutineSteps DEF EngineType
  <2>2. gor' \in [Requests -> [Shards -> Goroutines]]
    BY <1>a, <2>1, GoroutineMoves DEF RequestType
  <2>3. UNCHANGED <<files, readers, closes, server, reload, query, answer, owed>>
    BY <1>5 DEF CopyReaders, ReadSegment, EndTerm
  <2>4. Fault \/ UNCHANGED faults
    BY <1>5 DEF CopyReaders, ReadSegment, EndTerm
  <2>5. RequestType' /\ EngineType'
    BY <1>a, <1>e, <2>2, <2>3, <2>4 DEF RequestType, EngineType
  <2>6. QED
    BY <1>b, <2>3, <2>5 DEF SearcherType
<1>6. ASSUME NEW r \in Requests, Execute(r) PROVE SearcherType'
  <2>1. PICK row \in [Shards -> Goroutines] : row = [sh \in Shards |-> IdleGoroutine]
    BY IdleTypes
  <2>2. Candidates(r) \subseteq Docs
    <3>1. \A t \in Terms : Merged(r, t) \subseteq Docs
      BY <1>a DEF RequestType, Goroutines, Merged
    <3>2. query[r] \in Queries
      BY <1>a, <1>6 DEF Execute, InFlight, RequestType
    <3>3. ToSet(query[r].terms) \subseteq Terms
      BY <3>2, AllTermsFacts
    <3>4. QED
      BY <3>1, <3>3 DEF Candidates
  <2>3. PICK a \in [done : BOOLEAN, docs : SUBSET Docs] :
           a = [done |-> TRUE, docs |-> Candidates(r) \ Excluded(r)]
    BY <2>2
  <2>4. gor' = [gor EXCEPT ![r] = row] /\ answer' = [answer EXCEPT ![r] = a]
    BY <1>6, <2>1, <2>3 DEF Execute
  <2>5. UNCHANGED <<files, readers, closes, server, reload, query, owed, faults>>
    BY <1>6 DEF Execute
  <2>6. RequestType'
    BY <1>a, <2>4, <2>5 DEF RequestType
  <2>7. QED
    BY <1>b, <1>c, <2>5, <2>6 DEF SearcherType
<1>7. CASE Signal \/ RouterClose \/ Exit
  <2>1. /\ UNCHANGED <<files, readers, closes, reload, query, gor, answer, owed, faults>>
        /\ server' \in {"stopping", "closing", "exited"}
    BY <1>7 DEF Signal, RouterClose, Exit
  <2>2. EngineType'
    BY <1>a, <2>1 DEF EngineType
  <2>3. QED
    BY <1>b, <1>d, <2>1, <2>2 DEF SearcherType
<1>8. ASSUME NEW sh \in Shards, CloseEngine(sh) PROVE SearcherType'
  <2>1. /\ closes' = [closes EXCEPT ![sh] = 1] /\ readers' = [readers EXCEPT ![sh] = <<>>]
        /\ UNCHANGED <<files, server, reload, query, gor, answer, owed, faults>>
    BY <1>8 DEF CloseEngine
  <2>2. <<>> \in Seq(Readers)
    OBVIOUS
  <2>3. EngineType'
    BY <1>a, <2>1, <2>2 DEF EngineType
  <2>4. QED
    BY <1>b, <1>d, <2>1, <2>3 DEF SearcherType
<1>9. CASE UNCHANGED vars
  BY <1>b, <1>c, <1>d, <1>9 DEF vars, SearcherType
<1>10. QED
  BY <1>1, <1>2, <1>3, <1>4, <1>5, <1>6, <1>7, <1>8, <1>9, SearcherSteps
-----------------------------------------------------------------------------
LEMMA EmptyFacts == SegsOf(<<>>) = {} /\ Distinct(<<>>) /\ ToSet(<<>>) = {}
BY DEF SegsOf, Distinct, ToSet

LEMMA DistinctConcat ==
    ASSUME NEW a \in Seq(Readers), NEW b \in Seq(Readers), Distinct(a), Distinct(b),
           SegsOf(a) \intersect SegsOf(b) = {}
    PROVE  Distinct(a \o b)
<1>1. /\ a \o b \in Seq(Readers) /\ Len(a \o b) = Len(a) + Len(b)
      /\ Len(a) \in Nat /\ Len(b) \in Nat
      /\ DOMAIN a = 1 .. Len(a) /\ DOMAIN b = 1 .. Len(b)
      /\ \A i \in 1 .. Len(a) : (a \o b)[i] = a[i]
      /\ \A i \in 1 .. Len(b) : (a \o b)[Len(a) + i] = b[i]
  OBVIOUS
<1>2. ASSUME NEW i \in 1 .. Len(a) + Len(b), i \notin 1 .. Len(a)
      PROVE  /\ i - Len(a) \in 1 .. Len(b)
             /\ (a \o b)[i] = b[i - Len(a)]
  <2>1. i - Len(a) \in 1 .. Len(b) /\ i = Len(a) + (i - Len(a))
    BY <1>1, <1>2
  <2>2. QED
    BY <1>1, <2>1
<1>3. \A i \in 1 .. Len(a), j \in 1 .. Len(b) : a[i].seg # b[j].seg
  BY <1>1 DEF SegsOf, ToSet
<1>4. ASSUME NEW i \in 1 .. Len(a) + Len(b), NEW j \in 1 .. Len(a) + Len(b),
             (a \o b)[i].seg = (a \o b)[j].seg
      PROVE  i = j
  <2>1. CASE i \in 1 .. Len(a) /\ j \in 1 .. Len(a)
    BY <1>1, <1>4, <2>1 DEF Distinct
  <2>2. CASE i \notin 1 .. Len(a) /\ j \notin 1 .. Len(a)
    <3>1. /\ i - Len(a) \in 1 .. Len(b) /\ j - Len(a) \in 1 .. Len(b)
          /\ b[i - Len(a)].seg = b[j - Len(a)].seg
      BY <1>2, <1>4, <2>2
    <3>2. i - Len(a) = j - Len(a)
      BY <3>1 DEF Distinct
    <3>3. QED
      BY <1>1, <3>2
  <2>3. CASE i \in 1 .. Len(a) /\ j \notin 1 .. Len(a)
    BY <1>1, <1>2, <1>3, <1>4, <2>3
  <2>4. CASE i \notin 1 .. Len(a) /\ j \in 1 .. Len(a)
    BY <1>1, <1>2, <1>3, <1>4, <2>4
  <2>5. QED
    BY <2>1, <2>2, <2>3, <2>4
<1>5. QED
  BY <1>1, <1>4 DEF Distinct

LEMMA DistinctAppend ==
    ASSUME NEW a \in Seq(Readers), NEW e \in Readers, Distinct(a), e.seg \notin SegsOf(a)
    PROVE  /\ Distinct(Append(a, e)) /\ SegsOf(Append(a, e)) = SegsOf(a) \union {e.seg}
<1>1. /\ Len(Append(a, e)) = Len(a) + 1 /\ Len(a) \in Nat /\ DOMAIN a = 1 .. Len(a)
      /\ Append(a, e)[Len(a) + 1] = e
      /\ \A i \in 1 .. Len(a) : Append(a, e)[i] = a[i]
  OBVIOUS
<1>2. \A i \in 1 .. Len(a) : a[i].seg # e.seg
  BY <1>1 DEF SegsOf, ToSet
<1>3. Distinct(Append(a, e))
  BY <1>1, <1>2 DEF Distinct
<1>4. QED
  BY <1>3, ToSetAppend DEF SegsOf

LEMMA StepReload == SearcherType /\ ReloadInv /\ [Next]_vars => ReloadInv'
<1> SUFFICES ASSUME SearcherType, ReloadInv, [Next]_vars PROVE ReloadInv'
  OBVIOUS
<1>a. /\ reload \in Reloads /\ readers \in [Shards -> Seq(Readers)]
      /\ reload.opened \in Seq(Readers)
  BY DEF SearcherType, EngineType, Reloads
<1>b. \A sh \in Shards : Distinct(readers[sh])
  BY DEF ReloadInv, OpenedOnce, Distinct
<1>c. ASSUME \A sh \in Shards : Distinct(readers'[sh]) PROVE OpenedOnce'
  BY <1>c DEF OpenedOnce, Distinct
<1>d. ASSUME UNCHANGED <<readers, reload>> PROVE ReloadInv'
  BY <1>d DEF ReloadInv, OpenedOnce
<1>e. ASSUME UNCHANGED readers, reload'.todo = {}, reload'.opened = <<>> PROVE ReloadInv'
  <2>1. OpenedOnce'
    BY <1>b, <1>c, <1>e
  <2>2. QED
    BY <1>e, <2>1, EmptyFacts DEF ReloadInv
<1>1. CASE ReloadTick \/ ReloadDone
  <2>1. UNCHANGED readers /\ reload'.todo = IdleReload.todo /\ reload'.opened = IdleReload.opened
    BY <1>1, IdleTypes DEF ReloadTick, ReloadDone, Reloads
  <2>2. QED
    BY <1>e, <2>1 DEF IdleReload
<1>2. ASSUME NEW sh \in Shards, ReloadList(sh) PROVE ReloadInv'
  <2>1. reload.todo = {} /\ reload.opened = <<>>
    BY <1>2 DEF ReloadList, ReloadInv
  <2>2. reload'.todo = reload.todo /\ reload'.opened = reload.opened /\ UNCHANGED readers
    BY <1>a, <1>2 DEF ReloadList, Reloads
  <2>3. QED
    BY <1>e, <2>1, <2>2
<1>3. ASSUME NEW sh \in Shards, ReloadKnown(sh) PROVE ReloadInv'
  <2>1. reload.opened = <<>> /\ reload.shard = {sh} /\ UNCHANGED readers
    BY <1>3 DEF ReloadKnown, ReloadInv
  <2>2. /\ reload'.at = "open" /\ reload'.todo = reload.listing \ Loaded(sh)
        /\ reload'.opened = reload.opened /\ reload'.shard = reload.shard
    BY <1>a, <1>3 DEF ReloadKnown, Reloads
  <2>3. reload'.todo \intersect SegsOf(readers[sh]) = {}
    BY <1>a, <2>2, LoadedFacts
  <2>4. OpenedOnce'
    BY <1>b, <1>c, <2>1
  <2>5. \A p \in Shards : reload'.shard = {p} =>
            (SegsOf(reload'.opened) \union reload'.todo) \intersect SegsOf(readers'[p]) = {}
    BY <2>1, <2>2, <2>3, EmptyFacts
  <2>6. QED
    BY <2>1, <2>2, <2>4, <2>5, EmptyFacts DEF ReloadInv
<1>4. ASSUME NEW sh \in Shards, NEW s \in files[sh], ReloadOpen(sh, s) PROVE ReloadInv'
  <2>1. /\ reload.shard = {sh} /\ s \in reload.todo /\ UNCHANGED readers /\ reload.at = "open"
    BY <1>4 DEF ReloadOpen
  <2>2. s \notin SegsOf(reload.opened) /\ s \notin SegsOf(readers[sh])
    BY <2>1 DEF ReloadInv
  <2>a. s \in Segments /\ closes[sh] \in Nat
    BY DEF SearcherType, FilesType, EngineType
  <2>b. Reader(s, sh) \in Readers
    BY <2>a DEF Reader, Readers
  <2>3. PICK e \in Readers : e = Reader(s, sh)
    BY <2>b
  <2>4. e.seg = s
    BY <2>3 DEF Reader
  <2>5. /\ reload'.at = reload.at /\ reload'.shard = reload.shard
        /\ reload'.todo = reload.todo \ {s}
        /\ reload'.opened = reload.opened \/ reload'.opened = Append(reload.opened, e)
    BY <1>a, <1>4, <2>3 DEF ReloadOpen, Reloads
  <2>6. /\ Distinct(reload'.opened)
        /\ SegsOf(reload'.opened) \subseteq SegsOf(reload.opened) \union {s}
    BY <1>a, <2>2, <2>4, <2>5, DistinctAppend DEF ReloadInv
  <2>7. OpenedOnce'
    BY <1>b, <1>c, <2>1
  <2>8. SegsOf(reload'.opened) \intersect reload'.todo = {}
    BY <2>5, <2>6 DEF ReloadInv
  <2>9. \A p \in Shards : reload'.shard = {p} =>
            (SegsOf(reload'.opened) \union reload'.todo) \intersect SegsOf(readers'[p]) = {}
    <3>1. ASSUME NEW p \in Shards, reload'.shard = {p}
          PROVE  (SegsOf(reload'.opened) \union reload'.todo) \intersect SegsOf(readers'[p]) = {}
      <4>1. p = sh
        BY <2>1, <2>5, <3>1
      <4>2. (SegsOf(reload.opened) \union reload.todo) \intersect SegsOf(readers[sh]) = {}
        BY <2>1 DEF ReloadInv
      <4>3. QED
        BY <2>1, <2>2, <2>5, <2>6, <4>1, <4>2
    <3>2. QED
      BY <3>1
  <2>10. QED
    BY <2>1, <2>5, <2>6, <2>7, <2>8, <2>9 DEF ReloadInv
<1>5. ASSUME NEW sh \in Shards, ReloadAppend(sh) PROVE ReloadInv'
  <2>1. /\ reload.shard = {sh} /\ reload.todo = {}
        /\ readers' = [readers EXCEPT ![sh] = readers[sh] \o reload.opened]
    BY <1>5 DEF ReloadAppend
  <2>2. reload'.todo = reload.todo /\ reload'.opened = <<>>
    BY <1>a, <1>5 DEF ReloadAppend, Reloads
  <2>3. SegsOf(readers[sh]) \intersect SegsOf(reload.opened) = {}
    BY <2>1 DEF ReloadInv
  <2>4. Distinct(readers[sh] \o reload.opened)
    BY <1>a, <1>b, <2>3, DistinctConcat DEF ReloadInv
  <2>5. OpenedOnce'
    BY <1>a, <1>b, <1>c, <2>1, <2>4
  <2>6. QED
    BY <2>1, <2>2, <2>5, EmptyFacts DEF ReloadInv
<1>6. ASSUME NEW sh \in Shards, CloseEngine(sh) PROVE ReloadInv'
  <2>1. readers' = [readers EXCEPT ![sh] = <<>>] /\ reload' = reload
    BY <1>6 DEF CloseEngine
  <2>2. \A p \in Shards : readers'[p] = readers[p] \/ readers'[p] = <<>>
    BY <1>a, <2>1
  <2>3. OpenedOnce'
    BY <1>b, <1>c, <2>2, EmptyFacts
  <2>4. \A p \in Shards : reload.shard = {p} =>
            (SegsOf(reload.opened) \union reload.todo) \intersect SegsOf(readers'[p]) = {}
    BY <2>2, EmptyFacts DEF ReloadInv
  <2>5. QED
    BY <2>1, <2>3, <2>4 DEF ReloadInv
<1>7. ASSUME NEW sh \in Shards, NEW D, SegmentAppears(sh, D) PROVE ReloadInv'
  BY <1>7, <1>d DEF SegmentAppears
<1>8. ASSUME NEW r \in Requests, NEW q \in Queries, StartQuery(r, q) PROVE ReloadInv'
  BY <1>8, <1>d DEF StartQuery
<1>9. ASSUME NEW r \in Requests, NEW sh \in Shards,
             CopyReaders(r, sh) \/ ReadSegment(r, sh) \/ EndTerm(r, sh)
      PROVE  ReloadInv'
  BY <1>9, <1>d DEF CopyReaders, ReadSegment, EndTerm
<1>10. ASSUME NEW r \in Requests, Execute(r) PROVE ReloadInv'
  BY <1>10, <1>d DEF Execute
<1>11. CASE Signal \/ RouterClose \/ Exit \/ UNCHANGED vars
  BY <1>11, <1>d DEF Signal, RouterClose, Exit, vars
<1>12. QED
  BY <1>1, <1>2, <1>3, <1>4, <1>5, <1>6, <1>7, <1>8, <1>9, <1>10, <1>11, SearcherSteps
-----------------------------------------------------------------------------
\* The Boolean filtering after the last goroutine has searched its last term.
LEMMA ExecuteExact ==
    ASSUME SearcherType, NEW r \in Requests, InFlight(r), UnderwayInv(r),
           \A sh \in Shards : gor[r][sh].term > Len(AllTerms(query[r]))
    PROVE  /\ owed[r] \subseteq Candidates(r) \ Excluded(r)
           /\ \A d \in Candidates(r) \ Excluded(r) : \A t \in ToSet(query[r].exclude) : ~Finds(t, d)
<1>1. PICK q \in Queries : q = query[r]
  BY DEF SearcherType, RequestType, InFlight
<1>2. PICK T : T = AllTerms(q)
  OBVIOUS
<1>3. PICK P \in Nat : P = Len(q.terms)
  BY AllTermsFacts
<1>4. PICK N \in Nat : N = Len(T)
  BY <1>2, AllTermsFacts
<1>5. /\ \A t \in ToSet(q.terms) : t \in Terms /\ \E i \in 1 .. P : T[i] = t
      /\ \A t \in ToSet(q.exclude) : t \in Terms /\ \E i \in P + 1 .. N : T[i] = t
      /\ ToSet(q.terms) # {} /\ P <= N
  <2>1. ToSet(q.terms) # {}
    BY AllTermsFacts, ToSetType
  <2>2. QED
    BY <1>2, <1>3, <1>4, <2>1, AllTermsFacts
<1>6. ASSUME NEW sh \in Shards
      PROVE  /\ gor[r][sh].term = N + 1
             /\ Reads(gor[r][sh], q, readers[sh])
             /\ ExcludesCaught(gor[r][sh], q, readers[sh])
  <2>1. Reads(gor[r][sh], q, readers[sh]) /\ ExcludesCaught(gor[r][sh], q, readers[sh])
    BY <1>1 DEF UnderwayInv
  <2>2. gor[r][sh].term \in 1 .. N + 1
    BY <1>2, <1>4, <2>1 DEF Reads
  <2>3. gor[r][sh].term > N
    BY <1>1, <1>2, <1>4
  <2>4. QED
    BY <2>1, <2>2, <2>3
<1>7. ASSUME NEW t \in Terms, NEW d \in Merged(r, t) PROVE Finds(t, d)
  BY <1>6, <1>7 DEF Merged, Reads
<1>8. ASSUME NEW sh \in Shards, NEW d, NEW n \in Nat, Caught(gor[r][sh], q, readers[sh], d, n),
             NEW j \in n .. N, Finds(T[j], d)
      PROVE  d \in Merged(r, T[j])
  <2>1. j \in n .. gor[r][sh].term - 1
    BY <1>6, <1>8
  <2>2. d \in gor[r][sh].postings[T[j]]
    BY <1>2, <1>8, <2>1 DEF Caught
  <2>3. QED
    BY <2>2 DEF Merged
<1>9. PICK found : found = {t \in ToSet(q.terms) : Merged(r, t) # {}}
  OBVIOUS
<1>10. PICK any : any = UNION {Merged(r, t) : t \in found}
  OBVIOUS
<1>11. Candidates(r) = IF q.type = "AND" THEN {d \in any : \A t \in found : d \in Merged(r, t)}
                                         ELSE any
  BY <1>1, <1>9, <1>10 DEF Candidates
<1>12. \A d : d \in Excluded(r) <=> \E t \in ToSet(q.exclude) : d \in Merged(r, t)
  BY <1>1 DEF Excluded
<1>13. ASSUME NEW d \in owed[r] PROVE d \in Candidates(r) /\ d \notin Excluded(r)
  <2>1. PICK sh \in Shards : Caught(gor[r][sh], q, readers[sh], d, 1)
    BY <1>1 DEF UnderwayInv
  <2>2. /\ q.type = "AND" => \A t \in ToSet(q.terms) : Finds(t, d) \/ NormalizedTerm[t] = NoTerm
        /\ \E t \in ToSet(q.terms) : Finds(t, d)
        /\ \A t \in ToSet(q.exclude) : ~Finds(t, d)
    BY <1>1 DEF UnderwayInv, Matches
  <2>3. ASSUME NEW t \in ToSet(q.terms), Finds(t, d) PROVE d \in Merged(r, t)
    <3>1. PICK i \in 1 .. P : T[i] = t
      BY <1>5
    <3>2. i \in 1 .. N
      BY <1>5, <3>1
    <3>3. QED
      BY <1>8, <2>1, <2>3, <3>1, <3>2
  <2>4. \E t \in ToSet(q.terms) : Finds(t, d)
    BY <2>2
  <2>5. d \in any
    BY <1>9, <1>10, <2>3, <2>4
  <2>6. ASSUME q.type = "AND", NEW t \in found PROVE d \in Merged(r, t)
    <3>1. t \in ToSet(q.terms) /\ t \in Terms /\ \E e : e \in Merged(r, t)
      BY <1>5, <1>9
    <3>2. PICK e \in Merged(r, t) : Finds(t, e)
      BY <1>7, <3>1
    <3>3. e \in Docs
      BY <1>6, <3>1, <3>2 DEF Merged, SearcherType, RequestType, Goroutines
    <3>4. NormalizedTerm[t] # NoTerm
      BY <3>2, <3>3, SearcherAssumption DEF Finds
    <3>5. QED
      BY <2>2, <2>3, <2>6, <3>1, <3>4
  <2>7. d \notin Excluded(r)
    BY <1>5, <1>7, <1>12, <2>2
  <2>8. QED
    BY <1>11, <2>5, <2>6, <2>7
<1>14. ASSUME NEW d \in Candidates(r), d \notin Excluded(r),
              NEW e \in ToSet(q.exclude), Finds(e, d)
       PROVE  FALSE
  <2>1. d \in any
    BY <1>11, <1>14
  <2>2. PICK t \in ToSet(q.terms) : d \in Merged(r, t)
    BY <1>9, <1>10, <2>1
  <2>3. t \notin ToSet(q.exclude)
    BY <1>12, <1>14, <2>2
  <2>4. PICK sh \in Shards : d \in gor[r][sh].postings[t]
    BY <2>2 DEF Merged
  <2>5. Caught(gor[r][sh], q, readers[sh], d, P + 1)
    BY <1>3, <1>6, <2>3, <2>4 DEF ExcludesCaught
  <2>6. PICK j \in P + 1 .. N : T[j] = e
    BY <1>5
  <2>7. PICK n \in Nat : n = P + 1
    OBVIOUS
  <2>8. d \in Merged(r, e)
    BY <1>8, <1>14, <2>5, <2>6, <2>7
  <2>9. QED
    BY <1>12, <1>14, <2>8
<1>15. QED
  BY <1>1, <1>13, <1>14

\* A request that a step leaves alone, whatever it adds to the reader lists.
LEMMA RequestFrame ==
    ASSUME NEW p \in Requests, InFlight(p) => UnderwayInv(p), AnsweredInv(p),
           query'[p] = query[p], answer'[p] = answer[p], owed'[p] = owed[p],
           \A sh \in Shards : gor'[p][sh] = gor[p][sh],
           \A sh \in Shards : ToSet(readers[sh]) \subseteq ToSet(readers'[sh])
    PROVE  (InFlight(p)' => UnderwayInv(p)') /\ AnsweredInv(p)'
<1>1. AnsweredInv(p)'
  BY DEF AnsweredInv
<1>2. ASSUME InFlight(p)' PROVE UnderwayInv(p)'
  <2>1. UnderwayInv(p)
    BY <1>2 DEF InFlight
  <2>2. PICK q : q = query[p]
    OBVIOUS
  <2>3. ASSUME NEW sh \in Shards
        PROVE  /\ Reads(gor'[p][sh], q, readers'[sh])
               /\ ExcludesCaught(gor'[p][sh], q, readers'[sh])
    BY <2>1, <2>2, ReadsGrow DEF UnderwayInv
  <2>4. ASSUME NEW d \in owed[p]
        PROVE  /\ Matches(d, q)
               /\ \E sh \in Shards : Caught(gor'[p][sh], q, readers'[sh], d, 1)
    <3>1. Matches(d, q)
      BY <2>1, <2>2 DEF UnderwayInv
    <3>2. PICK sh \in Shards : Caught(gor[p][sh], q, readers[sh], d, 1)
      BY <2>1, <2>2 DEF UnderwayInv
    <3>3. Caught(gor'[p][sh], q, readers'[sh], d, 1)
      BY <3>2, ReadsGrow
    <3>4. QED
      BY <3>1, <3>3
  <2>5. QED
    BY <2>2, <2>3, <2>4 DEF UnderwayInv
<1>3. QED
  BY <1>1, <1>2
\* No step brings back the calm, and closing the readers ends it.
LEMMA CalmBefore ==
    ASSUME SearcherType, [Next]_vars, Calm'
    PROVE  Calm /\ UNCHANGED closes /\ ~Fault
<1>a. faults \in Nat
  BY DEF SearcherType, EngineType
<1>b. ~Fault
  BY <1>a DEF Fault, Calm
<1>1. ASSUME UNCHANGED <<closes, server>>, UNCHANGED faults PROVE Calm /\ UNCHANGED closes
  BY <1>1 DEF Calm
<1>2. ASSUME NEW sh \in Shards, NEW D, SegmentAppears(sh, D) PROVE Calm /\ UNCHANGED closes
  BY <1>1, <1>2 DEF SegmentAppears
<1>3. CASE ReloadTick \/ ReloadDone
  <2>1. UNCHANGED <<closes, server>> /\ UNCHANGED faults
    BY <1>3 DEF ReloadTick, ReloadDone
  <2>2. QED
    BY <1>b, <1>1, <2>1
<1>4. ASSUME NEW sh \in Shards,
             \/ ReloadList(sh) \/ ReloadKnown(sh) \/ ReloadAppend(sh)
             \/ \E s \in files[sh] : ReloadOpen(sh, s)
      PROVE  Calm /\ UNCHANGED closes
  BY <1>b, <1>1, <1>4 DEF ReloadList, ReloadKnown, ReloadAppend, ReloadOpen
<1>5. ASSUME NEW r \in Requests, NEW q \in Queries, StartQuery(r, q) PROVE Calm /\ UNCHANGED closes
  BY <1>1, <1>5 DEF StartQuery
<1>6. ASSUME NEW r \in Requests, NEW sh \in Shards,
             CopyReaders(r, sh) \/ ReadSegment(r, sh) \/ EndTerm(r, sh)
      PROVE  Calm /\ UNCHANGED closes
  BY <1>b, <1>1, <1>6 DEF CopyReaders, ReadSegment, EndTerm
<1>7. ASSUME NEW r \in Requests, Execute(r) PROVE Calm /\ UNCHANGED closes
  BY <1>1, <1>7 DEF Execute
<1>8. CASE Signal
  <2>1. server = "up" /\ UNCHANGED <<closes, faults>>
    BY <1>8 DEF Signal
  <2>2. QED
    BY <1>b, <2>1 DEF Calm
<1>9. CASE RouterClose \/ Exit
  BY <1>9 DEF RouterClose, Exit, Calm
<1>10. ASSUME NEW sh \in Shards, CloseEngine(sh) PROVE FALSE
  BY <1>10 DEF CloseEngine, Calm
<1>11. CASE UNCHANGED vars
  <2>1. UNCHANGED <<closes, server>> /\ UNCHANGED faults
    BY <1>11 DEF vars
  <2>2. QED
    BY <1>b, <1>1, <2>1
<1>12. QED
  BY <1>b, <1>2, <1>3, <1>4, <1>5, <1>6, <1>7, <1>8, <1>9, <1>10, <1>11, SearcherSteps

\* One goroutine of a request under way moves.
LEMMA UnderwayMoves ==
    ASSUME SearcherType, NEW r \in Requests, NEW sh \in Shards, InFlight(r), UnderwayInv(r),
           NEW h \in Goroutines, Kept(gor[r][sh], h, query[r], readers[sh]),
           gor' = [gor EXCEPT ![r][sh] = h], UNCHANGED <<readers, query, owed>>
    PROVE  UnderwayInv(r)'
<1>1. /\ gor'[r][sh] = h
      /\ \A s \in Shards : s # sh => gor'[r][s] = gor[r][s]
  BY GoroutineMoves DEF SearcherType, RequestType
<1>2. PICK q : q = query[r]
  OBVIOUS
<1>3. ASSUME NEW s \in Shards
      PROVE  Reads(gor'[r][s], q, readers[s]) /\ ExcludesCaught(gor'[r][s], q, readers[s])
  BY <1>1, <1>2 DEF Kept, UnderwayInv
<1>4. ASSUME NEW d \in owed[r]
      PROVE  Matches(d, q) /\ \E s \in Shards : Caught(gor'[r][s], q, readers[s], d, 1)
  <2>1. Matches(d, q)
    BY <1>2 DEF UnderwayInv
  <2>2. PICK s \in Shards : Caught(gor[r][s], q, readers[s], d, 1)
    BY <1>2 DEF UnderwayInv
  <2>3. d \in Docs
    BY DEF SearcherType, RequestType
  <2>4. Caught(gor'[r][s], q, readers[s], d, 1)
    BY <1>1, <1>2, <2>2, <2>3 DEF Kept
  <2>5. QED
    BY <2>1, <2>4
<1>5. QED
  BY <1>2, <1>3, <1>4 DEF UnderwayInv
LEMMA StepQuery == SearcherType /\ QueryInv /\ [Next]_vars => QueryInv'
<1> SUFFICES ASSUME SearcherType, QueryInv, [Next]_vars, Calm'
             PROVE  /\ OpenInv'
                    /\ \A p \in Requests : (InFlight(p)' => UnderwayInv(p)') /\ AnsweredInv(p)'
  BY DEF QueryInv
<1>a. Calm /\ UNCHANGED closes /\ ~Fault
  BY CalmBefore
<1>b. /\ OpenInv
      /\ \A p \in Requests : (InFlight(p) => UnderwayInv(p)) /\ AnsweredInv(p)
  BY <1>a DEF QueryInv
<1>c. /\ readers \in [Shards -> Seq(Readers)] /\ reload \in Reloads
      /\ reload.opened \in Seq(Readers)
      /\ query \in [Requests -> Queries \union {NoQuery}]
      /\ gor \in [Requests -> [Shards -> Goroutines]]
      /\ answer \in [Requests -> [done : BOOLEAN, docs : SUBSET Docs]]
      /\ owed \in [Requests -> SUBSET Docs]
  BY DEF SearcherType, EngineType, RequestType, Reloads
<1> DEFINE RequestsRight ==
               \A p \in Requests : (InFlight(p)' => UnderwayInv(p)') /\ AnsweredInv(p)'
<1>d. ASSUME UNCHANGED <<query, gor, answer, owed>>,
             \A sh \in Shards : ToSet(readers[sh]) \subseteq ToSet(readers'[sh])
      PROVE  RequestsRight
  BY <1>b, <1>d, RequestFrame
<1>e. ASSUME UNCHANGED <<readers, reload>> PROVE OpenInv'
  BY <1>a, <1>b, <1>e DEF OpenInv
<1>f. ASSUME UNCHANGED readers, ToSet(reload'.opened) \subseteq ToSet(reload.opened) PROVE OpenInv'
  BY <1>a, <1>b, <1>f DEF OpenInv
<1>1. ASSUME NEW sh \in Shards, NEW D, SegmentAppears(sh, D) PROVE OpenInv' /\ RequestsRight
  <2>1. UNCHANGED <<readers, reload, query, gor, answer, owed>>
    BY <1>1 DEF SegmentAppears
  <2>2. QED
    BY <1>d, <1>e, <2>1
<1>2. CASE ReloadTick \/ ReloadDone
  <2>1. /\ UNCHANGED <<readers, query, gor, answer, owed>>
        /\ reload'.opened = IdleReload.opened
    BY <1>2, IdleTypes DEF ReloadTick, ReloadDone, Reloads
  <2>2. ToSet(reload'.opened) = {}
    BY <2>1, EmptyFacts DEF IdleReload
  <2>3. QED
    BY <1>d, <1>f, <2>1, <2>2
<1>3. ASSUME NEW sh \in Shards, ReloadList(sh) \/ ReloadKnown(sh) PROVE OpenInv' /\ RequestsRight
  <2>1. /\ UNCHANGED <<readers, query, gor, answer, owed>>
        /\ reload'.opened = reload.opened
    BY <1>c, <1>3 DEF ReloadList, ReloadKnown, Reloads
  <2>2. QED
    BY <1>d, <1>f, <2>1
<1>4. ASSUME NEW sh \in Shards, NEW s \in files[sh], ReloadOpen(sh, s)
      PROVE  OpenInv' /\ RequestsRight
  <2>1. /\ UNCHANGED <<readers, query, gor, answer, owed>>
        /\ reload'.opened = Append(reload.opened, Reader(s, sh))
    BY <1>a, <1>c, <1>4 DEF ReloadOpen, Reloads
  <2>2. s \in Segments /\ closes[sh] = 0
    BY <1>b DEF OpenInv, SearcherType, FilesType
  <2>3. Reader(s, sh) \in Readers /\ Reader(s, sh).born = 0
    BY <2>2 DEF Reader, Readers
  <2>4. ToSet(reload'.opened) = ToSet(reload.opened) \union {Reader(s, sh)}
    BY <1>c, <2>1, <2>3, ToSetAppend
  <2>5. OpenInv'
    BY <1>a, <1>b, <2>1, <2>3, <2>4 DEF OpenInv
  <2>6. QED
    BY <1>d, <2>1, <2>5
<1>5. ASSUME NEW sh \in Shards, ReloadAppend(sh) PROVE OpenInv' /\ RequestsRight
  <2>1. /\ UNCHANGED <<query, gor, answer, owed>>
        /\ readers' = [readers EXCEPT ![sh] = readers[sh] \o reload.opened]
        /\ reload'.opened = <<>>
    BY <1>c, <1>5 DEF ReloadAppend, Reloads
  <2>2. ToSet(readers[sh] \o reload.opened) = ToSet(readers[sh]) \union ToSet(reload.opened)
    BY <1>c, ToSetConcat
  <2>3. \A p \in Shards : \/ readers'[p] = readers[p]
                          \/ ToSet(readers'[p]) = ToSet(readers[p]) \union ToSet(reload.opened)
    BY <1>c, <2>1, <2>2
  <2>4. OpenInv'
    BY <1>a, <1>b, <2>1, <2>3, EmptyFacts DEF OpenInv
  <2>5. QED
    BY <1>d, <2>1, <2>3, <2>4
<1>6. ASSUME NEW r \in Requests, NEW q \in Queries, StartQuery(r, q) PROVE OpenInv' /\ RequestsRight
  <2>1. PICK g \in Goroutines : g = [IdleGoroutine EXCEPT !.term = 1]
    BY IdleTypes DEF Goroutines
  <2>2. /\ g.term = 1 /\ g.reading = FALSE /\ g.todo = <<>> /\ g.acc = {}
        /\ g.postings = [t \in Terms |-> {}]
    BY <2>1 DEF IdleGoroutine
  <2>3. PICK row \in [Shards -> Goroutines] : row = [sh \in Shards |-> g]
    OBVIOUS
  <2>4. PICK O \in SUBSET Docs : O = {d \in LoadedDocs : Matches(d, q)}
    BY <1>c, LoadedFacts
  <2>5. /\ query[r] = NoQuery /\ query' = [query EXCEPT ![r] = q]
        /\ gor' = [gor EXCEPT ![r] = row] /\ owed' = [owed EXCEPT ![r] = O]
        /\ UNCHANGED <<readers, reload, answer>>
    BY <1>6, <2>1, <2>3, <2>4 DEF StartQuery
  <2>6. /\ query'[r] = q /\ owed'[r] = O /\ \A sh \in Shards : gor'[r][sh] = g
        /\ \A p \in Requests : p # r => query'[p] = query[p] /\ owed'[p] = owed[p] /\ gor'[p] = gor[p]
    BY <1>c, <2>3, <2>5
  <2>7. ASSUME NEW sh \in Shards
        PROVE  /\ Reads(g, q, readers[sh])
               /\ ExcludesCaught(g, q, readers[sh])
               /\ \A d \in DocsOf(readers[sh]) : Caught(g, q, readers[sh], d, 1)
    <3>1. \A t \in Terms : g.postings[t] = {}
      BY <2>2
    <3>2. Reads(g, q, readers[sh])
      BY <2>2, <3>1, AllTermsFacts, EmptyFacts DEF Reads
    <3>3. ExcludesCaught(g, q, readers[sh])
      BY <3>1, AllTermsFacts DEF ExcludesCaught
    <3>4. ASSUME NEW d \in DocsOf(readers[sh]) PROVE Caught(g, q, readers[sh], d, 1)
      <4>1. 1 .. g.term - 1 = {}
        BY <2>2
      <4>2. QED
        BY <2>2, <4>1 DEF Caught
    <3>5. QED
      BY <3>2, <3>3, <3>4
  <2>8. UnderwayInv(r)'
    <3>1. ASSUME NEW d \in O
          PROVE  Matches(d, q) /\ \E sh \in Shards : Caught(g, q, readers[sh], d, 1)
      BY <1>c, <2>4, <2>7, LoadedFacts
    <3>2. QED
      BY <2>5, <2>6, <2>7, <3>1 DEF UnderwayInv
  <2>9. AnsweredInv(r)'
    <3>1. answer[r].done = FALSE /\ answer[r].docs = {}
      BY <1>b, <1>c, <2>5 DEF AnsweredInv
    <3>2. QED
      BY <2>5, <3>1 DEF AnsweredInv
  <2>10. ASSUME NEW p \in Requests, p # r PROVE (InFlight(p)' => UnderwayInv(p)') /\ AnsweredInv(p)'
    BY <1>b, <2>5, <2>6, <2>10, RequestFrame
  <2>11. QED
    BY <1>e, <2>5, <2>8, <2>9, <2>10
<1>7. ASSUME NEW r \in Requests, NEW sh \in Shards,
             CopyReaders(r, sh) \/ ReadSegment(r, sh) \/ EndTerm(r, sh)
      PROVE  OpenInv' /\ RequestsRight
  <2>1. InFlight(r) /\ UNCHANGED <<readers, reload, query, answer, owed>>
    BY <1>7 DEF CopyReaders, ReadSegment, EndTerm
  <2>2. PICK q \in Queries : q = query[r]
    BY <1>c, <2>1 DEF InFlight
  <2>3. PICK g \in Goroutines : g = gor[r][sh]
    BY <1>c
  <2>4. UnderwayInv(r) /\ Reads(g, q, readers[sh]) /\ ExcludesCaught(g, q, readers[sh])
    BY <1>b, <2>1, <2>2, <2>3 DEF UnderwayInv
  <2>5. readers[sh] \in Seq(Readers) /\ g.reading \in BOOLEAN
    BY <1>c DEF Goroutines
  <2>6. \E h : Kept(g, h, q, readers[sh]) /\ gor' = [gor EXCEPT ![r][sh] = h]
    <3>1. CASE CopyReaders(r, sh)
      <4>1. PICK h : h = [g EXCEPT !.reading = TRUE, !.todo = readers[sh]]
        OBVIOUS
      <4>2. PICK k : k = [g EXCEPT !.term = @ + 1]
        OBVIOUS
      <4>3. /\ ~g.reading /\ g.term \in 1 .. Len(AllTerms(q))
            /\ \/ gor' = [gor EXCEPT ![r][sh] = h]
               \/ NormalizedTerm[AllTerms(q)[g.term]] = NoTerm /\ gor' = [gor EXCEPT ![r][sh] = k]
        BY <2>2, <2>3, <3>1, <4>1, <4>2 DEF CopyReaders
      <4>4. g.reading = FALSE
        BY <2>5, <4>3
      <4>5. Kept(g, h, q, readers[sh])
        BY <2>4, <2>5, <4>1, <4>3, <4>4, CopyKept
      <4>6. NormalizedTerm[AllTerms(q)[g.term]] = NoTerm => Kept(g, k, q, readers[sh])
        BY <2>4, <2>5, <4>2, <4>3, <4>4, SkipKept
      <4>7. QED
        BY <4>3, <4>5, <4>6
    <3>2. CASE ReadSegment(r, sh)
      <4>1. PICK h : h = [g EXCEPT !.todo = Tail(@),
                                   !.acc = @ \union {d \in Head(g.todo).seg.docs :
                                                       Finds(AllTerms(q)[g.term], d)}]
        OBVIOUS
      <4>2. g.todo # <<>>
        BY <2>3, <3>2 DEF ReadSegment
      <4>3. Head(g.todo) \in ToSet(readers[sh])
        <5>1. g.todo \in Seq(Readers)
          BY DEF Goroutines
        <5>2. Head(g.todo) \in ToSet(g.todo)
          BY <4>2, <5>1, ToSetTail
        <5>3. QED
          BY <2>4, <5>2 DEF Reads
      <4>4. IsOpen(Head(g.todo), sh)
        BY <1>b, <4>3 DEF OpenInv, IsOpen
      <4>5. gor' = [gor EXCEPT ![r][sh] = h]
        BY <1>a, <2>2, <2>3, <3>2, <4>1, <4>4 DEF ReadSegment
      <4>6. Kept(g, h, q, readers[sh])
        BY <2>4, <2>5, <4>1, <4>2, ReadKept
      <4>7. QED
        BY <4>5, <4>6
    <3>3. CASE EndTerm(r, sh)
      <4>1. PICK h : h = [g EXCEPT !.term = @ + 1, !.reading = FALSE, !.acc = {},
                                   !.postings[AllTerms(q)[g.term]] =
                                       IF g.acc = {} THEN @ ELSE g.acc]
        OBVIOUS
      <4>2. g.reading /\ g.todo = <<>> /\ gor' = [gor EXCEPT ![r][sh] = h]
        BY <2>2, <2>3, <3>3, <4>1 DEF EndTerm
      <4>3. g.reading = TRUE
        BY <2>5, <4>2
      <4>4. Kept(g, h, q, readers[sh])
        BY <2>4, <2>5, <4>1, <4>2, <4>3, EndKept
      <4>5. QED
        BY <4>2, <4>4
    <3>4. QED
      BY <1>7, <3>1, <3>2, <3>3
  <2>7. PICK h \in Goroutines : Kept(g, h, q, readers[sh]) /\ gor' = [gor EXCEPT ![r][sh] = h]
    BY <2>6 DEF Kept
  <2>8. UnderwayInv(r)'
    BY <2>1, <2>2, <2>3, <2>4, <2>7, UnderwayMoves
  <2>9. AnsweredInv(r)'
    BY <1>b, <2>1 DEF AnsweredInv
  <2>10. \A p \in Requests : p # r => \A s \in Shards : gor'[p][s] = gor[p][s]
    BY <1>c, <2>7, GoroutineMoves
  <2>11. ASSUME NEW p \in Requests, p # r PROVE (InFlight(p)' => UnderwayInv(p)') /\ AnsweredInv(p)'
    BY <1>b, <2>1, <2>10, <2>11, RequestFrame
  <2>12. QED
    BY <1>e, <2>1, <2>8, <2>9, <2>11
<1>8. ASSUME NEW r \in Requests, Execute(r) PROVE OpenInv' /\ RequestsRight
  <2>1. PICK D : D = Candidates(r) \ Excluded(r)
    OBVIOUS
  <2>2. PICK row : row = [sh \in Shards |-> IdleGoroutine]
    OBVIOUS
  <2>3. /\ InFlight(r) /\ \A sh \in Shards : gor[r][sh].term > Len(AllTerms(query[r]))
        /\ answer' = [answer EXCEPT ![r] = [done |-> TRUE, docs |-> D]]
        /\ gor' = [gor EXCEPT ![r] = row]
        /\ UNCHANGED <<readers, reload, query, owed>>
    BY <1>8, <2>1, <2>2 DEF Execute
  <2>4. /\ owed[r] \subseteq D
        /\ \A d \in D : \A t \in ToSet(query[r].exclude) : ~Finds(t, d)
    BY <1>b, <2>1, <2>3, ExecuteExact
  <2>5. /\ answer'[r].done = TRUE /\ answer'[r].docs = D
        /\ \A p \in Requests : p # r => answer'[p] = answer[p] /\ gor'[p] = gor[p]
    BY <1>c, <2>3
  <2>6. query[r] # NoQuery
    BY <2>3 DEF InFlight
  <2>7. AnsweredInv(r)' /\ ~InFlight(r)'
    BY <2>3, <2>4, <2>5, <2>6 DEF AnsweredInv, InFlight
  <2>8. ASSUME NEW p \in Requests, p # r PROVE (InFlight(p)' => UnderwayInv(p)') /\ AnsweredInv(p)'
    BY <1>b, <2>3, <2>5, <2>8, RequestFrame
  <2>9. QED
    BY <1>e, <2>3, <2>7, <2>8
<1>9. CASE Signal \/ RouterClose \/ Exit \/ UNCHANGED vars
  <2>1. UNCHANGED <<readers, reload, query, gor, answer, owed>>
    BY <1>9 DEF Signal, RouterClose, Exit, vars
  <2>2. QED
    BY <1>d, <1>e, <2>1
<1>10. ASSUME NEW sh \in Shards, CloseEngine(sh) PROVE OpenInv' /\ RequestsRight
  BY <1>10 DEF CloseEngine, Calm
<1>11. QED
  BY <1>1, <1>2, <1>3, <1>4, <1>5, <1>6, <1>7, <1>8, <1>9, <1>10, SearcherSteps

-----------------------------------------------------------------------------
SearcherInv == SearcherType /\ ReloadInv /\ QueryInv

LEMMA InitInv == Init => SearcherInv
<1> SUFFICES ASSUME Init PROVE SearcherInv
  OBVIOUS
<1>1. <<>> \in Seq(Readers)
  OBVIOUS
<1>2. FilesType
  BY FS_EmptySet DEF Init, FilesType
<1>3. EngineType
  BY <1>1, IdleTypes DEF Init, EngineType
<1>4. RequestType
  BY IdleTypes DEF Init, RequestType, NoAnswer
<1>5. reload.opened = <<>> /\ reload.todo = {} /\ \A sh \in Shards : readers[sh] = <<>>
  BY DEF Init, IdleReload
<1>6. ReloadInv
  BY <1>5, EmptyFacts DEF ReloadInv, OpenedOnce, Distinct
<1>7. OpenInv
  BY <1>5, EmptyFacts DEF Init, OpenInv
<1>8. ASSUME NEW r \in Requests PROVE ~InFlight(r) /\ AnsweredInv(r)
  BY DEF Init, InFlight, AnsweredInv, NoAnswer
<1>9. QED
  BY <1>2, <1>3, <1>4, <1>6, <1>7, <1>8 DEF SearcherInv, SearcherType, QueryInv

LEMMA InvAlways == Spec => []SearcherInv
<1>1. SearcherInv /\ [Next]_vars => SearcherInv'
  BY StepType, StepReload, StepQuery DEF SearcherInv
<1>2. QED
  BY InitInv, <1>1, PTL DEF Spec

\* ReloadSegments never appends a segment that the engine has: no posting is found
\* twice, whatever appears in the directory between the listing and the lock.
THEOREM SegmentsAreOpenedOnce == Spec => []OpenedOnce
<1>1. SearcherInv => OpenedOnce
  BY DEF SearcherInv, ReloadInv
<1>2. QED
  BY <1>1, InvAlways, PTL

\* Execute's answer has every document that was loaded when the query came and that
\* the terms, as Search normalizes them, ask for, and none that an excluded term
\* finds, on any number of shards and under any reloads.
THEOREM AnswersAreExact == Spec => []AnswerExact
<1>1. SearcherInv => AnswerExact
  <2> SUFFICES ASSUME SearcherInv, Calm, NEW r \in Requests
               PROVE  /\ \A d \in answer[r].docs : \A t \in ToSet(query[r].exclude) : ~Finds(t, d)
                      /\ answer[r].done => owed[r] \subseteq answer[r].docs
    BY DEF AnswerExact, Calm
  <2>1. AnsweredInv(r) /\ answer[r].done \in BOOLEAN
    BY DEF SearcherInv, QueryInv, SearcherType, RequestType
  <2>2. QED
    BY <2>1 DEF AnsweredInv
<1>2. QED
  BY <1>1, InvAlways, PTL
=============================================================================
