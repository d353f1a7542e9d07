--------------------------- MODULE PipelineProofs ---------------------------
(***************************************************************************)
(* Proofs about Pipeline, for any number of requests, keys and messages,   *)
(* and for any failures, crashes and restarts.                             *)
(***************************************************************************)
EXTENDS Pipeline, TLAPS

Reply == [code : {0, 202, 409, 500}, doc : Requests \union {None}]

IngestType ==
    /\ kind \in [Requests -> Kinds]
    /\ row \in [Requests -> {"none", "PENDING", "INDEXED", "FAILED"}]
    /\ at \in [Requests -> {"lookup", "insert", "publish", "done"}]
    /\ reply \in [Requests -> Reply]

ConsType ==
    /\ topic \in Seq(Requests)
    /\ committed \in Nat \union {None}
    /\ position \in Nat
    /\ cons \in {"fetch", "index", "status", "commit", "down"}
    /\ cur \in Requests \union {None}
    /\ handled \in BOOLEAN
    /\ begun \in Nat
    /\ crashes \in Nat

-----------------------------------------------------------------------------
\* The rows of a request's key.
SameKey(r, q) == KeyOf[r] # NoKey /\ KeyOf[r] = KeyOf[q]

\* One row has a key.  Who is about to publish has his row, and an accepted request
\* was told a document that has one and that has the request's key.
RowInv ==
    /\ \A r, q \in Requests : SameKey(r, q) /\ row[r] # "none" /\ row[q] # "none" => r = q
    /\ \A r \in Requests : at[r] = "publish" => row[r] # "none"
    /\ \A r \in Requests : reply[r].code = 202 =>
           /\ reply[r].doc \in Requests
           /\ row[reply[r].doc] # "none"
           /\ SameKey(r, r) => KeyOf[reply[r].doc] = KeyOf[r]
    /\ \A i \in 1 .. Len(topic) : row[topic[i]] # "none"

\* What the consumer may go past: a document that has been in the index, or one
\* that never will be.
Passed(d) == d \in entered \/ kind[d] # "text"

\* The consumer: it has put every message of text with terms that it went through
\* in the index, also the ones that it did not commit, since the last time it
\* began at the end.  A message whose status it writes was understood and routed.
ConsInv ==
    /\ position <= Len(topic)
    /\ committed # None => committed <= Len(topic)
    /\ begun <= Len(topic)
    /\ \A i \in 1 .. position : i > begun => Passed(topic[i])
    /\ cons \in {"index", "status", "commit"} =>
           position < Len(topic) /\ cur = topic[position + 1]
    /\ cons = "status" => cur \in entered \/ kind[cur] = "termless"
    /\ cons = "commit" => Passed(cur)

\* The index: what it was given it has, as long as the process lives.
KeptInv ==
    /\ crashes = 0 => entered \subseteq buffered \union stored \union racing
    /\ \A r \in Requests : row[r] = "INDEXED" => r \in entered \/ kind[r] = "termless"

PipelineInv == IngestType /\ ConsType /\ RowInv /\ ConsInv /\ CommitCovers /\ KeptInv

-----------------------------------------------------------------------------
\* Messages stay in the partition, at their offsets.
TopicGrows ==
    /\ Len(topic') \in Nat /\ Len(topic) \in Nat /\ Len(topic) <= Len(topic')
    /\ \A i \in 1 .. Len(topic) : topic'[i] = topic[i]

LEMMA PublishGrows ==
    ASSUME NEW r \in Requests, topic \in Seq(Requests),
           topic' = Append(topic, r) \/ topic' = topic \o <<r, r>> \/ topic' = topic
    PROVE  /\ topic' \in Seq(Requests)
           /\ TopicGrows
           /\ \A i \in 1 .. Len(topic') : i \in 1 .. Len(topic) \/ topic'[i] = r
<1>1. CASE topic' = Append(topic, r)
  BY <1>1 DEF TopicGrows
<1>2. CASE topic' = topic \o <<r, r>>
  <2>1. <<r, r>> \in Seq(Requests) /\ Len(<<r, r>>) = 2 /\ \A i \in 1 .. 2 : <<r, r>>[i] = r
    OBVIOUS
  <2>2. /\ topic' \in Seq(Requests) /\ Len(topic') = Len(topic) + 2
        /\ \A i \in 1 .. Len(topic) : topic'[i] = topic[i]
    BY <1>2, <2>1
  <2>3. ASSUME NEW i \in 1 .. Len(topic'), i \notin 1 .. Len(topic) PROVE topic'[i] = r
    <3>1. i - Len(topic) \in 1 .. 2 /\ topic'[i] = <<r, r>>[i - Len(topic)]
      BY <1>2, <2>1, <2>2, <2>3
    <3> QED BY <2>1, <3>1
  <2> QED BY <2>2, <2>3 DEF TopicGrows
<1>3. CASE topic' = topic
  BY <1>3 DEF TopicGrows
<1> QED BY <1>1, <1>2, <1>3

-----------------------------------------------------------------------------
\* The requests: a step of one, which inserts a row or none and answers or not.
LEMMA IngestNext ==
    ASSUME PipelineInv, NEW r \in Requests, Ingest(r) \/ IngestDies(r)
    PROVE  /\ IngestType' /\ RowInv' /\ topic' \in Seq(Requests) /\ TopicGrows
           /\ kind' = kind
           /\ \A q \in Requests : row'[q] = "INDEXED" => row[q] = "INDEXED"
<1> USE PipelineAssumption
<1>0. IngestType /\ RowInv /\ topic \in Seq(Requests)
  BY DEF PipelineInv, ConsType
<1>k. kind' = kind
  BY DEF Ingest, Lookup, Insert, Publish, IngestDies
<1>1. ASSUME UNCHANGED topic PROVE TopicGrows /\ topic' \in Seq(Requests)
  BY <1>0, <1>1 DEF TopicGrows
<1>2. ASSUME NEW step \in {"insert", "done"}, at' = [at EXCEPT ![r] = step],
             UNCHANGED <<row, reply, topic>>
      PROVE  IngestType' /\ RowInv'
  <2>1. IngestType' /\ \A q \in Requests : at'[q] = "publish" => at[q] = "publish"
    BY <1>0, <1>k, <1>2 DEF IngestType
  <2> QED BY <1>0, <1>2, <2>1 DEF RowInv
<1>3. ASSUME NEW code \in {202, 409, 500}, NEW d \in Requests \union {None}, Answer(r, code, d),
             code = 202 => /\ d \in Requests /\ row[d] # "none"
                           /\ SameKey(r, r) => KeyOf[d] = KeyOf[r],
             UNCHANGED <<row, topic>>
      PROVE  IngestType' /\ RowInv'
  <2>1. IngestType'
    BY <1>0, <1>k, <1>3 DEF IngestType, Answer, Reply
  <2>2. /\ \A q \in Requests : at'[q] = "publish" => at[q] = "publish"
        /\ \A q \in Requests \ {r} : reply'[q] = reply[q]
        /\ reply'[r].code = code /\ reply'[r].doc = d
    BY <1>0, <1>3 DEF IngestType, Answer
  <2>3. \A q \in Requests : reply'[q].code = 202 =>
           /\ reply'[q].doc \in Requests
           /\ row[reply'[q].doc] # "none"
           /\ SameKey(q, q) => KeyOf[reply'[q].doc] = KeyOf[q]
    BY <1>0, <1>3, <2>2 DEF RowInv
  <2> QED BY <1>0, <1>3, <2>1, <2>2, <2>3 DEF RowInv, SameKey
<1>4. CASE Lookup(r)
  <2>1. UNCHANGED <<row, topic>>
    BY <1>4 DEF Lookup
  <2>2. ASSUME GoTo(r, "insert") PROVE IngestType' /\ RowInv'
    BY <1>2, <2>1, <2>2 DEF GoTo
  <2>3. ASSUME NEW q \in Existing(r), Answer(r, 202, q) PROVE IngestType' /\ RowInv'
    <3>1. q \in Requests /\ row[q] # "none" /\ KeyOf[q] = KeyOf[r]
      BY <2>3 DEF Existing
    <3> QED BY <1>3, <2>1, <2>3, <3>1
  <2>4. ASSUME Answer(r, 500, None) PROVE IngestType' /\ RowInv'
    BY <1>3, <2>1, <2>4
  <2> QED BY <1>1, <1>4, <2>1, <2>2, <2>3, <2>4 DEF Lookup
<1>5. ASSUME Existing(r) = {}, row' = [row EXCEPT ![r] = "PENDING"], UNCHANGED topic,
             GoTo(r, "publish") \/ Answer(r, 500, None)
      PROVE  IngestType' /\ RowInv' /\ \A q \in Requests : row'[q] = "INDEXED" => row[q] = "INDEXED"
  <2>1. IngestType'
    <3>1. CASE GoTo(r, "publish")
      BY <1>0, <1>k, <1>5, <3>1 DEF IngestType, GoTo
    <3>2. CASE Answer(r, 500, None)
      BY <1>0, <1>k, <1>5, <3>2 DEF IngestType, Answer, Reply
    <3> QED BY <1>5, <3>1, <3>2
  <2>2. row'[r] = "PENDING" /\ \A q \in Requests \ {r} : row'[q] = row[q]
    BY <1>0, <1>5 DEF IngestType
  <2>3. \A q \in Requests : SameKey(r, q) => row[q] = "none"
    BY <1>5 DEF Existing, SameKey
  <2>4. \A q \in Requests : row[q] # "none" => row'[q] # "none"
    BY <2>2
  <2>5. /\ \A q \in Requests \ {r} : at'[q] = at[q] /\ reply'[q] = reply[q]
        /\ reply'[r].code = 202 => reply'[r] = reply[r]
    BY <1>0, <1>5 DEF IngestType, GoTo, Answer
  <2>6. \A p, q \in Requests : SameKey(p, q) /\ row'[p] # "none" /\ row'[q] # "none" => p = q
    <3>1. \A p, q \in Requests : SameKey(p, q) => SameKey(q, p)
      BY DEF SameKey
    <3> QED BY <1>0, <2>2, <2>3, <3>1 DEF RowInv
  <2>7. \A q \in Requests : at'[q] = "publish" => row'[q] # "none"
    BY <1>0, <2>2, <2>5 DEF RowInv
  <2>8. \A q \in Requests : reply'[q].code = 202 =>
           /\ reply'[q].doc \in Requests
           /\ row'[reply'[q].doc] # "none"
           /\ SameKey(q, q) => KeyOf[reply'[q].doc] = KeyOf[q]
    BY <1>0, <2>4, <2>5 DEF RowInv
  <2>9. \A i \in 1 .. Len(topic') : row'[topic'[i]] # "none"
    <3>1. \A i \in 1 .. Len(topic) : topic[i] \in Requests
      BY <1>0
    <3> QED BY <1>0, <1>5, <2>4, <3>1 DEF RowInv
  <2>10. RowInv'
    BY <2>6, <2>7, <2>8, <2>9 DEF RowInv, SameKey
  <2> QED BY <2>1, <2>2, <2>10
<1>6. CASE Insert(r)
  <2>1. UNCHANGED topic
    BY <1>6 DEF Insert
  <2>2. CASE Existing(r) = {} /\ row' = [row EXCEPT ![r] = "PENDING"] /\ GoTo(r, "publish")
    BY <1>k, <1>1, <1>5, <2>1, <2>2
  <2>3. CASE Answer(r, 409, None) /\ UNCHANGED row
    BY <1>k, <1>1, <1>3, <2>1, <2>3
  <2>4. CASE Answer(r, 500, None) /\ UNCHANGED row
    BY <1>k, <1>1, <1>3, <2>1, <2>4
  <2>5. CASE Answer(r, 500, None) /\ Existing(r) = {} /\ row' = [row EXCEPT ![r] = "PENDING"]
    BY <1>k, <1>1, <1>5, <2>1, <2>5
  <2> QED BY <1>6, <2>2, <2>3, <2>4, <2>5 DEF Insert
<1>7. CASE Publish(r)
  <2>1. /\ topic' = Append(topic, r) \/ topic' = topic \o <<r, r>> \/ topic' = topic
        /\ row' = row /\ Answer(r, 202, r) /\ at[r] = "publish"
    BY <1>7 DEF Publish
  <2>2. /\ topic' \in Seq(Requests) /\ TopicGrows
        /\ \A i \in 1 .. Len(topic') : i \in 1 .. Len(topic) \/ topic'[i] = r
    BY <1>0, <2>1, PublishGrows
  <2>3. row[r] # "none"
    BY <1>0, <2>1 DEF RowInv
  <2>4. IngestType'
    BY <1>0, <1>k, <2>1 DEF IngestType, Answer, Reply
  <2>5. /\ \A q \in Requests : at'[q] = "publish" => at[q] = "publish"
        /\ \A q \in Requests \ {r} : reply'[q] = reply[q]
        /\ reply'[r].doc = r
    BY <1>0, <2>1 DEF IngestType, Answer
  <2>6. \A q \in Requests : reply'[q].code = 202 =>
           /\ reply'[q].doc \in Requests
           /\ row[reply'[q].doc] # "none"
           /\ SameKey(q, q) => KeyOf[reply'[q].doc] = KeyOf[q]
    BY <1>0, <2>3, <2>5 DEF RowInv
  <2>7. \A i \in 1 .. Len(topic') : row[topic'[i]] # "none"
    BY <1>0, <2>2, <2>3 DEF RowInv, TopicGrows
  <2>8. RowInv'
    BY <1>0, <2>1, <2>5, <2>6, <2>7 DEF RowInv, SameKey
  <2> QED BY <1>k, <2>1, <2>2, <2>4, <2>8
<1>8. CASE IngestDies(r)
  BY <1>1, <1>2, <1>8 DEF IngestDies
<1> QED BY <1>k, <1>4, <1>6, <1>7, <1>8 DEF Ingest

\* The consumer and the index leave the requests alone, but for the status of a
\* row that there is.
LEMMA StatusNext ==
    ASSUME PipelineInv, UNCHANGED <<kind, at, reply, topic>>,
           \/ UNCHANGED row
           \/ /\ cons \in {"index", "status", "commit"}
              /\ \E s \in {"INDEXED", "FAILED"} : row' = [row EXCEPT ![cur] = s]
    PROVE  IngestType' /\ RowInv'
<1>0. IngestType /\ RowInv /\ topic \in Seq(Requests)
  BY DEF PipelineInv, ConsType
<1>1. IngestType' /\ \A q \in Requests : row'[q] = "none" <=> row[q] = "none"
  <2>1. CASE UNCHANGED row
    BY <1>0, <2>1 DEF IngestType
  <2>2. ASSUME NEW s \in {"INDEXED", "FAILED"}, row' = [row EXCEPT ![cur] = s],
               cons \in {"index", "status", "commit"}
        PROVE  IngestType' /\ \A q \in Requests : row'[q] = "none" <=> row[q] = "none"
    <3>1. position + 1 \in 1 .. Len(topic) /\ cur = topic[position + 1]
      BY <2>2 DEF PipelineInv, ConsInv, ConsType
    <3>2. cur \in Requests /\ row[cur] # "none"
      BY <1>0, <3>1 DEF RowInv
    <3> QED BY <1>0, <2>2, <3>2 DEF IngestType
  <2> QED BY <2>1, <2>2
<1>2. \A i \in 1 .. Len(topic) : topic[i] \in Requests
  BY <1>0
<1> QED BY <1>0, <1>1, <1>2 DEF RowInv, SameKey

\* The partition grows, which changes nothing for the consumer.
LEMMA GrowthIsHarmless ==
    ASSUME PipelineInv, topic' \in Seq(Requests), TopicGrows,
           UNCHANGED <<kind, consVars, entered, begun, crashes>>
    PROVE  ConsType' /\ ConsInv' /\ CommitCovers'
<1> USE PipelineAssumption
<1>1. ConsType /\ ConsInv /\ CommitCovers
  BY DEF PipelineInv
<1>2. ConsType'
  BY <1>1 DEF ConsType, consVars
<1>3. ConsInv'
  <2>1. /\ position' <= Len(topic') /\ (committed' # None => committed' <= Len(topic'))
        /\ begun' <= Len(topic')
    BY <1>1 DEF ConsInv, ConsType, TopicGrows, consVars
  <2>2. ASSUME NEW i \in 1 .. position', i > begun' PROVE Passed(topic[i])'
    BY <1>1, <2>2 DEF ConsInv, ConsType, TopicGrows, consVars, Passed
  <2>3. cons' \in {"index", "status", "commit"} =>
           position' < Len(topic') /\ cur' = topic'[position' + 1]
    <3>1. ASSUME position < Len(topic) PROVE position + 1 \in 1 .. Len(topic)
      BY <1>1, <3>1 DEF ConsType
    <3> QED BY <1>1, <3>1 DEF ConsInv, ConsType, TopicGrows, consVars
  <2>4. /\ cons' = "status" => cur' \in entered' \/ kind'[cur'] = "termless"
        /\ cons' = "commit" => Passed(cur)'
    BY <1>1 DEF ConsInv, consVars, Passed
  <2> QED BY <2>1, <2>2, <2>3, <2>4 DEF ConsInv
<1>4. CommitCovers'
  <2> SUFFICES ASSUME NEW i \in 1 .. Offset(committed)', i > begun'
               PROVE topic'[i] \in entered' \/ kind'[topic'[i]] # "text"
    BY DEF CommitCovers
  <2>1. i \in 1 .. Offset(committed) /\ i > begun /\ i \in 1 .. Len(topic)
    BY <1>1 DEF Offset, ConsInv, ConsType, TopicGrows, consVars
  <2> QED BY <1>1, <2>1 DEF CommitCovers, TopicGrows
<1> QED BY <1>2, <1>3, <1>4

\* Every step of the consumer, of the flushes and of the process keeps the
\* invariant of the consumer.
LEMMA ConsNext ==
    ASSUME PipelineInv,
           Consume \/ (\E S \in SUBSET buffered : StoreSegment(S)) \/ ResetIndex \/ Crash \/ Restart
    PROVE  ConsType' /\ ConsInv' /\ CommitCovers' /\ IngestType' /\ RowInv' /\ KeptInv'
<1> USE PipelineAssumption
<1>0. ConsType /\ ConsInv /\ CommitCovers /\ KeptInv /\ IngestType
  BY DEF PipelineInv
<1>t. /\ topic \in Seq(Requests) /\ Len(topic) \in Nat /\ position \in Nat /\ begun \in Nat
      /\ committed \in Nat \union {None} /\ crashes \in Nat
      /\ \A i \in 1 .. Len(topic) : topic[i] \in Requests
  BY <1>0 DEF ConsType
<1>1. CASE Fetch
  <2>1. /\ UNCHANGED <<kind, row, at, reply, topic, committed, position, handled, entered, begun, crashes,
                       buffered, stored, racing>>
        /\ position < Len(topic) /\ cur' = topic[position + 1] /\ cons' = "index"
    BY <1>1 DEF Fetch, ingestVars, indexVars
  <2>2. position + 1 \in 1 .. Len(topic)
    BY <1>t, <2>1
  <2>3. ConsType' /\ ConsInv' /\ CommitCovers'
    BY <1>0, <1>t, <2>1, <2>2 DEF ConsType, ConsInv, CommitCovers, Offset, Passed
  <2>4. IngestType' /\ RowInv'
    BY <2>1, StatusNext
  <2> QED BY <1>0, <2>1, <2>3, <2>4 DEF KeptInv
<1>2. CASE DecodeFails
  <2>1. /\ UNCHANGED <<kind, row, at, reply, topic, committed, position, cur, handled, entered, begun,
                       crashes, buffered, stored, racing>>
        /\ cons = "index" /\ cons' = "commit" /\ kind[cur] = "unreadable"
    BY <1>2 DEF DecodeFails, ingestVars, indexVars
  <2>2. ConsType' /\ ConsInv' /\ CommitCovers'
    BY <1>0, <1>t, <2>1 DEF ConsType, ConsInv, CommitCovers, Offset, Passed
  <2>3. IngestType' /\ RowInv'
    BY <2>1, StatusNext
  <2> QED BY <1>0, <2>1, <2>2, <2>3 DEF KeptInv
<1>8. CASE RouteFails
  <2>1. /\ UNCHANGED <<kind, row, at, reply, topic, committed, handled, entered, begun, crashes,
                       buffered, stored, racing>>
        /\ cons = "index" /\ cons' = "fetch" /\ kind[cur] = "misrouted"
        /\ position' = position + 1 /\ cur' = None
    BY <1>8 DEF RouteFails, ingestVars, indexVars
  <2>2. position < Len(topic) /\ cur = topic[position + 1] /\ Passed(cur)
    BY <1>0, <2>1 DEF ConsInv, Passed
  <2>3. \A i \in 1 .. position + 1 : i > begun => Passed(topic[i])
    BY <1>0, <1>t, <2>2 DEF ConsInv
  <2>4. ConsType' /\ CommitCovers'
    BY <1>0, <1>t, <2>1 DEF ConsType, CommitCovers, Offset
  <2>5. ConsInv'
    BY <1>0, <1>t, <2>1, <2>2, <2>3 DEF ConsInv, Passed
  <2>6. IngestType' /\ RowInv'
    BY <2>1, StatusNext
  <2> QED BY <1>0, <2>1, <2>4, <2>5, <2>6 DEF KeptInv
<1>9. CASE IndexDocument
  <2>1. /\ UNCHANGED <<kind, row, at, reply, topic, committed, position, cur, begun, crashes, stored>>
        /\ cons = "index" /\ cons' = "status" /\ handled' \in BOOLEAN
        /\ \/ /\ entered' = entered \union {cur}
              /\ buffered' = buffered \union {cur} /\ racing \subseteq racing'
           \/ /\ entered' = entered /\ kind[cur] = "termless"
              /\ buffered' = buffered /\ racing' = racing
    BY <1>9 DEF IndexDocument, ingestVars, indexVars, Index!Put
  <2>2. ConsType'
    BY <1>0, <2>1 DEF ConsType
  <2>3. entered \subseteq entered' /\ (cur \in entered' \/ kind[cur] = "termless")
    BY <2>1
  <2>4. ConsInv' /\ CommitCovers'
    BY <1>0, <1>t, <2>1, <2>3 DEF ConsInv, CommitCovers, Offset, Passed
  <2>5. IngestType' /\ RowInv'
    BY <2>1, StatusNext
  <2>6. KeptInv'
    BY <1>0, <2>1, <2>3 DEF KeptInv
  <2> QED BY <2>2, <2>4, <2>5, <2>6
<1>3. CASE UpdateStatus
  <2>1. /\ UNCHANGED <<kind, at, reply, topic, committed, handled, begun, crashes, buffered, stored, racing,
                       entered>>
        /\ cons = "status"
        /\ \/ row' = row
           \/ row' = [row EXCEPT ![cur] = "INDEXED"]
           \/ row' = [row EXCEPT ![cur] = "FAILED"]
        /\ \/ cons' = "commit" /\ position' = position /\ cur' = cur
           \/ cons' = "fetch" /\ position' = position + 1 /\ cur' = None
    BY <1>3 DEF UpdateStatus, indexVars
  <2>2. IngestType' /\ RowInv'
    BY <2>1, StatusNext
  <2>3. /\ position < Len(topic) /\ cur = topic[position + 1]
        /\ Passed(cur) /\ (cur \in entered \/ kind[cur] = "termless")
    BY <1>0, <2>1 DEF ConsInv, Passed
  <2>4. ConsType'
    BY <1>0, <2>1 DEF ConsType
  <2>5. \A i \in 1 .. position + 1 : i > begun => Passed(topic[i])
    BY <1>0, <1>t, <2>3 DEF ConsInv
  <2>6. ConsInv'
    BY <1>0, <1>t, <2>1, <2>3, <2>5 DEF ConsInv, Passed
  <2>7. CommitCovers'
    BY <1>0, <2>1 DEF CommitCovers, Offset, Passed
  <2>8. KeptInv'
    BY <1>0, <2>1, <2>3 DEF KeptInv, IngestType
  <2> QED BY <2>2, <2>4, <2>6, <2>7, <2>8
<1>4. CASE Commit
  <2>1. /\ UNCHANGED <<kind, row, at, reply, topic, handled, entered, begun, crashes, buffered, stored, racing>>
        /\ cons = "commit" /\ cons' = "fetch" /\ cur' = None /\ position' = position + 1
        /\ committed' = position + 1 \/ committed' = committed
    BY <1>4 DEF Commit, ingestVars, indexVars
  <2>2. position < Len(topic) /\ cur = topic[position + 1] /\ Passed(cur)
    BY <1>0, <2>1 DEF ConsInv
  <2>3. ConsType'
    BY <1>0, <2>1 DEF ConsType
  <2>4. \A i \in 1 .. position + 1 : i > begun => Passed(topic[i])
    BY <1>0, <1>t, <2>2 DEF ConsInv
  <2>5. ConsInv'
    BY <1>0, <1>t, <2>1, <2>2, <2>4 DEF ConsInv, Passed
  <2>6. CommitCovers'
    BY <1>0, <1>t, <2>1, <2>4 DEF CommitCovers, Offset, Passed
  <2>7. IngestType' /\ RowInv'
    BY <2>1, StatusNext
  <2> QED BY <1>0, <2>1, <2>3, <2>5, <2>6, <2>7 DEF KeptInv
<1>5. CASE ResetIndex \/ \E S \in SUBSET buffered : StoreSegment(S)
  <2>1. /\ UNCHANGED <<kind, row, at, reply, topic, committed, position, cons, cur, handled, entered, begun,
                       crashes, racing>>
        /\ stored \subseteq stored'
        /\ buffered' = buffered \/ buffered \subseteq stored \union racing
    BY <1>5 DEF ResetIndex, StoreSegment, ingestVars, consVars, Index!Release, Index!Store
  <2>2. ConsType' /\ ConsInv' /\ CommitCovers'
    BY <1>0, <2>1 DEF ConsType, ConsInv, CommitCovers, Offset, Passed
  <2>3. IngestType' /\ RowInv'
    BY <2>1, StatusNext
  <2> QED BY <1>0, <2>1, <2>2, <2>3 DEF KeptInv
<1>6. CASE Crash
  <2>1. /\ UNCHANGED <<kind, row, at, reply, topic, committed, position, entered, begun>>
        /\ cons' = "down" /\ cur' = None /\ handled' = FALSE /\ crashes' = crashes + 1
    BY <1>6 DEF Crash, ingestVars
  <2>2. ConsType'
    <3>1. handled' \in BOOLEAN
      BY <2>1, Zenon
    <3> QED BY <1>0, <2>1, <3>1 DEF ConsType
  <2>3. ConsInv' /\ CommitCovers'
    BY <1>0, <2>1 DEF ConsInv, CommitCovers, Offset, Passed
  <2>4. IngestType' /\ RowInv'
    BY <2>1, StatusNext
  <2>5. crashes' # 0
    BY <1>t, <2>1
  <2> QED BY <1>0, <2>1, <2>2, <2>3, <2>4, <2>5 DEF KeptInv
<1>7. CASE Restart
  <2>1. /\ UNCHANGED <<kind, row, at, reply, topic, committed, cur, handled, entered, crashes, buffered, stored,
                       racing>>
        /\ cons' = "fetch"
        /\ position' = IF committed = None THEN Len(topic) ELSE committed
        /\ begun' = IF committed = None THEN Len(topic) ELSE begun
    BY <1>7 DEF Restart, ingestVars, indexVars
  <2>2. ConsType'
    BY <1>0, <1>t, <2>1 DEF ConsType
  <2>3. ConsInv'
    <3>1. CASE committed = None
      BY <1>0, <1>t, <2>1, <3>1 DEF ConsInv, Passed
    <3>2. CASE committed # None
      <4>1. \A i \in 1 .. committed : i > begun => Passed(topic[i])
        BY <1>0, <3>2 DEF CommitCovers, Offset, Passed
      <4> QED BY <1>0, <1>t, <2>1, <3>2, <4>1 DEF ConsInv, Passed
    <3> QED BY <3>1, <3>2
  <2>4. CommitCovers'
    <3>1. CASE committed = None
      BY <2>1, <3>1 DEF CommitCovers, Offset, Passed
    <3>2. CASE committed # None
      BY <1>0, <2>1, <3>2 DEF CommitCovers, Offset, Passed
    <3> QED BY <3>1, <3>2
  <2>5. IngestType' /\ RowInv'
    BY <2>1, StatusNext
  <2> QED BY <1>0, <2>1, <2>2, <2>3, <2>4, <2>5 DEF KeptInv
<1> QED BY <1>1, <1>2, <1>3, <1>4, <1>5, <1>6, <1>7, <1>8, <1>9 DEF Consume, Handle

-----------------------------------------------------------------------------
LEMMA PipelineInit == Init => PipelineInv
<1> SUFFICES ASSUME Init PROVE PipelineInv
  OBVIOUS
<1>1. IngestType
  BY DEF Init, IngestType, Reply, NoReply
<1>2. ConsType
  <2>1. handled \in BOOLEAN
    BY Zenon DEF Init
  <2> QED BY <2>1 DEF Init, ConsType
<1>3. RowInv
  BY DEF Init, RowInv, NoReply
<1>4. ConsInv /\ CommitCovers
  BY DEF Init, ConsInv, CommitCovers, Offset
<1>5. KeptInv
  BY DEF Init, KeptInv
<1> QED BY <1>1, <1>2, <1>3, <1>4, <1>5 DEF PipelineInv

LEMMA PipelineNext == PipelineInv /\ [Next]_vars => PipelineInv'
<1> SUFFICES ASSUME PipelineInv, [Next]_vars PROVE PipelineInv'
  OBVIOUS
<1>1. ASSUME NEW r \in Requests, Ingest(r) \/ IngestDies(r) PROVE PipelineInv'
  <2>1. UNCHANGED <<kind, consVars, indexVars, entered, begun, crashes>>
    BY <1>1 DEF Ingest, Lookup, Insert, Publish, IngestDies
  <2>2. /\ IngestType' /\ RowInv' /\ topic' \in Seq(Requests) /\ TopicGrows
        /\ \A q \in Requests : row'[q] = "INDEXED" => row[q] = "INDEXED"
    BY <1>1, IngestNext
  <2>3. ConsType' /\ ConsInv' /\ CommitCovers'
    BY <2>1, <2>2, GrowthIsHarmless
  <2>4. KeptInv'
    BY <2>1, <2>2 DEF PipelineInv, KeptInv, indexVars
  <2> QED BY <2>2, <2>3, <2>4 DEF PipelineInv
<1>2. CASE UNCHANGED vars
  <2>1. UNCHANGED <<kind, row, at, reply, topic, committed, position, cons, cur, handled, buffered, stored,
                    racing, entered, begun, crashes>>
    BY <1>2 DEF vars, ingestVars, consVars, indexVars
  <2>2. IngestType' /\ RowInv'
    BY <2>1, StatusNext
  <2>3. ConsType' /\ ConsInv' /\ CommitCovers' /\ KeptInv'
    BY <2>1 DEF PipelineInv, ConsType, ConsInv, CommitCovers, Offset, Passed, KeptInv
  <2> QED BY <2>2, <2>3 DEF PipelineInv
<1> QED BY <1>1, <1>2, ConsNext DEF Next, PipelineInv

\* Idempotency: for any number of requests that share keys, and whatever fails
\* between the look-up, the INSERT, the COMMIT and the message, one document has
\* the key and every accepted request was told that one.
THEOREM OneDocumentPerKeyHolds == Spec => []OneDocumentPerKey
<1>1. PipelineInv => OneDocumentPerKey
  <2> SUFFICES ASSUME PipelineInv, NEW r \in Requests, NEW q \in Requests, SameKey(r, q)
               PROVE  /\ (row[r] # "none" /\ row[q] # "none") => r = q
                      /\ (reply[r].code = 202 /\ reply[q].code = 202) => reply[r].doc = reply[q].doc
    BY DEF OneDocumentPerKey, SameKey
  <2>1. SameKey(r, r) /\ SameKey(q, q)
    BY DEF SameKey
  <2>2. ASSUME reply[r].code = 202, reply[q].code = 202 PROVE reply[r].doc = reply[q].doc
    <3>1. /\ reply[r].doc \in Requests /\ row[reply[r].doc] # "none"
          /\ reply[q].doc \in Requests /\ row[reply[q].doc] # "none"
          /\ KeyOf[reply[r].doc] = KeyOf[r] /\ KeyOf[reply[q].doc] = KeyOf[q]
      BY <2>1, <2>2 DEF PipelineInv, RowInv
    <3>2. SameKey(reply[r].doc, reply[q].doc)
      BY <3>1 DEF SameKey
    <3> QED BY <3>1, <3>2 DEF PipelineInv, RowInv
  <2> QED BY <2>2 DEF PipelineInv, RowInv
<1> QED BY <1>1, PipelineInit, PipelineNext, PTL DEF Spec

\* Offsets: the group never commits past a message of text with terms that has not
\* been in the index, except for those that a session without a committed offset
\* skipped.
THEOREM CommitCoversHolds == Spec => []CommitCovers
<1>1. PipelineInv => CommitCovers
  BY DEF PipelineInv
<1> QED BY <1>1, PipelineInit, PipelineNext, PTL DEF Spec

\* Status: as long as the indexer has not crashed, a document whose row says
\* INDEXED has no terms, is in memory or in a segment, or a flush raced its arrival.
THEOREM IndexedIsKeptHolds == Spec => []IndexedIsKept
<1>1. PipelineInv => IndexedIsKept
  BY DEF PipelineInv, KeptInv, IndexedIsKept
<1> QED BY <1>1, PipelineInit, PipelineNext, PTL DEF Spec
=============================================================================
