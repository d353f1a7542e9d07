------------------------------ MODULE Pipeline ------------------------------
(***************************************************************************)
(* A document's way from an HTTP request to a segment: Publisher.Ingest    *)
(* with its row in PostgreSQL and its message in Kafka, the indexer's      *)
(* consume loop with its offset commits, and the shard's index, which is   *)
(* module IndexBuffer, the specification that module Engine implements.    *)
(*                                                                         *)
(* A document is named by the request that inserts it.  All of it happens  *)
(* on one partition and one shard: the publisher keys messages by shard    *)
(* and the consumer handles one message at a time.                         *)
(***************************************************************************)
EXTENDS Naturals, Sequences

CONSTANTS
    Requests,      \* calls of POST /documents
    KeyOf,         \* KeyOf[r]: the request's idempotency key, or NoKey
    NoKey,
    KindsOf,       \* KindsOf[r]: what the message of r can be to the indexer
    None,          \* no document, no message, no committed offset
    MaxMessages,   \* bound: messages in the partition
    MaxFaults,     \* bound: failed database, Kafka and disk operations
    MaxCrashes     \* bound: ends of the indexer process

\* A message is text with terms for the index or text without any (stop words
\* and short words only, which the validator lets through); or it names a shard
\* that the indexer does not have; or it is no IngestEvent (published by other
\* code or another version).
Kinds == {"text", "termless", "misrouted", "unreadable"}

ASSUME PipelineAssumption ==
    /\ None \notin Requests /\ None \notin Nat
    /\ DOMAIN KeyOf = Requests
    /\ KindsOf \in [Requests -> SUBSET Kinds]
    /\ MaxMessages \in Nat /\ MaxFaults \in Nat /\ MaxCrashes \in Nat

VARIABLES
    kind,       \* kind[r]: what the message of r is, from the beginning
    row,        \* row[r]: the status column of r's row, or "none"
    at,         \* at[r]: where request r is in Ingest
    reply,      \* reply[r]: [code, doc]
    topic,      \* the partition
    committed,  \* the consumer group's committed offset, or None
    position,   \* messages the running consumer has been through
    cons,       \* where the consume loop is
    cur,        \* the document of the message being handled
    handled,    \* IndexDocument returned without an error
    buffered, stored, racing,   \* the shard's index
    \* history variables and bounds
    entered,    \* documents that were ever put in the index
    begun,      \* where the last session without a committed offset began
    faults, crashes

Index == INSTANCE IndexBuffer WITH Docs <- Requests

indexVars == <<buffered, stored, racing>>
ingestVars == <<kind, row, at, reply>>
consVars == <<committed, position, cons, cur, handled>>
vars == <<ingestVars, topic, consVars, indexVars, entered, begun, faults, crashes>>

-----------------------------------------------------------------------------
NoReply == [code |-> 0, doc |-> None]

\* The rows that already carry r's idempotency key; SQL's NULL equals nothing.
Existing(r) ==
    {q \in Requests : row[q] # "none" /\ KeyOf[r] # NoKey /\ KeyOf[q] = KeyOf[r]}

Offset(o) == IF o = None THEN 0 ELSE o
Published(d) == \E i \in 1..Len(topic) : topic[i] = d

Init ==
    /\ kind \in {f \in [Requests -> Kinds] : \A r \in Requests : f[r] \in KindsOf[r]}
    /\ row = [r \in Requests |-> "none"]
    /\ at = [r \in Requests |-> "lookup"]
    /\ reply = [r \in Requests |-> NoReply]
    /\ topic = <<>>
    /\ committed = None /\ position = 0
    /\ cons = "fetch" /\ cur = None /\ handled = FALSE
    /\ Index!Init
    /\ entered = {} /\ begun = 0
    /\ faults = 0 /\ crashes = 0

Fault == faults < MaxFaults /\ faults' = faults + 1

Answer(r, code, d) ==
    /\ at' = [at EXCEPT ![r] = "done"]
    /\ reply' = [reply EXCEPT ![r] = [code |-> code, doc |-> d]]

GoTo(r, step) == at' = [at EXCEPT ![r] = step] /\ UNCHANGED reply

-----------------------------------------------------------------------------
(***************************************************************************)
(* Publisher.Ingest, and the HTTP status its handler makes of the result.  *)
(***************************************************************************)

\* findByIdempotencyKey, when the request has a key.
Lookup(r) ==
    /\ at[r] = "lookup"
    /\ \/ /\ Existing(r) = {}
          /\ GoTo(r, "insert")
          /\ UNCHANGED faults
       \/ /\ \E q \in Existing(r) : Answer(r, 202, q)
          /\ UNCHANGED faults
       \/ /\ KeyOf[r] # NoKey
          /\ Fault
          /\ Answer(r, 500, None)
    /\ UNCHANGED <<kind, row, topic, consVars, indexVars, entered, begun, crashes>>

\* Mutant of Insert: no unique key, every request inserts its row.
InsertUnchecked(r) ==
    /\ at[r] = "insert"
    /\ row' = [row EXCEPT ![r] = "PENDING"]
    /\ GoTo(r, "publish")
    /\ UNCHANGED <<kind, faults, topic, consVars, indexVars, entered, begun, crashes>>

\* The transaction: the INSERT does nothing when another request's row has the
\* key by now.  A failed COMMIT is an error whether or not it took effect.
Insert(r) ==
    /\ at[r] = "insert"
    /\ \/ /\ Existing(r) = {}
          /\ row' = [row EXCEPT ![r] = "PENDING"]
          /\ GoTo(r, "publish")
          /\ UNCHANGED faults
       \/ /\ Existing(r) # {}
          /\ Answer(r, 409, None)
          /\ UNCHANGED <<row, faults>>
       \/ /\ Fault
          /\ \/ UNCHANGED row
             \/ Existing(r) = {} /\ row' = [row EXCEPT ![r] = "PENDING"]
          /\ Answer(r, 500, None)
    /\ UNCHANGED <<kind, topic, consVars, indexVars, entered, begun, crashes>>

\* Producer.Publish, synchronously.  The writer's own attempts may write the
\* message twice; an error may come after the broker has it.  Either way the
\* request is accepted.
Publish(r) ==
    /\ at[r] = "publish"
    /\ Len(topic) < MaxMessages
    /\ \/ topic' = Append(topic, r) /\ UNCHANGED faults
       \/ /\ Fault
          /\ \/ topic' = topic
             \/ topic' = Append(topic, r)
             \/ Len(topic) + 1 < MaxMessages /\ topic' = topic \o <<r, r>>
    /\ Answer(r, 202, r)
    /\ UNCHANGED <<kind, row, consVars, indexVars, entered, begun, crashes>>

\* The ingestion process dies with the request in hand.
IngestDies(r) ==
    /\ at[r] \in {"insert", "publish"}
    /\ Fault
    /\ at' = [at EXCEPT ![r] = "done"]
    /\ UNCHANGED <<kind, row, reply, topic, consVars, indexVars, entered, begun, crashes>>

-----------------------------------------------------------------------------
(***************************************************************************)
(* Consumer.Start with HandleMessageSharded.                               *)
(***************************************************************************)
\* Mutant of Fetch: the last message is not fetched.
FetchBehind ==
    /\ cons = "fetch"
    /\ position + 1 < Len(topic)
    /\ cur' = topic[position + 1]
    /\ cons' = "index"
    /\ UNCHANGED <<ingestVars, topic, committed, position, handled, indexVars, entered,
                   begun, faults, crashes>>

Fetch ==
    /\ cons = "fetch"
    /\ position < Len(topic)
    /\ cur' = topic[position + 1]
    /\ cons' = "index"
    /\ UNCHANGED <<ingestVars, topic, committed, position, handled, indexVars, entered,
                   begun, faults, crashes>>

\* DecodeJSON fails: the handler returns nil, so the message is committed, and
\* neither the index nor the document's row hears of it.
DecodeFails ==
    /\ cons = "index"
    /\ kind[cur] = "unreadable"
    /\ cons' = "commit"
    /\ UNCHANGED <<ingestVars, topic, committed, position, cur, handled, indexVars, entered,
                   begun, faults, crashes>>

\* Router.Route fails: the handler returns the error before the index and the
\* row are touched, and the loop goes on without a commit.
RouteFails ==
    /\ cons = "index"
    /\ kind[cur] = "misrouted"
    /\ cons' = "fetch" /\ position' = position + 1 /\ cur' = None
    /\ UNCHANGED <<ingestVars, topic, committed, handled, indexVars, entered, begun, faults,
                   crashes>>

\* Mutant of IndexDocument: the flush comes first, and when it fails the document
\* is not added.
IndexDocumentFlushesFirst ==
    /\ cons = "index"
    /\ kind[cur] \in {"text", "termless"}
    /\ \/ /\ \/ kind[cur] = "text" /\ \E during \in BOOLEAN : Index!Put(cur, during)
             \/ kind[cur] = "termless" /\ UNCHANGED indexVars
          /\ entered' = entered \union {cur}
          /\ handled' = TRUE
          /\ UNCHANGED faults
       \/ Fault /\ handled' = FALSE /\ UNCHANGED <<indexVars, entered>>
    /\ cons' = "status"
    /\ UNCHANGED <<ingestVars, topic, committed, position, cur, begun, crashes>>

\* Engine.IndexDocument: a document with terms is in the index when it returns,
\* also when the flush it ended with has failed.  For a document without terms
\* AddDocument stores nothing, but a full index is flushed all the same.
IndexDocument ==
    /\ cons = "index"
    /\ \/ /\ kind[cur] = "text"
          /\ \E during \in BOOLEAN : Index!Put(cur, during)
          /\ entered' = entered \union {cur}
       \/ /\ kind[cur] = "termless"
          /\ UNCHANGED <<indexVars, entered>>
    /\ \/ handled' = TRUE /\ UNCHANGED faults
       \/ handled' = FALSE /\ Fault
    /\ cons' = "status"
    /\ UNCHANGED <<ingestVars, topic, committed, position, cur, begun, crashes>>

Handle == DecodeFails \/ RouteFails \/ IndexDocument

\* updateDocStatus: an error is only logged.  A failed message is left without
\* a commit and the loop goes on to the next one.
UpdateStatus ==
    /\ cons = "status"
    /\ \/ /\ row' = [row EXCEPT ![cur] = IF handled THEN "INDEXED" ELSE "FAILED"]
          /\ UNCHANGED faults
       \/ Fault /\ UNCHANGED row
    /\ IF handled THEN cons' = "commit" /\ UNCHANGED <<position, cur>>
                  ELSE cons' = "fetch" /\ position' = position + 1 /\ cur' = None
    /\ UNCHANGED <<kind, at, reply, topic, committed, handled, indexVars, entered, begun, crashes>>

\* CommitMessages: an error is only logged.
Commit ==
    /\ cons = "commit"
    /\ \/ committed' = position + 1 /\ UNCHANGED faults
       \/ Fault /\ UNCHANGED committed
    /\ position' = position + 1
    /\ cons' = "fetch" /\ cur' = None
    /\ UNCHANGED <<ingestVars, topic, handled, indexVars, entered, begun, crashes>>

-----------------------------------------------------------------------------
(***************************************************************************)
(* The flushes of the shard's engine, the end of the indexer process, and  *)
(* its next start: at the committed offset or, without one, at the end of  *)
(* the partition (StartOffset: kafka.LastOffset).                          *)
(***************************************************************************)
StoreSegment(S) ==
    /\ cons # "down"
    /\ S # {}
    /\ Index!Store(S)
    /\ UNCHANGED <<ingestVars, topic, consVars, entered, begun, faults, crashes>>

\* Mutant of ResetIndex: the index is reset without a complete segment.
ResetUnstored ==
    /\ cons # "down"
    /\ buffered' = {}
    /\ UNCHANGED <<ingestVars, topic, consVars, stored, racing, entered, begun, faults,
                   crashes>>

ResetIndex ==
    /\ cons # "down"
    /\ buffered # {}
    /\ Index!Release
    /\ UNCHANGED <<ingestVars, topic, consVars, entered, begun, faults, crashes>>

Crash ==
    /\ cons # "down"
    /\ crashes < MaxCrashes
    /\ crashes' = crashes + 1
    /\ Index!Vanish
    /\ cons' = "down" /\ cur' = None /\ handled' = FALSE
    /\ UNCHANGED <<ingestVars, topic, committed, position, entered, begun, faults>>

Restart ==
    /\ cons = "down"
    /\ cons' = "fetch"
    /\ position' = IF committed = None THEN Len(topic) ELSE committed
    /\ begun' = IF committed = None THEN Len(topic) ELSE begun
    /\ UNCHANGED <<ingestVars, topic, committed, cur, handled, indexVars, entered, faults,
                   crashes>>

-----------------------------------------------------------------------------
Ingest(r) == Lookup(r) \/ Insert(r) \/ Publish(r)
Consume == Fetch \/ Handle \/ UpdateStatus \/ Commit

Next ==
    \/ \E r \in Requests : Ingest(r) \/ IngestDies(r)
    \/ Consume
    \/ \E S \in SUBSET buffered : StoreSegment(S)
    \/ ResetIndex
    \/ Crash
    \/ Restart

\* Request goroutines, the consume loop and the flush loop keep running, and
\* the indexer is started again.  An operation that may fail is not fair to
\* fail.
Fairness ==
    /\ \A r \in Requests : WF_vars(Ingest(r))
    /\ WF_vars(Consume)
    /\ WF_vars(StoreSegment(buffered))
    /\ WF_vars(ResetIndex)
    /\ WF_vars(Restart)

Spec == Init /\ [][Next]_vars /\ Fairness

-----------------------------------------------------------------------------
\* However requests with one key interleave, fail half way or are retried, one
\* document exists for it, and every accepted request is told that document.
OneDocumentPerKey ==
    \A r, q \in Requests : (KeyOf[r] # NoKey /\ KeyOf[r] = KeyOf[q]) =>
        /\ (row[r] # "none" /\ row[q] # "none") => r = q
        /\ (reply[r].code = 202 /\ reply[q].code = 202) => reply[r].doc = reply[q].doc

\* The group's offset passes a message of text with terms only when its document
\* has been in the index, whatever else fails, except for messages published
\* before a session that began at the end of the partition.  (A message of
\* another kind is passed, and nothing is ever stored for it.)
CommitCovers ==
    \A i \in 1..Offset(committed) :
        i > begun => topic[i] \in entered \/ kind[topic[i]] # "text"

\* While the indexer runs, a status of INDEXED can be relied on: the message was
\* understood and routed, and a document with terms is in memory or stored,
\* unless a flush raced its arrival.
IndexedIsKept ==
    crashes = 0 => \A r \in Requests : row[r] = "INDEXED" =>
        kind[r] = "termless" \/ r \in buffered \union stored \union racing

\* A published message of text with terms ends in a segment, whatever fails in
\* the indexer and whatever other messages it has to pass, unless the process
\* dies or a flush races the message's arrival.
PublishedIsStored ==
    \A r \in Requests :
        (Published(r) /\ kind[r] = "text" /\ crashes = 0) ~>
            (r \in stored \union racing \/ crashes > 0)
=============================================================================
