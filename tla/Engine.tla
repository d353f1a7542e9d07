------------------------------- MODULE Engine -------------------------------
(***************************************************************************)
(* One shard's indexing engine inside the indexer process: the in-memory   *)
(* index, the flush that turns it into an immutable segment file, the      *)
(* ticker that flushes in the background, the shutdown sequence of         *)
(* cmd/indexer, a crash, and the recovery done by NewEngine.               *)
(*                                                                         *)
(* Two goroutines touch an engine.  "main" is the Kafka consume loop: it   *)
(* calls IndexDocument, and after the context is cancelled FlushAll and    *)
(* then Close.  "loop" is the goroutine of StartFlushLoop.  Both call      *)
(* Flush, which holds no lock from its first line to its last: every lock  *)
(* acquisition of the code is one action here.                             *)
(*                                                                         *)
(* Data abstraction.  A document is a model value with a set of terms;     *)
(* AddDocument and Snapshot run under the index lock, so the map from      *)
(* terms to postings is determined by the set of documents in it.  A       *)
(* segment is its name (a nanosecond timestamp, here a counter) and the    *)
(* documents in it; the list of readers is the set of segments they read,  *)
(* because Search merges, deduplicates and sorts what they return.         *)
(***************************************************************************)
EXTENDS Naturals

CONSTANTS
    Docs,            \* document identifiers
    NoDoc,           \* no document is being indexed
    TermsOf,         \* TermsOf[d]: the distinct terms Tokenize finds in d
    Tokens,          \* Tokens[d]: how many tokens Tokenize finds in d
    Weight,          \* Weight[d]: what AddDocument(d) adds to the size estimate
    SegmentMaxSize,  \* cfg.SegmentMaxSize
    MaxDeliveries,   \* bound: calls of IndexDocument
    MaxFaults,       \* bound: I/O errors of a segment write or open
    MaxRestarts      \* bound: starts of the process after the first

ASSUME ConstantsAssumption ==
    /\ NoDoc \notin Docs
    /\ DOMAIN TermsOf = Docs
    /\ Tokens \in [Docs -> Nat]
    /\ Weight \in [Docs -> Nat]
    /\ \A d \in Docs : /\ Weight[d] = 0 <=> TermsOf[d] = {}
                      /\ Tokens[d] = 0 <=> TermsOf[d] = {}
    /\ SegmentMaxSize \in Nat \ {0}
    /\ MaxDeliveries \in Nat
    /\ MaxFaults \in Nat
    /\ MaxRestarts \in Nat

VARIABLES
    mem,          \* documents with postings in MemoryIndex.index
    size,         \* MemoryIndex.size
    docCount,     \* MemoryIndex.docCount
    docLengths,   \* keys of Engine.docLengths
    totalDocs,    \* Engine.totalDocs
    totalTokens,  \* Engine.totalTokens
    complete,     \* segments whose file has its final .spdx name
    clock,        \* the time that names the next segment
    readers,      \* segments with an open Reader in Engine.readers
    pc,           \* where each goroutine is
    ret,          \* where a goroutine continues when its Flush returns
    doc,          \* the document main is indexing, or NoDoc
    snap,         \* the snapshot a goroutine's Flush is writing
    seg,          \* the segment a goroutine's Flush is writing
    cancelled,    \* the context of signal.NotifyContext is done
    \* history variables and bounds
    added,        \* documents put in memory, less those that died with a process
    exposed,      \* documents put in memory while a Flush was between its
                  \* Snapshot and its Reset
    skipped,      \* segments loadExistingSegments could not open
    faults, restarts, deliveries

memVars  == <<mem, size, docCount>>
statVars == <<docLengths, totalDocs, totalTokens>>
flushVars == <<ret, snap, seg>>
diskVars == <<complete, clock>>
history  == <<added, exposed, skipped>>
bounds   == <<faults, restarts, deliveries>>
vars == <<memVars, statVars, diskVars, readers, pc, doc, flushVars,
          cancelled, history, bounds>>

-----------------------------------------------------------------------------
Threads == {"main", "loop"}

\* The steps of Flush.  From "write" on, a snapshot has been taken and the
\* index is still to be reset.
FlushSteps == {"snapshot", "write", "rename", "open", "append", "reset"}
Window == FlushSteps \ {"snapshot"}

MainSteps == {"consume", "add", "check", "close", "closeReaders", "exit", "down"}
LoopSteps == {"wait", "stopped", "down"}

\* Where the two goroutines are when the process starts.
Started == [t \in Threads |-> IF t = "main" THEN "consume" ELSE "wait"]

Segments == [name : Nat, docs : SUBSET Docs]

NoSegment == [name |-> 0, docs |-> {}]

DocsIn(S) == UNION {s.docs : s \in S}
Durable == DocsIn(complete)

Flushing == {t \in Threads : pc[t] \in Window}
Up == pc["main"] # "down"

\* What the AddDocument of d leaves in the index: a document without terms
\* only moves the counter.
Postings(d) == IF TermsOf[d] = {} THEN {} ELSE {d}

-----------------------------------------------------------------------------
Init ==
    /\ mem = {} /\ size = 0 /\ docCount = 0
    /\ docLengths = {} /\ totalDocs = 0 /\ totalTokens = 0
    /\ complete = {} /\ clock = 0
    /\ readers = {}
    /\ pc = Started
    /\ ret = Started
    /\ doc = NoDoc
    /\ snap = [t \in Threads |-> {}]
    /\ seg = [t \in Threads |-> NoSegment]
    /\ cancelled = FALSE
    /\ added = {} /\ exposed = {} /\ skipped = {}
    /\ faults = 0 /\ restarts = 0 /\ deliveries = 0

-----------------------------------------------------------------------------
(***************************************************************************)
(* IndexDocument, called by the consume loop.                              *)
(***************************************************************************)

\* The statistics, under docLengthsMu.
IndexDocument(d) ==
    /\ pc["main"] = "consume"
    /\ ~cancelled
    /\ deliveries < MaxDeliveries
    /\ docLengths' = docLengths \union {d}
    /\ totalDocs' = totalDocs + 1
    /\ totalTokens' = totalTokens + Tokens[d]
    /\ doc' = d
    /\ pc' = [pc EXCEPT !["main"] = "add"]
    /\ deliveries' = deliveries + 1
    /\ UNCHANGED <<memVars, diskVars, readers, flushVars, cancelled, history,
                   faults, restarts>>

\* MemoryIndex.AddDocument, under the index lock.  Re-adding a document
\* replaces its postings and still moves both counters.
AddDocument ==
    /\ pc["main"] = "add"
    /\ mem' = mem \union Postings(doc)
    /\ size' = size + Weight[doc]
    /\ docCount' = docCount + 1
    /\ added' = added \union Postings(doc)
    /\ exposed' = IF Flushing = {} THEN exposed
                                   ELSE exposed \union Postings(doc)
    /\ pc' = [pc EXCEPT !["main"] = "check"]
    /\ UNCHANGED <<statVars, diskVars, readers, doc, flushVars, cancelled,
                   skipped, bounds>>

\* Mutant of CheckSize: the threshold itself is let through.
CheckSizeAbove ==
    /\ pc["main"] = "check"
    /\ IF size > SegmentMaxSize
         THEN /\ pc' = [pc EXCEPT !["main"] = "snapshot"]
              /\ ret' = [ret EXCEPT !["main"] = "consume"]
         ELSE /\ pc' = [pc EXCEPT !["main"] = "consume"]
              /\ UNCHANGED ret
    /\ doc' = NoDoc
    /\ UNCHANGED <<memVars, statVars, diskVars, readers, snap, seg,
                   cancelled, history, bounds>>

\* The size test that ends IndexDocument, or enters Flush.
CheckSize ==
    /\ pc["main"] = "check"
    /\ IF size >= SegmentMaxSize
         THEN /\ pc' = [pc EXCEPT !["main"] = "snapshot"]
              /\ ret' = [ret EXCEPT !["main"] = "consume"]
         ELSE /\ pc' = [pc EXCEPT !["main"] = "consume"]
              /\ UNCHANGED ret
    /\ doc' = NoDoc
    /\ UNCHANGED <<memVars, statVars, diskVars, readers, snap, seg,
                   cancelled, history, bounds>>

-----------------------------------------------------------------------------
(***************************************************************************)
(* Flush, step by step, by either goroutine.                               *)
(***************************************************************************)

\* Flush's local variables die with the call.
FlushReturn(t) ==
    /\ pc' = [pc EXCEPT ![t] = ret[t]]
    /\ snap' = [snap EXCEPT ![t] = {}]
    /\ seg' = [seg EXCEPT ![t] = NoSegment]
    /\ UNCHANGED ret

\* Snapshot, under the index lock.  An empty one ends the call: nothing is
\* reset, so a counter moved by documents without terms stays up.
Snapshot(t) ==
    /\ pc[t] = "snapshot"
    /\ IF mem = {} THEN FlushReturn(t)
                   ELSE /\ snap' = [snap EXCEPT ![t] = mem]
                        /\ pc' = [pc EXCEPT ![t] = "write"]
                        /\ UNCHANGED <<ret, seg>>
    /\ UNCHANGED <<memVars, statVars, diskVars, readers, doc, cancelled,
                   history, bounds>>

\* Writer.Write up to the Sync: everything goes to a .tmp file that no reader
\* ever opens, named by the time at which the call started.
WriteTmp(t) ==
    /\ pc[t] = "write"
    /\ seg' = [seg EXCEPT ![t] = [name |-> clock, docs |-> snap[t]]]
    /\ clock' = clock + 1
    /\ pc' = [pc EXCEPT ![t] = "rename"]
    /\ UNCHANGED <<memVars, statVars, complete, readers, doc, ret, snap,
                   cancelled, history, bounds>>

\* The os.Rename that makes the segment exist.
Rename(t) ==
    /\ pc[t] = "rename"
    /\ complete' = complete \union {seg[t]}
    /\ pc' = [pc EXCEPT ![t] = "open"]
    /\ UNCHANGED <<memVars, statVars, clock, readers, doc, flushVars,
                   cancelled, history, bounds>>

\* Mutant of OpenReader: the index is reset before the reader is in the list.
OpenReaderResets(t) ==
    /\ pc[t] = "open"
    /\ mem' = {} /\ size' = 0 /\ docCount' = 0
    /\ pc' = [pc EXCEPT ![t] = "append"]
    /\ UNCHANGED <<statVars, diskVars, readers, doc, flushVars, cancelled, history, bounds>>

\* OpenReader on the new segment: the file handle and the dictionary are local
\* to the goroutine until the append.
OpenReader(t) ==
    /\ pc[t] = "open"
    /\ pc' = [pc EXCEPT ![t] = "append"]
    /\ UNCHANGED <<memVars, statVars, diskVars, readers, doc, flushVars,
                   cancelled, history, bounds>>

\* The append to the reader list, under readerMu.
AppendReader(t) ==
    /\ pc[t] = "append"
    /\ readers' = readers \union {seg[t]}
    /\ pc' = [pc EXCEPT ![t] = "reset"]
    /\ UNCHANGED <<memVars, statVars, diskVars, doc, flushVars, cancelled,
                   history, bounds>>

\* MemoryIndex.Reset, under the index lock, and the return of Flush.
Reset(t) ==
    /\ pc[t] = "reset"
    /\ mem' = {} /\ size' = 0 /\ docCount' = 0
    /\ FlushReturn(t)
    /\ UNCHANGED <<statVars, diskVars, readers, doc, cancelled, history,
                   bounds>>

\* Mutant of FlushError: the index is reset on the error path too.
FlushErrorResets(t) ==
    /\ pc[t] \in {"write", "rename", "open"}
    /\ faults < MaxFaults
    /\ faults' = faults + 1
    /\ mem' = {} /\ size' = 0 /\ docCount' = 0
    /\ FlushReturn(t)
    /\ UNCHANGED <<statVars, diskVars, readers, doc, cancelled, history, restarts,
                   deliveries>>

\* An I/O error of the write, the rename or the open: Flush returns it and
\* leaves the index as it is.  Callers only log it, or fail the message.
FlushError(t) ==
    /\ pc[t] \in {"write", "rename", "open"}
    /\ faults < MaxFaults
    /\ faults' = faults + 1
    /\ FlushReturn(t)
    /\ UNCHANGED <<memVars, statVars, diskVars, readers, doc, cancelled,
                   history, restarts, deliveries>>

FlushStep(t) ==
    \/ Snapshot(t) \/ WriteTmp(t) \/ Rename(t) \/ OpenReader(t)
    \/ AppendReader(t) \/ Reset(t)

-----------------------------------------------------------------------------
(***************************************************************************)
(* StartFlushLoop and the shutdown sequence.                               *)
(***************************************************************************)

\* Mutant of Tick: a single document is not worth a flush.
TickSeveral ==
    /\ pc["loop"] = "wait"
    /\ docCount > 1
    /\ pc' = [pc EXCEPT !["loop"] = "snapshot"]
    /\ ret' = [ret EXCEPT !["loop"] = "wait"]
    /\ UNCHANGED <<memVars, statVars, diskVars, readers, doc, snap, seg,
                   cancelled, history, bounds>>

\* A tick flushes only when the index has counted a document.  The select may
\* take the tick even though the context is done as well.
Tick ==
    /\ pc["loop"] = "wait"
    /\ docCount > 0
    /\ pc' = [pc EXCEPT !["loop"] = "snapshot"]
    /\ ret' = [ret EXCEPT !["loop"] = "wait"]
    /\ UNCHANGED <<memVars, statVars, diskVars, readers, doc, snap, seg,
                   cancelled, history, bounds>>

\* SIGINT or SIGTERM cancels the context.
Signal ==
    /\ Up
    /\ ~cancelled
    /\ cancelled' = TRUE
    /\ UNCHANGED <<memVars, statVars, diskVars, readers, pc, doc, flushVars,
                   history, bounds>>

\* The flush loop's last flush.
FinalFlush ==
    /\ pc["loop"] = "wait"
    /\ cancelled
    /\ pc' = [pc EXCEPT !["loop"] = "snapshot"]
    /\ ret' = [ret EXCEPT !["loop"] = "stopped"]
    /\ UNCHANGED <<memVars, statVars, diskVars, readers, doc, snap, seg,
                   cancelled, history, bounds>>

\* Mutant of FlushAll: it waits for documents.
FlushAllNonEmpty ==
    /\ pc["main"] = "consume"
    /\ cancelled
    /\ docCount > 0
    /\ pc' = [pc EXCEPT !["main"] = "snapshot"]
    /\ ret' = [ret EXCEPT !["main"] = "close"]
    /\ UNCHANGED <<memVars, statVars, diskVars, readers, doc, snap, seg,
                   cancelled, history, bounds>>

\* Mutant of FlushAll: main goes to close the readers without a flush.
FlushAllSkipped ==
    /\ pc["main"] = "consume"
    /\ cancelled
    /\ pc' = [pc EXCEPT !["main"] = "closeReaders"]
    /\ UNCHANGED <<memVars, statVars, diskVars, readers, doc, flushVars,
                   cancelled, history, bounds>>

\* The consume loop has returned: router.FlushAll().
FlushAll ==
    /\ pc["main"] = "consume"
    /\ cancelled
    /\ pc' = [pc EXCEPT !["main"] = "snapshot"]
    /\ ret' = [ret EXCEPT !["main"] = "close"]
    /\ UNCHANGED <<memVars, statVars, diskVars, readers, doc, snap, seg,
                   cancelled, history, bounds>>

\* The deferred router.Close(): Engine.Close starts with one more Flush ...
Close ==
    /\ pc["main"] = "close"
    /\ pc' = [pc EXCEPT !["main"] = "snapshot"]
    /\ ret' = [ret EXCEPT !["main"] = "closeReaders"]
    /\ UNCHANGED <<memVars, statVars, diskVars, readers, doc, snap, seg,
                   cancelled, history, bounds>>

\* ... and then closes every reader under readerMu.
CloseReaders ==
    /\ pc["main"] = "closeReaders"
    /\ readers' = {}
    /\ pc' = [pc EXCEPT !["main"] = "exit"]
    /\ UNCHANGED <<memVars, statVars, diskVars, doc, flushVars, cancelled,
                   history, bounds>>

\* The process is gone, and with it whatever its goroutines were doing:
\* documents that are not in a complete segment cease to exist.
ProcessGone ==
    /\ pc' = [t \in Threads |-> "down"]
    /\ mem' = {} /\ size' = 0 /\ docCount' = 0
    /\ docLengths' = {} /\ totalDocs' = 0 /\ totalTokens' = 0
    /\ readers' = {}
    /\ doc' = NoDoc
    /\ snap' = [t \in Threads |-> {}]
    /\ seg' = [t \in Threads |-> NoSegment]
    /\ added' = added \intersect Durable
    /\ exposed' = {}
    /\ skipped' = {}
    /\ UNCHANGED <<diskVars, ret, bounds>>

\* main returns without waiting for the flush loop.
Exit ==
    /\ pc["main"] = "exit"
    /\ ProcessGone
    /\ UNCHANGED cancelled

\* The process is killed.
Crash ==
    /\ Up
    /\ restarts < MaxRestarts
    /\ ProcessGone
    /\ UNCHANGED cancelled

\* NewEngine: an empty index, empty statistics, and a reader for every .spdx
\* file that loadExistingSegments can open.
NewEngine(bad) ==
    /\ ~Up
    /\ restarts < MaxRestarts
    /\ restarts' = restarts + 1
    /\ IF bad = {} THEN UNCHANGED faults
                   ELSE faults < MaxFaults /\ faults' = faults + 1
    /\ readers' = complete \ bad
    /\ skipped' = bad
    /\ pc' = Started
    /\ ret' = Started
    /\ cancelled' = FALSE
    /\ UNCHANGED <<memVars, statVars, diskVars, doc, snap, seg, added, exposed,
                   deliveries>>

-----------------------------------------------------------------------------
Next ==
    \/ \E d \in Docs : IndexDocument(d)
    \/ AddDocument
    \/ CheckSize
    \/ \E t \in Threads : FlushStep(t)
    \/ \E t \in Threads : FlushError(t)
    \/ Tick
    \/ Signal
    \/ FinalFlush
    \/ FlushAll
    \/ Close
    \/ CloseReaders
    \/ Exit
    \/ Crash
    \/ \E bad \in SUBSET complete : NewEngine(bad)

\* Goroutines keep running, the ticker keeps ticking, and a step that may
\* fail succeeds when it does not.  Nothing forces a message to arrive, a
\* signal, a crash or a restart.
Fairness ==
    /\ WF_vars(AddDocument)
    /\ WF_vars(CheckSize)
    /\ \A t \in Threads : WF_vars(FlushStep(t))
    /\ WF_vars(Tick)
    /\ WF_vars(FinalFlush)
    /\ WF_vars(FlushAll)
    /\ WF_vars(Close)
    /\ WF_vars(CloseReaders)
    /\ WF_vars(Exit)

Spec == Init /\ [][Next]_vars /\ Fairness

-----------------------------------------------------------------------------
(***************************************************************************)
(* Properties.                                                             *)
(***************************************************************************)

\* Every variable keeps the shape the code's declarations give it, and a
\* goroutine is only ever at a step of the code it runs.
TypeOK ==
    /\ mem \in SUBSET Docs
    /\ size \in Nat
    /\ docCount \in Nat
    /\ docLengths \in SUBSET Docs
    /\ totalDocs \in Nat
    /\ totalTokens \in Nat
    /\ complete \in SUBSET Segments
    /\ clock \in Nat
    /\ readers \in SUBSET Segments
    /\ pc \in [Threads -> FlushSteps \union MainSteps \union LoopSteps]
    /\ pc["main"] \in FlushSteps \union MainSteps
    /\ pc["loop"] \in FlushSteps \union LoopSteps
    /\ ret \in [Threads -> MainSteps \union LoopSteps]
    /\ ret["main"] \in {"consume", "close", "closeReaders"}
    /\ ret["loop"] \in {"wait", "stopped"}
    /\ doc \in Docs \union {NoDoc}
    /\ pc["main"] = "add" => doc \in Docs
    /\ snap \in [Threads -> SUBSET Docs]
    /\ seg \in [Threads -> Segments]
    /\ cancelled \in BOOLEAN
    /\ added \in SUBSET Docs
    /\ exposed \in SUBSET Docs
    /\ skipped \in SUBSET Segments
    /\ faults \in Nat
    /\ restarts \in Nat
    /\ deliveries \in Nat

\* A document that was put in memory is still in memory or in a complete
\* segment, unless it arrived between some Flush's Snapshot and its Reset:
\* whatever I/O errors, double flushes, shutdowns and restarts happen, that
\* window is the only way the running process loses a document.
LossOnlyInWindow == added \subseteq mem \union Durable \union exposed

\* There is no moment, from the return of AddDocument to the first line of
\* CloseReaders, at which a document outside that window cannot be found: the
\* reader is appended before the index is reset, and by a goroutine whose
\* snapshot covered what the reset throws away.
AlwaysSearchable ==
    pc["main"] \notin {"exit", "down"} =>
        added \ exposed \subseteq mem \union DocsIn(readers \union skipped)

\* When IndexDocument returns, the buffer is below the threshold, unless a
\* flush has failed: two flushes racing on it never leave it above.
BufferBounded ==
    (faults = 0 /\ pc["main"] = "consume") => size < SegmentMaxSize

\* After a shutdown that met no I/O error nothing that was outside the flush
\* window is missing from the segments, although main does not wait for the
\* flush loop and both flush the same index.
CleanExitDurable ==
    (faults = 0 /\ pc["main"] = "exit") => added \ exposed \subseteq Durable

\* The background loop (or a size flush, or the end of the process) always
\* gets a buffered document out of memory.
BufferDrains == \A d \in Docs : d \in mem ~> d \notin mem

\* After a signal the process ends: the final flushes of main and of the loop
\* cannot block each other.
ShutdownCompletes == cancelled ~> ~Up
=============================================================================
