---------------------------- MODULE EngineProofs ----------------------------
(***************************************************************************)
(* Proofs about Engine, for every set of documents, every threshold and    *)
(* every bound.                                                            *)
(***************************************************************************)
EXTENDS EngineRefinement, TLAPS

\* What a Flush between Snapshot and Reset knows: its snapshot covers the
\* index up to the documents that arrived since, the segment it writes holds
\* the snapshot, and the segment is complete, then loaded, before the reset.
FlushInv ==
    \A t \in Threads :
        /\ pc[t] \in Window => mem \subseteq snap[t] \union exposed
        /\ pc[t] \in {"rename", "open", "append", "reset"} => seg[t].docs = snap[t]
        /\ pc[t] \in {"open", "append", "reset"} => seg[t] \in complete
        /\ (pc[t] = "reset" /\ pc["main"] # "exit") => seg[t] \in readers

\* Readers are on complete segments; a process that is down holds nothing.
DiskInv ==
    /\ readers \subseteq complete
    /\ skipped \subseteq complete
    /\ pc["loop"] = "down" <=> pc["main"] = "down"
    /\ pc["main"] = "down" => mem = {} /\ exposed = {}

LossInv == TypeOK /\ FlushInv /\ DiskInv /\ LossOnlyInWindow /\ AlwaysSearchable

-----------------------------------------------------------------------------
\* Where the goroutines start is a step of each one's own code.
LEMMA StartedType ==
    /\ Started \in [Threads -> MainSteps \union LoopSteps]
    /\ Started["main"] = "consume"
    /\ Started["loop"] = "wait"
<1>1. \A t \in Threads : (IF t = "main" THEN "consume" ELSE "wait") \in MainSteps \union LoopSteps
  BY DEF MainSteps, LoopSteps
<1> QED BY <1>1 DEF Started, Threads

\* The initial state is type correct.
LEMMA TypeInit == Init => TypeOK
<1> SUFFICES ASSUME Init PROVE TypeOK
  OBVIOUS
<1>1. NoSegment \in Segments
  BY DEF NoSegment, Segments
<1>2. pc \in [Threads -> FlushSteps \union MainSteps \union LoopSteps]
  BY StartedType DEF Init
<1> QED
  BY StartedType, <1>1, <1>2 DEF Init, TypeOK, FlushSteps, MainSteps, LoopSteps, Threads

\* Every step of the code keeps every variable in its type.
LEMMA TypeNext == TypeOK /\ [Next]_vars => TypeOK'
<1> SUFFICES ASSUME TypeOK, [Next]_vars PROVE TypeOK'
  OBVIOUS
<1> USE ConstantsAssumption DEF TypeOK, Threads, FlushSteps, MainSteps, LoopSteps,
        Segments, NoSegment, memVars, statVars, flushVars, diskVars, history, bounds
<1>1. ASSUME NEW d \in Docs, IndexDocument(d) PROVE TypeOK'
  BY <1>1 DEF IndexDocument
<1>2. CASE AddDocument
  BY <1>2 DEF AddDocument, Postings, Flushing
<1>3. CASE CheckSize
  BY <1>3 DEF CheckSize
<1>4. ASSUME NEW t \in Threads, FlushStep(t) PROVE TypeOK'
  <2>1. CASE Snapshot(t)
    BY <2>1 DEF Snapshot, FlushReturn
  <2>2. CASE WriteTmp(t)
    BY <2>2 DEF WriteTmp
  <2>3. CASE Rename(t)
    BY <2>3 DEF Rename
  <2>4. CASE OpenReader(t)
    BY <2>4 DEF OpenReader
  <2>5. CASE AppendReader(t)
    BY <2>5 DEF AppendReader
  <2>6. CASE Reset(t)
    BY <2>6 DEF Reset, FlushReturn
  <2> QED
    BY <1>4, <2>1, <2>2, <2>3, <2>4, <2>5, <2>6 DEF FlushStep
<1>5. ASSUME NEW t \in Threads, FlushError(t) PROVE TypeOK'
  BY <1>5 DEF FlushError, FlushReturn
<1>6. CASE Tick
  BY <1>6 DEF Tick
<1>7. CASE Signal
  BY <1>7 DEF Signal
<1>8. CASE FinalFlush
  BY <1>8 DEF FinalFlush
<1>9. CASE FlushAll
  BY <1>9 DEF FlushAll
<1>10. CASE Close
  BY <1>10 DEF Close
<1>11. CASE CloseReaders
  BY <1>11 DEF CloseReaders
<1>12. CASE Exit
  BY <1>12 DEF Exit, ProcessGone
<1>13. CASE Crash
  BY <1>13 DEF Crash, ProcessGone
<1>14. ASSUME NEW bad \in SUBSET complete, NewEngine(bad) PROVE TypeOK'
  <2>1. pc' \in [Threads -> FlushSteps \union MainSteps \union LoopSteps]
    BY <1>14, StartedType DEF NewEngine
  <2>2. cancelled' \in BOOLEAN
    BY <1>14, Zenon DEF NewEngine
  <2> QED
    BY <1>14, <2>1, <2>2, StartedType DEF NewEngine
<1>15. CASE UNCHANGED vars
  BY <1>15 DEF vars
<1> QED
  BY <1>1, <1>2, <1>3, <1>4, <1>5, <1>6, <1>7, <1>8, <1>9, <1>10, <1>11, <1>12,
     <1>13, <1>14, <1>15 DEF Next

\* Every variable of the engine always has its type, in every run of the
\* indexer process with any number of crashes and restarts.
THEOREM TypeCorrect == Spec => []TypeOK
<1> QED BY TypeInit, TypeNext, PTL DEF Spec

-----------------------------------------------------------------------------
\* The documents of more segments are more documents, and those of one segment
\* are among them.
LEMMA DocsInFacts ==
    ASSUME NEW A, NEW B
    PROVE  /\ A \subseteq B => DocsIn(A) \subseteq DocsIn(B)
           /\ \A s \in A : s.docs \subseteq DocsIn(A)
  BY DEF DocsIn

\* The invariant holds of a process that has just started on an empty directory.
LEMMA LossInit == Init => LossInv
<1> SUFFICES ASSUME Init PROVE LossInv
  OBVIOUS
<1>1. TypeOK
  BY TypeInit
<1>2. pc["main"] = "consume" /\ pc["loop"] = "wait"
  BY StartedType DEF Init
<1>3. FlushInv
  BY <1>2 DEF FlushInv, Threads, Window, FlushSteps
<1>4. DiskInv
  BY <1>2 DEF Init, DiskInv
<1>5. LossOnlyInWindow /\ AlwaysSearchable
  BY DEF Init, LossOnlyInWindow, AlwaysSearchable
<1> QED
  BY <1>1, <1>3, <1>4, <1>5 DEF LossInv

\* A step that only moves goroutine t between points outside the window keeps
\* the invariant.
LEMMA ControlStep ==
    ASSUME TypeOK, FlushInv, DiskInv, LossOnlyInWindow, AlwaysSearchable,
           NEW t \in Threads, NEW to,
           pc[t] \notin Window \union {"exit", "down"},
           to \notin Window \union {"exit", "down"},
           pc' = [pc EXCEPT ![t] = to],
           UNCHANGED <<mem, complete, readers, snap, seg, added, exposed, skipped>>
    PROVE  FlushInv' /\ DiskInv' /\ LossOnlyInWindow' /\ AlwaysSearchable'
<1>1. FlushInv'
  BY DEF FlushInv, TypeOK, Threads, Window, FlushSteps
<1>2. DiskInv'
  BY DEF DiskInv, TypeOK, Threads
<1>3. LossOnlyInWindow' /\ AlwaysSearchable'
  BY DEF LossOnlyInWindow, AlwaysSearchable, Durable, TypeOK, Threads
<1> QED BY <1>1, <1>2, <1>3

\* Ending a Flush without touching the index keeps it too.
LEMMA ReturnStep ==
    ASSUME TypeOK, FlushInv, DiskInv, LossOnlyInWindow, AlwaysSearchable,
           NEW t \in Threads,
           pc[t] \in FlushSteps,
           FlushReturn(t),
           UNCHANGED <<mem, complete, readers, added, exposed, skipped>>
    PROVE  FlushInv' /\ DiskInv' /\ LossOnlyInWindow' /\ AlwaysSearchable'
<1>1. ret[t] \notin Window \union {"exit", "down"}
  BY DEF TypeOK, Threads, Window, FlushSteps
<1>2. FlushInv'
  BY <1>1 DEF FlushReturn, FlushInv, TypeOK, Threads, Window, FlushSteps
<1>3. DiskInv'
  BY <1>1 DEF FlushReturn, DiskInv, TypeOK, Threads, FlushSteps
<1>4. LossOnlyInWindow' /\ AlwaysSearchable'
  BY <1>1 DEF FlushReturn, LossOnlyInWindow, AlwaysSearchable, Durable, TypeOK, Threads,
              FlushSteps
<1> QED BY <1>2, <1>3, <1>4

\* No step loses a document outside the window.
LEMMA LossNext == LossInv /\ [Next]_vars => LossInv'
<1> SUFFICES ASSUME LossInv, [Next]_vars PROVE LossInv'
  OBVIOUS
<1>0. TypeOK /\ TypeOK' /\ FlushInv /\ DiskInv /\ LossOnlyInWindow /\ AlwaysSearchable
  BY TypeNext DEF LossInv
<1> DEFINE Goal == FlushInv' /\ DiskInv' /\ LossOnlyInWindow' /\ AlwaysSearchable'
<1>a. SUFFICES Goal
  BY <1>0 DEF LossInv
<1> USE <1>0 DEF memVars, statVars, flushVars, diskVars, history, bounds
<1>1. ASSUME NEW d \in Docs, IndexDocument(d) PROVE Goal
  BY <1>1, ControlStep DEF IndexDocument, Threads, Window, FlushSteps
<1>2. ASSUME AddDocument PROVE Goal
  <2>1. \A t \in Threads : pc'[t] \in Window => pc[t] \in Window /\ Flushing # {}
    BY <1>2 DEF AddDocument, Flushing, TypeOK, Threads, Window, FlushSteps
  <2>2. FlushInv'
    BY <1>2, <2>1 DEF AddDocument, FlushInv, TypeOK, Threads, Window, FlushSteps
  <2>3. DiskInv'
    BY <1>2 DEF AddDocument, DiskInv, TypeOK, Threads
  <2>4. LossOnlyInWindow' /\ AlwaysSearchable'
    BY <1>2 DEF AddDocument, LossOnlyInWindow, AlwaysSearchable, Durable
  <2> QED BY <2>2, <2>3, <2>4
<1>3. ASSUME CheckSize PROVE Goal
  <2>1. CASE size >= SegmentMaxSize
    BY <1>3, <2>1, ControlStep DEF CheckSize, Threads, Window, FlushSteps
  <2>2. CASE ~(size >= SegmentMaxSize)
    BY <1>3, <2>2, ControlStep DEF CheckSize, Threads, Window, FlushSteps
  <2> QED BY <2>1, <2>2
<1>4. ASSUME NEW t \in Threads, Snapshot(t) PROVE Goal
  <2>1. CASE mem = {}
    BY <1>4, <2>1, ReturnStep DEF Snapshot, FlushSteps
  <2>2. CASE mem # {}
    <3>1. FlushInv'
      BY <1>4, <2>2 DEF Snapshot, FlushInv, TypeOK, Threads, Window, FlushSteps
    <3>2. DiskInv'
      BY <1>4, <2>2 DEF Snapshot, DiskInv, TypeOK, Threads
    <3>3. LossOnlyInWindow' /\ AlwaysSearchable'
      BY <1>4, <2>2 DEF Snapshot, LossOnlyInWindow, AlwaysSearchable, Durable, TypeOK, Threads
    <3> QED BY <3>1, <3>2, <3>3
  <2> QED BY <2>1, <2>2
<1>5. ASSUME NEW t \in Threads, WriteTmp(t) PROVE Goal
  <2>1. FlushInv'
    BY <1>5 DEF WriteTmp, FlushInv, TypeOK, Threads, Window, FlushSteps
  <2>2. DiskInv'
    BY <1>5 DEF WriteTmp, DiskInv, TypeOK, Threads
  <2>3. LossOnlyInWindow' /\ AlwaysSearchable'
    BY <1>5 DEF WriteTmp, LossOnlyInWindow, AlwaysSearchable, Durable, TypeOK, Threads
  <2> QED BY <2>1, <2>2, <2>3
<1>6. ASSUME NEW t \in Threads, Rename(t) PROVE Goal
  <2>1. FlushInv'
    BY <1>6 DEF Rename, FlushInv, TypeOK, Threads, Window, FlushSteps
  <2>2. DiskInv'
    BY <1>6 DEF Rename, DiskInv, TypeOK, Threads
  <2>3. complete \subseteq complete'
    BY <1>6 DEF Rename
  <2>4. LossOnlyInWindow'
    BY <1>6, <2>3, DocsInFacts DEF Rename, LossOnlyInWindow, Durable
  <2>5. AlwaysSearchable'
    BY <1>6 DEF Rename, AlwaysSearchable, TypeOK, Threads
  <2> QED BY <2>1, <2>2, <2>4, <2>5
<1>7. ASSUME NEW t \in Threads, OpenReader(t) PROVE Goal
  <2>1. FlushInv'
    BY <1>7 DEF OpenReader, FlushInv, TypeOK, Threads, Window, FlushSteps
  <2>2. DiskInv'
    BY <1>7 DEF OpenReader, DiskInv, TypeOK, Threads
  <2>3. LossOnlyInWindow' /\ AlwaysSearchable'
    BY <1>7 DEF OpenReader, LossOnlyInWindow, AlwaysSearchable, Durable, TypeOK, Threads
  <2> QED BY <2>1, <2>2, <2>3
<1>8. ASSUME NEW t \in Threads, AppendReader(t) PROVE Goal
  <2>1. FlushInv'
    BY <1>8 DEF AppendReader, FlushInv, TypeOK, Threads, Window, FlushSteps
  <2>2. DiskInv'
    BY <1>8 DEF AppendReader, DiskInv, FlushInv, TypeOK, Threads
  <2>3. DocsIn(readers \union skipped) \subseteq DocsIn(readers' \union skipped')
    BY <1>8, DocsInFacts DEF AppendReader
  <2>4. LossOnlyInWindow'
    BY <1>8 DEF AppendReader, LossOnlyInWindow, Durable
  <2>5. AlwaysSearchable'
    BY <1>8, <2>3 DEF AppendReader, AlwaysSearchable, TypeOK, Threads
  <2> QED BY <2>1, <2>2, <2>4, <2>5
<1>9. ASSUME NEW t \in Threads, Reset(t) PROVE Goal
  <2>0. ret[t] \notin Window \union {"exit", "down"}
    BY DEF TypeOK, Threads, Window, FlushSteps
  <2>1. FlushInv'
    BY <1>9, <2>0 DEF Reset, FlushReturn, FlushInv, TypeOK, Threads, Window, FlushSteps
  <2>2. DiskInv'
    BY <1>9, <2>0 DEF Reset, FlushReturn, DiskInv, TypeOK, Threads
  <2>3. mem \subseteq seg[t].docs \union exposed /\ seg[t] \in complete
    BY <1>9 DEF Reset, FlushInv, Window, FlushSteps
  <2>4. LossOnlyInWindow'
    <3>1. seg[t].docs \subseteq Durable
      BY <2>3, DocsInFacts DEF Durable
    <3>2. added \subseteq mem \union Durable \union exposed
      BY DEF LossOnlyInWindow
    <3>3. UNCHANGED <<added, complete, exposed>>
      BY <1>9 DEF Reset
    <3> QED BY <2>3, <3>1, <3>2, <3>3 DEF LossOnlyInWindow, Durable
  <2>5. AlwaysSearchable'
    <3>1. SUFFICES ASSUME pc'["main"] \notin {"exit", "down"}
                   PROVE  (added \ exposed \subseteq DocsIn(readers \union skipped))
      BY <1>9 DEF Reset, AlwaysSearchable
    <3>2. pc["main"] \notin {"exit", "down"}
      BY <1>9, <3>1 DEF Reset, FlushReturn, TypeOK, Threads
    <3>3. seg[t] \in readers
      BY <1>9, <3>2 DEF Reset, FlushInv
    <3>4. seg[t].docs \subseteq DocsIn(readers \union skipped)
      BY <3>3, DocsInFacts
    <3>5. added \ exposed \subseteq mem \union DocsIn(readers \union skipped)
      BY <3>2 DEF AlwaysSearchable
    <3> QED BY <2>3, <3>4, <3>5
  <2> QED BY <2>1, <2>2, <2>4, <2>5
<1>10. ASSUME NEW t \in Threads, FlushError(t) PROVE Goal
  BY <1>10, ReturnStep DEF FlushError, FlushSteps
<1>11. ASSUME Tick PROVE Goal
  BY <1>11, ControlStep DEF Tick, Threads, Window, FlushSteps
<1>12. ASSUME Signal PROVE Goal
  BY <1>12 DEF Signal, FlushInv, DiskInv, LossOnlyInWindow, AlwaysSearchable, Durable
<1>13. ASSUME FinalFlush PROVE Goal
  BY <1>13, ControlStep DEF FinalFlush, Threads, Window, FlushSteps
<1>14. ASSUME FlushAll PROVE Goal
  BY <1>14, ControlStep DEF FlushAll, Threads, Window, FlushSteps
<1>15. ASSUME Close PROVE Goal
  BY <1>15, ControlStep DEF Close, Threads, Window, FlushSteps
<1>16. ASSUME CloseReaders PROVE Goal
  <2>1. FlushInv'
    BY <1>16 DEF CloseReaders, FlushInv, TypeOK, Threads, Window, FlushSteps
  <2>2. DiskInv'
    BY <1>16 DEF CloseReaders, DiskInv, TypeOK, Threads
  <2>3. LossOnlyInWindow' /\ AlwaysSearchable'
    BY <1>16 DEF CloseReaders, LossOnlyInWindow, AlwaysSearchable, Durable, TypeOK, Threads
  <2> QED BY <2>1, <2>2, <2>3
<1>17. ASSUME ProcessGone PROVE Goal
  BY <1>17 DEF ProcessGone, FlushInv, DiskInv, LossOnlyInWindow, AlwaysSearchable, Durable,
               Threads, Window, FlushSteps
<1>18. ASSUME NEW bad \in SUBSET complete, NewEngine(bad) PROVE Goal
  <2>1. pc'["main"] = "consume" /\ pc'["loop"] = "wait"
    BY <1>18, StartedType DEF NewEngine
  <2>2. FlushInv'
    BY <2>1 DEF FlushInv, Threads, Window, FlushSteps
  <2>3. DiskInv'
    BY <1>18, <2>1 DEF NewEngine, DiskInv
  <2>4. LossOnlyInWindow'
    BY <1>18 DEF NewEngine, LossOnlyInWindow, Durable
  <2>5. AlwaysSearchable'
    <3>1. mem = {} /\ exposed = {}
      BY <1>18 DEF NewEngine, Up, DiskInv
    <3>2. readers' \union skipped' = complete
      BY <1>18 DEF NewEngine
    <3>3. UNCHANGED <<added, exposed, mem>>
      BY <1>18 DEF NewEngine
    <3> QED BY <3>1, <3>2, <3>3 DEF AlwaysSearchable, LossOnlyInWindow, Durable
  <2> QED BY <2>2, <2>3, <2>4, <2>5
<1>19. ASSUME UNCHANGED vars PROVE Goal
  BY <1>19 DEF vars, FlushInv, DiskInv, LossOnlyInWindow, AlwaysSearchable, Durable
<1> QED
  BY <1>1, <1>2, <1>3, <1>4, <1>5, <1>6, <1>7, <1>8, <1>9, <1>10, <1>11, <1>12, <1>13,
     <1>14, <1>15, <1>16, <1>17, <1>18, <1>19 DEF Next, FlushStep, Exit, Crash

\* The window between a Flush's Snapshot and its Reset is the only way a
\* running engine loses a document, for any number of documents, deliveries,
\* I/O errors, concurrent flushes, shutdowns, crashes and restarts.
THEOREM LossOnlyInWindowHolds == Spec => []LossOnlyInWindow
<1>1. LossInv => LossOnlyInWindow
  BY DEF LossInv
<1> QED BY LossInit, LossNext, <1>1, PTL DEF Spec

\* A document outside that window can be found at every moment until Close
\* drops the readers.
THEOREM AlwaysSearchableHolds == Spec => []AlwaysSearchable
<1>1. LossInv => AlwaysSearchable
  BY DEF LossInv
<1> QED BY LossInit, LossNext, <1>1, PTL DEF Spec

-----------------------------------------------------------------------------
\* The size estimate is of what is in memory, and without an I/O error main has
\* emptied the index when it comes to close the readers.
SizeInv ==
    /\ mem = {} => size = 0
    /\ (faults = 0 /\ pc["main"] \in {"closeReaders", "exit"}) => mem = {}
    /\ BufferBounded

\* A flush of either goroutine leaves main below the threshold.
LEMMA SizeNext == LossInv /\ SizeInv /\ [Next]_vars => SizeInv'
<1> SUFFICES ASSUME LossInv, SizeInv, [Next]_vars PROVE SizeInv'
  OBVIOUS
<1>0. TypeOK /\ DiskInv
  BY DEF LossInv
<1> USE <1>0, ConstantsAssumption DEF memVars, statVars, flushVars, diskVars, history, bounds
<1>1. ASSUME pc'["main"] = "consume" => size < SegmentMaxSize,
             pc'["main"] \notin {"closeReaders", "exit"},
             UNCHANGED <<mem, size, faults>>
      PROVE  SizeInv'
  BY <1>1 DEF SizeInv, BufferBounded
<1>2. ASSUME UNCHANGED <<mem, size, faults>>, pc'["main"] = pc["main"] PROVE SizeInv'
  BY <1>2 DEF SizeInv, BufferBounded
<1>3. ASSUME mem' = {}, size' = 0 PROVE SizeInv'
  BY <1>3 DEF SizeInv, BufferBounded
<1>4. ASSUME NEW d \in Docs, IndexDocument(d) PROVE SizeInv'
  <2>1. UNCHANGED <<mem, size, faults>> /\ pc'["main"] = "add"
    BY <1>4 DEF IndexDocument, TypeOK, Threads
  <2> QED BY <1>1, <2>1
<1>5. CASE AddDocument
  <2>1. /\ mem' = mem \union Postings(doc) /\ size' = size + Weight[doc]
        /\ pc'["main"] = "check" /\ doc \in Docs
    BY <1>5 DEF AddDocument, TypeOK, Threads
  <2>2. mem' = {} => size' = 0
    BY <2>1 DEF SizeInv, Postings
  <2> QED BY <2>1, <2>2 DEF SizeInv, BufferBounded
<1>6. CASE CheckSize
  <2>1. CASE size >= SegmentMaxSize
    <3>1. UNCHANGED <<mem, size, faults>> /\ pc'["main"] = "snapshot"
      BY <1>6, <2>1 DEF CheckSize, TypeOK, Threads
    <3> QED BY <1>1, <3>1
  <2>2. CASE ~(size >= SegmentMaxSize)
    <3>1. UNCHANGED <<mem, size, faults>> /\ pc'["main"] = "consume"
      BY <1>6, <2>2 DEF CheckSize, TypeOK, Threads
    <3>2. size < SegmentMaxSize
      BY <2>2 DEF TypeOK
    <3> QED BY <1>1, <3>1, <3>2
  <2> QED BY <2>1, <2>2
<1>7. ASSUME NEW t \in Threads, Snapshot(t) PROVE SizeInv'
  <2>1. CASE mem = {}
    BY <1>3, <1>7, <2>1 DEF Snapshot, SizeInv
  <2>2. CASE mem # {}
    <3>1. UNCHANGED <<mem, size, faults>> /\ pc' = [pc EXCEPT ![t] = "write"]
      BY <1>7, <2>2 DEF Snapshot
    <3>2. pc'["main"] \in {"write", pc["main"]}
      BY <3>1 DEF TypeOK, Threads
    <3> QED BY <1>1, <1>2, <3>1, <3>2
  <2> QED BY <2>1, <2>2
<1>8. ASSUME NEW t \in Threads, WriteTmp(t) \/ Rename(t) \/ OpenReader(t) \/ AppendReader(t)
      PROVE  SizeInv'
  <2>1. /\ UNCHANGED <<mem, size, faults>>
        /\ pc'["main"] \in {"rename", "open", "append", "reset", pc["main"]}
    BY <1>8 DEF WriteTmp, Rename, OpenReader, AppendReader, TypeOK, Threads
  <2> QED BY <1>1, <1>2, <2>1
<1>9. ASSUME NEW t \in Threads, Reset(t) PROVE SizeInv'
  BY <1>3, <1>9 DEF Reset
<1>10. ASSUME NEW t \in Threads, FlushError(t) PROVE SizeInv'
  <2>1. UNCHANGED <<mem, size>> /\ faults' > 0
    BY <1>10 DEF FlushError, TypeOK
  <2> QED BY <2>1 DEF SizeInv, BufferBounded
<1>11. CASE Tick \/ FinalFlush \/ Signal
  <2>1. UNCHANGED <<mem, size, faults>> /\ pc'["main"] = pc["main"]
    BY <1>11 DEF Tick, FinalFlush, Signal, TypeOK, Threads
  <2> QED BY <1>2, <2>1
<1>12. CASE FlushAll \/ Close
  <2>1. UNCHANGED <<mem, size, faults>> /\ pc'["main"] = "snapshot"
    BY <1>12 DEF FlushAll, Close, TypeOK, Threads
  <2> QED BY <1>1, <2>1
<1>13. CASE CloseReaders
  <2>1. /\ UNCHANGED <<mem, size, faults>>
        /\ pc["main"] = "closeReaders" /\ pc'["main"] = "exit"
    BY <1>13 DEF CloseReaders, TypeOK, Threads
  <2> QED BY <2>1 DEF SizeInv, BufferBounded
<1>14. CASE ProcessGone
  BY <1>3, <1>14 DEF ProcessGone
<1>15. ASSUME NEW bad \in SUBSET complete, NewEngine(bad) PROVE SizeInv'
  <2>1. UNCHANGED <<mem, size>> /\ mem = {}
    BY <1>15 DEF NewEngine, Up, DiskInv
  <2> QED BY <1>3, <2>1 DEF SizeInv
<1>16. CASE UNCHANGED vars
  BY <1>2, <1>16 DEF vars
<1> QED
  BY <1>4, <1>5, <1>6, <1>7, <1>8, <1>9, <1>10, <1>11, <1>12, <1>13, <1>14, <1>15, <1>16
     DEF Next, FlushStep, Exit, Crash

LEMMA SizeInit == Init => SizeInv
<1> SUFFICES ASSUME Init PROVE SizeInv
  OBVIOUS
<1>1. mem = {} /\ size = 0
  BY DEF Init
<1> QED BY <1>1, ConstantsAssumption DEF SizeInv, BufferBounded

\* Without an I/O error main never leaves IndexDocument with a buffer at the
\* threshold, whatever the flush loop does at the same time.
THEOREM BufferIsBounded == Spec => []BufferBounded
<1>1. Init => LossInv /\ SizeInv
  BY LossInit, SizeInit
<1>2. LossInv /\ SizeInv /\ [Next]_vars => (LossInv /\ SizeInv)'
  BY LossNext, SizeNext
<1>3. SizeInv => BufferBounded
  BY DEF SizeInv
<1> QED BY <1>1, <1>2, <1>3, PTL DEF Spec

\* A shutdown without an I/O error leaves nothing behind but what the flush window
\* may lose, although main does not wait for the flush loop.
THEOREM CleanExitIsDurable == Spec => []CleanExitDurable
<1>1. Init => LossInv /\ SizeInv
  BY LossInit, SizeInit
<1>2. LossInv /\ SizeInv /\ [Next]_vars => (LossInv /\ SizeInv)'
  BY LossNext, SizeNext
<1>3. LossInv /\ SizeInv => CleanExitDurable
  BY DEF LossInv, LossOnlyInWindow, SizeInv, CleanExitDurable
<1> QED BY <1>1, <1>2, <1>3, PTL DEF Spec

-----------------------------------------------------------------------------
\* Everything a Flush is about to write is in memory, stored, or arrived in the
\* window of the other Flush, which may have reset the index since.
SnapKnown ==
    \A t \in Threads : pc[t] \in Window => snap[t] \subseteq mem \union Durable \union exposed

RefInv == LossInv /\ SnapKnown

\* No step of the engine makes a snapshot in flight hold an unknown document.
LEMMA RefNext == RefInv /\ [Next]_vars => RefInv'
<1> SUFFICES ASSUME RefInv, [Next]_vars PROVE SnapKnown'
  BY LossNext DEF RefInv
<1>0. TypeOK /\ FlushInv /\ SnapKnown
  BY DEF RefInv, LossInv
<1> USE <1>0 DEF memVars, statVars, flushVars, diskVars, history, bounds
<1>1. ASSUME NEW d \in Docs, IndexDocument(d) PROVE SnapKnown'
  BY <1>1 DEF IndexDocument, SnapKnown, TypeOK, Threads, Window, FlushSteps, Durable
<1>2. ASSUME AddDocument PROVE SnapKnown'
  BY <1>2 DEF AddDocument, SnapKnown, TypeOK, Threads, Window, FlushSteps, Durable
<1>3. ASSUME CheckSize PROVE SnapKnown'
  <2>1. \A t \in Threads : pc'[t] \in Window => pc[t] \in Window
    BY <1>3 DEF CheckSize, TypeOK, Threads, Window, FlushSteps
  <2> QED BY <1>3, <2>1 DEF CheckSize, SnapKnown, Durable
<1>4. ASSUME NEW t \in Threads, Snapshot(t) PROVE SnapKnown'
  <2>1. ret[t] \notin Window
    BY DEF TypeOK, Threads, Window, FlushSteps
  <2>2. UNCHANGED <<mem, complete, exposed>>
    BY <1>4 DEF Snapshot
  <2>3. \A u \in Threads : pc'[u] \in Window =>
              (pc[u] \in Window /\ snap'[u] = snap[u]) \/ snap'[u] = mem
    BY <1>4, <2>1 DEF Snapshot, FlushReturn, TypeOK, Threads
  <2> QED BY <2>2, <2>3 DEF SnapKnown, Durable
<1>5. ASSUME NEW t \in Threads, WriteTmp(t) \/ OpenReader(t) \/ AppendReader(t) PROVE SnapKnown'
  <2>1. UNCHANGED <<mem, complete, exposed, snap>>
    BY <1>5 DEF WriteTmp, OpenReader, AppendReader
  <2>2. \A u \in Threads : pc'[u] \in Window => pc[u] \in Window
    BY <1>5 DEF WriteTmp, OpenReader, AppendReader, TypeOK, Threads, Window, FlushSteps
  <2> QED BY <2>1, <2>2 DEF SnapKnown, Durable
<1>6. ASSUME NEW t \in Threads, Rename(t) PROVE SnapKnown'
  <2>1. UNCHANGED <<mem, exposed, snap>> /\ complete \subseteq complete'
    BY <1>6 DEF Rename
  <2>2. Durable \subseteq Durable'
    BY <2>1, DocsInFacts DEF Durable
  <2>3. \A u \in Threads : pc'[u] \in Window => pc[u] \in Window
    BY <1>6 DEF Rename, TypeOK, Threads, Window, FlushSteps
  <2> QED BY <2>1, <2>2, <2>3 DEF SnapKnown
<1>7. ASSUME NEW t \in Threads, Reset(t) PROVE SnapKnown'
  <2>1. ret[t] \notin Window
    BY DEF TypeOK, Threads, Window, FlushSteps
  <2>2. mem \subseteq Durable \union exposed
    <3>1. mem \subseteq seg[t].docs \union exposed /\ seg[t] \in complete
      BY <1>7 DEF Reset, FlushInv, Window, FlushSteps
    <3> QED BY <3>1, DocsInFacts DEF Durable
  <2>3. UNCHANGED <<complete, exposed>>
    BY <1>7 DEF Reset
  <2>4. \A u \in Threads : pc'[u] \in Window => pc[u] \in Window /\ snap'[u] = snap[u]
    BY <1>7, <2>1 DEF Reset, FlushReturn, TypeOK, Threads
  <2> QED BY <2>2, <2>3, <2>4 DEF SnapKnown, Durable
<1>8. ASSUME NEW t \in Threads, FlushError(t) PROVE SnapKnown'
  <2>1. ret[t] \notin Window
    BY DEF TypeOK, Threads, Window, FlushSteps
  <2>2. UNCHANGED <<mem, complete, exposed>>
    BY <1>8 DEF FlushError
  <2>3. \A u \in Threads : pc'[u] \in Window => pc[u] \in Window /\ snap'[u] = snap[u]
    BY <1>8, <2>1 DEF FlushError, FlushReturn, TypeOK, Threads
  <2> QED BY <2>2, <2>3 DEF SnapKnown, Durable
<1>9. ASSUME Tick \/ FinalFlush \/ FlushAll \/ Close \/ CloseReaders PROVE SnapKnown'
  <2>1. UNCHANGED <<mem, complete, exposed, snap>>
    BY <1>9 DEF Tick, FinalFlush, FlushAll, Close, CloseReaders
  <2>2. \A u \in Threads : pc'[u] \in Window => pc[u] \in Window
    BY <1>9 DEF Tick, FinalFlush, FlushAll, Close, CloseReaders, TypeOK, Threads, Window,
                FlushSteps
  <2> QED BY <2>1, <2>2 DEF SnapKnown, Durable
<1>10. ASSUME Signal PROVE SnapKnown'
  BY <1>10 DEF Signal, SnapKnown, Durable
<1>11. ASSUME ProcessGone PROVE SnapKnown'
  BY <1>11 DEF ProcessGone, SnapKnown, Window, FlushSteps
<1>12. ASSUME NEW bad \in SUBSET complete, NewEngine(bad) PROVE SnapKnown'
  <2>1. pc'["main"] = "consume" /\ pc'["loop"] = "wait"
    BY <1>12, StartedType DEF NewEngine
  <2> QED BY <2>1 DEF SnapKnown, Threads, Window, FlushSteps
<1>13. ASSUME UNCHANGED vars PROVE SnapKnown'
  BY <1>13 DEF vars, SnapKnown, Durable
<1> QED
  BY <1>1, <1>2, <1>3, <1>4, <1>5, <1>6, <1>7, <1>8, <1>9, <1>10, <1>11, <1>12, <1>13
     DEF Next, FlushStep, Exit, Crash

\* Under the invariant every step maps to a step of the buffer or a stutter.
LEMMA RefStep == RefInv /\ [Next]_vars => [Buffer!Next]_(Buffer!vars)
<1> SUFFICES ASSUME RefInv, Next PROVE Buffer!Next \/ UNCHANGED <<mem, Durable, exposed>>
  BY DEF vars, Buffer!vars, memVars, diskVars, history, Durable
<1>0. TypeOK /\ FlushInv /\ SnapKnown
  BY DEF RefInv, LossInv
<1> USE <1>0 DEF memVars, statVars, flushVars, diskVars, history, bounds
<1>1. ASSUME AddDocument PROVE Buffer!Next \/ UNCHANGED <<mem, Durable, exposed>>
  <2>1. CASE TermsOf[doc] = {}
    BY <1>1, <2>1 DEF AddDocument, Postings, Durable
  <2>2. CASE TermsOf[doc] # {}
    <3>1. doc \in Docs /\ Postings(doc) = {doc}
      BY <1>1, <2>2 DEF AddDocument, Postings, TypeOK
    <3>2. Buffer!Put(doc, Flushing # {})
      BY <1>1, <3>1 DEF AddDocument, Buffer!Put, Durable
    <3>3. (Flushing # {}) \in BOOLEAN
      OBVIOUS
    <3> QED BY <3>1, <3>2, <3>3, Zenon DEF Buffer!Next
  <2> QED BY <2>1, <2>2
<1>2. ASSUME NEW t \in Threads, Rename(t) PROVE Buffer!Next
  <2>1. seg[t].docs = snap[t] /\ snap[t] \subseteq mem \union Durable \union exposed
    BY <1>2 DEF Rename, FlushInv, SnapKnown, Window, FlushSteps
  <2>2. Durable' = Durable \union seg[t].docs
    BY <1>2 DEF Rename, Durable, DocsIn
  <2>3. Buffer!Store(seg[t].docs)
    BY <1>2, <2>2 DEF Rename, Buffer!Store
  <2> QED BY <2>1, <2>3 DEF Buffer!Next
<1>3. ASSUME NEW t \in Threads, Reset(t) PROVE Buffer!Next
  <2>1. mem \subseteq seg[t].docs \union exposed /\ seg[t] \in complete
    BY <1>3 DEF Reset, FlushInv, Window, FlushSteps
  <2>2. mem \subseteq Durable \union exposed
    BY <2>1, DocsInFacts DEF Durable
  <2>3. Buffer!Release
    BY <1>3, <2>2 DEF Reset, Buffer!Release, Durable
  <2> QED BY <2>3 DEF Buffer!Next
<1>4. ASSUME ProcessGone PROVE Buffer!Next
  BY <1>4 DEF ProcessGone, Buffer!Next, Buffer!Vanish, Durable
<1>5. ASSUME NEW t \in Threads, Snapshot(t) \/ FlushError(t)
      PROVE  UNCHANGED <<mem, Durable, exposed>>
  BY <1>5 DEF Snapshot, FlushError, Durable
<1>6. ASSUME NEW t \in Threads, WriteTmp(t) \/ OpenReader(t) \/ AppendReader(t)
      PROVE  UNCHANGED <<mem, Durable, exposed>>
  BY <1>6 DEF WriteTmp, OpenReader, AppendReader, Durable
<1>7. ASSUME NEW d \in Docs, IndexDocument(d) PROVE UNCHANGED <<mem, Durable, exposed>>
  BY <1>7 DEF IndexDocument, Durable
<1>8. ASSUME CheckSize \/ Tick \/ Signal \/ FinalFlush \/ FlushAll \/ Close \/ CloseReaders
      PROVE  UNCHANGED <<mem, Durable, exposed>>
  BY <1>8 DEF CheckSize, Tick, Signal, FinalFlush, FlushAll, Close, CloseReaders, Durable
<1>9. ASSUME NEW bad \in SUBSET complete, NewEngine(bad)
      PROVE  UNCHANGED <<mem, Durable, exposed>>
  BY <1>9 DEF NewEngine, Durable
<1> QED
  BY <1>1, <1>2, <1>3, <1>4, <1>5, <1>6, <1>7, <1>8, <1>9 DEF Next, FlushStep, Exit, Crash

\* The engine implements the buffer's promise: a document leaves the buffer
\* only stored, or raced by a flush, or with its process.
THEOREM EngineImplementsBuffer == Spec => ImplementsBuffer
<1>1. Init => RefInv
  <2> SUFFICES ASSUME Init PROVE SnapKnown
    BY LossInit DEF RefInv
  <2>1. pc["main"] = "consume" /\ pc["loop"] = "wait"
    BY StartedType DEF Init
  <2> QED BY <2>1 DEF SnapKnown, Threads, Window, FlushSteps
<1>2. Init => Buffer!Init
  BY DEF Init, Buffer!Init, Durable, DocsIn
<1> QED
  BY <1>1, <1>2, RefNext, RefStep, PTL DEF Spec, ImplementsBuffer, Buffer!Spec
=============================================================================
