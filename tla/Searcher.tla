------------------------------ MODULE Searcher ------------------------------
(***************************************************************************)
(* The searcher process: one engine per shard over the directories the     *)
(* indexer fills, the goroutine that hot-reloads new segments, the         *)
(* requests whose queries fan out over the shards, and the shutdown.       *)
(*                                                                         *)
(* Nothing is indexed in this process, so MemoryIndex.Search finds nothing *)
(* and Close's Flush is a no-op: what a search sees is the reader list.    *)
(* The other process is one action, SegmentAppears: module Engine shows    *)
(* that a directory only ever gains complete, immutable segments.          *)
(*                                                                         *)
(* Ranking, limits and the JSON answer are left out: the answer is the set *)
(* of documents Execute keeps as candidates.                               *)
(***************************************************************************)
EXTENDS Naturals, Sequences, FiniteSets, SequencesExt

CONSTANTS
    Shards,
    Docs, ShardOf,    \* the shard a document was routed to
    Terms, TermsOf,   \* the terms of a document
    NormalizedTerm,   \* what Search makes of a term: it tokenizes the stems of the
    NoTerm,           \* plan again, "parser" is "pars" then, "can" (of "cans") nothing
    Queries,          \* [terms, exclude : Seq(Terms), type : {"AND", "OR"}]
    Requests,         \* HTTP requests that may be in flight
    MaxSegments,      \* bound: MaxSegments[sh] segments in a shard
    MaxFaults         \* bound: I/O errors

ASSUME SearcherAssumption ==
    /\ ShardOf \in [Docs -> Shards]
    /\ TermsOf \in [Docs -> SUBSET Terms]
    /\ NormalizedTerm \in [Terms -> Terms \union {NoTerm}] /\ NoTerm \notin Terms
    /\ Queries \subseteq [terms : Seq(Terms), exclude : Seq(Terms), type : {"AND", "OR"}]
    /\ \A q \in Queries : q.terms # <<>>
    /\ MaxSegments \in [Shards -> Nat] /\ MaxFaults \in Nat

VARIABLES
    files,     \* files[sh]: the complete segments in the shard's directory
    readers,   \* readers[sh]: Engine.readers
    closes,    \* closes[sh]: how often the engine has closed its readers
    server,    \* where main is: "up", "stopping", "closing", "exited"
    reload,    \* the reload goroutine: [at, left, shard, listing, todo, opened]
    query,     \* query[r]: what request r asks, or NoQuery
    gor,       \* gor[r][sh]: the goroutine fanOut starts for shard sh
    answer,    \* answer[r]: what request r got, or NoAnswer
    owed,      \* history: the documents r must find, loaded when it started
    faults

vars == <<files, readers, closes, server, reload, query, gor, answer, owed, faults>>

-----------------------------------------------------------------------------
NoQuery == [terms |-> <<>>, exclude |-> <<>>, type |-> "AND"]
NoAnswer == [done |-> FALSE, docs |-> {}]

\* A reader remembers how often its engine had been closed when it was opened:
\* its file is closed once that number has moved.
Reader(s, sh) == [seg |-> s, born |-> closes[sh]]
IsOpen(rd, sh) == rd.born = closes[sh]
Loaded(sh) == {rd.seg : rd \in ToSet(readers[sh])}
LoadedDocs == UNION {s.docs : s \in UNION {Loaded(sh) : sh \in Shards}}

IdleReload == [at |-> "idle", left |-> {}, shard |-> {}, listing |-> {},
               todo |-> {}, opened |-> <<>>]
IdleGoroutine == [term |-> 0, reading |-> FALSE, todo |-> <<>>, acc |-> {},
                  postings |-> [t \in Terms |-> {}]]

\* Mutant of AllTerms: the exclude terms are searched first.
ExcludeFirst(q) == q.exclude \o q.terms

\* fanOut's allTerms: the include terms, then the exclude terms.
AllTerms(q) == q.terms \o q.exclude

\* A search for the term finds the document.
Finds(t, d) == NormalizedTerm[t] \in TermsOf[d]

\* What Execute makes of a plan: a term that nothing is left of does not count.
Matches(d, q) ==
    /\ \E t \in ToSet(q.terms) : Finds(t, d)
    /\ q.type = "AND" => \A t \in ToSet(q.terms) : Finds(t, d) \/ NormalizedTerm[t] = NoTerm
    /\ \A t \in ToSet(q.exclude) : ~Finds(t, d)

InFlight(r) == query[r] # NoQuery /\ ~answer[r].done

Init ==
    /\ files = [sh \in Shards |-> {}]
    /\ readers = [sh \in Shards |-> <<>>]
    /\ closes = [sh \in Shards |-> 0]
    /\ server = "up"
    /\ reload = IdleReload
    /\ query = [r \in Requests |-> NoQuery]
    /\ gor = [r \in Requests |-> [sh \in Shards |-> IdleGoroutine]]
    /\ answer = [r \in Requests |-> NoAnswer]
    /\ owed = [r \in Requests |-> {}]
    /\ faults = 0

Fault == faults < MaxFaults /\ faults' = faults + 1

-----------------------------------------------------------------------------
\* The indexer renames a new segment into the shard's directory.
SegmentAppears(sh, D) ==
    /\ Cardinality(files[sh]) < MaxSegments[sh]
    /\ files' = [files EXCEPT ![sh] = @ \union
                   {[name |-> Cardinality(files[sh]), docs |-> D]}]
    /\ UNCHANGED <<readers, closes, server, reload, query, gor, answer, owed, faults>>

-----------------------------------------------------------------------------
(***************************************************************************)
(* The reload goroutine: Router.ReloadAll, an Engine.ReloadSegments per    *)
(* shard.  ReloadAll holds the router's read lock, Close takes the write   *)
(* lock.  A tick taken before the context was done may still get the lock  *)
(* when Close has released it, and opens readers nobody closes.            *)
(***************************************************************************)
\* Mutant of ReloadTick: one shard is reloaded instead of all.
ReloadTickOneShard ==
    /\ reload.at = "idle"
    /\ server # "exited"
    /\ server = "closing" => \A sh \in Shards : closes[sh] = 1
    /\ reload' = [IdleReload EXCEPT !.at = "shard", !.left = {CHOOSE sh \in Shards : TRUE}]
    /\ UNCHANGED <<files, readers, closes, server, query, gor, answer, owed, faults>>

ReloadTick ==
    /\ reload.at = "idle"
    /\ server # "exited"
    /\ server = "closing" => \A sh \in Shards : closes[sh] = 1
    /\ reload' = [IdleReload EXCEPT !.at = "shard", !.left = Shards]
    /\ UNCHANGED <<files, readers, closes, server, query, gor, answer, owed, faults>>

\* os.ReadDir of one shard after the other, in map order.
ReloadList(sh) ==
    /\ reload.at = "shard" /\ server # "exited"
    /\ sh \in reload.left
    /\ \/ /\ reload' = [reload EXCEPT !.at = "known", !.left = @ \ {sh}, !.shard = {sh},
                                      !.listing = files[sh]]
          /\ UNCHANGED faults
       \/ /\ Fault
          /\ reload' = [reload EXCEPT !.left = @ \ {sh}]
    /\ UNCHANGED <<files, readers, closes, server, query, gor, answer, owed>>

\* Mutant of ReloadKnown: every listed segment is taken for new.
ReloadKnownNone(sh) ==
    /\ reload.at = "known" /\ server # "exited"
    /\ reload.shard = {sh}
    /\ reload' = [reload EXCEPT !.at = "open", !.todo = reload.listing]
    /\ UNCHANGED <<files, readers, closes, server, query, gor, answer, owed, faults>>

\* The names already loaded, under the read lock of readerMu.
ReloadKnown(sh) ==
    /\ reload.at = "known" /\ server # "exited"
    /\ reload.shard = {sh}
    /\ reload' = [reload EXCEPT !.at = "open", !.todo = reload.listing \ Loaded(sh)]
    /\ UNCHANGED <<files, readers, closes, server, query, gor, answer, owed, faults>>

\* OpenReader on one unknown segment; an error skips it until the next tick.
ReloadOpen(sh, s) ==
    /\ reload.at = "open" /\ server # "exited"
    /\ reload.shard = {sh}
    /\ s \in reload.todo
    /\ \A u \in reload.todo : s.name <= u.name
    /\ \/ /\ reload' = [reload EXCEPT !.todo = @ \ {s}, !.opened = Append(@, Reader(s, sh))]
          /\ UNCHANGED faults
       \/ /\ Fault
          /\ reload' = [reload EXCEPT !.todo = @ \ {s}]
    /\ UNCHANGED <<files, readers, closes, server, query, gor, answer, owed>>

\* The append of everything opened, under the write lock of readerMu.
ReloadAppend(sh) ==
    /\ reload.at = "open" /\ server # "exited"
    /\ reload.shard = {sh}
    /\ reload.todo = {}
    /\ readers' = [readers EXCEPT ![sh] = @ \o reload.opened]
    /\ reload' = [reload EXCEPT !.at = "shard", !.shard = {}, !.listing = {}, !.opened = <<>>]
    /\ UNCHANGED <<files, closes, server, query, gor, answer, owed, faults>>

ReloadDone ==
    /\ reload.at = "shard" /\ reload.left = {} /\ server # "exited"
    /\ reload' = IdleReload
    /\ UNCHANGED <<files, readers, closes, server, query, gor, answer, owed, faults>>

-----------------------------------------------------------------------------
(***************************************************************************)
(* A request: ShardedExecutor.Execute.  One goroutine per shard searches   *)
(* the terms one after the other.                                          *)
(***************************************************************************)
StartQuery(r, q) ==
    /\ server = "up"
    /\ query[r] = NoQuery
    /\ query' = [query EXCEPT ![r] = q]
    /\ gor' = [gor EXCEPT ![r] = [sh \in Shards |-> [IdleGoroutine EXCEPT !.term = 1]]]
    /\ owed' = [owed EXCEPT ![r] = {d \in LoadedDocs : Matches(d, q)}]
    /\ UNCHANGED <<files, readers, closes, server, reload, answer, faults>>

\* Engine.Search for the goroutine's next term: the copy of the reader list, or
\* nothing when the term has no token.
CopyReaders(r, sh) ==
    LET g == gor[r][sh]
        t == AllTerms(query[r])[g.term]
    IN
    /\ InFlight(r) /\ server # "exited"
    /\ g.term \in 1..Len(AllTerms(query[r])) /\ ~g.reading
    /\ gor' = [gor EXCEPT ![r][sh] =
                 IF NormalizedTerm[t] = NoTerm
                 THEN [g EXCEPT !.term = @ + 1]
                 ELSE [g EXCEPT !.reading = TRUE, !.todo = readers[sh]]]
    /\ UNCHANGED <<files, readers, closes, server, reload, query, answer, owed, faults>>

\* Reader.Search in the next segment.  An error, and a reader whose file Close
\* has closed in the meantime is one, is logged and the segment skipped.
ReadSegment(r, sh) ==
    LET g == gor[r][sh]
        t == AllTerms(query[r])[g.term]
        found == {d \in Head(g.todo).seg.docs : Finds(t, d)}
        skip == gor' = [gor EXCEPT ![r][sh] = [g EXCEPT !.todo = Tail(@)]]
    IN
    /\ InFlight(r) /\ server # "exited"
    /\ g.todo # <<>>
    /\ \/ /\ IsOpen(Head(g.todo), sh)
          /\ gor' = [gor EXCEPT ![r][sh] = [g EXCEPT !.todo = Tail(@), !.acc = @ \union found]]
          /\ UNCHANGED faults
       \/ ~IsOpen(Head(g.todo), sh) /\ skip /\ UNCHANGED faults
       \/ Fault /\ skip
    /\ UNCHANGED <<files, readers, closes, server, reload, query, answer, owed>>

\* Mutant of EndTerm: a term without postings is never finished.
EndTermFound(r, sh) ==
    LET g == gor[r][sh]
        t == AllTerms(query[r])[g.term]
    IN
    /\ InFlight(r) /\ server # "exited"
    /\ g.reading /\ g.todo = <<>>
    /\ g.acc # {}
    /\ gor' = [gor EXCEPT ![r][sh] =
                 [g EXCEPT !.term = @ + 1, !.reading = FALSE, !.acc = {}, !.postings[t] = g.acc]]
    /\ UNCHANGED <<files, readers, closes, server, reload, query, answer, owed, faults>>

\* The end of one Engine.Search: a non-empty result is stored under its term.
EndTerm(r, sh) ==
    LET g == gor[r][sh]
        t == AllTerms(query[r])[g.term]
    IN
    /\ InFlight(r) /\ server # "exited"
    /\ g.reading /\ g.todo = <<>>
    /\ gor' = [gor EXCEPT ![r][sh] =
                 [g EXCEPT !.term = @ + 1, !.reading = FALSE, !.acc = {},
                           !.postings[t] = IF g.acc = {} THEN @ ELSE g.acc]]
    /\ UNCHANGED <<files, readers, closes, server, reload, query, answer, owed, faults>>

\* The postings of a term over all shards.
Merged(r, t) == UNION {gor[r][sh].postings[t] : sh \in Shards}

\* intersectPostings and unionPostings work on the include terms that have
\* postings at all.
Candidates(r) ==
    LET found == {t \in ToSet(query[r].terms) : Merged(r, t) # {}}
        any == UNION {Merged(r, t) : t \in found}
    IN  IF query[r].type = "AND" THEN {d \in any : \A t \in found : d \in Merged(r, t)}
                                 ELSE any

Excluded(r) == UNION {Merged(r, t) : t \in ToSet(query[r].exclude)}

\* wg.Wait, then the Boolean filtering.
Execute(r) ==
    /\ InFlight(r) /\ server # "exited"
    /\ \A sh \in Shards : gor[r][sh].term > Len(AllTerms(query[r]))
    /\ answer' = [answer EXCEPT ![r] = [done |-> TRUE, docs |-> Candidates(r) \ Excluded(r)]]
    /\ gor' = [gor EXCEPT ![r] = [sh \in Shards |-> IdleGoroutine]]
    /\ UNCHANGED <<files, readers, closes, server, reload, query, owed, faults>>

-----------------------------------------------------------------------------
(***************************************************************************)
(* Shutdown.  The signal makes a goroutine call server.Shutdown, which     *)
(* makes ListenAndServe return at once in main: main's deferred            *)
(* router.Close does not wait for the requests Shutdown is draining.       *)
(***************************************************************************)
Signal ==
    /\ server = "up"
    /\ server' = "stopping"
    /\ UNCHANGED <<files, readers, closes, reload, query, gor, answer, owed, faults>>

\* Router.Close takes the write lock, so it waits for a running ReloadAll.
RouterClose ==
    /\ server = "stopping"
    /\ reload.at = "idle"
    /\ server' = "closing"
    /\ UNCHANGED <<files, readers, closes, reload, query, gor, answer, owed, faults>>

\* Engine.Close of one shard.
CloseEngine(sh) ==
    /\ server = "closing"
    /\ closes[sh] = 0
    /\ closes' = [closes EXCEPT ![sh] = 1]
    /\ readers' = [readers EXCEPT ![sh] = <<>>]
    /\ UNCHANGED <<files, server, reload, query, gor, answer, owed, faults>>

\* main returns.
Exit ==
    /\ server = "closing"
    /\ \A sh \in Shards : closes[sh] = 1
    /\ server' = "exited"
    /\ UNCHANGED <<files, readers, closes, reload, query, gor, answer, owed, faults>>

-----------------------------------------------------------------------------
ReloadStep ==
    \/ \E sh \in Shards : ReloadList(sh) \/ ReloadKnown(sh) \/ ReloadAppend(sh)
    \/ \E sh \in Shards : \E s \in files[sh] : ReloadOpen(sh, s)
    \/ ReloadDone

RequestStep(r) ==
    \/ \E sh \in Shards : CopyReaders(r, sh) \/ ReadSegment(r, sh) \/ EndTerm(r, sh)
    \/ Execute(r)

Next ==
    \/ \E sh \in Shards : \E D \in SUBSET {d \in Docs : ShardOf[d] = sh} :
           D # {} /\ SegmentAppears(sh, D)
    \/ ReloadTick
    \/ ReloadStep
    \/ \E r \in Requests, q \in Queries : StartQuery(r, q)
    \/ \E r \in Requests : RequestStep(r)
    \/ Signal
    \/ RouterClose
    \/ \E sh \in Shards : CloseEngine(sh)
    \/ Exit

\* The ticker keeps ticking until the signal and goroutines keep running;
\* nothing forces a segment, a request or a signal.
Fairness ==
    /\ WF_vars(server = "up" /\ ReloadTick)
    /\ WF_vars(ReloadStep)
    /\ \A r \in Requests : \A sh \in Shards :
           WF_vars(CopyReaders(r, sh) \/ ReadSegment(r, sh) \/ EndTerm(r, sh))
    /\ \A r \in Requests : WF_vars(Execute(r))

Spec == Init /\ [][Next]_vars /\ Fairness

-----------------------------------------------------------------------------
\* Whatever is reloaded, on however many shards, while a query runs, the answer
\* of a running server that met no I/O error has no document that a search for an
\* excluded term finds, and every matching document that was loaded when the query
\* started.  It rests on every shard's searching the include terms first, and on
\* reader lists that only grow.  For terms that the stemmer leaves as they are this is
\* what the plan asks; for the others (NormalizedTerm) Search looks for another term
\* than the one that the document is indexed under.
AnswerExact ==
    (faults = 0 /\ server \in {"up", "stopping"}) =>
        \A r \in Requests :
            /\ \A d \in answer[r].docs : \A t \in ToSet(query[r].exclude) : ~Finds(t, d)
            /\ answer[r].done => owed[r] \subseteq answer[r].docs

\* A segment is opened once: the list read before the lock and the names read
\* under it never make ReloadSegments load a segment twice.
OpenedOnce ==
    \A sh \in Shards : \A i, j \in 1..Len(readers[sh]) :
        readers[sh][i].seg = readers[sh][j].seg => i = j

\* A segment the indexer wrote becomes searchable without a restart, unless
\* the server is shut down, I/O errors and slow requests notwithstanding.
HotReloaded ==
    \A sh \in Shards : \A n \in 0 .. MaxSegments[sh] - 1 :
        (\E s \in files[sh] : s.name = n) ~>
            ((\E s \in Loaded(sh) : s.name = n) \/ server # "up")

\* Every request is answered unless the process exits.
Answered == \A r \in Requests : query[r] # NoQuery ~> (answer[r].done \/ server = "exited")
=============================================================================
