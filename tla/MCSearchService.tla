-------------------------- MODULE MCSearchService --------------------------
(***************************************************************************)
(* An instance of SearchService for TLC: the words "x" and "y", "x,y" with *)
(* its comma, of which Parse takes the first token, and the stop word      *)
(* "the".  The first and second query have one key because of the comma,   *)
(* the third and fourth because of the stop word, each pair with two       *)
(* plans; the fifth differs from the first in its limit; the last two are  *)
(* refused and answered without the cache.                                 *)
(***************************************************************************)
EXTENDS SearchService

MCDictionary == <<"the", "x", "x,y", "y">>
MCPieces == [w \in ToSet(Dictionary) |-> IF w = "x,y" THEN <<"x", "y">> ELSE <<w>>]
MCTermOf == [w \in ToSet(Dictionary) |->
                CASE w = "the" -> NoTerm [] w = "x,y" -> "x" [] w \in {"x", "y"} -> w]
Query(words, limit) == [given |-> TRUE, words |-> words, limit |-> limit]
MCInputs == {Query(<<"y", "x">>, <<>>),
             Query(<<"x,y">>, <<>>),
             Query(<<"x", "not", "the", "y">>, <<>>),
             Query(<<"y", "x", "not", "and", "the">>, <<9>>),
             Query(<<"x", "y">>, <<1>>),
             Query(<<"x">>, <<0>>),
             Query(<<>>, <<>>)}

\* The queries of up to four words.  SearchServiceProofs has the same for queries
\* of any length.
MCQueries == UNION {[1 .. n -> ToSet(Dictionary) \union {"not", "or"}] : n \in 1 .. 4}

ASSUME ShortKeysTellApart == KeysTellApart(Inputs \union {Query(q, <<>>) : q \in MCQueries})

\* The requests are interchangeable.
MCSymmetry == Permutations(Requests)
=============================================================================
