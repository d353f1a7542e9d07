----------------------------- MODULE MCSearcher -----------------------------
(***************************************************************************)
(* Instances of Searcher for TLC: two shards, room for two segments on the *)
(* first.  d1 is indexed under "parser" and d2 under "pars", but a search  *)
(* for "parser" stems it again and finds d2; "can", the stem of "cans", is *)
(* a stop word, which no search finds.                                     *)
(***************************************************************************)
EXTENDS Searcher

CONSTANTS d1, d2, s1, s2

MCShards == {s1, s2}
MCDocs == {d1, d2}
MCShardOf == [d \in MCDocs |-> IF d = d1 THEN s1 ELSE s2]
MCTerms == {"a", "b", "parser", "pars", "can"}
MCTermsOf == [d \in MCDocs |-> IF d = d1 THEN {"a", "b", "parser", "can"} ELSE {"a", "pars"}]
MCNormalizedTerm == [t \in MCTerms |->
    CASE t = "parser" -> "pars" [] t = "can" -> NoTerm [] t \notin {"parser", "can"} -> t]
MCMaxSegments == [sh \in MCShards |-> IF sh = s1 THEN 2 ELSE 1]
OneSegment == [sh \in MCShards |-> 1]

Query(t, e, ty) == [terms |-> t, exclude |-> e, type |-> ty]
AnotB == Query(<<"a">>, <<"b">>, "AND")
AandB == Query(<<"a", "b">>, <<>>, "AND")
JustA == Query(<<"a">>, <<>>, "OR")
AnotParser == Query(<<"a">>, <<"can", "parser">>, "AND")
CanAndParser == Query(<<"can", "parser">>, <<>>, "AND")
AndNotQueries == {AnotB, AandB, AnotParser, CanAndParser}
OrQueries == {JustA}
=============================================================================
