------------------------------ MODULE MCEngine ------------------------------
(***************************************************************************)
(* Instances of Engine for TLC: two documents with terms, one of which     *)
(* alone reaches the flush threshold, and one document without terms.      *)
(***************************************************************************)
EXTENDS EngineRefinement

CONSTANTS d1, d2, blank

MCDocs == {d1, d2, blank}
MCTermsOf == [d \in MCDocs |-> IF d = blank THEN {} ELSE {"t"}]
MCTokens == [d \in MCDocs |-> IF d = blank THEN 0 ELSE 1]
MCWeight == [d \in MCDocs |-> IF d = blank THEN 0 ELSE IF d = d1 THEN 2 ELSE 1]
=============================================================================
