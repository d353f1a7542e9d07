----------------------------- MODULE MCGateway -----------------------------
(***************************************************************************)
(* An instance of Gateway for TLC.  The keys and the documents share no    *)
(* variable but the number of faults, so TLC follows one at a time: the    *)
(* documents only while there is no key and no request.                    *)
(***************************************************************************)
EXTENDS Gateway

MCOneHalf ==
    \/ docs = <<>>
    \/ \A r \in Requests, k \in Keys : place[r] = "idle" /\ row[k] = None

\* One key at a time regains tokens or is forgotten.
MCOneGains == Cardinality({k \in Keys : refilled[k] + renewed[k] > 0}) <= 1

\* The connections are interchangeable, and so are the keys.
MCSymmetry == Permutations(Requests) \union Permutations(Keys)
=============================================================================
