----------------------------- MODULE MCPipeline -----------------------------
(***************************************************************************)
(* Instances of Pipeline for TLC: two requests with one key (two clients,  *)
(* or a retry) and one without, whose message may be of any kind.          *)
(***************************************************************************)
EXTENDS Pipeline

CONSTANTS r1, r2, r3, k

MCRequests == {r1, r2, r3}
MCKeyOf == [r \in MCRequests |-> IF r = r3 THEN NoKey ELSE k]
MCKindsOf == [r \in MCRequests |-> IF r = r3 THEN Kinds ELSE {"text"}]
=============================================================================
