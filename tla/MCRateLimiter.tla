--------------------------- MODULE MCRateLimiter ---------------------------
(***************************************************************************)
(* An instance of RateLimiter for TLC: one key without any tokens, one     *)
(* with a single token and one with two.                                   *)
(***************************************************************************)
EXTENDS RateLimiter, TLC

CONSTANTS k0, k1, k2

MCLimit == (k0 :> 0) @@ (k1 :> 1) @@ (k2 :> 2)
=============================================================================
