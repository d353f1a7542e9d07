---------------------------- MODULE MCAnalytics ----------------------------
(***************************************************************************)
(* An instance of Analytics for TLC: one event more than the channel holds *)
(* and latencies that do not arrive in order.                              *)
(***************************************************************************)
EXTENDS Analytics

MCLatency == [e \in Events |-> (2 * e) % 5]
=============================================================================
