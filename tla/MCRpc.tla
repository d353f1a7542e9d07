------------------------------- MODULE MCRpc -------------------------------
(***************************************************************************)
(* An instance of Rpc for TLC: two goroutines share one client and call a  *)
(* method that may not be registered yet; the other client is idle.        *)
(***************************************************************************)
EXTENDS Rpc

CONSTANTS shared, m

MCClientOf == [p \in Callers |-> shared]
MCMethodOf == [p \in Callers |-> m]
=============================================================================
