---------------------------- MODULE TokenBucket ----------------------------
(***************************************************************************)
(* What the rate limiter promises: one bucket per key that fills by Limit  *)
(* units a tick up to Limit * Window and pays Window units per request.    *)
(* A token is Window units, so every quantity is an integer.               *)
(***************************************************************************)
EXTENDS Integers

CONSTANTS
    Keys,
    Limit,     \* Limit[k]: tokens that key k gains per window
    Window     \* ticks per window

VARIABLES
    level,     \* units in each bucket
    verdict    \* the last answer for each key

Cap(k) == Limit[k] * Window

Filled(k, v) == IF v < Cap(k) THEN v ELSE Cap(k)

Init ==
    /\ level = [k \in Keys |-> Cap(k)]
    /\ verdict = [k \in Keys |-> "none"]

\* A request is let through exactly when its bucket holds a token.
Request(k) ==
    \/ /\ level[k] >= Window
       /\ level' = [level EXCEPT ![k] = @ - Window]
       /\ verdict' = [verdict EXCEPT ![k] = "allow"]
    \/ /\ level[k] < Window
       /\ verdict' = [verdict EXCEPT ![k] = "deny"]
       /\ UNCHANGED level

\* Time passes for all buckets at once.
Refill ==
    /\ level' = [k \in Keys |-> Filled(k, level[k] + Limit[k])]
    /\ UNCHANGED verdict

\* An operator resets a key: its bucket is full again.
Restore(k) ==
    /\ level' = [level EXCEPT ![k] = Cap(k)]
    /\ UNCHANGED verdict

Next ==
    \/ \E k \in Keys : Request(k) \/ Restore(k)
    \/ Refill

Spec == Init /\ [][Next]_<<level, verdict>>
=============================================================================
