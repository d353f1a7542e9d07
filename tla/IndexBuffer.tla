---------------------------- MODULE IndexBuffer ----------------------------
(***************************************************************************)
(* What one shard's engine promises to the process that feeds it, with the *)
(* flush abstracted to its effects: documents are put in a volatile        *)
(* buffer, groups of them are stored, and the buffer is released as a      *)
(* whole, which may happen only when everything in it is stored or was put *)
(* there while a flush was already under way.  Module Engine implements    *)
(* this (EngineRefinement); module Pipeline is built on it.                *)
(***************************************************************************)
CONSTANT Docs

VARIABLES
    buffered,   \* documents in the memory index
    stored,     \* documents in complete segments
    racing      \* documents put in the buffer during a flush

vars == <<buffered, stored, racing>>

Init == buffered = {} /\ stored = {} /\ racing = {}

\* A document arrives; during says whether a flush has taken its snapshot and
\* not yet reset the buffer.
Put(d, during) ==
    /\ buffered' = buffered \union {d}
    /\ racing' = IF during THEN racing \union {d} ELSE racing
    /\ UNCHANGED stored

\* A segment with the documents of some snapshot becomes complete.
Store(S) ==
    /\ stored' = stored \union S
    /\ UNCHANGED <<buffered, racing>>

\* The buffer is reset.
Release ==
    /\ buffered \subseteq stored \union racing
    /\ buffered' = {}
    /\ UNCHANGED <<stored, racing>>

\* The process ends, orderly or not.
Vanish ==
    /\ buffered' = {}
    /\ racing' = {}
    /\ UNCHANGED stored

Next ==
    \/ \E d \in Docs, during \in BOOLEAN : Put(d, during)
    \/ \E S \in SUBSET (buffered \union stored \union racing) : Store(S)
    \/ Release
    \/ Vanish

Spec == Init /\ [][Next]_vars
=============================================================================
