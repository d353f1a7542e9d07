-------------------------- MODULE EngineRefinement --------------------------
(***************************************************************************)
(* Engine implements IndexBuffer: the memory index is the buffer, the      *)
(* documents of complete segments are what is stored.                      *)
(***************************************************************************)
EXTENDS Engine

Buffer == INSTANCE IndexBuffer WITH
              buffered <- mem, stored <- Durable, racing <- exposed

\* Every step of the detailed engine, with its two goroutines inside Flush at
\* once, I/O errors, shutdown, crash and recovery, is a step of the buffer's
\* promise or leaves it alone.
ImplementsBuffer == Buffer!Spec
=============================================================================
