------------------------------- MODULE KvCell -------------------------------
(***************************************************************************)
(* What incr and cas promise of one durable key (rs/base/src/kv.rs): the   *)
(* read and the write of a call are one step, so every call that succeeds  *)
(* acts on the value its predecessor left.                                 *)
(***************************************************************************)
EXTENDS Naturals

CONSTANTS Expect, New   \* the arguments of cas
VARIABLES cell, done    \* the value, and the calls that succeeded

CellInit == cell = 0 /\ done = 0
AtomicIncr == cell' = cell + 1 /\ done' = done + 1
AtomicCas == cell = Expect /\ cell' = New /\ done' = done + 1
CellSpec == CellInit /\ [][AtomicIncr \/ AtomicCas]_<<cell, done>>
=============================================================================
