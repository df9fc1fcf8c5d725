----------------------------- MODULE MCAtomicHook -----------------------------
(***************************************************************************)
(* The hook cells with two threads that store, register and initialise at  *)
(* the same time, and two functions, so that a cell can change and change  *)
(* back between the two accesses of a store.                               *)
(***************************************************************************)
EXTENDS AtomicHook
===============================================================================
