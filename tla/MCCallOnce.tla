------------------------------ MODULE MCCallOnce ------------------------------
(***************************************************************************)
(* call_once with three callers, one word that is none of the four named   *)
(* ones, and entries in the memory behind the transition table that start  *)
(* from that word and from ONCE_WAITER, the words the table does not list, *)
(* and lead to every word but ONCE_RUNNING.                                *)
(***************************************************************************)
EXTENDS CallOnce, TLC

CONSTANT junk

MCJunk == {junk}

MCStray == {[from |-> junk, to |-> junk, done |-> TRUE],
            [from |-> junk, to |-> ONCE_WAITER, done |-> FALSE],
            [from |-> junk, to |-> ONCE_INIT, done |-> TRUE],
            [from |-> ONCE_WAITER, to |-> ONCE_INIT, done |-> FALSE],
            [from |-> ONCE_WAITER, to |-> ONCE_DONE, done |-> TRUE],
            [from |-> ONCE_WAITER, to |-> junk, done |-> FALSE]}

\* The callers are interchangeable.
Symmetry == Permutations(Threads)
===============================================================================
