------------------------------ MODULE HookCells ------------------------------
(***************************************************************************)
(* What the three hook cells of raw logging promise to the threads that    *)
(* set them, with no word about how: a cell always holds one function (or  *)
(* none), a plain registration takes effect at once, and a store that has  *)
(* been asked for ends in one step, either with its function in the cell   *)
(* or, only if the cell was changed while the store was pending, refused.  *)
(***************************************************************************)
CONSTANTS Threads,  \* the threads that set hooks
          Hooks,    \* the names of the cells
          Fns,      \* the functions a cell may hold
          NULL      \* the empty cell

VARIABLES cell,     \* what each cell holds
          want,     \* the store a thread has asked for, or NULL
          ret,      \* what the thread's last store answered
          raced     \* the cell of the thread's pending store changed under it

avars == <<cell, want, ret, raced>>

Wants == [hook : Hooks, fn : Fns]

Init ==
  /\ cell \in [Hooks -> Fns \cup {NULL}]
  /\ want = [t \in Threads |-> NULL]
  /\ ret = [t \in Threads |-> TRUE]
  /\ raced = [t \in Threads |-> FALSE]

\* Every pending store whose cell changes in this step has been raced.
Watch(t) ==
  raced' = [u \in Threads |->
              /\ u # t
              /\ want[u] # NULL
              /\ raced[u] \/ cell'[want[u].hook] # cell[want[u].hook]]

Ask(t, h, f) ==
  /\ want[t] = NULL
  /\ want' = [want EXCEPT ![t] = [hook |-> h, fn |-> f]]
  /\ UNCHANGED <<cell, ret>>
  /\ Watch(t)

Install(t) ==
  /\ want[t] # NULL
  /\ cell' = [cell EXCEPT ![want[t].hook] = want[t].fn]
  /\ want' = [want EXCEPT ![t] = NULL]
  /\ ret' = [ret EXCEPT ![t] = TRUE]
  /\ Watch(t)

Refuse(t) ==
  /\ want[t] # NULL
  /\ raced[t]
  /\ want' = [want EXCEPT ![t] = NULL]
  /\ ret' = [ret EXCEPT ![t] = FALSE]
  /\ UNCHANGED cell
  /\ Watch(t)

Set(t, h, f) ==
  /\ want[t] = NULL
  /\ cell' = [cell EXCEPT ![h] = f]
  /\ UNCHANGED <<want, ret>>
  /\ Watch(t)

Next ==
  \E t \in Threads :
    \/ \E h \in Hooks, f \in Fns : Ask(t, h, f)
    \/ Install(t)
    \/ Refuse(t)
    \/ \E h \in Hooks, f \in Fns \cup {NULL} : Set(t, h, f)

Spec == Init /\ [][Next]_avars
==============================================================================
