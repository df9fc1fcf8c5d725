----------------------------- MODULE AtomicHook ------------------------------
(***************************************************************************)
(* The hook cells of raw_logging.c: three atomic function pointers, and    *)
(* the threads that write them.  A store is two atomic accesses (the load  *)
(* of the expected value and the compare-and-exchange), a registration is  *)
(* one plain atomic store, and atomic_hook_init is three writes in a row,  *)
(* which nothing keeps from running twice or beside the others.            *)
(***************************************************************************)
CONSTANTS Threads,          \* the threads that set hooks
          Custom,           \* the functions callers may register
          DefaultFilter,    \* default_log_filter_and_prefix
          DefaultInternal,  \* default_internal_log
          NULL              \* the null function pointer

ASSUME CustomAssumption ==
  /\ NULL \notin Custom \cup {DefaultFilter, DefaultInternal}
  /\ {DefaultFilter, DefaultInternal} \cap Custom = {}

VARIABLES cell,   \* log_filter_and_prefix_hook, abort_hook, internal_log_function
          op,     \* what each thread is doing to the cells
          ret,    \* what the thread's last _store_atomic_hook_* returned
          raced   \* history: the cell changed since the thread's load

hookVars == <<cell, op, ret, raced>>

Hooks == {"filter", "abort", "internal"}

Fns == Custom \cup {DefaultFilter, DefaultInternal}

\* The null function pointer is no store.
ASSUME NullAssumption == NULL \notin [hook : Hooks, fn : Fns]

\* Slip: atomic_hook_init empties the cell CIC_INTERNAL_LOG calls through.
DefaultNoInternal == [filter |-> DefaultFilter, abort |-> NULL, internal |-> NULL]

\* The values atomic_hook_init gives the cells.
Default == [filter |-> DefaultFilter, abort |-> NULL, internal |-> DefaultInternal]

\* The functions of a hook's own type.
FnsOf(h) == Custom \cup ({Default[h]} \ {NULL})

\* The values of the cells before anyone calls atomic_hook_init.
StaticInit == [filter |-> DefaultFilter, abort |-> NULL, internal |-> NULL]

IdleOp == [pc |-> "idle"]

Ops == {IdleOp}
       \cup [pc : {"cas"}, hook : Hooks, fn : Fns, expected : Fns \cup {NULL}]
       \cup [pc : {"init_abort", "init_internal"}]

HookTypeOK ==
  /\ cell \in [Hooks -> Fns \cup {NULL}]
  /\ op \in [Threads -> Ops]
  /\ ret \in [Threads -> BOOLEAN]
  /\ raced \in [Threads -> BOOLEAN]

HookInit ==
  /\ cell = StaticInit
  /\ op = [t \in Threads |-> IdleOp]
  /\ ret = [t \in Threads |-> TRUE]
  /\ raced = [t \in Threads |-> FALSE]

\* Thread t takes a step: it is raced no more, and every other store between
\* its load and its compare-and-exchange is, when its cell changes.
Watch(t) ==
  raced' = [u \in Threads |->
              /\ u # t
              /\ op[u].pc = "cas"
              /\ raced[u] \/ cell'[op[u].hook] # cell[op[u].hook]]

------------------------------------------------------------------------------
\* Slip: expects the cell to be as atomic_hook_init left it.
StoreExpectsDefault(t, h, f) ==
  /\ op[t] = IdleOp
  /\ op' = [op EXCEPT ![t] =
              [pc |-> "cas", hook |-> h, fn |-> f, expected |-> Default[h]]]
  /\ UNCHANGED <<cell, ret>>
  /\ Watch(t)

\* _store_atomic_hook_*: read the value the exchange will expect.  The function
\* is not null: assert(fn) comes first.
StoreLoad(t, h, f) ==
  /\ op[t] = IdleOp
  /\ op' = [op EXCEPT ![t] =
              [pc |-> "cas", hook |-> h, fn |-> f, expected |-> cell[h]]]
  /\ UNCHANGED <<cell, ret>>
  /\ Watch(t)

\* _store_atomic_hook_*: the exchange; on failure `expected` becomes the value
\* found, and the store still succeeds when that is the function wanted.
StoreCas(t) ==
  /\ op[t].pc = "cas"
  /\ LET h == op[t].hook
         swapped == cell[h] = op[t].expected
         expected == IF swapped THEN op[t].expected ELSE cell[h]
     IN  /\ cell' = IF swapped THEN [cell EXCEPT ![h] = op[t].fn] ELSE cell
         /\ ret' = [ret EXCEPT ![t] = swapped \/ expected = op[t].fn]
  /\ op' = [op EXCEPT ![t] = IdleOp]
  /\ Watch(t)

\* register_log_filter_and_prefix_hook, register_abort_hook and
\* register_internal_log_function: one plain store, whatever the cell holds and
\* whatever the caller passes, the null pointer included.
Register(t, h, f) ==
  /\ op[t] = IdleOp
  /\ cell' = [cell EXCEPT ![h] = f]
  /\ UNCHANGED <<op, ret>>
  /\ Watch(t)

\* atomic_hook_init: the three cells one after the other.
InitStep(t, from, h, to) ==
  /\ op[t] = from
  /\ cell' = [cell EXCEPT ![h] = Default[h]]
  /\ op' = [op EXCEPT ![t] = to]
  /\ UNCHANGED ret
  /\ Watch(t)

InitFilter(t)   == InitStep(t, IdleOp, "filter", [pc |-> "init_abort"])
InitAbort(t)    == InitStep(t, [pc |-> "init_abort"], "abort", [pc |-> "init_internal"])
InitInternal(t) == InitStep(t, [pc |-> "init_internal"], "internal", IdleOp)

HookStep(t) ==
  \/ \E h \in Hooks : \E f \in FnsOf(h) : StoreLoad(t, h, f)
  \/ StoreCas(t)
  \/ \E h \in Hooks : \E f \in FnsOf(h) \cup {NULL} : Register(t, h, f)
  \/ InitFilter(t)
  \/ InitAbort(t)
  \/ InitInternal(t)

HookNext == \E t \in Threads : HookStep(t)

HookSpec == HookInit /\ [][HookNext]_hookVars

------------------------------------------------------------------------------
\* The store that a thread has begun, or NULL.
Wanted == [t \in Threads |->
             IF op[t].pc = "cas" THEN [hook |-> op[t].hook, fn |-> op[t].fn] ELSE NULL]

Cells == INSTANCE HookCells WITH want <- Wanted

\* The two-access store, the plain registration and the three writes of
\* atomic_hook_init together give callers no more than HookCells allows: a
\* store ends with its function installed, and it is refused (returns false)
\* only if the cell changed between its load and its exchange.
ImplementsHookCells == Cells!Spec
==============================================================================
