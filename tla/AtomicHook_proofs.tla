-------------------------- MODULE AtomicHook_proofs ---------------------------
(***************************************************************************)
(* Proofs about the hook cells, for any set of threads and of functions:   *)
(* the code implements HookCells.                                          *)
(***************************************************************************)
EXTENDS AtomicHook, TLAPS

\* The hook cells keep their types, whichever thread does what to them.
LEMMA HookStepType ==
  ASSUME HookTypeOK, NEW t \in Threads, HookStep(t)
  PROVE  HookTypeOK'
<1> USE DEF HookTypeOK
<1>0. /\ Default \in [Hooks -> Fns \cup {NULL}]
      /\ IdleOp \in Ops
      /\ [pc |-> "init_abort"] \in Ops /\ [pc |-> "init_internal"] \in Ops
      /\ \A h \in Hooks : FnsOf(h) \subseteq Fns
  BY DEF Default, Hooks, Fns, Ops, FnsOf
<1>1. raced' \in [Threads -> BOOLEAN] /\ t \in Threads
  BY DEF HookStep, StoreLoad, StoreCas, Register, InitFilter, InitAbort, InitInternal,
         InitStep, Watch
<1>2. ASSUME NEW h \in Hooks, NEW f \in FnsOf(h), StoreLoad(t, h, f)
      PROVE  HookTypeOK'
  BY <1>0, <1>1, <1>2 DEF StoreLoad, Ops
<1>3. ASSUME StoreCas(t) PROVE HookTypeOK'
  <2>1. op[t] \in [pc : {"cas"}, hook : Hooks, fn : Fns, expected : Fns \cup {NULL}]
    BY <1>3 DEF StoreCas, Ops, IdleOp
  <2>2. op[t].hook \in Hooks /\ op[t].fn \in Fns
    BY <2>1
  <2> QED
    BY <1>0, <1>1, <1>3, <2>2 DEF StoreCas
<1>4. ASSUME NEW h \in Hooks, NEW f \in FnsOf(h) \cup {NULL}, Register(t, h, f)
      PROVE  HookTypeOK'
  BY <1>0, <1>1, <1>4 DEF Register
<1>5. ASSUME NEW from, NEW h \in Hooks, NEW to \in Ops, InitStep(t, from, h, to)
      PROVE  HookTypeOK'
  BY <1>0, <1>1, <1>5 DEF InitStep
<1>6. CASE InitFilter(t) \/ InitAbort(t) \/ InitInternal(t)
  BY <1>0, <1>5, <1>6 DEF InitFilter, InitAbort, InitInternal, Hooks
<1> QED
  BY <1>2, <1>3, <1>4, <1>6 DEF HookStep

\* A store that has not been raced finds in its cell what it expects, so one
\* that fails has been.
Unraced(t) == op[t].pc = "cas" => raced[t] \/ cell[op[t].hook] = op[t].expected

HookInv == HookTypeOK /\ \A t \in Threads : Unraced(t)

\* A step of t keeps the invariant of each other thread.
LEMMA OthersUnraced ==
  ASSUME HookInv, NEW t \in Threads, Watch(t), NEW u \in Threads \ {t}, op'[u] = op[u]
  PROVE  Unraced(u)'
BY DEF HookInv, Unraced, Watch

\* A step of t in Cells is watched as it is here.
LEMMA WatchMaps ==
  ASSUME HookTypeOK, NEW t \in Threads, Watch(t)
  PROVE  Cells!Watch(t)
<1>1. ASSUME NEW u \in Threads
      PROVE  /\ (Wanted[u] # NULL) <=> (op[u].pc = "cas")
             /\ op[u].pc = "cas" => Wanted[u].hook = op[u].hook
  <2>1. CASE op[u].pc = "cas"
    <3>1. op[u] \in [pc : {"cas"}, hook : Hooks, fn : Fns, expected : Fns \cup {NULL}]
      BY <2>1 DEF HookTypeOK, Ops, IdleOp
    <3>2. [hook |-> op[u].hook, fn |-> op[u].fn] \in [hook : Hooks, fn : Fns]
      BY <3>1
    <3>3. Wanted[u] = [hook |-> op[u].hook, fn |-> op[u].fn]
      BY <2>1 DEF Wanted
    <3> QED
      BY <2>1, <3>2, <3>3, NullAssumption
  <2>2. CASE op[u].pc # "cas"
    BY <2>2 DEF Wanted
  <2> QED
    BY <2>1, <2>2
<1> QED
  BY <1>1 DEF Watch, Cells!Watch

\* Every step keeps the invariant and is a step of HookCells.
LEMMA StepMaps ==
  ASSUME HookInv, NEW t \in Threads, HookStep(t)
  PROVE  HookInv' /\ Cells!Next
<1> DEFINE Goal == (\A u \in Threads : Unraced(u)') /\ Cells!Next
<1>1. HookTypeOK /\ Unraced(t) /\ HookTypeOK'
  BY HookStepType DEF HookInv
<1>2. \A h \in Hooks : FnsOf(h) \subseteq Fns /\ Default[h] \in Fns \cup {NULL}
  BY DEF Default, Hooks, Fns, FnsOf
<1>3. ASSUME NEW h \in Hooks, NEW f \in FnsOf(h), StoreLoad(t, h, f) PROVE Goal
  <2>1. Watch(t) /\ Cells!Watch(t)
    BY <1>1, <1>3, WatchMaps DEF StoreLoad
  <2>2. Unraced(t)'
    BY <1>1, <1>3 DEF StoreLoad, Unraced, HookTypeOK
  <2>3. \A u \in Threads \ {t} : Unraced(u)'
    BY <1>1, <1>3, <2>1, OthersUnraced DEF StoreLoad, HookTypeOK
  <2>4. Wanted[t] = NULL /\ Wanted' = [Wanted EXCEPT ![t] = [hook |-> h, fn |-> f]]
    <3> DEFINE load == [pc |-> "cas", hook |-> h, fn |-> f, expected |-> cell[h]]
    <3>1. op[t] = IdleOp /\ op' = [op EXCEPT ![t] = load]
      BY <1>3 DEF StoreLoad
    <3>2. load.pc = "cas" /\ load.hook = h /\ load.fn = f
      OBVIOUS
    <3> HIDE DEF load
    <3>3. Wanted[t] = NULL
      BY <3>1 DEF Wanted, IdleOp
    <3>4. Wanted'[t] = [hook |-> h, fn |-> f]
      BY <1>1, <3>1, <3>2 DEF Wanted, HookTypeOK
    <3>5. \A u \in Threads \ {t} : Wanted'[u] = Wanted[u]
      BY <1>1, <3>1 DEF Wanted, HookTypeOK
    <3> QED
      BY <3>3, <3>4, <3>5 DEF Wanted
  <2>5. Cells!Ask(t, h, f)
    BY <1>3, <2>1, <2>4 DEF StoreLoad, Cells!Ask
  <2> QED
    BY <1>2, <2>2, <2>3, <2>5 DEF Cells!Next
<1>4. ASSUME StoreCas(t) PROVE Goal
  <2> DEFINE h == op[t].hook
             f == op[t].fn
             swapped == cell[h] = op[t].expected
  <2>1. op[t] \in [pc : {"cas"}, hook : Hooks, fn : Fns, expected : Fns \cup {NULL}]
    BY <1>1, <1>4 DEF StoreCas, HookTypeOK, Ops, IdleOp
  <2>2. h \in Hooks /\ f \in Fns /\ Wanted[t] = [hook |-> h, fn |-> f]
    BY <1>4, <2>1 DEF StoreCas, Wanted
  <2>3. Wanted[t] # NULL /\ Wanted[t].hook = h /\ Wanted[t].fn = f
    <3>1. [hook |-> h, fn |-> f] \in [hook : Hooks, fn : Fns]
      BY <2>2
    <3> QED
      BY <2>2, <3>1, NullAssumption
  <2>4. Watch(t) /\ Cells!Watch(t)
    BY <1>1, <1>4, WatchMaps DEF StoreCas
  <2>5. op' = [op EXCEPT ![t] = IdleOp]
    BY <1>4 DEF StoreCas
  <2>6. Wanted' = [Wanted EXCEPT ![t] = NULL]
    BY <1>1, <2>5 DEF Wanted, HookTypeOK, IdleOp
  <2>7. \A u \in Threads : Unraced(u)'
    <3>1. Unraced(t)'
      BY <1>1, <2>5 DEF Unraced, HookTypeOK, IdleOp
    <3>2. \A u \in Threads \ {t} : Unraced(u)'
      BY <1>1, <2>4, <2>5, OthersUnraced DEF HookTypeOK
    <3> QED
      BY <3>1, <3>2
  <2>8. CASE swapped
    <3>1. cell' = [cell EXCEPT ![h] = f] /\ ret' = [ret EXCEPT ![t] = TRUE]
      BY <1>4, <2>8 DEF StoreCas
    <3>2. Cells!Install(t)
      BY <2>3, <2>4, <2>6, <3>1 DEF Cells!Install
    <3> QED
      BY <2>7, <3>2 DEF Cells!Next
  <2>9. CASE ~swapped
    <3>1. raced[t]
      BY <1>1, <1>4, <2>9 DEF Unraced, StoreCas
    <3>2. cell' = cell /\ ret' = [ret EXCEPT ![t] = cell[h] = f]
      BY <1>4, <2>9 DEF StoreCas
    <3>3. CASE cell[h] = f
      <4>1. cell' = [cell EXCEPT ![h] = f] /\ ret' = [ret EXCEPT ![t] = TRUE]
        BY <1>1, <3>2, <3>3 DEF HookTypeOK
      <4>2. Cells!Install(t)
        BY <2>3, <2>4, <2>6, <4>1 DEF Cells!Install
      <4> QED
        BY <2>7, <4>2 DEF Cells!Next
    <3>4. CASE cell[h] # f
      <4>1. ret' = [ret EXCEPT ![t] = FALSE]
        BY <3>2, <3>4
      <4>2. Cells!Refuse(t)
        BY <2>3, <2>4, <2>6, <3>1, <3>2, <4>1 DEF Cells!Refuse
      <4> QED
        BY <2>7, <4>2 DEF Cells!Next
    <3> QED
      BY <3>3, <3>4
  <2> QED
    BY <2>8, <2>9
<1>5. ASSUME NEW from \in {IdleOp, [pc |-> "init_abort"], [pc |-> "init_internal"]},
             NEW to \in {IdleOp, [pc |-> "init_abort"], [pc |-> "init_internal"]},
             NEW h \in Hooks, NEW f \in Fns \cup {NULL},
             op[t] = from, op' = [op EXCEPT ![t] = to],
             cell' = [cell EXCEPT ![h] = f], UNCHANGED ret, Watch(t)
      PROVE  Goal
  <2>1. from.pc # "cas" /\ to.pc # "cas"
    BY DEF IdleOp
  <2>2. Unraced(t)'
    BY <1>1, <1>5, <2>1 DEF Unraced, HookTypeOK
  <2>3. \A u \in Threads \ {t} : Unraced(u)'
    BY <1>1, <1>5, OthersUnraced DEF HookTypeOK
  <2>4. Wanted[t] = NULL /\ Wanted' = Wanted
    BY <1>1, <1>5, <2>1 DEF Wanted, HookTypeOK
  <2>5. Cells!Set(t, h, f)
    BY <1>1, <1>5, <2>4, WatchMaps DEF Cells!Set
  <2> QED
    BY <2>2, <2>3, <2>5 DEF Cells!Next
<1>6. ASSUME NEW h \in Hooks, NEW f \in FnsOf(h) \cup {NULL}, Register(t, h, f) PROVE Goal
  <2>1. op' = [op EXCEPT ![t] = IdleOp]
    BY <1>1, <1>6 DEF Register, HookTypeOK
  <2> QED
    BY <1>2, <1>5, <1>6, <2>1 DEF Register
<1>7. ASSUME InitFilter(t) \/ InitAbort(t) \/ InitInternal(t) PROVE Goal
  <2>1. {"filter", "abort", "internal"} = Hooks
    BY DEF Hooks
  <2> HIDE DEF Goal
  <2>2. ASSUME NEW from \in {IdleOp, [pc |-> "init_abort"], [pc |-> "init_internal"]},
               NEW to \in {IdleOp, [pc |-> "init_abort"], [pc |-> "init_internal"]},
               NEW h \in Hooks, InitStep(t, from, h, to)
        PROVE  Goal
    BY <1>2, <1>5, <2>2 DEF InitStep
  <2> QED
    BY <1>7, <2>1, <2>2 DEF InitFilter, InitAbort, InitInternal
<1> HIDE DEF Goal
<1>8. Goal
  BY <1>3, <1>4, <1>6, <1>7 DEF HookStep
<1> QED
  BY <1>1, <1>8 DEF HookInv, Goal

\* The code implements HookCells: a store ends with its function installed, and
\* is refused only if its cell changed between its two accesses (raw_logging.c).
THEOREM Implements == HookSpec => ImplementsHookCells
<1>1. HookInit => HookInv /\ Cells!Init
  <2> SUFFICES ASSUME HookInit PROVE HookInv /\ Cells!Init
    OBVIOUS
  <2>1. HookInv
    BY DEF HookInit, HookInv, HookTypeOK, Unraced, StaticInit, Hooks, Fns, Ops, IdleOp
  <2>2. Wanted = [t \in Threads |-> NULL]
    BY DEF HookInit, Wanted, IdleOp
  <2> QED
    BY <2>1, <2>2 DEF HookInit, HookInv, HookTypeOK, Cells!Init
<1>2. HookInv /\ [HookNext]_hookVars => HookInv' /\ [Cells!Next]_(Cells!avars)
  <2> SUFFICES ASSUME HookInv, [HookNext]_hookVars
               PROVE  HookInv' /\ [Cells!Next]_(Cells!avars)
    OBVIOUS
  <2>1. CASE HookNext
    BY <2>1, StepMaps DEF HookNext
  <2>2. CASE UNCHANGED hookVars
    BY <2>2 DEF hookVars, HookInv, HookTypeOK, Unraced, Wanted, Cells!avars
  <2> QED
    BY <2>1, <2>2
<1> QED
  BY <1>1, <1>2, PTL DEF HookSpec, ImplementsHookCells, Cells!Spec
==============================================================================
