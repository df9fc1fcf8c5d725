------------------------------- MODULE SpinLock -------------------------------
(***************************************************************************)
(* The try-lock of spinlock.h.  The lock word is the set of its bits.      *)
(* The port has no unlock and no blocking lock: a lock that has been taken *)
(* stays taken.                                                            *)
(***************************************************************************)
EXTENDS Naturals

CONSTANT Threads  \* the threads that try the lock

VARIABLES lockword,  \* the bits of the lock word
          pc,        \* where each thread is in try_lock_impl
          value,     \* the thread's lock_value
          result,    \* what its last try_lock_impl returned
          winners,   \* history: how many calls returned true
          mode       \* history: the bits other than HELD the lock was made with

vars == <<lockword, pc, value, result, winners, mode>>

Bits == {"HELD", "COOPERATIVE", "DISABLE_SCHEDULING", "SLEEPER"}

\* A lock is made free: zeroed (init_arena), or marked cooperative.
Init ==
  /\ mode \in {{}, {"COOPERATIVE"}}
  /\ lockword = mode
  /\ pc = [t \in Threads |-> "idle"]
  /\ value = [t \in Threads |-> {}]
  /\ result = [t \in Threads |-> FALSE]
  /\ winners = 0

\* What try_lock_impl makes of the value try_lock_internal gives it back, seen
\* by the caller: v is the lock_value that came back.
Return(t, v) ==
  LET free == "HELD" \notin v
  IN  /\ pc' = [pc EXCEPT ![t] = "idle"]
      /\ value' = [value EXCEPT ![t] = {}]
      /\ result' = [result EXCEPT ![t] = free]
      /\ winners' = IF free THEN winners + 1 ELSE winners

\* try_lock_impl loads the word; try_lock_internal gives up at once on a held one.
Load(t) ==
  /\ pc[t] = "idle"
  /\ IF "HELD" \in lockword
     THEN Return(t, lockword)
     ELSE /\ pc' = [pc EXCEPT ![t] = "cas"]
          /\ value' = [value EXCEPT ![t] = lockword]
          /\ UNCHANGED <<result, winners>>
  /\ UNCHANGED <<lockword, mode>>

\* Slip: gives back the value it loaded even if the exchange found another.
CasKeepsStaleValue(t) ==
  /\ pc[t] = "cas"
  /\ lockword' = IF lockword = value[t] THEN {"HELD"} \cup value[t] ELSE lockword
  /\ Return(t, value[t])
  /\ UNCHANGED mode

\* Slip: writes the HELD bit alone.
CasDropsMode(t) ==
  /\ pc[t] = "cas"
  /\ IF lockword = value[t]
     THEN lockword' = {"HELD"} /\ Return(t, value[t])
     ELSE UNCHANGED lockword /\ Return(t, lockword)
  /\ UNCHANGED mode

\* try_lock_internal: the exchange, with no wait cycles and nothing to disable; it
\* gives back the value it expected, or on failure the one it found.
Cas(t) ==
  /\ pc[t] = "cas"
  /\ IF lockword = value[t]
     THEN lockword' = {"HELD"} \cup value[t] /\ Return(t, value[t])
     ELSE UNCHANGED lockword /\ Return(t, lockword)
  /\ UNCHANGED mode

Next == \E t \in Threads : Load(t) \/ Cas(t)

Spec == Init /\ [][Next]_vars

------------------------------------------------------------------------------
(* Properties *)

TypeOK ==
  /\ lockword \subseteq Bits
  /\ pc \in [Threads -> {"idle", "cas"}]
  /\ value \in [Threads -> SUBSET Bits]
  /\ result \in [Threads -> BOOLEAN]
  /\ winners \in Nat
  /\ mode \subseteq Bits \ {"HELD"}

\* Of all the calls that race for a lock at most one is told it has it, and then
\* the word says held: the value that comes back is the only sign of success, and
\* a stale one would tell two callers (spinlock.h:29-51).
AtMostOneWinner == winners = IF "HELD" \in lockword THEN 1 ELSE 0

\* Taking the lock leaves every other bit of its word as the lock was made: a
\* cooperative lock is still one when it is held (spinlock.h:40-41).
ModeKept == lockword \ {"HELD"} = mode
==============================================================================
