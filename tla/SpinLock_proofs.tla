--------------------------- MODULE SpinLock_proofs ---------------------------
(***************************************************************************)
(* Proofs about the try-lock, for any set of threads.                      *)
(***************************************************************************)
EXTENDS SpinLock, TLAPS

\* A thread goes for the exchange only with the value of the free lock, so an
\* exchange that fails has found the lock held.
IInv ==
  /\ TypeOK
  /\ AtMostOneWinner
  /\ ModeKept
  /\ \A t \in Threads : pc[t] = "cas" => value[t] = mode

\* The inductive invariant holds in every reachable state.
THEOREM Invariant == Spec => []IInv
<1> USE DEF IInv, TypeOK, AtMostOneWinner, ModeKept, Bits
<1>1. Init => IInv
  BY DEF Init
<1>2. IInv /\ [Next]_vars => IInv'
  <2> SUFFICES ASSUME IInv, [Next]_vars PROVE IInv'
    OBVIOUS
  <2>1. ASSUME NEW t \in Threads, Load(t) PROVE IInv'
    <3>1. CASE "HELD" \in lockword
      BY <2>1, <3>1 DEF Load, Return
    <3>2. CASE "HELD" \notin lockword
      <4>1. lockword = mode
        BY <3>2
      <4>2. UNCHANGED <<lockword, mode, result, winners>>
        BY <2>1, <3>2 DEF Load
      <4>3. pc' = [pc EXCEPT ![t] = "cas"] /\ value' = [value EXCEPT ![t] = mode]
        BY <2>1, <3>2, <4>1 DEF Load
      <4>4. /\ pc' \in [Threads -> {"idle", "cas"}]
            /\ value' \in [Threads -> SUBSET Bits]
        <5>1. mode \in SUBSET Bits
          OBVIOUS
        <5>2. pc' \in [Threads -> {"idle", "cas"}]
          BY <4>3
        <5>3. value' \in [Threads -> SUBSET Bits]
          BY <4>3, <5>1, Zenon
        <5> QED
          BY <5>2, <5>3
      <4>5. ASSUME NEW u \in Threads, pc'[u] = "cas" PROVE value'[u] = mode
        <5>1. CASE u = t
          BY <4>3, <5>1, Zenon
        <5>2. CASE u # t
          <6>1. pc[u] = "cas" /\ value'[u] = value[u]
            BY <4>3, <4>5, <5>2
          <6> QED
            BY <6>1
        <5> QED
          BY <5>1, <5>2
      <4> QED
        BY <4>2, <4>4, <4>5
    <3> QED
      BY <3>1, <3>2
  <2>2. ASSUME NEW t \in Threads, Cas(t) PROVE IInv'
    <3>1. CASE lockword = value[t]
      <4>1. /\ "HELD" \notin lockword /\ winners = 0
            /\ lockword' = {"HELD"} \cup lockword /\ winners' = 1
            /\ mode' = mode
        <5>1. "HELD" \notin lockword /\ winners = 0
          BY <2>2, <3>1 DEF Cas
        <5> QED
          BY <2>2, <3>1, <5>1 DEF Cas, Return
      <4>2. lockword' \ {"HELD"} = mode' /\ lockword' \subseteq Bits
        BY <4>1
      <4>3. AtMostOneWinner' /\ winners' \in Nat
        BY <4>1
      <4>4. /\ pc' \in [Threads -> {"idle", "cas"}] /\ value' \in [Threads -> SUBSET Bits]
            /\ result' \in [Threads -> BOOLEAN] /\ mode' \subseteq Bits \ {"HELD"}
            /\ \A u \in Threads : pc'[u] = "cas" => value'[u] = mode'
        BY <2>2, <3>1 DEF Cas, Return
      <4> QED
        BY <4>2, <4>3, <4>4
    <3>2. CASE lockword # value[t]
      <4>1. CASE "HELD" \in lockword
        BY <2>2, <3>2, <4>1 DEF Cas, Return
      <4>2. CASE "HELD" \notin lockword
        BY <2>2, <3>2, <4>2 DEF Cas
      <4> QED
        BY <4>1, <4>2
    <3> QED
      BY <3>1, <3>2
  <2>3. CASE UNCHANGED vars
    BY <2>3 DEF vars
  <2> QED
    BY <2>1, <2>2, <2>3 DEF Next
<1> QED
  BY <1>1, <1>2, PTL DEF Spec

\* At most one of all the calls ever made is told that it has the lock.
THEOREM OneWinner == Spec => []AtMostOneWinner
<1>1. IInv => AtMostOneWinner
  BY DEF IInv
<1> QED
  BY <1>1, Invariant, PTL

\* Taking a lock leaves the other bits of its word as the lock was made.
THEOREM ModeSurvives == Spec => []ModeKept
<1>1. IInv => ModeKept
  BY DEF IInv
<1> QED
  BY <1>1, Invariant, PTL
==============================================================================
