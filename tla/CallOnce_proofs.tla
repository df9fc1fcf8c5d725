--------------------------- MODULE CallOnce_proofs ---------------------------
(***************************************************************************)
(* Proofs about call_once: whatever word spinlock_wait makes up for its    *)
(* uninitialised local and whatever lies behind its transition table, the  *)
(* flag is claimed at most once each time it is ONCE_INIT, no call returns *)
(* before a claim, and nobody sleeps unannounced before an entry from      *)
(* behind the table has written the word.                                  *)
(***************************************************************************)
EXTENDS CallOnce, TLAPS

USE WordAssumption DEF WordAssumption, Named, Words, Entries

\* Beyond the first exchange, the flag has been claimed.
IInv ==
  /\ TypeOK
  /\ AtMostOneClaim
  /\ claims = 1 => claimed
  /\ \A t \in Threads : pc[t] \notin {"idle", "cas"} => claimed

\* The scan of spinlock_wait stops only at entries for its word, and for
\* ONCE_INIT at the one of the claim; no entry of the table leads to ONCE_INIT.
LEMMA MatchesOK ==
  ASSUME NEW v \in Words, NEW e \in Matches(v)
  PROVE  /\ e \in Entries /\ e.from = v
         /\ e.to = ONCE_INIT => e \notin Trans
         /\ v = ONCE_INIT => e.to = ONCE_RUNNING
<1>1. /\ Trans \subseteq Entries
      /\ \A x \in Trans : x.to # ONCE_INIT
      /\ \A x \in Trans : x.from = ONCE_INIT => x.to = ONCE_RUNNING
      /\ \E x \in Trans : x.from = ONCE_INIT
  BY DEF Trans
<1> QED
  BY <1>1 DEF Matches

\* An iteration of the wait loop that writes the word, for one word and one entry.
WaitEntry(t, v, e) ==
  /\ control = v
  /\ IF e.done THEN WaitReturns(t, v) ELSE pc[t] = "wait" /\ UNCHANGED <<pc, ret>>
  /\ SetControl(e.to)
  /\ claims' = IF v = ONCE_INIT THEN claims + 1
               ELSE IF e.to = ONCE_INIT THEN 0 ELSE claims
  /\ claimed' = (claimed \/ v = ONCE_INIT)
  /\ overrun' = (overrun \/ e \notin Trans)

\* Every step keeps the invariant, and lets a call end only after a claim.
LEMMA StepInv ==
  ASSUME IInv, [Next]_vars
  PROVE  /\ IInv'
         /\ \A t \in Threads : pc[t] # "idle" /\ pc'[t] = "idle" => claimed'
<1> DEFINE Goal ==
             /\ IInv'
             /\ \A t \in Threads : pc[t] # "idle" /\ pc'[t] = "idle" => claimed'
<1> USE DEF IInv, TypeOK, PCs, AtMostOneClaim, Goto, word
<1>1. ASSUME NEW t \in Threads, Call(t) PROVE Goal
  BY <1>1 DEF Call
<1>2. ASSUME NEW t \in Threads, FirstCas(t) PROVE Goal
  <2>1. CASE control = ONCE_INIT
    <3>1. /\ claimed' /\ overrun' = overrun /\ claims' = claims + 1 /\ claims = 0
          /\ control' = ONCE_RUNNING /\ held' = held \cup {ONCE_RUNNING} /\ UNCHANGED ret
          /\ pc[t] = "cas" /\ pc' = [pc EXCEPT ![t] = "exchange"]
      BY <1>2, <2>1 DEF FirstCas, Claim, SetControl
    <3>2. claimed' \in BOOLEAN
      BY <1>2, <2>1 DEF FirstCas, Claim
    <3> QED
      BY <3>1, <3>2
  <2>2. CASE control # ONCE_INIT
    BY <1>2, <2>2 DEF FirstCas
  <2> QED
    BY <2>1, <2>2
<1>3. ASSUME NEW t \in Threads, WaitNoChange(t) PROVE Goal
  BY <1>3, MatchesOK DEF WaitNoChange, WaitReturns
<1>4. ASSUME NEW t \in Threads, WaitCas(t) PROVE Goal
  <2>1. PICK v \in Words : \E e \in Matches(v) : WaitEntry(t, v, e)
    BY <1>4 DEF WaitCas, WaitEntry
  <2>2. PICK e \in Matches(v) : WaitEntry(t, v, e)
    BY <2>1
  <2>3. /\ e.to \in Words
        /\ e.to = ONCE_INIT => e \notin Trans
        /\ v = ONCE_INIT => e.to = ONCE_RUNNING
    BY MatchesOK
  <2>4. /\ pc[t] = "wait" /\ claimed
        /\ control = ONCE_INIT <=> v = ONCE_INIT
    BY <2>2 DEF WaitReturns, WaitEntry
  <2>5. /\ control' = e.to /\ held' = held \cup {e.to}
        /\ claims' = IF v = ONCE_INIT THEN claims + 1
                     ELSE IF e.to = ONCE_INIT THEN 0 ELSE claims
        /\ claimed'
        /\ overrun' \in BOOLEAN /\ (e.to = ONCE_INIT => overrun')
    BY <2>2, <2>3, <2>4 DEF WaitEntry, SetControl
  <2>6. TypeOK' /\ AtMostOneClaim'
    BY <2>2, <2>3, <2>4, <2>5 DEF WaitReturns, WaitEntry
  <2> QED
    BY <2>2, <2>4, <2>5, <2>6 DEF WaitReturns, WaitEntry
<1>5. ASSUME NEW t \in Threads, WaitDelay(t) PROVE Goal
  BY <1>5 DEF WaitDelay
<1>6. ASSUME NEW t \in Threads, SpuriousWake(t) PROVE Goal
  BY <1>6 DEF SpuriousWake
<1>7. ASSUME NEW t \in Threads, Exchange(t) PROVE Goal
  BY <1>7 DEF Exchange
<1>8. ASSUME NEW t \in Threads, Wake(t) PROVE Goal
  BY <1>8 DEF Wake
<1>9. CASE UNCHANGED vars
  BY <1>9 DEF vars
<1> QED
  BY <1>1, <1>2, <1>3, <1>4, <1>5, <1>6, <1>7, <1>8, <1>9 DEF Next, Step

\* The inductive invariant holds in every reachable state.
THEOREM Invariant == Spec => []IInv
<1>1. Init => IInv
  <2> SUFFICES ASSUME Init PROVE IInv
    OBVIOUS
  <2>1. claimed \in BOOLEAN /\ overrun \in BOOLEAN /\ ~claimed
    BY DEF Init
  <2>2. TypeOK
    BY <2>1 DEF Init, TypeOK, PCs
  <2> QED
    BY <2>1, <2>2 DEF Init, IInv, AtMostOneClaim
<1>2. IInv /\ [Next]_vars => IInv'
  BY StepInv
<1> QED
  BY <1>1, <1>2, PTL DEF Spec

\* Every variable of call_once keeps its type: the control word is one of the words
\* that the code or the memory behind its table names.
THEOREM TypeCorrect == Spec => []TypeOK
<1>1. IInv => TypeOK
  BY DEF IInv
<1> QED
  BY <1>1, Invariant, PTL

\* At most one caller claims the flag each time it is free, and it becomes free
\* again only through an entry from behind the table, whatever lies there.
THEOREM OneClaim == Spec => []AtMostOneClaim
<1>1. IInv => AtMostOneClaim
  BY DEF IInv
<1> QED
  BY <1>1, Invariant, PTL

\* No call of call_once returns before somebody has claimed the flag.
THEOREM ClaimFirst == Spec => ReturnOnlyAfterClaim
<1> DEFINE Returns == \A t \in Threads : pc[t] # "idle" /\ pc'[t] = "idle" => claimed'
<1>1. IInv /\ [Next]_vars => [Returns]_vars
  BY StepInv
<1> QED
  BY <1>1, Invariant, PTL DEF Spec, ReturnOnlyAfterClaim

------------------------------------------------------------------------------
\* A caller is asleep only while the word says so, for as long as no entry from
\* behind the table has written it; nothing is assumed of what lies there.
THEOREM SleepIsAnnounced == Spec => []AnnouncedSleep
<1> DEFINE SInv == /\ AnnouncedSleep
                   /\ control \in {ONCE_INIT, ONCE_RUNNING, ONCE_WAITER} \/ overrun
<1>1. Init => SInv
  BY DEF Init, AnnouncedSleep
<1>2. IInv /\ SInv /\ [Next]_vars => SInv'
  <2> SUFFICES ASSUME IInv, SInv, [Next]_vars PROVE SInv'
    OBVIOUS
  <2> USE DEF AnnouncedSleep, Goto, word
  <2>0. pc \in [Threads -> PCs] /\ control \in Words /\ overrun \in BOOLEAN
    BY DEF IInv, TypeOK
  <2>1. ASSUME NEW t \in Threads, Call(t) PROVE SInv'
    BY <2>0, <2>1 DEF Call
  <2>2. ASSUME NEW t \in Threads, FirstCas(t) PROVE SInv'
    BY <2>0, <2>2 DEF FirstCas, Claim, SetControl
  <2>3. ASSUME NEW t \in Threads, WaitNoChange(t) PROVE SInv'
    BY <2>0, <2>3 DEF WaitNoChange, WaitReturns
  <2>4. ASSUME NEW t \in Threads, WaitCas(t) PROVE SInv'
    <3>1. PICK v \in Words : \E e \in Matches(v) : WaitEntry(t, v, e)
      BY <2>4 DEF WaitCas, WaitEntry
    <3>2. PICK e \in Matches(v) : WaitEntry(t, v, e)
      BY <3>1
    <3>3. CASE overrun \/ e \notin Trans
      BY <3>2, <3>3 DEF WaitEntry
    <3>4. CASE ~overrun /\ e \in Trans
      <4>1. control \in {ONCE_INIT, ONCE_RUNNING} /\ control' \in {ONCE_RUNNING, ONCE_WAITER}
        BY <3>2, <3>4, MatchesOK DEF Trans, SetControl, WaitEntry
      <4>2. \A u \in Threads : pc[u] # "asleep"
        BY <3>4, <4>1
      <4> QED
        BY <2>0, <3>2, <4>1, <4>2 DEF WaitReturns, WaitEntry
    <3> QED
      BY <3>3, <3>4
  <2>5. ASSUME NEW t \in Threads, WaitDelay(t) PROVE SInv'
    <3>1. PICK v \in Words :
            /\ Matches(v) = {} \/ v \notin {e.from : e \in Trans}
            /\ Goto(t, "wait", IF control = v THEN "asleep" ELSE "wait")
      BY <2>5 DEF WaitDelay
    <3>2. control = v => control = ONCE_WAITER \/ overrun
      BY <3>1 DEF Matches, Trans
    <3> QED
      BY <2>0, <2>5, <3>1, <3>2 DEF WaitDelay
  <2>6. ASSUME NEW t \in Threads, SpuriousWake(t) \/ Exchange(t) PROVE SInv'
    BY <2>0, <2>6 DEF SpuriousWake, Exchange
  <2>7. ASSUME NEW t \in Threads, Wake(t) PROVE SInv'
    BY <2>0, <2>7 DEF Wake
  <2>8. CASE UNCHANGED vars
    BY <2>8 DEF vars
  <2> QED
    BY <2>1, <2>2, <2>3, <2>4, <2>5, <2>6, <2>7, <2>8 DEF Next, Step
<1>3. SInv => AnnouncedSleep
  OBVIOUS
<1> QED
  BY <1>1, <1>2, <1>3, Invariant, PTL DEF Spec
==============================================================================
