---- MODULE ThreadIds_proofs ----
(* Proofs about the fallback GetTID: for any number of threads, any width of a word and
   any number of ids, the ids of live threads differ, a thread has one id that
   is not 0, and the two functions agree on it. *)
EXTENDS ThreadIds, FiniteSetTheorems, WellFoundedInduction, TLAPS

\* A set of natural numbers that is not empty has its least element in it.
LEMMA MinOK ==
    ASSUME NEW S \in SUBSET Nat, S # {}
    PROVE  Min(S) \in S /\ \A n \in S : Min(S) <= n
<1>1. \E n \in S : \A m \in S : ~ (<<m, n>> \in OpToRel(<, Nat))
    BY NatLessThanWellFounded, WFMin
<1>2. PICK n \in S : \A m \in S : ~ (<<m, n>> \in OpToRel(<, Nat))
    BY <1>1
<1>3. ASSUME NEW m \in S
      PROVE  n <= m
    <2>1. <<m, n>> \in Nat \X Nat /\ <<m, n>>[1] = m /\ <<m, n>>[2] = n
        OBVIOUS
    <2>2. ~ (m < n)
        BY <1>2, <2>1 DEF OpToRel
    <2> QED
        BY <2>2
<1> QED
    BY <1>3 DEF Min

\* The larger of two numbers.
LEMMA MaxOK ==
    ASSUME NEW a \in Nat, NEW b \in Nat
    PROVE  Max({a, b}) \in {a, b} /\ Max({a, b}) >= a /\ Max({a, b}) >= b
<1>1. \E x \in {a, b} : \A y \in {a, b} : x >= y
    OBVIOUS
<1> QED
    BY <1>1 DEF Max

\* Words do not overlap.
LEMMA WordsOrdered ==
    ASSUME NEW v \in Nat, NEW w \in Nat, NEW k \in Nat, v <= w
    PROVE  v * k \in Nat /\ v * k <= w * k /\ (v + 1) * k = v * k + k
<1>1. PICK d \in Nat : w = v + d
    <2> WITNESS w - v \in Nat
    <2> QED OBVIOUS
<1>2. w * k = v * k + d * k /\ d * k \in Nat /\ v * k \in Nat
    BY <1>1
<1> QED
    BY <1>2

\* The word that the search stops at, and the id of its first free bit.
FreeId == FreeWord * kBitsPerWord + FreeBit(FreeWord)
Length == Max({words, FreeWord + 1})

\* The id that the search finds is not marked, and it is within the vector, grown if need be.
LEMMA FreeIdOK ==
    ASSUME TypeOK
    PROVE  /\ FreeId \in Nat \ marks
           /\ Length \in Nat
           /\ marks \cup {FreeId} \subseteq 0 .. Length * kBitsPerWord - 1
<1> DEFINE W == {w \in 0 .. words : w = words \/ ~Full(w)}
           B == {b \in 0 .. kBitsPerWord - 1 : FreeWord * kBitsPerWord + b \notin marks}
<1> USE IdsAssumption
<1>1. words \in Nat /\ marks \subseteq 0 .. words * kBitsPerWord - 1
    BY DEF TypeOK
<1>2. FreeWord \in W
    <2>1. words \in W /\ W \in SUBSET Nat
        BY <1>1
    <2>2. W # {}
        BY <2>1
    <2> HIDE DEF W
    <2>3. Min(W) \in W
        BY <2>1, <2>2, MinOK
    <2> QED
        BY <2>3 DEF FreeWord, W
<1>3. FreeWord \in Nat /\ FreeWord <= words
    BY <1>1, <1>2
<1>4. FreeBit(FreeWord) \in B
    <2>1. B # {}
        <3>1. CASE FreeWord = words
            <4>1. 0 \in B
                BY <1>1, <3>1
            <4> QED
                BY <4>1
        <3>2. CASE FreeWord # words
            <4>1. ~Full(FreeWord)
                BY <1>2, <3>2
            <4> QED
                BY <4>1 DEF Full
        <3> QED
            BY <3>1, <3>2
    <2>2. B \in SUBSET Nat
        OBVIOUS
    <2> HIDE DEF B
    <2>3. Min(B) \in B
        BY <2>1, <2>2, MinOK
    <2> QED
        BY <2>3 DEF FreeBit, B
<1>5. /\ FreeBit(FreeWord) \in 0 .. kBitsPerWord - 1
      /\ FreeWord * kBitsPerWord + FreeBit(FreeWord) \notin marks
    BY <1>4
<1>6. Length \in Nat /\ Length >= words /\ Length >= FreeWord + 1
    BY <1>1, <1>3, MaxOK DEF Length
<1>7. /\ FreeWord * kBitsPerWord \in Nat
      /\ (FreeWord + 1) * kBitsPerWord = FreeWord * kBitsPerWord + kBitsPerWord
      /\ (FreeWord + 1) * kBitsPerWord <= Length * kBitsPerWord
      /\ words * kBitsPerWord <= Length * kBitsPerWord
      /\ words * kBitsPerWord \in Nat
      /\ Length * kBitsPerWord \in Nat
    BY <1>1, <1>3, <1>6, WordsOrdered
<1>8. FreeId \in Nat /\ FreeId < (FreeWord + 1) * kBitsPerWord /\ FreeId \notin marks
    BY <1>5, <1>7 DEF FreeId
<1> QED
    BY <1>1, <1>6, <1>7, <1>8

\* What makes the properties inductive: where there is an array the 0 is taken, a
\* thread searches only if its key holds nothing, every id given is marked, and the
\* one a thread has is under its key or on the way there.
IInv ==
    /\ TypeOK
    /\ LiveIdsDiffer
    /\ CacheAgrees
    /\ words # 0 => 0 \in marks
    /\ \A t \in Threads :
        /\ given[t] \subseteq marks
        /\ 0 \notin given[t]
        /\ pc[t] \in {"search", "set"} => tls[t] = 0
        /\ pc[t] = "set" => tid[t] # 0
        /\ given[t] \subseteq IF pc[t] = "set" THEN {tid[t]} ELSE {tls[t]}

\* The inductive invariant holds in every reachable state.
THEOREM Invariant == Spec => []IInv
<1>1. Init => IInv
    <2> SUFFICES ASSUME Init PROVE IInv
        OBVIOUS
    <2>1. words \in Nat /\ marks \subseteq 0 .. words * kBitsPerWord - 1
        BY IdsAssumption DEF Init
    <2> QED
        BY <2>1 DEF Init, IInv, TypeOK, LiveIdsDiffer, CacheAgrees, Places, None
<1>2. IInv /\ [Next]_vars => IInv'
    <2> SUFFICES ASSUME IInv, [Next]_vars PROVE IInv'
        OBVIOUS
    <2> USE DEF IInv, TypeOK, LiveIdsDiffer, CacheAgrees, Places, None
    <2>1. ASSUME NEW t \in Threads, NEW f \in {"GetTID", "GetCachedTID"}, Call(t, f)
          PROVE  IInv'
        BY <2>1 DEF Call
    <2>2. ASSUME NEW t \in Threads, InitGetTID(t) PROVE IInv'
        BY <2>2 DEF InitGetTID, Alive
    <2>3. ASSUME NEW t \in Threads, GetSpecific(t) PROVE IInv'
        BY <2>3 DEF GetSpecific, Return
    <2>4. ASSUME NEW t \in Threads, Search(t) PROVE IInv'
        <3>1. Take(t, FreeId, Length, marks \cup {FreeId})
            BY <2>4 DEF Search, FreeId, Length
        <3>2. /\ FreeId \in Nat \ marks /\ Length \in Nat
              /\ marks \cup {FreeId} \subseteq 0 .. Length * kBitsPerWord - 1
            BY FreeIdOK
        <3> DEFINE id == FreeId
                   length == Length
        <3> HIDE DEF id, length
        <3>3. /\ words' = length /\ marks' = marks \cup {id}
              /\ tid' = [tid EXCEPT ![t] = id]
              /\ given' = [given EXCEPT ![t] = @ \cup {id}]
              /\ pc' = [pc EXCEPT ![t] = "set"] /\ pc[t] = "search" /\ words # 0
              /\ UNCHANGED <<via, tls, cached, process>>
              /\ id \in Nat \ marks /\ length \in Nat
              /\ marks \cup {id} \subseteq 0 .. length * kBitsPerWord - 1
            BY <3>1, <3>2 DEF Take, id, length
        <3>4. TypeOK'
            BY <3>3
        <3>5. LiveIdsDiffer' /\ CacheAgrees'
            BY <3>3
        <3>6. ASSUME NEW u \in Threads
              PROVE  /\ given'[u] \subseteq marks'
                     /\ 0 \notin given'[u]
                     /\ pc'[u] \in {"search", "set"} => tls'[u] = 0
                     /\ pc'[u] = "set" => tid'[u] # 0
                     /\ given'[u] \subseteq
                            IF pc'[u] = "set" THEN {tid'[u]} ELSE {tls'[u]}
            BY <3>3
        <3>7. 0 \in marks'
            BY <3>3
        <3> QED
            BY <3>4, <3>5, <3>6, <3>7
    <2>5. ASSUME NEW t \in Threads, SetSpecific(t) PROVE IInv'
        BY <2>5 DEF SetSpecific, Return
    <2>6. ASSUME NEW t \in Threads, Exit(t) PROVE IInv'
        BY <2>6 DEF Exit
    <2>8. ASSUME NEW t \in Threads, SearchNull(t) PROVE IInv'
        BY <2>8 DEF SearchNull
    <2>7. CASE UNCHANGED vars
        BY <2>7 DEF vars
    <2> QED
        BY <2>1, <2>2, <2>3, <2>4, <2>5, <2>6, <2>7, <2>8 DEF Next
<1> QED
    BY <1>1, <1>2, PTL DEF Spec

\* Every variable keeps its type, and no bit lies outside the vector (sysinfo.c:375-395).
THEOREM TypeCorrect == Spec => []TypeOK
<1>1. IInv => TypeOK
    BY DEF IInv
<1> QED
    BY <1>1, Invariant, PTL

\* No two live threads are given one id (sysinfo.c:375-403).
THEOREM LiveIds == Spec => []LiveIdsDiffer
<1>1. IInv => LiveIdsDiffer
    BY DEF IInv
<1> QED
    BY <1>1, Invariant, PTL

\* A thread has one id, however often it asks, and never the 0 (sysinfo.c:336-338, 367-373).
THEOREM OneId == Spec => []OneIdPerThread
<1>1. IInv => OneIdPerThread
    <2> SUFFICES ASSUME IInv, NEW t \in Threads
                 PROVE  Cardinality(given[t]) <= 1 /\ 0 \notin given[t]
        BY DEF OneIdPerThread
    <2>1. PICK x : given[t] \subseteq {x}
        BY DEF IInv
    <2>2. IsFiniteSet({x}) /\ Cardinality({x}) = 1
        BY FS_Singleton
    <2>3. Cardinality(given[t]) <= Cardinality({x})
        BY <2>1, <2>2, FS_Subset
    <2> QED
        BY <2>2, <2>3 DEF IInv
<1> QED
    BY <1>1, Invariant, PTL

\* Whatever GetCachedTID has cached is what GetTID goes on to answer, and not the
\* 0 (sysinfo.c:370-373, 397-414).
THEOREM Cache == Spec => []CacheAgrees
<1>1. IInv => CacheAgrees
    BY DEF IInv
<1> QED
    BY <1>1, Invariant, PTL
====
