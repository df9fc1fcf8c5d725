---- MODULE ThreadIds ----
(* The fallback GetTID and GetCachedTID (sysinfo.c:331-414). tid_lock is declared
   in a comment only; the code that is left uses it as a lock, which makes the
   search one step. tid_array is a pointer to a vector of words: null, as its
   declaration says (a comment, line 341), or to one word with bit 0 taken, as
   the comment in InitGetTID would leave it (lines 363-364). *)
EXTENDS Integers, FiniteSets, FiniteSetsExt

CONSTANTS Threads,
          kBitsPerWord,
          HaveThreadLocal,  \* CIC_HAVE_THREAD_LOCAL
          MaxIds            \* bound: ids given and being asked for

ASSUME IdsAssumption ==
    /\ kBitsPerWord \in Nat \ {0} /\ HaveThreadLocal \in BOOLEAN /\ MaxIds \in Nat

None == -1

VARIABLES pc,       \* [Threads -> Places]
          via,      \* the function called last
          tid,      \* GetTID's local
          tls,      \* the value under tid_key; 0 is the default
          cached,   \* the thread local thread_id
          words, marks,   \* tid_array: its length, 0 for the null pointer, and
                          \* its bits that are set
          process,  \* "start", "running" with the key created, "aborted", or
                    \* "fault" after the null pointer was followed
          given     \* history: the ids that the search gave a thread

vars == <<pc, via, tid, tls, cached, words, marks, process, given>>

Places == {"idle", "once", "get", "search", "set"}

Init ==
    /\ pc = [t \in Threads |-> "idle"] /\ via = [t \in Threads |-> "GetTID"]
    /\ tid = [t \in Threads |-> 0] /\ tls = [t \in Threads |-> 0]
    /\ cached = [t \in Threads |-> None]
    /\ \/ words = 0 /\ marks = {}
       \/ words = 1 /\ marks = {0}
    /\ process = "start"
    /\ given = [t \in Threads |-> {}]

Alive == process \in {"start", "running"}

\* The bound of the model.
Room == Cardinality(marks) + Cardinality({t \in Threads : pc[t] # "idle"}) < MaxIds

\* GetCachedTID with its thread_id set returns that and leaves all as it is.
Call(t, f) ==
    /\ Alive /\ pc[t] = "idle" /\ Room
    /\ f = "GetCachedTID" => ~(HaveThreadLocal /\ cached[t] # None)
    /\ pc' = [pc EXCEPT ![t] = "once"] /\ via' = [via EXCEPT ![t] = f]
    /\ UNCHANGED <<tid, tls, cached, words, marks, process, given>>

\* cicflow::call_once(tid_once, InitGetTID): it runs InitGetTID, which creates the
\* key or aborts, or it comes back without having run it, as call_once.h:36-74
\* does; or it stays, because nothing says that it ever comes back.
InitGetTID(t) ==
    /\ Alive /\ pc[t] = "once"
    /\ \/ process' \in {process, "running"} /\ pc' = [pc EXCEPT ![t] = "get"]
       \/ process = "start" /\ process' = "aborted" /\ UNCHANGED pc
    /\ UNCHANGED <<via, tid, tls, cached, words, marks, given>>

Return(t, id) ==
    /\ pc' = [pc EXCEPT ![t] = "idle"]
    /\ cached' = IF via[t] = "GetCachedTID" /\ HaveThreadLocal
                 THEN [cached EXCEPT ![t] = id] ELSE cached

\* Slip: goes on to the search whatever the key holds.
GetSpecificIgnored(t) ==
    /\ Alive /\ pc[t] = "get"
    /\ pc' = [pc EXCEPT ![t] = "search"]
    /\ UNCHANGED <<via, tid, tls, cached, words, marks, process, given>>

\* pthread_getspecific: 0 for a key nobody has created, too.
GetSpecific(t) ==
    /\ Alive /\ pc[t] = "get"
    /\ IF tls[t] # 0 THEN Return(t, tls[t])
       ELSE pc' = [pc EXCEPT ![t] = "search"] /\ UNCHANGED cached
    /\ UNCHANGED <<via, tid, tls, words, marks, process, given>>

Full(w) == \A b \in 0 .. kBitsPerWord - 1 : w * kBitsPerWord + b \in marks

\* The first word with a zero bit, a new one if there is none.
FreeWord == Min({w \in 0 .. words : w = words \/ ~Full(w)})

FreeBit(w) == Min({b \in 0 .. kBitsPerWord - 1 : w * kBitsPerWord + b \notin marks})

Take(t, id, length, bits) ==
    /\ Alive /\ pc[t] = "search" /\ words # 0
    /\ words' = length /\ marks' = bits
    /\ tid' = [tid EXCEPT ![t] = id] /\ given' = [given EXCEPT ![t] = @ \cup {id}]
    /\ pc' = [pc EXCEPT ![t] = "set"]
    /\ UNCHANGED <<via, tls, cached, process>>

\* Slip: the bit is not marked.
SearchUnmarked(t) ==
    Take(t, FreeWord * kBitsPerWord + FreeBit(FreeWord), Max({words, FreeWord + 1}), marks)

\* Slip: a bit is set in the word behind the last one.
SearchOutside(t) ==
    LET id == FreeWord * kBitsPerWord + FreeBit(FreeWord)
    IN  Take(t, id, words, marks \cup {id})

Search(t) ==
    LET id == FreeWord * kBitsPerWord + FreeBit(FreeWord)
    IN  Take(t, id, Max({words, FreeWord + 1}), marks \cup {id})

\* The search asks the null pointer for its size.
SearchNull(t) ==
    /\ Alive /\ pc[t] = "search" /\ words = 0
    /\ process' = "fault"
    /\ UNCHANGED <<pc, via, tid, tls, cached, words, marks, given>>

\* Slip: the value is handed on without being stored.
SetSpecificLost(t) ==
    /\ Alive /\ pc[t] = "set"
    /\ Return(t, tid[t])
    /\ UNCHANGED <<via, tid, tls, words, marks, process, given>>

\* pthread_setspecific fails for a key nobody has created, and may fail for one
\* that is.
SetSpecific(t) ==
    /\ Alive /\ pc[t] = "set"
    /\ \/ /\ process = "running"
          /\ tls' = [tls EXCEPT ![t] = tid[t]] /\ Return(t, tid[t]) /\ UNCHANGED process
       \/ process' = "aborted" /\ UNCHANGED <<pc, cached, tls>>
    /\ UNCHANGED <<via, tid, words, marks, given>>

\* A thread ends and another takes its place. FreeTID, called for a value
\* other than zero, computes a word and gives nothing back.
Exit(t) ==
    /\ Alive /\ pc[t] = "idle" /\ (tls[t] # 0 \/ given[t] # {})
    /\ tls' = [tls EXCEPT ![t] = 0] /\ cached' = [cached EXCEPT ![t] = None]
    /\ given' = [given EXCEPT ![t] = {}] /\ tid' = [tid EXCEPT ![t] = 0]
    /\ via' = [via EXCEPT ![t] = "GetTID"]
    /\ UNCHANGED <<pc, words, marks, process>>

Next == \E t \in Threads :
    \/ Call(t, "GetTID") \/ Call(t, "GetCachedTID")
    \/ InitGetTID(t) \/ GetSpecific(t) \/ Search(t) \/ SearchNull(t) \/ SetSpecific(t)
    \/ Exit(t)

Spec == Init /\ [][Next]_vars

----
(* Properties *)

\* Every variable has its type, and the bits are within the vector.
TypeOK ==
    /\ pc \in [Threads -> Places]
    /\ via \in [Threads -> {"GetTID", "GetCachedTID"}]
    /\ tid \in [Threads -> Nat] /\ tls \in [Threads -> Nat]
    /\ cached \in [Threads -> Nat \cup {None}]
    /\ words \in Nat /\ marks \subseteq 0 .. words * kBitsPerWord - 1
    /\ process \in {"start", "running", "aborted", "fault"}
    /\ given \in [Threads -> SUBSET Nat]

\* No two live threads are given one id, from the search on, between the mark
\* and the storing of the value too (sysinfo.c:375-403).
LiveIdsDiffer == \A t, u \in Threads : t # u => given[t] \cap given[u] = {}

\* However often a thread asks, through whichever function, the search gives it
\* one id, and never the 0 that pthread_getspecific returns for none, which would
\* make it search again (sysinfo.c:336-338, 367-373, 397-414).
OneIdPerThread ==
    \A t \in Threads : Cardinality(given[t]) <= 1 /\ 0 \notin given[t]

\* What a thread has cached is what it has under its key, and no 0: GetTID and
\* GetCachedTID always agree (sysinfo.c:370-373, 397-414).
CacheAgrees ==
    \A t \in Threads : cached[t] # None => tls[t] = cached[t] /\ cached[t] # 0
====
