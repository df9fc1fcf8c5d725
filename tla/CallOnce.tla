------------------------------- MODULE CallOnce -------------------------------
(***************************************************************************)
(* call_once (call_once.h) on one once_flag_t, with the waiting loop it    *)
(* uses (spinlock_wait.c) and the futex below it (spinlock_linux.inc).     *)
(*                                                                         *)
(* The loop of spinlock_wait never loads the word it waits for: its `v` is *)
(* an uninitialised local, so each iteration works with any word at all.   *)
(* It is also told that the transition table has sizeof(trans) entries,    *)
(* one for each byte of the table, so a word that matches none of the      *)
(* three entries is looked up in the memory behind them: `Stray` is what   *)
(* may be found there.                                                     *)
(***************************************************************************)
EXTENDS Naturals

CONSTANTS Threads,  \* the threads that use the flag
          ONCE_INIT, ONCE_RUNNING, ONCE_WAITER, ONCE_DONE,  \* named control words
          Junk,     \* other words an uninitialised local may hold
          Stray     \* entries found past the end of the transition table

Named == {ONCE_INIT, ONCE_RUNNING, ONCE_WAITER, ONCE_DONE}

Words == Named \cup Junk

Entries == [from : Words, to : Words, done : BOOLEAN]

\* The four names are different words; the memory behind the table may hold any
\* entries at all.
ASSUME WordAssumption ==
  /\ ONCE_INIT \notin {ONCE_RUNNING, ONCE_WAITER, ONCE_DONE}
  /\ ONCE_RUNNING \notin {ONCE_WAITER, ONCE_DONE}
  /\ ONCE_WAITER # ONCE_DONE
  /\ Named \cap Junk = {}
  /\ Stray \subseteq Entries

VARIABLES control,  \* the control word of the flag
          pc,       \* where each thread is in call_once
          ret,      \* what the thread's last spinlock_wait returned
          claims,   \* history: how often the word was taken from ONCE_INIT since it
                    \* last became ONCE_INIT
          claimed,  \* history: the word was ever taken from ONCE_INIT
          overrun,  \* history: an entry from behind the table has written the word
          held      \* history: the values the word has held

\* The word, and what is remembered of it.
word == <<control, claims, claimed, overrun, held>>

vars == <<word, pc, ret>>

PCs == {"idle", "cas", "wait", "asleep", "exchange", "wake"}

\* trans[] of call_once_impl.
Trans == {[from |-> ONCE_INIT, to |-> ONCE_RUNNING, done |-> TRUE],
          [from |-> ONCE_RUNNING, to |-> ONCE_WAITER, done |-> FALSE],
          [from |-> ONCE_DONE, to |-> ONCE_DONE, done |-> TRUE]}

\* The entries the scan of spinlock_wait may stop at for the word v: the one of
\* the table, or else any of the entries behind it.
Matches(v) ==
  LET listed == {e \in Trans : e.from = v}
  IN  IF listed # {} THEN listed ELSE {e \in Stray : e.from = v}

Init ==
  /\ control = ONCE_INIT
  /\ pc = [t \in Threads |-> "idle"]
  /\ ret = [t \in Threads |-> ONCE_INIT]
  /\ claims = 0
  /\ claimed = FALSE
  /\ overrun = FALSE
  /\ held = {ONCE_INIT}

Goto(t, from, to) == pc[t] = from /\ pc' = [pc EXCEPT ![t] = to]

SetControl(w) == control' = w /\ held' = held \cup {w}

\* The first exchange has found ONCE_INIT.
Claim ==
  /\ SetControl(ONCE_RUNNING)
  /\ claims' = claims + 1
  /\ claimed' = TRUE
  /\ UNCHANGED overrun

\* spinlock_wait returns v: ONCE_INIT is a claim, with anything else the call is over.
WaitReturns(t, v) ==
  /\ Goto(t, "wait", IF v = ONCE_INIT THEN "exchange" ELSE "idle")
  /\ ret' = [ret EXCEPT ![t] = v]

\* call_once and low_level_call_onece: the fast path returns at once if ONCE_DONE.
Call(t) ==
  /\ Goto(t, "idle", IF control # ONCE_DONE THEN "cas" ELSE "idle")
  /\ UNCHANGED <<word, ret>>

\* Slip: a weak exchange, which may fail for no reason.
FirstCasWeak(t) ==
  /\ \/ /\ control = ONCE_INIT
        /\ Goto(t, "cas", "exchange")
        /\ Claim
     \/ /\ Goto(t, "cas", "wait")
        /\ UNCHANGED word
  /\ UNCHANGED ret

\* Slip: a plain exchange instead of a compare-and-exchange.
FirstExchange(t) ==
  /\ Goto(t, "cas", "exchange")
  /\ Claim
  /\ UNCHANGED ret

\* call_once_impl: the first exchange, ONCE_INIT to ONCE_RUNNING.
FirstCas(t) ==
  /\ IF control = ONCE_INIT
     THEN /\ Goto(t, "cas", "exchange")
          /\ Claim
     ELSE /\ Goto(t, "cas", "wait")
          /\ UNCHANGED word
  /\ UNCHANGED ret

\* An iteration of spinlock_wait whose entry does not change the word: a "null
\* transition", which does not look at the word, or an exchange that failed.
WaitNoChange(t) ==
  \E v \in Words : \E e \in Matches(v) :
    /\ e.to = v \/ control # v
    /\ IF e.to = v /\ e.done THEN WaitReturns(t, v) ELSE pc[t] = "wait" /\ UNCHANGED <<pc, ret>>
    /\ UNCHANGED word

\* Slip: writes the wrong field of the entry.
WaitCasWritesDone(t) ==
  \E v \in Words : \E e \in Matches(v) :
    /\ e.to # v
    /\ control = v
    /\ IF e.done THEN WaitReturns(t, v) ELSE pc[t] = "wait" /\ UNCHANGED <<pc, ret>>
    /\ SetControl(e.done)
    /\ UNCHANGED <<claims, claimed, overrun>>

\* An iteration of spinlock_wait whose exchange succeeds.  An entry from behind the
\* table may lead from any other word to any word, ONCE_INIT included.
WaitCas(t) ==
  \E v \in Words : \E e \in Matches(v) :
    /\ e.to # v
    /\ control = v
    /\ IF e.done THEN WaitReturns(t, v) ELSE pc[t] = "wait" /\ UNCHANGED <<pc, ret>>
    /\ SetControl(e.to)
    /\ claims' = IF v = ONCE_INIT THEN claims + 1
                 ELSE IF e.to = ONCE_INIT THEN 0 ELSE claims
    /\ claimed' = (claimed \/ v = ONCE_INIT)
    /\ overrun' = (overrun \/ e \notin Trans)

\* Slip: sleeps without comparing the word.
WaitDelayNoCompare(t) ==
  \E v \in Words :
    /\ Matches(v) = {} \/ v \notin {e.from : e \in Trans}
    /\ Goto(t, "wait", "asleep")
    /\ UNCHANGED <<word, ret>>

\* No entry matches: spinlock_delay, a futex wait for as long as the word is v.
WaitDelay(t) ==
  \E v \in Words :
    /\ Matches(v) = {} \/ v \notin {e.from : e \in Trans}
    /\ Goto(t, "wait", IF control = v THEN "asleep" ELSE "wait")
    /\ UNCHANGED <<word, ret>>

\* A futex wait may also end without a wake.
SpuriousWake(t) ==
  /\ Goto(t, "asleep", "wait")
  /\ UNCHANGED <<word, ret>>

\* call_once_impl, after the claim: the exchange on old_control reads the word
\* into old_control, and leaves the word as it is.
Exchange(t) ==
  /\ Goto(t, "exchange", IF control = ONCE_WAITER THEN "wake" ELSE "idle")
  /\ UNCHANGED <<word, ret>>

\* spinlock_wake(control, true).
Wake(t) ==
  /\ pc[t] = "wake"
  /\ pc' = [u \in Threads |-> IF u = t THEN "idle"
                              ELSE IF pc[u] = "asleep" THEN "wait" ELSE pc[u]]
  /\ UNCHANGED <<word, ret>>

Step(t) ==
  \/ Call(t)
  \/ FirstCas(t)
  \/ WaitNoChange(t)
  \/ WaitCas(t)
  \/ WaitDelay(t)
  \/ SpuriousWake(t)
  \/ Exchange(t)
  \/ Wake(t)

Next == \E t \in Threads : Step(t)

Spec == Init /\ [][Next]_vars

------------------------------------------------------------------------------
(* Properties *)

TypeOK ==
  /\ control \in Words
  /\ pc \in [Threads -> PCs]
  /\ ret \in [Threads -> Words]
  /\ claims \in Nat
  /\ claimed \in BOOLEAN
  /\ overrun \in BOOLEAN
  /\ held \subseteq Words

\* Whatever words the waiting loop makes up for its uninitialised local, and whatever
\* it reads behind its table, at most one caller takes the flag each time it is
\* ONCE_INIT, and a claimed flag is free again only when an entry from behind the
\* table has made it ONCE_INIT (call_once.h:45-47, spinlock_wait.c:16-30).
AtMostOneClaim ==
  /\ claims <= 1
  /\ control = ONCE_INIT <=> claims = 0
  /\ claimed /\ control = ONCE_INIT => overrun

\* No call of call_once comes back before somebody has claimed the flag: a made
\* up ONCE_DONE can end the wait early, but only once there is a claim (call_once.h:45).
ReturnOnlyAfterClaim ==
  [][\A t \in Threads : pc[t] # "idle" /\ pc'[t] = "idle" => claimed']_vars

\* A caller sleeps only while the word says ONCE_WAITER, so that a claimer that reads
\* it knows there is somebody to wake, unless an entry from behind the table has
\* written the word (call_once.h:42, 48-51).
AnnouncedSleep == \A t \in Threads : pc[t] = "asleep" => control = ONCE_WAITER \/ overrun

\* The comment of spinlock_wait.c:18, `uint32_t v = w->load
\* (memory_order_acquire);`, says what the word it works with, and returns, is:
\* one that was loaded from the control word.
WaitReturnsAWordHeld == \A t \in Threads : ret[t] \in held
==============================================================================
