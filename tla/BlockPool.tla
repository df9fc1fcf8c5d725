---- MODULE BlockPool ----
(* What an arena promises its callers: a region is free or with one caller,
   and what a caller gets was free and has room for the request. Which of the
   free regions that is, and in which order they lie on a list, is left open. *)
EXTENDS Naturals

CONSTANTS Blocks, Requests,
          Room    \* the most that a caller may ask a block for

VARIABLES pool,   \* the free blocks
          asked   \* what the caller of a block has asked for, 0 if it has none

vars == <<pool, asked>>

Init == pool = {} /\ asked = [b \in Blocks |-> 0]

Donate(b) ==
    /\ b \notin pool /\ asked[b] = 0
    /\ pool' = pool \cup {b}
    /\ UNCHANGED asked

Take(b, r) ==
    /\ b \in pool /\ 0 < r /\ r <= Room[b]
    /\ pool' = pool \ {b}
    /\ asked' = [asked EXCEPT ![b] = r]

GiveBack(b) ==
    /\ asked[b] # 0
    /\ pool' = pool \cup {b}
    /\ asked' = [asked EXCEPT ![b] = 0]

\* The arena is deleted: every block goes back to the system.
Close ==
    /\ \A b \in Blocks : asked[b] = 0
    /\ pool' = {}
    /\ UNCHANGED asked

Next ==
    \/ \E b \in Blocks : Donate(b) \/ GiveBack(b) \/ \E r \in Requests : Take(b, r)
    \/ Close

Spec == Init /\ [][Next]_vars
====
