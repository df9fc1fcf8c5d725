---- MODULE AllocMath ----
(* The size arithmetic of the low level allocator (low_level_alloc.c). Words
   are counted modulo WordSize, as uintptr_t is. A CIC_RAW_CHECK that fails
   gives Failed. *)
EXTENDS Integers

CONSTANTS WordSize,     \* the values of a uintptr_t are 0 .. WordSize - 1
          HeaderSize,   \* sizeof(HEADER)
          NextOffset,   \* offsetof(ALLOC_LIST, next)
          PointerSize,  \* sizeof(ALLOC_LIST *)
          MaxLevel      \* MAX_LEVEL

ASSUME MathAssumption ==
    /\ WordSize \in Nat /\ 16 <= WordSize
    /\ HeaderSize \in Nat \ {0} /\ 2 * HeaderSize <= WordSize
    /\ NextOffset \in 0 .. WordSize - 1
    /\ PointerSize \in Nat \ {0}
    /\ MaxLevel \in Nat \ {0, 1}

Failed == -1

\* Slip: the sum is not looked at.
checked_addUnchecked(a, b) == (a + b) % WordSize

checked_add(a, b) ==
    LET sum == (a + b) % WordSize
    IN  IF sum >= a THEN sum ELSE Failed

\* Slip: adds the whole alignment.
round_upOne(addr, align) ==
    LET sum == checked_add(addr, align)
    IN  IF sum = Failed THEN Failed ELSE IF align = 0 THEN 0 ELSE sum - (sum % align)

\* align is a power of two, so the mask ~(align - 1) clears the remainder; for
\* align = 0 it clears the whole word.
round_up(addr, align) ==
    LET sum == checked_add(addr, (align - 1) % WordSize)
    IN  IF sum = Failed THEN Failed ELSE IF align = 0 THEN 0 ELSE sum - (sum % align)

int_log2(size, base) ==
    LET halvings[i \in 0 .. size] == IF i > base THEN 1 + halvings[i \div 2] ELSE 0
    IN  halvings[size]

rounded_up_block_size ==
    LET doubled[n \in 16 .. 16 + 2 * HeaderSize] ==
            IF n < HeaderSize THEN doubled[n + n] ELSE n
    IN  doubled[16]

\* The generator is left out: it gives any number from one up.
random_ == 1 .. MaxLevel

\* Slip: allows one level more than there are.
lla_skip_list_levelsUncapped(size, base, random) ==
    LET max_fit == ((size - NextOffset) % WordSize) \div PointerSize
        AtMost(a, b) == IF a > b THEN b ELSE a
    IN  {AtMost(AtMost(int_log2(size, base) + r, max_fit), MaxLevel) :
            r \in IF random THEN random_ ELSE {1}}

\* The levels a block of this size may get; 0 where the check fails.
lla_skip_list_levels(size, base, random) ==
    LET max_fit == ((size - NextOffset) % WordSize) \div PointerSize
        AtMost(a, b) == IF a > b THEN b ELSE a
    IN  {AtMost(AtMost(int_log2(size, base) + r, max_fit), MaxLevel - 1) :
            r \in IF random THEN random_ ELSE {1}}
====
