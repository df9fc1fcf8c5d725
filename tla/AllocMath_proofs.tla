---- MODULE AllocMath_proofs ----
(* Proofs about the size arithmetic of the low level allocator, for any width of a word. *)
EXTENDS AllocMath, FiniteSetsExt, WellFoundedInduction, TLAPS

\* A set of natural numbers that is not empty has its least element in it.
LEMMA MinOK ==
    ASSUME NEW S \in SUBSET Nat, S # {}
    PROVE  Min(S) \in S /\ \A n \in S : Min(S) <= n
<1>1. \E n \in S : \A m \in S : ~ (<<m, n>> \in OpToRel(<, Nat))
    BY NatLessThanWellFounded, WFMin
<1>2. PICK n \in S : \A m \in S : ~ (<<m, n>> \in OpToRel(<, Nat))
    BY <1>1
<1>3. ASSUME NEW m \in S
      PROVE  n <= m
    <2>1. <<m, n>> \in Nat \X Nat /\ <<m, n>>[1] = m /\ <<m, n>>[2] = n
        OBVIOUS
    <2>2. ~ (m < n)
        BY <1>2, <2>1 DEF OpToRel
    <2> QED
        BY <2>2
<1> QED
    BY <1>3 DEF Min

\* Infinite descent: a set of natural numbers, each with a smaller one in it, is empty.
LEMMA Descent ==
    ASSUME NEW S \in SUBSET Nat, \A n \in S : \E k \in S : k < n
    PROVE  S = {}
<1> SUFFICES ASSUME S # {} PROVE FALSE
    OBVIOUS
<1>1. PICK n \in S : \A k \in S : n <= k
    BY MinOK
<1>2. PICK k \in S : k < n
    OBVIOUS
<1> QED
    BY <1>1, <1>2

\* The larger of two numbers.
LEMMA MaxOK ==
    ASSUME NEW a \in Nat, NEW b \in Nat
    PROVE  Max({a, b}) \in {a, b} /\ Max({a, b}) >= a /\ Max({a, b}) >= b
<1>1. \E x \in {a, b} : \A y \in {a, b} : x >= y
    OBVIOUS
<1> QED
    BY <1>1 DEF Max

\* A checked sum is the sum, or it fails because the sum is not in a word (low_level_alloc.c:223-227).
THEOREM CheckedAdd ==
    ASSUME NEW a \in 0 .. WordSize - 1, NEW b \in 0 .. WordSize - 1
    PROVE  checked_add(a, b) = IF a + b < WordSize THEN a + b ELSE Failed
<1>1. CASE a + b < WordSize
    <2>1. (a + b) % WordSize = a + b
        BY <1>1, MathAssumption
    <2> QED
        BY <1>1, <2>1, MathAssumption DEF checked_add
<1>2. CASE a + b >= WordSize
    <2>1. (a + b) % WordSize = a + b - WordSize
        BY <1>2, MathAssumption
    <2> QED
        BY <1>2, <2>1, MathAssumption DEF checked_add
<1> QED
    BY <1>1, <1>2, MathAssumption

\* A multiple is not strictly between two neighbouring multiples.
LEMMA NextMultiple ==
    ASSUME NEW d \in Nat \ {0}, NEW j \in Nat, NEW k \in Nat, j * d < k * d
    PROVE  j * d + d <= k * d
<1>1. j < k
    <2> SUFFICES ASSUME j >= k PROVE FALSE
        OBVIOUS
    <2>1. PICK e \in Nat : j = k + e
        <3> WITNESS j - k \in Nat
        <3> QED OBVIOUS
    <2>2. j * d = k * d + e * d /\ e * d \in Nat /\ k * d \in Nat
        BY <2>1
    <2> QED
        BY <2>2
<1>2. PICK e \in Nat : k = (j + 1) + e
    <2> WITNESS k - (j + 1) \in Nat
    <2> QED BY <1>1
<1>3. k * d = j * d + d + e * d /\ e * d \in Nat /\ j * d \in Nat
    BY <1>2
<1> QED
    BY <1>3

Multiple(m, d) == \E k \in Nat : m = k * d

\* round_up gives the least multiple of the alignment that is not below the address, or
\* fails because none of them is in a word, for any word that is a multiple of
\* the alignment, as a power of two is (low_level_alloc.c:223-229).
THEOREM RoundUp ==
    ASSUME NEW addr \in 0 .. WordSize - 1, NEW align \in 1 .. WordSize - 1,
           Multiple(WordSize, align)
    PROVE  LET r == round_up(addr, align)
           IN  /\ r = Failed => \A m \in addr .. WordSize - 1 : ~ Multiple(m, align)
               /\ r # Failed => /\ r \in addr .. WordSize - 1 /\ Multiple(r, align)
                                /\ \A m \in addr .. WordSize - 1 : Multiple(m, align) => r <= m
<1> DEFINE r == round_up(addr, align)
           sum == addr + (align - 1)
           Least == /\ r \in addr .. WordSize - 1 /\ Multiple(r, align)
                    /\ \A m \in addr .. WordSize - 1 : Multiple(m, align) => r <= m
           None == \A m \in addr .. WordSize - 1 : ~ Multiple(m, align)
<1>1. addr \in Nat /\ align \in Nat \ {0} /\ align - 1 \in 0 .. WordSize - 1
      /\ (align - 1) % WordSize = align - 1 /\ WordSize \in Nat
    BY MathAssumption
<1>2. checked_add(addr, (align - 1) % WordSize) = IF sum < WordSize THEN sum ELSE Failed
    BY <1>1, CheckedAdd
<1>3. ASSUME sum < WordSize
      PROVE  r # Failed /\ Least
    <2> DEFINE q == sum \div align
    <2>1. q \in Nat /\ sum % align \in 0 .. align - 1 /\ sum = q * align + (sum % align)
        BY <1>1
    <2>2. r = sum - (sum % align)
        BY <1>1, <1>2, <1>3, <2>1 DEF round_up, Failed
    <2>3. r = q * align /\ addr <= r /\ r < WordSize /\ r < addr + align /\ q * align \in Nat
        BY <1>1, <1>3, <2>1, <2>2
    <2>4. r \in addr .. WordSize - 1 /\ r # Failed
        BY <1>1, <2>3 DEF Failed
    <2>5. Multiple(r, align)
        BY <2>1, <2>3 DEF Multiple
    <2>6. ASSUME NEW m \in addr .. WordSize - 1, Multiple(m, align) PROVE r <= m
        <3>1. PICK k \in Nat : m = k * align
            BY <2>6 DEF Multiple
        <3> HIDE DEF q
        <3>2. k * align < q * align => k * align + align <= q * align
            BY <1>1, <2>1, <3>1, NextMultiple
        <3>3. m \in Nat /\ m >= addr
            BY <1>1
        <3> QED
            BY <1>1, <2>3, <3>1, <3>2, <3>3
    <2> QED
        BY <2>4, <2>5, <2>6
<1>4. ASSUME sum >= WordSize
      PROVE  r = Failed /\ None
    <2>1. r = Failed
        BY <1>1, <1>2, <1>4 DEF round_up
    <2>2. ASSUME NEW m \in addr .. WordSize - 1, Multiple(m, align) PROVE FALSE
        <3>1. PICK k \in Nat : m = k * align
            BY <2>2 DEF Multiple
        <3>2. PICK words \in Nat : WordSize = words * align
            BY DEF Multiple
        <3>3. k * align + align <= words * align
            BY <1>1, <3>1, <3>2, NextMultiple
        <3> QED
            BY <1>1, <1>4, <3>1, <3>2, <3>3
    <2> QED
        BY <2>1, <2>2
<1>5. sum < WordSize \/ sum >= WordSize
    BY <1>1
<1> HIDE DEF sum, Least, None
<1>6. (r = Failed => None) /\ (r # Failed => Least)
    BY <1>3, <1>4, <1>5, Zenon
<1> QED
    BY <1>6 DEF Least, None

\* The logarithm comes to an end: its recursion has a solution, and every solution
\* has numbers for values (low_level_alloc.c:57-63).
LEMMA LogOK ==
    ASSUME NEW size \in Nat, NEW base \in Nat
    PROVE  int_log2(size, base) \in Nat
<1> DEFINE Body(f, i) == IF i > base THEN 1 + f[i \div 2] ELSE 0
           Solves(f, n) == f = [i \in 0 .. n |-> Body(f, i)]
           Unsolved == {n \in Nat : ~ \E f : Solves(f, n)}
<1>1. Unsolved = {}
    <2>1. ASSUME NEW n \in Unsolved PROVE \E k \in Unsolved : k < n
        <3>1. n # 0
            <4> DEFINE f == [i \in 0 .. 0 |-> 0]
            <4>1. Solves(f, 0)
                OBVIOUS
            <4> QED
                BY <4>1
        <3>2. n - 1 \in Nat /\ n - 1 < n
            BY <3>1
        <3>3. ASSUME NEW f, Solves(f, n - 1) PROVE FALSE
            <4> DEFINE g == [i \in 0 .. n |-> IF i = n THEN Body(f, n) ELSE f[i]]
            <4>1. ASSUME NEW i \in 0 .. n PROVE g[i] = Body(g, i)
                <5>1. i > base => i \div 2 \in 0 .. n - 1
                    BY <3>1
                <5>2. i > base => g[i \div 2] = f[i \div 2]
                    BY <5>1
                <5>3. CASE i = n
                    BY <5>2, <5>3
                <5>4. CASE i # n
                    <6>1. i \in 0 .. n - 1
                        BY <3>1, <5>4
                    <6>2. f[i] = Body(f, i)
                        BY <3>3, <6>1
                    <6> QED
                        BY <5>2, <5>4, <6>2
                <5> QED
                    BY <5>3, <5>4
            <4>2. Solves(g, n)
                BY <4>1
            <4> QED
                BY <4>2
        <3> QED
            BY <3>2, <3>3
    <2>2. Unsolved \in SUBSET Nat
        OBVIOUS
    <2> HIDE DEF Unsolved
    <2> QED
        BY <2>1, <2>2, Descent
<1> DEFINE h == CHOOSE f : Solves(f, size)
<1>2. Solves(h, size)
    BY <1>1
<1> HIDE DEF h
<1> DEFINE Odd == {i \in 0 .. size : h[i] \notin Nat}
<1>3. Odd = {}
    <2>1. ASSUME NEW n \in Odd PROVE \E k \in Odd : k < n
        <3>1. h[n] = Body(h, n)
            BY <1>2
        <3>2. n > base
            BY <3>1
        <3>3. n \div 2 \in 0 .. size /\ n \div 2 < n
            BY <3>2
        <3> QED
            BY <3>1, <3>2, <3>3
    <2>2. Odd \in SUBSET Nat
        OBVIOUS
    <2> HIDE DEF Odd
    <2> QED
        BY <2>1, <2>2, Descent
<1>4. int_log2(size, base) = h[size]
    BY DEF int_log2, h
<1> QED
    BY <1>3, <1>4

\* A block gets no more levels than its list head has entries; if it reaches to its first
\* link, it has room for a link at each of them, and the check fails only if it has room
\* for none. Below the first link the subtraction wraps, and the cap is all that
\* holds (low_level_alloc.c:75-82).
THEOREM LevelsOK ==
    ASSUME NEW size \in Nat, NEW base \in Nat, NEW random \in BOOLEAN,
           NEW l \in lla_skip_list_levels(size, base, random)
    PROVE  /\ l \in 0 .. MaxLevel - 1
           /\ NextOffset <= size /\ size < WordSize =>
                 /\ NextOffset + l * PointerSize <= size
                 /\ (l = 0 <=> size < NextOffset + PointerSize)
<1> DEFINE log == int_log2(size, base)
           max_fit == ((size - NextOffset) % WordSize) \div PointerSize
           AtMost(a, b) == IF a > b THEN b ELSE a
<1>1. log \in Nat
    BY LogOK
<1>2. max_fit \in Nat
    <2>1. (size - NextOffset) % WordSize \in Nat
        BY MathAssumption
    <2> HIDE DEF log
    <2> QED
        BY <2>1, MathAssumption
<1>3. PICK r \in IF random THEN random_ ELSE {1} :
          l = AtMost(AtMost(log + r, max_fit), MaxLevel - 1)
    BY DEF lla_skip_list_levels
<1>4. r \in Nat \ {0} /\ MaxLevel - 1 \in Nat \ {0}
    BY MathAssumption DEF random_
<1>5. ASSUME NextOffset <= size, size < WordSize
      PROVE  /\ max_fit * PointerSize <= size - NextOffset
             /\ (max_fit = 0 <=> size - NextOffset < PointerSize)
    <2> DEFINE room == size - NextOffset
    <2>1. room \in Nat /\ room % WordSize = room /\ PointerSize \in Nat \ {0}
        BY <1>5, MathAssumption
    <2>2. max_fit = room \div PointerSize
        BY <2>1
    <2> HIDE DEF room, max_fit
    <2>3. room = PointerSize * max_fit + (room % PointerSize) /\ (room % PointerSize) \in 0 .. PointerSize - 1
        BY <2>1, <2>2
    <2>4. max_fit * PointerSize <= room /\ (max_fit = 0 <=> room < PointerSize)
        BY <1>2, <2>1, <2>2, <2>3
    <2> QED
        BY <2>4 DEF room
<1> HIDE DEF log, max_fit
<1>6. l \in 0 .. MaxLevel - 1 /\ l <= max_fit /\ (l = 0 <=> max_fit = 0)
    BY <1>1, <1>2, <1>3, <1>4
<1>7. ASSUME NextOffset <= size, size < WordSize
      PROVE  NextOffset + l * PointerSize <= size /\ (l = 0 <=> size < NextOffset + PointerSize)
    <2> DEFINE e == max_fit - l
    <2>1. e \in Nat /\ max_fit = l + e
        BY <1>2, <1>6
    <2> HIDE DEF e
    <2>2. max_fit * PointerSize = l * PointerSize + e * PointerSize
          /\ e * PointerSize \in Nat /\ l * PointerSize \in Nat
        BY <1>6, <2>1, MathAssumption
    <2>3. max_fit * PointerSize <= size - NextOffset
        BY <1>5, <1>7
    <2>4. NextOffset + l * PointerSize <= size
        BY <1>7, <2>2, <2>3, MathAssumption
    <2>5. max_fit = 0 <=> size < NextOffset + PointerSize
        BY <1>5, <1>7, MathAssumption
    <2> QED
        BY <1>6, <2>4, <2>5
<1> QED
    BY <1>6, <1>7

\* The rounding of a new arena is a number from one to the word size (low_level_alloc.c:193-199).
LEMMA RoundedOK == rounded_up_block_size \in 1 .. WordSize
<1> DEFINE Top == 16 + 2 * HeaderSize
           Body(f, n) == IF n < HeaderSize THEN f[n + n] ELSE n
           Solves(f, n) == f = [i \in n .. Top |-> Body(f, i)]
           Unsolved == {d \in Nat : d <= 2 * HeaderSize /\ ~ \E f : Solves(f, Top - d)}
<1>0. HeaderSize \in Nat \ {0} /\ Top \in Nat /\ 2 * HeaderSize <= WordSize /\ 16 <= WordSize
      /\ WordSize \in Nat
    BY MathAssumption
<1>1. Unsolved = {}
    <2>1. ASSUME NEW d \in Unsolved PROVE \E k \in Unsolved : k < d
        <3> DEFINE n == Top - d
        <3>1. d # 0
            <4> SUFFICES ASSUME d = 0 PROVE FALSE
                OBVIOUS
            <4> DEFINE f == [i \in Top .. Top |-> i]
            <4>1. Solves(f, Top)
                BY <1>0
            <4>2. Top - d = Top
                BY <1>0
            <4>3. ~ \E g : Solves(g, Top - d)
                OBVIOUS
            <4> HIDE DEF f, Top, Solves
            <4> QED
                BY <4>1, <4>2, <4>3
        <3>2. d - 1 \in Nat /\ d - 1 < d /\ d - 1 <= 2 * HeaderSize /\ Top - (d - 1) = n + 1
              /\ n \in Nat /\ n >= 16 /\ n + 1 <= Top
            BY <1>0, <3>1
        <3> HIDE DEF n, Top
        <3>3. ASSUME NEW f, Solves(f, n + 1) PROVE Solves([i \in n .. Top |-> IF i = n THEN Body(f, n) ELSE f[i]], n)
            <4> DEFINE g == [i \in n .. Top |-> IF i = n THEN Body(f, n) ELSE f[i]]
            <4>1. ASSUME NEW i \in n .. Top PROVE g[i] = Body(g, i)
                <5>1. i < HeaderSize => i + i \in n + 1 .. Top
                    BY <1>0, <3>2 DEF Top
                <5>2. i < HeaderSize => g[i + i] = f[i + i]
                    BY <3>2, <5>1
                <5>3. CASE i = n
                    BY <5>2, <5>3
                <5>4. CASE i # n
                    <6>1. i \in n + 1 .. Top
                        BY <1>0, <3>2, <5>4
                    <6>2. f[i] = Body(f, i)
                        BY <3>3, <6>1
                    <6> QED
                        BY <5>2, <5>4, <6>2
                <5> QED
                    BY <5>3, <5>4
            <4> QED
                BY <4>1
        <3>4. ~ \E f : Solves(f, n)
            BY DEF n
        <3>5. ~ \E f : Solves(f, Top - (d - 1))
            <4> HIDE DEF Solves
            <4> QED
                BY <3>2, <3>3, <3>4
        <3> QED
            BY <3>2, <3>5
    <2>2. Unsolved \in SUBSET Nat
        OBVIOUS
    <2> HIDE DEF Unsolved
    <2> QED
        BY <2>1, <2>2, Descent
<1> DEFINE h == CHOOSE f : Solves(f, 16)
<1>2. Solves(h, 16)
    <2>1. Top - 2 * HeaderSize = 16 /\ 2 * HeaderSize \in Nat
        BY <1>0
    <2>2. \E f : Solves(f, Top - 2 * HeaderSize)
        BY <1>1, <2>1
    <2> HIDE DEF Top, Solves
    <2> QED
        BY <2>1, <2>2
<1>3. rounded_up_block_size = h[16]
    BY DEF rounded_up_block_size
<1> HIDE DEF h
<1> DEFINE Odd == {d \in Nat : d <= 2 * HeaderSize /\ h[Top - d] \notin 1 .. WordSize
                               /\ (Top - d < 2 * HeaderSize \/ Top - d = 16)}
<1>4. Odd = {}
    <2>1. ASSUME NEW d \in Odd PROVE \E k \in Odd : k < d
        <3> DEFINE n == Top - d
        <3>1. n \in 16 .. Top /\ h[n] \notin 1 .. WordSize /\ (n < 2 * HeaderSize \/ n = 16)
            BY <1>0
        <3>2. h[n] = Body(h, n)
            BY <1>2, <3>1
        <3>3. n < HeaderSize
            BY <1>0, <3>1, <3>2
        <3>4. h[n + n] \notin 1 .. WordSize
            BY <3>1, <3>2, <3>3
        <3> DEFINE k == Top - (n + n)
        <3>5. k \in Nat /\ k < d /\ k <= 2 * HeaderSize /\ Top - k = n + n /\ n + n < 2 * HeaderSize
            BY <1>0, <3>1, <3>3
        <3> QED
            BY <3>4, <3>5
    <2>2. Odd \in SUBSET Nat
        OBVIOUS
    <2> HIDE DEF Odd
    <2> QED
        BY <2>1, <2>2, Descent
<1>5. 2 * HeaderSize \in Nat /\ Top - 2 * HeaderSize = 16
    BY <1>0
<1> QED
    BY <1>3, <1>4, <1>5

\* Where round_up does not fail its result is not below the address, for any alignment
\* up to the word size, a power of two or not; 0 as alignment always fails.
LEMMA RoundUpAbove ==
    ASSUME NEW addr \in 1 .. WordSize - 1, NEW align \in 0 .. WordSize
    PROVE  \/ round_up(addr, align) = Failed
           \/ round_up(addr, align) \in Nat /\ round_up(addr, align) >= addr
<1> DEFINE c == checked_add(addr, (align - 1) % WordSize)
<1>0. round_up(addr, align) =
          IF c = Failed THEN Failed ELSE IF align = 0 THEN 0 ELSE c - (c % align)
    BY DEF round_up
<1>1. WordSize \in Nat
    BY MathAssumption
<1>2. CASE align = 0
    <2>1. (align - 1) % WordSize = WordSize - 1
        BY <1>1, <1>2
    <2>2. c = Failed
        BY <1>1, <2>1, CheckedAdd
    <2> HIDE DEF c
    <2> QED
        BY <1>0, <2>2, Zenon
<1>3. CASE align # 0
    <2> DEFINE sum == addr + (align - 1)
    <2>1. (align - 1) % WordSize = align - 1 /\ align - 1 \in 0 .. WordSize - 1
        BY <1>1, <1>3
    <2>2. c = IF sum < WordSize THEN sum ELSE Failed
        BY <1>1, <2>1, CheckedAdd
    <2>3. sum \in Nat /\ sum # Failed /\ sum % align \in 0 .. align - 1
        BY <1>1, <1>3 DEF Failed
    <2>4. sum - (sum % align) \in Nat /\ sum - (sum % align) >= addr
        <3> DEFINE rest == sum % align
        <3>1. rest \in 0 .. align - 1
            BY <2>3
        <3> HIDE DEF rest
        <3>2. sum - rest \in Nat /\ sum - rest >= addr
            BY <1>1, <1>3, <3>1
        <3> QED
            BY <3>2 DEF rest
    <2>5. round_up(addr, align) = Failed \/ round_up(addr, align) = sum - (sum % align)
        <3> HIDE DEF c, sum
        <3> QED
            BY <1>0, <1>3, <2>2, Zenon
    <2> QED
        BY <2>4, <2>5
<1> QED
    BY <1>2, <1>3
====
