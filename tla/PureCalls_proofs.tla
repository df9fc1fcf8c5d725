---- MODULE PureCalls_proofs ----
(* Proofs about the functions without state, for all the inputs that the assumptions of
   PureCalls allow. *)
EXTENDS PureCalls, AllocMath_proofs, FiniteSetTheorems

\* Each action leaves its name in call, so the name tells the action.
LEMMA Named ==
    ASSUME Next
    PROVE  /\ call'.fn = "wire" => Wire
           /\ call'.fn = "hide" => Hide
           /\ call'.fn = "round" => Round
           /\ call'.fn = "frequency" => NominalFrequency
           /\ call'.fn = "pair" => TscPair
           /\ call'.fn = "measure" => Measure
           /\ call'.fn = "cpus" => Cpus
           /\ call'.fn = "delay" => Delay
           /\ call'.fn = "clock" => Clock
           /\ call'.fn = "timebase" => ReadTimeBase
           /\ call'.fn = "mmap" => Mmap
           /\ call'.fn = "name" => Name
<1>1. Wire => call'.fn = "wire"
    BY DEF Wire, Called
<1>2. Hide => call'.fn = "hide"
    BY DEF Hide, Called
<1>3. Round => call'.fn = "round"
    BY DEF Round, Called
<1>4. NominalFrequency => call'.fn = "frequency"
    BY DEF NominalFrequency, Called
<1>5. TscPair => call'.fn = "pair"
    BY DEF TscPair, Called
<1>6. Measure => call'.fn = "measure"
    BY DEF Measure, Called
<1>7. Cpus => call'.fn = "cpus"
    BY DEF Cpus, Called
<1>8. Delay => call'.fn = "delay"
    BY DEF Delay, Called
<1>9. Clock => call'.fn = "clock"
    BY DEF Clock, Called
<1>10. ReadTimeBase => call'.fn = "timebase"
    BY DEF ReadTimeBase, Called
<1>11. Mmap => call'.fn = "mmap"
    BY DEF Mmap, Called
<1>12. Name => call'.fn = "name"
    BY DEF Name, Called
<1>13. Return => call'.fn = "none"
    BY DEF Return, Idle
<1> QED
    BY <1>1, <1>2, <1>3, <1>4, <1>5, <1>6, <1>7, <1>8, <1>9, <1>10, <1>11, <1>12, <1>13
    DEF Next

------------------------------------------------------------------------------
(* Hidden pointers. *)

\* A hidden pointer comes back, and none of its bytes reads as it did (hide_ptr.h:6-9).
THEOREM HiddenCorrect == Spec => []HiddenAndBack
<1>1. Init => HiddenAndBack
    BY DEF Init, Idle, HiddenAndBack
<1>2. ASSUME HiddenAndBack, [Next]_call PROVE HiddenAndBack'
    <2>1. CASE UNCHANGED call
        BY <1>2, <2>1 DEF HiddenAndBack
    <2>2. CASE Next /\ call'.fn = "hide"
        <3>1. PICK p \in Pointers :
                  call' = [fn |-> "hide", in |-> p,
                           out |-> [hidden |-> hide_ptr(p), back |-> unhide_ptr(hide_ptr(p))]]
            BY <2>2, Named DEF Hide, Called
        <3> DEFINE n == Len(p)
                   mask == hide_mask(n)
        <3>2. p \in Seq(SUBSET (0 .. 7)) /\ n \in {4, 8} /\ DOMAIN p = 1 .. n
            <4>1. p \in Seq(SUBSET (0 .. 7)) /\ n \in {4, 8}
                BY PointerAssumption
            <4> QED
                BY <4>1
        <3>3. \A i \in 1 .. n : mask[i] # {}
            <4>1. \A j \in 1 .. 4 : Literal[j] # {}
                BY DEF Literal
            <4>2. TAKE i \in 1 .. n
            <4>3. n - 4 \in {0, 4} /\ (i \in 1 .. 4 \/ i - (n - 4) \in 1 .. 4)
                <5> HIDE DEF n
                <5>1. n = 4 \/ n = 8
                    BY <3>2
                <5> QED
                    BY <5>1
            <4> HIDE DEF n
            <4> QED
                BY <4>1, <4>3 DEF hide_mask
        <3> HIDE DEF mask
        <3>4. hide_ptr(p) = [i \in 1 .. n |-> SymDiff(p[i], mask[i])]
            BY <3>2 DEF hide_ptr, mask
        <3>5. Len(hide_ptr(p)) = n
            BY <3>2, <3>4
        <3>6. unhide_ptr(hide_ptr(p)) = [i \in 1 .. n |-> SymDiff(SymDiff(p[i], mask[i]), mask[i])]
            BY <3>4, <3>5 DEF unhide_ptr, mask
        <3>7. \A i \in 1 .. n : SymDiff(SymDiff(p[i], mask[i]), mask[i]) = p[i]
            BY DEF SymDiff
        <3>8. unhide_ptr(hide_ptr(p)) = p
            BY <3>2, <3>6, <3>7
        <3>9. \A i \in 1 .. n : SymDiff(p[i], mask[i]) # p[i]
            BY <3>3 DEF SymDiff
        <3> QED
            BY <3>1, <3>2, <3>4, <3>8, <3>9 DEF HiddenAndBack
    <2>3. CASE Next /\ call'.fn # "hide"
        BY <2>3 DEF HiddenAndBack
    <2> QED
        BY <1>2, <2>1, <2>2, <2>3
<1> QED
    BY <1>1, <1>2, PTL DEF Spec

------------------------------------------------------------------------------
(* Rounding, and the offset of a mapping. *)

\* One number is not above another if that is some more of it.
LEMMA Difference ==
    ASSUME NEW a \in Int, NEW b \in Int, a <= b
    PROVE  \E e \in Nat : b = a + e
<1>1. b - a \in Nat /\ b = a + (b - a)
    OBVIOUS
<1> QED
    BY <1>1

\* What is left when a number is divided is 0 exactly for the multiples.
LEMMA Multiples ==
    ASSUME NEW n \in Nat, NEW d \in Nat \ {0}
    PROVE  /\ n \div d \in Nat /\ (n % d = 0 => n = d * (n \div d))
           /\ \A k \in Nat : n = d * k => n % d = 0 /\ n \div d = k
<1>1. n \div d \in Nat /\ n % d \in 0 .. d - 1 /\ n = d * (n \div d) + (n % d)
    OBVIOUS
<1>2. ASSUME NEW k \in Nat, n = d * k PROVE n % d = 0 /\ n \div d = k
    <2> DEFINE q == n \div d
    <2>1. q \in Nat /\ n % d < d /\ d * k = d * q + (n % d) /\ n % d \in Nat
        BY <1>1, <1>2
    <2> HIDE DEF q
    <2>2. q = k
        <3>1. CASE q < k
            <4>1. PICK e \in Nat : k = q + 1 + e
                BY <2>1, <3>1, Difference
            <4>2. d * k = d * q + d + d * e /\ d * e \in Nat /\ d * q \in Nat
                BY <2>1, <4>1
            <4> QED
                BY <2>1, <4>2
        <3>2. CASE q > k
            <4>1. PICK e \in Nat : q = k + 1 + e
                BY <2>1, <3>2, Difference
            <4>2. d * q = d * k + d + d * e /\ d * e \in Nat /\ d * k \in Nat
                BY <4>1
            <4> QED
                BY <2>1, <4>2
        <3> QED
            BY <2>1, <3>1, <3>2
    <2>3. d * q = d * k /\ d * k \in Nat
        BY <2>2
    <2>4. n % d = 0
        BY <2>1, <2>3
    <2> QED
        BY <2>2, <2>4 DEF q
<1> QED
    BY <1>1, <1>2

\* A set of numbers has one least element.
LEMMA LeastIsMin ==
    ASSUME NEW S \in SUBSET Nat, NEW n \in S, \A m \in S : n <= m
    PROVE  Min(S) = n
<1>1. Min(S) \in S /\ \A m \in S : Min(S) <= m
    BY MinOK
<1>2. Min(S) \in Nat /\ n \in Nat /\ Min(S) <= n /\ n <= Min(S)
    BY <1>1
<1> QED
    BY <1>2

\* The remainders by which the property describes what RoundUp says of multiples.
LEMMA RoundUpMin ==
    ASSUME NEW addr \in 0 .. WordSize - 1, NEW align \in 1 .. WordSize - 1, WordSize % align = 0
    PROVE  LET above == {m \in addr .. WordSize - 1 : m % align = 0}
           IN  IF above # {} THEN round_up(addr, align) = Min(above)
               ELSE round_up(addr, align) = Failed
<1> DEFINE out == round_up(addr, align)
           above == {m \in addr .. WordSize - 1 : m % align = 0}
<1>1. align \in Nat \ {0} /\ WordSize \in Nat
    BY MathAssumption
<1>2. ASSUME NEW m \in Nat
      PROVE  m % align = 0 <=> Multiple(m, align)
    <2>1. m \div align \in Nat
          /\ (m % align = 0 => m = align * (m \div align))
          /\ \A k \in Nat : m = align * k => m % align = 0
        BY <1>1, Multiples
    <2>2. \A k \in Nat : align * k = k * align
        BY <1>1
    <2> QED
        BY <2>1, <2>2 DEF Multiple
<1>3. /\ out = Failed => \A m \in addr .. WordSize - 1 : ~ Multiple(m, align)
      /\ out # Failed => /\ out \in addr .. WordSize - 1 /\ Multiple(out, align)
                         /\ \A m \in addr .. WordSize - 1 : Multiple(m, align) => out <= m
    BY <1>1, <1>2, RoundUp
<1>4. above \in SUBSET Nat /\ \A m \in addr .. WordSize - 1 : m \in Nat
    BY <1>1
<1> HIDE DEF out
<1>5. out = Failed => above = {}
    BY <1>2, <1>3, <1>4
<1>6. out # Failed => out \in above /\ \A m \in above : out <= m
    BY <1>2, <1>3, <1>4
<1> HIDE DEF above
<1>7. IF above # {} THEN out = Min(above) ELSE out = Failed
    BY <1>4, <1>5, <1>6, LeastIsMin
<1> QED
    BY <1>7 DEF out, above

\* Minus one is the greatest word, and only 0 can have it added (low_level_alloc.c:223-229).
LEMMA RoundUpZero ==
    ASSUME NEW addr \in 0 .. WordSize - 1
    PROVE  round_up(addr, 0) = IF addr = 0 THEN 0 ELSE Failed
<1>1. WordSize \in Nat \ {0} /\ addr \in Nat /\ addr < WordSize
    BY MathAssumption
<1> DEFINE greatest == WordSize - 1
<1>2. (0 - 1) % WordSize = greatest
    <2>1. greatest \in 0 .. WordSize - 1 /\ 0 - 1 = WordSize * (-1) + greatest
        BY <1>1
    <2> QED
        BY <1>1, <2>1
<1>3. (addr + greatest) % WordSize = IF addr = 0 THEN greatest ELSE addr - 1
    <2>1. CASE addr = 0
        BY <1>1, <2>1
    <2>2. CASE addr # 0
        <3>1. addr + greatest = (addr - 1) + WordSize /\ addr - 1 \in 0 .. WordSize - 1
            BY <1>1, <2>2
        <3> QED
            BY <1>1, <2>2, <3>1
    <2> QED
        BY <2>1, <2>2
<1>4. checked_add(addr, greatest) = IF addr = 0 THEN greatest ELSE Failed
    BY <1>1, <1>3 DEF checked_add
<1>5. greatest # Failed
    BY <1>1 DEF Failed
<1> QED
    BY <1>2, <1>4, <1>5 DEF round_up

\* round_up gives the least multiple of the alignment in the word that is not below the
\* address, or fails because there is none; by 0 it rounds 0 alone (low_level_alloc.c:223-229).
THEOREM RoundCorrect == Spec => []RoundUpLeast
<1>1. Init => RoundUpLeast
    BY DEF Init, Idle, RoundUpLeast
<1>2. ASSUME RoundUpLeast, [Next]_call PROVE RoundUpLeast'
    <2>1. CASE UNCHANGED call
        BY <1>2, <2>1 DEF RoundUpLeast
    <2>2. CASE Next /\ call'.fn = "round"
        <3>1. PICK r \in RoundInputs :
                  call' = [fn |-> "round", in |-> r, out |-> round_up(r.addr, r.align)]
            BY <2>2, Named DEF Round, Called
        <3>2. /\ r.addr \in 0 .. WordSize - 1 /\ r.align \in 0 .. WordSize - 1
              /\ r.align # 0 => WordSize % r.align = 0 /\ r.align \in 1 .. WordSize - 1
            BY RoundAssumption, MathAssumption
        <3> DEFINE out == round_up(r.addr, r.align)
                   above == IF r.align = 0 THEN {r.addr} \cap {0}
                            ELSE {m \in r.addr .. WordSize - 1 : m % r.align = 0}
        <3>3. IF above # {} THEN out = Min(above) ELSE out = Failed
            <4>1. CASE r.align # 0
                BY <3>2, <4>1, RoundUpMin
            <4>2. CASE r.align = 0 /\ r.addr = 0
                <5>1. above = {0} /\ 0 \in above /\ above \in SUBSET Nat /\ \A m \in above : 0 <= m
                    BY <4>2
                <5> HIDE DEF above
                <5>2. Min(above) = 0
                    BY <5>1, LeastIsMin
                <5> QED
                    BY <3>2, <4>2, <5>1, <5>2, RoundUpZero
            <4>3. CASE r.align = 0 /\ r.addr # 0
                BY <3>2, <4>3, RoundUpZero
            <4> QED
                BY <4>1, <4>2, <4>3
        <3> QED
            BY <3>1, <3>3 DEF RoundUpLeast
    <2>3. CASE Next /\ call'.fn # "round"
        BY <2>3 DEF RoundUpLeast
    <2> QED
        BY <1>2, <2>1, <2>2, <2>3
<1> QED
    BY <1>1, <1>2, PTL DEF Spec

\* A division has one quotient and one remainder.
LEMMA Remainder ==
    ASSUME NEW n \in Nat, NEW d \in Nat \ {0}, NEW q \in Nat, NEW r \in 0 .. d - 1,
           n = d * q + r
    PROVE  n % d = r /\ n \div d = q
<1> DEFINE p == n \div d
<1>1. /\ p \in Nat /\ n = d * p + (n % d) /\ n % d \in 0 .. d - 1
    OBVIOUS
<1> HIDE DEF p
<1>2. CASE p < q
    <2>1. PICK e \in Nat : q = p + 1 + e
        BY <1>1, <1>2, Difference
    <2>2. d * q = d * p + d + d * e /\ d * e \in Nat /\ d * p \in Nat
        BY <1>1, <2>1
    <2> QED
        BY <1>1, <2>2
<1>3. CASE p > q
    <2>1. PICK e \in Nat : p = q + 1 + e
        BY <1>1, <1>3, Difference
    <2>2. d * p = d * q + d + d * e /\ d * e \in Nat /\ d * q \in Nat
        BY <1>1, <2>1
    <2> QED
        BY <1>1, <2>2
<1>4. CASE p = q
    <2>1. d * p = d * q /\ d * q \in Nat
        BY <1>1, <1>4
    <2>2. n % d = r
        BY <1>1, <2>1
    <2> QED
        BY <1>4, <2>2 DEF p
<1> QED
    BY <1>1, <1>2, <1>3, <1>4

\* Where a mapping starts if its pages are counted by a number with ulong values.
Wrapped(offset, page, ulong) ==
    LET end == page * ulong IN IF offset >= end THEN offset % end ELSE offset

\* The pages that an unsigned long can name, in bytes: the offset modulo all of them.
LEMMA PagesKept ==
    ASSUME NEW page \in Nat \ {0}, NEW pages \in Nat, NEW offset \in Nat, offset = page * pages,
           NEW ulong \in Nat \ {0}
    PROVE  (pages % ulong) * page = Wrapped(offset, page, ulong)
<1> DEFINE q == pages \div ulong
           r == pages % ulong
           end == page * ulong
           kept == IF offset >= end THEN offset % end ELSE offset
<1>1. q \in Nat /\ r \in 0 .. ulong - 1 /\ pages = ulong * q + r
    OBVIOUS
<1> HIDE DEF q, r
<1>2. end \in Nat \ {0} /\ r \in Nat
    BY <1>1
<1>3. page * (ulong * q) = end * q
    BY <1>1
<1>4. offset = end * q + page * r
    <2>1. page * (ulong * q + r) = page * (ulong * q) + page * r
        BY <1>1, <1>2
    <2> QED
        BY <1>1, <1>3, <2>1
<1>5. page * r \in 0 .. end - 1
    <2>1. PICK e \in Nat : ulong = r + 1 + e
        BY <1>1, <1>2, Difference
    <2>2. page * ulong = page * r + page + page * e /\ page * e \in Nat /\ page * r \in Nat
        BY <1>2, <2>1
    <2> QED
        BY <2>2
<1>6. r * page = page * r
    BY <1>2
<1> HIDE DEF end
<1>7. offset % end = page * r /\ offset \div end = q
    BY <1>1, <1>2, <1>4, <1>5, Remainder
<1> SUFFICES r * page = kept
    BY DEF Wrapped, r, end
<1>8. CASE q = 0
    <2>1. end * q = 0
        BY <1>2, <1>8
    <2> QED
        BY <1>2, <1>4, <1>5, <1>6, <2>1
<1>9. CASE q # 0
    <2>1. PICK e \in Nat : q = 1 + e
        BY <1>1, <1>9, Difference
    <2>2. end * q = end + end * e /\ end * e \in Nat
        BY <1>2, <2>1
    <2>3. offset >= end
        BY <1>2, <1>4, <1>5, <2>2
    <2> QED
        BY <1>6, <1>7, <2>3
<1> QED
    BY <1>8, <1>9

\* A mapping starts at the offset asked for, or is refused because the offset is negative or
\* not on a page; through mmap2 the offset is taken modulo what an unsigned long can name
\* (direct_mmap.h:47-87).
THEOREM MmapCorrect == Spec => []MmapOffset
<1>1. Init => MmapOffset
    BY DEF Init, Idle, MmapOffset
<1>2. ASSUME MmapOffset, [Next]_call PROVE MmapOffset'
    <2>1. CASE UNCHANGED call
        BY <1>2, <2>1 DEF MmapOffset
    <2>2. CASE Next /\ call'.fn = "mmap"
        <3>1. PICK m \in MmapInputs :
                  call' = [fn |-> "mmap", in |-> m, out |-> direct_mmap(m.arch, m.offset, m.pagesize)]
            BY <2>2, Named DEF Mmap, Called
        <3> DEFINE page == m.pagesize
                   offset == m.offset
                   pages == offset \div page
                   starts == {page * k : k \in 0 .. offset}
                   kept == IF m.arch = "mmap2" THEN Wrapped(offset, page, Ulong) ELSE offset
        <3>2. page \in Nat \ {0} /\ offset \in Int /\ Ulong \in Nat \ {0}
            BY MmapAssumption
        <3> HIDE DEF page, offset
        <3>3. ASSUME offset \in starts PROVE offset >= 0 /\ offset % page = 0
            <4>1. PICK k \in 0 .. offset : offset = page * k
                BY <3>3
            <4>2. offset \in Nat /\ k \in Nat
                BY <3>2, <4>1
            <4> QED
                BY <3>2, <4>1, <4>2, Multiples
        <3>4. ASSUME offset >= 0, offset % page = 0
              PROVE  /\ offset \in starts
                     /\ m.arch = "mmap2" => (pages % Ulong) * page = kept
            <4>1. offset \in Nat
                BY <3>2, <3>4
            <4>2. pages \in Nat /\ offset = page * pages
                BY <3>2, <3>4, <4>1, Multiples
            <4> HIDE DEF pages
            <4>3. pages <= offset
                <5>1. PICK e \in Nat : page = e + 1
                    BY <3>2, Difference
                <5>2. page * pages = e * pages + pages /\ e * pages \in Nat
                    BY <4>2, <5>1
                <5> QED
                    BY <4>1, <4>2, <5>2
            <4>4. (pages % Ulong) * page = Wrapped(offset, page, Ulong)
                BY <3>2, <4>1, <4>2, PagesKept, Zenon
            <4>5. offset \in starts
                BY <4>1, <4>2, <4>3
            <4> HIDE DEF starts
            <4> QED
                BY <4>4, <4>5
        <3>5. direct_mmap(m.arch, offset, page) = IF offset \in starts THEN kept ELSE EINVAL
            <4>1. offset >= 0 \/ offset < 0
                BY <3>2
            <4>2. offset < 0 => ~ (offset >= 0)
                BY <3>2
            <4> HIDE DEF starts
            <4> QED
                BY <3>3, <3>4, <4>1, <4>2 DEF direct_mmap, SYS_mmap, SYS_mmap2, pages
        <3> QED
            BY <3>1, <3>5 DEF MmapOffset, Wrapped, page, offset
    <2>3. CASE Next /\ call'.fn # "mmap"
        BY <2>3 DEF MmapOffset
    <2> QED
        BY <1>2, <2>1, <2>2, <2>3
<1> QED
    BY <1>1, <1>2, PTL DEF Spec

------------------------------------------------------------------------------
(* Severities, the counter that is read in halves. *)

\* The list of severities is written once at each of its entries, and two severities differ in
\* name but for CRITICAL and ERROR (log_severity.c:4-41).
THEOREM NamesCorrect == Spec => []NamesTellApart
<1>1. Init => NamesTellApart
    BY DEF Init, Idle, NamesTellApart
<1>2. ASSUME NamesTellApart, [Next]_call PROVE NamesTellApart'
    <2>1. CASE UNCHANGED call
        BY <1>2, <2>1 DEF NamesTellApart
    <2>2. CASE Next /\ call'.fn = "name"
        <3>1. PICK n \in NameInputs : \E text \in str_error(n.errnum, n.known) :
                  call' = [fn |-> "name", in |-> n,
                           out |-> [severities |-> log_severities(n.memory),
                                    names |-> [s \in 0 .. 10 |-> log_severity_name(s)],
                                    text |-> text]]
            BY <2>2, Named DEF Name, Called
        <3>2. PICK text : call' = [fn |-> "name", in |-> n,
                                 out |-> [severities |-> log_severities(n.memory),
                                          names |-> [s \in 0 .. 10 |-> log_severity_name(s)],
                                          text |-> text]]
            BY <3>1
        <3>3. n.memory \in BOOLEAN
            BY NameAssumption
        <3>4. DOMAIN log_severities(n.memory) = IF n.memory THEN 0 .. NUM_SEVERITY - 1 ELSE {}
            BY <3>3 DEF log_severities, NUM_SEVERITY, CIC_LOG_TRACE, CIC_LOG_EMERGENCY
        <3>5. ASSUME NEW s \in 0 .. 10, NEW t \in 0 .. 10,
                     log_severity_name(s) = log_severity_name(t)
              PROVE  s = t \/ {s, t} = {5, 6}
            BY <3>5 DEF log_severity_name, CIC_LOG_TRACE, CIC_LOG_FATAL
        <3> QED
            BY <3>2, <3>4, <3>5 DEF NamesTellApart
    <2>3. CASE Next /\ call'.fn # "name"
        BY <2>3 DEF NamesTellApart
    <2> QED
        BY <1>2, <2>1, <2>2, <2>3
<1> QED
    BY <1>1, <1>2, PTL DEF Spec

\* A number between two others that have one quotient has it too.
LEMMA Between ==
    ASSUME NEW d \in Nat \ {0}, NEW a \in Nat, NEW b \in Nat, NEW c \in Nat,
           a <= b, b <= c, a \div d = c \div d
    PROVE  b \div d = a \div d
<1> DEFINE q == a \div d  p == b \div d
<1>1. /\ q \in Nat /\ p \in Nat
      /\ a = d * q + (a % d) /\ b = d * p + (b % d) /\ c = d * q + (c % d)
      /\ a % d \in 0 .. d - 1 /\ b % d \in 0 .. d - 1 /\ c % d \in 0 .. d - 1
    OBVIOUS
<1> HIDE DEF q, p
<1>2. CASE p < q
    <2>1. PICK e \in Nat : q = p + 1 + e
        BY <1>1, <1>2, Difference
    <2>2. d * q = d * p + d + d * e /\ d * e \in Nat /\ d * p \in Nat
        BY <1>1, <2>1
    <2> QED
        BY <1>1, <2>2
<1>3. CASE p > q
    <2>1. PICK e \in Nat : p = q + 1 + e
        BY <1>1, <1>3, Difference
    <2>2. d * p = d * q + d + d * e /\ d * e \in Nat /\ d * q \in Nat
        BY <1>1, <2>1
    <2> QED
        BY <1>1, <2>2
<1> QED
    BY <1>1, <1>2, <1>3 DEF q, p

\* The attempt that is taken gives the value the counter had when its low half was read, or
\* that half alone where its sign covers the high one (unscaledcycleclock.c:47-57).
LEMMA TimeBaseOK ==
    ASSUME NEW counts \in TimeBaseInputs
    PROVE  \E i \in DOMAIN counts :
              TimeBase(counts) = IF counts[i] % Half < Half \div 2 THEN counts[i]
                                 ELSE (counts[i] % Half) - Half
<1> DEFINE n == Len(counts)
           Same(k) == Attempt(counts, k).hi32 = Attempt(counts, k).tmp
           good == {k \in 1 .. n \div 3 : Same(k)}
           k == Min(good)
<1>1. /\ counts \in Seq(Nat) /\ n \in Nat /\ DOMAIN counts = 1 .. n
      /\ \A i \in 1 .. n : counts[i] \in Nat
      /\ \A i, j \in 1 .. n : i <= j => counts[i] <= counts[j]
    <2>1. counts \in Seq(Nat)
        BY TimeBaseAssumption
    <2>2. \A i, j \in 1 .. n : i <= j => counts[i] <= counts[j]
        BY TimeBaseAssumption
    <2>3. n \in Nat /\ DOMAIN counts = 1 .. n /\ \A i \in 1 .. n : counts[i] \in Nat
        BY <2>1
    <2> HIDE DEF n
    <2> QED
        BY <2>1, <2>2, <2>3
<1>2. good # {} /\ good \in SUBSET Nat
    <2>1. PICK j \in 1 .. n \div 3 : counts[3 * j - 2] \div Half = counts[3 * j] \div Half
        BY TimeBaseAssumption
    <2>2. Same(j)
        BY <2>1 DEF Attempt
    <2>3. good \in SUBSET Nat
        BY <1>1
    <2> QED
        BY <2>1, <2>2, <2>3
<1>3. k \in good
    BY <1>2, MinOK
<1>4. k \in 1 .. n \div 3 /\ counts[3 * k - 2] \div Half = counts[3 * k] \div Half
    BY <1>3 DEF Attempt
<1>5. TimeBase(counts) = Combine(Attempt(counts, k))
    BY DEF TimeBase
<1> HIDE DEF k
<1>6. 3 * k - 2 \in 1 .. n /\ 3 * k - 1 \in 1 .. n /\ 3 * k \in 1 .. n
    BY <1>1, <1>4
<1> DEFINE a == counts[3 * k - 2]  b == counts[3 * k - 1]  c == counts[3 * k]
<1>7. a \in Nat /\ b \in Nat /\ c \in Nat /\ a <= b /\ b <= c /\ a \div Half = c \div Half
    BY <1>1, <1>4, <1>6
<1>8. TimeBase(counts) = IF b % Half < Half \div 2 THEN (a \div Half) * Half + (b % Half)
                         ELSE (b % Half) - Half
    BY <1>5 DEF Combine, Attempt
<1> HIDE DEF a, b, c
<1>9. /\ b \div Half = a \div Half /\ b = Half * (b \div Half) + (b % Half)
      /\ b % Half \in 0 .. Half - 1 /\ b \div Half \in Nat
    <2>1. b \div Half = a \div Half
        BY <1>7, HalfAssumption, Between
    <2>2. /\ b = Half * (b \div Half) + (b % Half)
          /\ b % Half \in 0 .. Half - 1 /\ b \div Half \in Nat
        <3>1. \A h \in Nat \ {0}, m \in Nat : /\ m = h * (m \div h) + (m % h)
                                              /\ m % h \in 0 .. h - 1 /\ m \div h \in Nat
            OBVIOUS
        <3> QED
            BY <1>7, <3>1, HalfAssumption
    <2> QED
        BY <2>1, <2>2
<1>10. (b \div Half) * Half = Half * (b \div Half)
    BY <1>9, HalfAssumption
<1>11. (a \div Half) * Half + (b % Half) = b
    BY <1>9, <1>10
<1>12. TimeBase(counts) = IF b % Half < Half \div 2 THEN b ELSE (b % Half) - Half
    BY <1>8, <1>11
<1> QED
    BY <1>1, <1>6, <1>12 DEF b

\* Of a 32-bit PowerPC's counter no torn value is ever seen: the result is a value it had, or
\* where the top bit of its low half is set, what the sign of that half leaves of such a value
\* (unscaledcycleclock.c:47-57).
THEOREM TimeBaseCorrect == Spec => []TimeBaseNotTorn
<1>1. Init => TimeBaseNotTorn
    BY DEF Init, Idle, TimeBaseNotTorn
<1>2. ASSUME TimeBaseNotTorn, [Next]_call PROVE TimeBaseNotTorn'
    <2>1. CASE UNCHANGED call
        BY <1>2, <2>1 DEF TimeBaseNotTorn
    <2>2. CASE Next /\ call'.fn = "timebase"
        <3>1. PICK counts \in TimeBaseInputs :
                  call' = [fn |-> "timebase", in |-> counts,
                           out |-> unscaled_cycle_clock_now("ppc", counts)]
            BY <2>2, Named DEF ReadTimeBase, Called
        <3>2. unscaled_cycle_clock_now("ppc", counts) = TimeBase(counts)
            BY DEF unscaled_cycle_clock_now
        <3> QED
            BY <3>1, <3>2, TimeBaseOK DEF TimeBaseNotTorn
    <2>3. CASE Next /\ call'.fn # "timebase"
        BY <2>3 DEF TimeBaseNotTorn
    <2> QED
        BY <1>2, <2>1, <2>2, <2>3
<1> QED
    BY <1>1, <1>2, PTL DEF Spec

------------------------------------------------------------------------------
(* The delay of the spin lock wait, and the scale of the cycle clock. *)

\* The eighth of a round is how far the least delay is shifted.
Round8(loop) == (IF loop < 0 \/ loop > 32 THEN 32 ELSE loop) \div 8

Power == [k \in 0 .. 4 |-> IF k = 0 THEN 1 ELSE IF k = 1 THEN 2 ELSE IF k = 2 THEN 4
                           ELSE IF k = 3 THEN 8 ELSE 16]

LEMMA PowerOfTwo ==
    ASSUME NEW k \in 0 .. 4
    PROVE  2 ^ k = Power[k]
<1>1. 2 ^ 0 = 1 /\ 2 ^ 1 = 2 /\ 2 ^ 2 = 4 /\ 2 ^ 3 = 8 /\ 2 ^ 4 = 16
    OBVIOUS
<1>2. Power[0] = 1 /\ Power[1] = 2 /\ Power[2] = 4 /\ Power[3] = 8 /\ Power[4] = 16
    BY DEF Power
<1>3. k = 0 \/ k = 1 \/ k = 2 \/ k = 3 \/ k = 4
    OBVIOUS
<1> QED
    BY <1>1, <1>2, <1>3, Zenon

LEMMA PowerOK ==
    ASSUME NEW k \in 0 .. 4
    PROVE  /\ 2 ^ k \in 1 .. 16
           /\ \A j \in 0 .. 4 : k < j => 2 * 2 ^ k <= 2 ^ j
<1>1. Power[k] \in 1 .. 16
    BY DEF Power
<1>2. ASSUME NEW j \in 0 .. 4, k < j PROVE 2 * Power[k] <= Power[j]
    BY <1>2 DEF Power
<1> QED
    BY <1>1, <1>2, PowerOfTwo

\* The least delay, and the greatest, in nanoseconds.
LEMMA MinDelayOK == kMinDelay \in Nat \ {0} /\ 32 * kMinDelay < 1000000000
    BY DelayAssumption, SMT

\* The random part at most doubles the delay, short of one (spinlock_wait.c:38-45).

\* The suggestion is the shifted delay and at most as much again (spinlock_wait.c:38-45).
LEMMA DelayOK ==
    ASSUME NEW loop \in Int, NEW r \in Int
    PROVE  /\ Round8(loop) \in 0 .. 4
           /\ kMinDelay * 2 ^ Round8(loop) \in Nat
           /\ SpinLockSuggestedDelayNS(loop, r) \in
                  kMinDelay * 2 ^ Round8(loop) .. 2 * (kMinDelay * 2 ^ Round8(loop)) - 1
<1> DEFINE delay == kMinDelay * 2 ^ Round8(loop)
<1>1. Round8(loop) \in 0 .. 4
    BY DEF Round8
<1>2. delay \in Nat \ {0}
    <2>1. PICK p \in 1 .. 16 : p = 2 ^ Round8(loop)
        BY <1>1, PowerOK
    <2>2. kMinDelay * p \in Nat \ {0}
        BY MinDelayOK
    <2> QED
        BY <2>1, <2>2
<1>3. SpinLockSuggestedDelayNS(loop, r) = delay + (r % delay)
    BY DEF SpinLockSuggestedDelayNS, Round8
<1> HIDE DEF delay
<1>4. r % delay \in 0 .. delay - 1
    BY <1>2
<1>5. SpinLockSuggestedDelayNS(loop, r) \in delay .. 2 * delay - 1
    BY <1>2, <1>3, <1>4
<1> QED
    BY <1>1, <1>2, <1>5 DEF delay

\* However the random part turns out, eight rounds later a thread waits longer, up to round
\* 32; and the sleep is one that nanosleep takes (spinlock_wait.c:35-46,
\* spinlock_posix.inc:12-31).
THEOREM DelayCorrect == Spec => []DelayGrows
<1>1. Init => DelayGrows
    BY SMT DEF Init, Idle, DelayGrows
<1>2. ASSUME DelayGrows, [Next]_call PROVE DelayGrows'
    <2>1. CASE UNCHANGED call
        BY <1>2, <2>1, SMT DEF DelayGrows
    <2>2. CASE Next /\ call'.fn = "delay"
        <3>1. PICK d \in DelayInputs :
                  call' = [fn |-> "delay", in |-> d,
                           out |-> [suggested |-> SpinLockSuggestedDelayNS(d.loop, d.r),
                                    slept |-> cicflowInternalSpinLockDelay(d.loop, d.r)]]
            BY <2>2, Named DEF Delay, Called
        <3> DEFINE Suggested(e) == SpinLockSuggestedDelayNS(e.loop, e.r)
                   Slept(e) == cicflowInternalSpinLockDelay(e.loop, e.r)
                   Least(e) == kMinDelay * 2 ^ Round8(e.loop)
        <3>2. ASSUME NEW e \in DelayInputs
              PROVE  /\ e.loop \in Int /\ Round8(e.loop) \in 0 .. 4 /\ Least(e) \in Nat
                     /\ Suggested(e) \in Least(e) .. 2 * Least(e) - 1
            <4>1. e.loop \in Int /\ e.r \in Int
                BY DelayAssumption, SMT
            <4> QED
                BY <4>1, DelayOK
        <3>3. ASSUME NEW e \in DelayInputs
              PROVE  /\ Suggested(e) \in Nat /\ Suggested(e) >= kMinDelay
                     /\ Suggested(e) < 32 * kMinDelay
                     /\ Slept(e) \in {0, Suggested(e)}
                     /\ Slept(e) = IF e.loop \in {0, 1} THEN 0 ELSE Suggested(e)
            <4>1. PICK p \in 1 .. 16 : p = 2 ^ Round8(e.loop)
                BY <3>2, PowerOK
            <4>2. kMinDelay <= kMinDelay * p /\ kMinDelay * p <= 16 * kMinDelay
                BY MinDelayOK
            <4>3. Suggested(e) \in Nat /\ Suggested(e) >= kMinDelay
                  /\ Suggested(e) < 32 * kMinDelay
                <5>1. kMinDelay * p \in Nat /\ kMinDelay \in Nat
                    BY MinDelayOK
                <5> HIDE DEF Suggested
                <5>2. Suggested(e) \in kMinDelay * p .. 2 * (kMinDelay * p) - 1
                    BY <3>2, <4>1
                <5> QED
                    BY <4>2, <5>1, <5>2
            <4> QED
                BY <4>3 DEF cicflowInternalSpinLockDelay
        <3>4. ASSUME NEW e \in DelayInputs, d.loop \in 0 .. 24, e.loop \notin 0 .. d.loop + 7
              PROVE  Suggested(e) > Suggested(d) /\ Slept(e) > Slept(d)
            <4>1. Round8(d.loop) < Round8(e.loop)
                BY <3>2, <3>4 DEF Round8
            <4>2. 2 * 2 ^ Round8(d.loop) <= 2 ^ Round8(e.loop)
                BY <3>2, <4>1, PowerOK
            <4>3. 2 * Least(d) <= Least(e)
                <5>1. PICK p \in 1 .. 16 : p = 2 ^ Round8(d.loop)
                    BY <3>2, PowerOK
                <5>2. PICK q \in 1 .. 16 : q = 2 ^ Round8(e.loop)
                    BY <3>2, PowerOK
                <5>3. 2 * (kMinDelay * p) <= kMinDelay * q
                    <6>1. PICK x \in Nat : q = 2 * p + x
                        <7>1. 2 * p \in Int /\ q \in Int /\ 2 * p <= q
                            BY <4>2, <5>1, <5>2
                        <7> QED
                            BY <7>1, Difference
                    <6>2. kMinDelay * q = 2 * (kMinDelay * p) + kMinDelay * x
                          /\ kMinDelay * x \in Nat /\ kMinDelay * p \in Nat
                        BY <6>1, MinDelayOK
                    <6> QED
                        BY <6>2
                <5> QED
                    BY <5>1, <5>2, <5>3
            <4>4. Suggested(e) > Suggested(d)
                <5> HIDE DEF Least, Suggested
                <5> QED
                    BY <3>2, <4>3
            <4>5. e.loop \notin {0, 1}
                BY <3>2, <3>4
            <4> HIDE DEF Suggested, Slept
            <4> QED
                BY <3>3, <4>4, <4>5
        <3> HIDE DEF Suggested, Slept
        <3>5. Slept(d) < 1000000000
            BY <3>3, MinDelayOK, SMT
        <3> QED
            BY <3>1, <3>3, <3>4, <3>5, SMT DEF DelayGrows, Suggested, Slept
    <2>3. CASE Next /\ call'.fn # "delay"
        BY <2>3, SMT DEF DelayGrows
    <2> QED
        BY <1>2, <2>1, <2>2, <2>3
<1> QED
    BY <1>1, <1>2, PTL DEF Spec

\* What Now gives is the raw count, shifted, whatever machine and source it comes from
\* (cycleclock.h:31-50, cycleclock_config.h:9-19).
LEMMA NowOK ==
    ASSUME NEW c \in ClockInputs, NEW i \in 1 .. 2
    PROVE  LET r == c.readings[i]
               raw == IF r.loads[1] = "NULL" THEN r.counts[1] ELSE r.fn
           IN  raw \in Int /\ Now(c.build, c.machine, r) = raw \div 2 ^ kCycleClockShift(c.build)
<1> DEFINE r == c.readings[i]
<1>1. /\ c.machine # "ppc" /\ r.counts[1] \in Int /\ r.fn \in Int
      /\ r.loads[1] # "NULL" => r.loads[2] # "NULL"
    BY ClockAssumption
<1>2. Rdtsc(r.counts[1]) = r.counts[1]
    <2>1. \A h \in Nat \ {0}, m \in Int : m = (m \div h) * h + (m % h)
        OBVIOUS
    <2> QED
        BY <1>1, <2>1, HalfAssumption DEF Rdtsc
<1>3. unscaled_cycle_clock_now(c.machine, r.counts) = r.counts[1]
    BY <1>1, <1>2 DEF unscaled_cycle_clock_now
<1>4. LoadCycleClockSource(c.machine, r.loads) = "NULL" <=> r.loads[1] = "NULL"
    BY <1>1 DEF LoadCycleClockSource
<1> QED
    BY <1>1, <1>3, <1>4 DEF Now

\* Differences of shifted counts are right to one tick.
LEMMA ShiftOK ==
    ASSUME NEW a \in Int, NEW b \in Int, NEW d \in {1, 2, 4}
    PROVE  LET off == (b \div d - a \div d) * d - (b - a)
           IN  off < d /\ off > -d /\ (a <= b => a \div d <= b \div d)
<1>1. CASE d = 1
    BY <1>1
<1>2. CASE d = 2
    BY <1>2
<1>3. CASE d = 4
    BY <1>3
<1> QED
    BY <1>1, <1>2, <1>3

\* Differences of two times are right to one tick of the frequency, in every build, and
\* the clock in nanoseconds goes on at a full second (cycleclock.h:31-50,
\* cycleclock_config.h:9-19, cycleclock.c:14-22).
THEOREM ClockCorrect == Spec => []ClockScale
<1>1. Init => ClockScale
    BY DEF Init, Idle, ClockScale
<1>2. ASSUME ClockScale, [Next]_call PROVE ClockScale'
    <2>1. CASE UNCHANGED call
        BY <1>2, <2>1 DEF ClockScale
    <2>2. CASE Next /\ call'.fn = "clock"
        <3>1. PICK c \in ClockInputs :
                  call' = [fn |-> "clock", in |-> c,
                           out |-> [now |-> [i \in 1 .. 2 |->
                                                Now(c.build, c.machine, c.readings[i])],
                                    frequency |-> Frequency(c.build, c.machine, 1000),
                                    nanos |-> [i \in 1 .. 2 |-> cycle_clock_now(c.times[i])]]]
            BY <2>2, Named DEF Clock, Called
        <3> DEFINE d == 2 ^ kCycleClockShift(c.build)
                   Raw(i) == IF c.readings[i].loads[1] = "NULL" THEN c.readings[i].counts[1]
                             ELSE c.readings[i].fn
        <3>2. d \in {1, 2, 4}
            <4>1. 2 ^ 0 = 1 /\ 2 ^ 1 = 2 /\ 2 ^ 2 = 4
                OBVIOUS
            <4>2. kCycleClockShift(c.build) \in {0, 1, 2}
                BY ClockAssumption DEF kCycleClockShift
            <4> QED
                BY <4>1, <4>2
        <3>3. Frequency(c.build, c.machine, 1000).den = d
            BY DEF Frequency
        <3> HIDE DEF d
        <3>4. \A i \in 1 .. 2 : /\ Raw(i) \in Int
                                /\ Now(c.build, c.machine, c.readings[i]) = Raw(i) \div d
            BY NowOK DEF d
        <3> HIDE DEF Raw
        <3>5. LET off == (Raw(2) \div d - Raw(1) \div d) * d - (Raw(2) - Raw(1))
              IN  off < d /\ off > -d /\ (Raw(1) <= Raw(2) => Raw(1) \div d <= Raw(2) \div d)
            BY <3>2, <3>4, ShiftOK
        <3>6. /\ call'.out.now[1] = Raw(1) \div d /\ call'.out.now[2] = Raw(2) \div d
              /\ call'.out.frequency.den = d
            BY <3>1, <3>3, <3>4
        <3>7. call'.out.nanos[2] - call'.out.nanos[1] =
                  (c.times[2].tv_sec - c.times[1].tv_sec) * cycle_clock_frequency
                      + c.times[2].tv_nsec - c.times[1].tv_nsec
            <4>1. \A i \in 1 .. 2 : c.times[i].tv_sec \in Int /\ c.times[i].tv_nsec \in Int
                BY ClockAssumption
            <4>2. /\ call'.out.nanos[1] = cycle_clock_now(c.times[1])
                  /\ call'.out.nanos[2] = cycle_clock_now(c.times[2])
                BY <3>1
            <4> QED
                BY <4>1, <4>2, SMT DEF cycle_clock_now, cycle_clock_frequency
        <3>8. call'.in = c /\ call'.fn = "clock"
            BY <3>1
        <3> QED
            BY <3>5, <3>6, <3>7, <3>8 DEF ClockScale, Raw
    <2>3. CASE Next /\ call'.fn # "clock"
        BY <2>3 DEF ClockScale
    <2> QED
        BY <1>2, <2>1, <2>2, <2>3
<1> QED
    BY <1>1, <1>2, PTL DEF Spec

------------------------------------------------------------------------------
(* Byte orders. *)

\* The bytes in the other order.
Flip(x) == [j \in 1 .. Len(x) |-> x[Len(x) + 1 - j]]

\* Shifts that take each byte to the mirror image of its place.
LEMMA MoveOK ==
    ASSUME NEW S, NEW x \in Seq(S), NEW shifts,
           \A k \in 1 .. Len(x) : k + shifts[k] = Len(x) + 1 - k
    PROVE  MoveBytes(x, shifts) = Flip(x)
<1> DEFINE n == Len(x)
<1>0. n \in Nat /\ DOMAIN x = 1 .. n /\ \A k \in 1 .. n : k + shifts[k] = n + 1 - k
    OBVIOUS
<1> HIDE DEF n
<1>1. ASSUME NEW j \in 1 .. n
      PROVE  (CHOOSE k \in DOMAIN x : k + shifts[k] = j) = n + 1 - j
    <2>1. n + 1 - j \in 1 .. n /\ n + 1 - (n + 1 - j) = j
        BY <1>0
    <2>2. \A k \in DOMAIN x : k + shifts[k] = j <=> k = n + 1 - j
        BY <1>0, <2>1
    <2>3. \E k \in DOMAIN x : k + shifts[k] = j
        BY <1>0, <2>1, <2>2
    <2>4. (CHOOSE k \in DOMAIN x : k + shifts[k] = j) \in DOMAIN x
          /\ LET k == CHOOSE k \in DOMAIN x : k + shifts[k] = j IN k + shifts[k] = j
        BY <2>3
    <2> QED
        BY <1>0, <2>2, <2>4
<1> QED
    BY <1>0, <1>1 DEF MoveBytes, Flip, n

\* A swap of 16, 32 or 64 bits turns their bytes round (endian.h:13-48).
LEMMA SwapOK ==
    ASSUME NEW S, NEW x \in Seq(S), Len(x) \in {2, 4, 8}
    PROVE  gbswap(x) = Flip(x)
<1>2. CASE Len(x) = 8
    <2> DEFINE shifts == <<7, 5, 3, 1, -1, -3, -5, -7>>
    <2>1. \A k \in 1 .. 8 : k + shifts[k] = 8 + 1 - k
        OBVIOUS
    <2>2. gbswap_64(x) = MoveBytes(x, shifts)
        BY DEF gbswap_64
    <2> HIDE DEF shifts
    <2>3. MoveBytes(x, shifts) = Flip(x)
        BY <1>2, <2>1, MoveOK
    <2> QED
        BY <1>2, <2>2, <2>3 DEF gbswap
<1>3. CASE Len(x) = 4
    <2> DEFINE shifts == <<3, 1, -1, -3>>
    <2>1. \A k \in 1 .. 4 : k + shifts[k] = 4 + 1 - k
        OBVIOUS
    <2>2. gbswap_32(x) = MoveBytes(x, shifts)
        BY DEF gbswap_32
    <2> HIDE DEF shifts
    <2>3. MoveBytes(x, shifts) = Flip(x)
        BY <1>3, <2>1, MoveOK
    <2> QED
        BY <1>3, <2>2, <2>3 DEF gbswap
<1>4. CASE Len(x) = 2
    <2> DEFINE shifts == <<1, -1>>
    <2>1. \A k \in 1 .. 2 : k + shifts[k] = 2 + 1 - k
        OBVIOUS
    <2>2. gbswap_16(x) = MoveBytes(x, shifts)
        BY DEF gbswap_16
    <2> HIDE DEF shifts
    <2>3. MoveBytes(x, shifts) = Flip(x)
        BY <1>4, <2>1, MoveOK
    <2> QED
        BY <1>4, <2>2, <2>3 DEF gbswap
<1> QED
    BY <1>2, <1>3, <1>4

\* Turned round twice, the bytes are as they were.
LEMMA FlipOK ==
    ASSUME NEW S, NEW x \in Seq(S)
    PROVE  Flip(x) \in Seq(S) /\ Len(Flip(x)) = Len(x) /\ Flip(Flip(x)) = x
<1> DEFINE n == Len(x)
<1>1. n \in Nat /\ x = [j \in 1 .. n |-> x[j]] /\ \A j \in 1 .. n : x[j] \in S
    OBVIOUS
<1> HIDE DEF n
<1>2. Flip(x) = [j \in 1 .. n |-> x[n + 1 - j]]
    BY DEF Flip, n
<1>3. \A j \in 1 .. n : n + 1 - j \in 1 .. n /\ n + 1 - (n + 1 - j) = j
    BY <1>1
<1>4. Flip(x) \in Seq(S) /\ Len(Flip(x)) = n
    <2>1. \A j \in 1 .. n : x[n + 1 - j] \in S
        BY <1>1, <1>3
    <2>2. Flip(x) \in [1 .. n -> S]
        BY <1>2, <2>1
    <2>3. Flip(x) \in Seq(S)
        BY <1>1, <2>2
    <2>4. DOMAIN Flip(x) = 1 .. n
        BY <2>2
    <2> QED
        BY <1>1, <2>3, <2>4
<1>5. Flip(Flip(x)) = [j \in 1 .. n |-> x[j]]
    BY <1>2, <1>3, <1>4 DEF Flip
<1> QED
    BY <1>1, <1>4, <1>5 DEF n

\* Memory with a value in it, its first or its last byte at p.
Low(mem, p, v) == [a \in DOMAIN mem |-> IF a \in p .. p + Len(v) - 1
                                        THEN v[1 + (a - p)] ELSE mem[a]]
High(mem, p, v) == [a \in DOMAIN mem |-> IF a \in p .. p + Len(v) - 1
                                         THEN v[Len(v) - (a - p)] ELSE mem[a]]

\* A store puts a value's bytes in the order of the host, so one that has been turned round in the
\* other (unaligned_access.h:10-32).
LEMMA StoreOK ==
    ASSUME NEW S, NEW v \in Seq(S), NEW mem \in Seq(S), NEW p \in Nat
    PROVE  /\ unaligned_store(mem, p, v, "little") = Low(mem, p, v)
           /\ unaligned_store(mem, p, v, "big") = High(mem, p, v)
           /\ Low(mem, p, Flip(v)) = High(mem, p, v)
           /\ High(mem, p, Flip(v)) = Low(mem, p, v)
<1> DEFINE n == Len(v)
<1>1. n \in Nat /\ DOMAIN mem = 1 .. Len(mem) /\ Len(mem) \in Nat
    OBVIOUS
<1>2. Len(Flip(v)) = n
    BY FlipOK
<1>3. Flip(v) = [j \in 1 .. n |-> v[n + 1 - j]]
    BY DEF Flip
<1>4. \A a \in DOMAIN mem : /\ a \in Int
                            /\ a - p + 1 = 1 + (a - p)
    BY <1>1
<1>5. ASSUME NEW a \in DOMAIN mem, a \in p .. p + n - 1
      PROVE  Flip(v)[1 + (a - p)] = v[n - (a - p)] /\ Flip(v)[n - (a - p)] = v[1 + (a - p)]
    <2> HIDE DEF n
    <2>1. 1 + (a - p) \in 1 .. n /\ n - (a - p) \in 1 .. n
        BY <1>1, <1>4, <1>5
    <2>2. n + 1 - (1 + (a - p)) = n - (a - p) /\ n + 1 - (n - (a - p)) = 1 + (a - p)
        BY <1>1, <1>4
    <2> QED
        BY <1>3, <2>1, <2>2
<1>6. unaligned_store(mem, p, v, "little") = Low(mem, p, v)
    BY <1>4 DEF unaligned_store, Low
<1>7. unaligned_store(mem, p, v, "big") = High(mem, p, v)
    BY DEF unaligned_store, High
<1> HIDE DEF n
<1>8. Low(mem, p, Flip(v)) = High(mem, p, v)
    BY <1>2, <1>5 DEF Low, High, n
<1>9. High(mem, p, Flip(v)) = Low(mem, p, v)
    BY <1>2, <1>5 DEF Low, High, n
<1> QED
    BY <1>6, <1>7, <1>8, <1>9

\* A load takes them up again (unaligned_access.h:10-32).
LEMMA LoadOK ==
    ASSUME NEW S, NEW v \in Seq(S), NEW mem \in Seq(S), NEW p \in 1 .. Len(mem) - Len(v) + 1
    PROVE  /\ unaligned_load(Low(mem, p, v), p, Len(v), "little") = v
           /\ unaligned_load(High(mem, p, v), p, Len(v), "big") = v
           /\ unaligned_load(Low(mem, p, v), p, Len(v), "big") = Flip(v)
           /\ unaligned_load(High(mem, p, v), p, Len(v), "little") = Flip(v)
<1> DEFINE n == Len(v)
<1>1. /\ n \in Nat /\ DOMAIN mem = 1 .. Len(mem) /\ Len(mem) \in Nat
      /\ v = [i \in 1 .. n |-> v[i]] /\ p \in Nat
    OBVIOUS
<1>2. p \in 1 .. Len(mem) - n + 1
    OBVIOUS
<1>3. Flip(v) = [j \in 1 .. n |-> v[n + 1 - j]]
    BY DEF Flip
<1>4. /\ \A a \in p .. p + n - 1 : Low(mem, p, v)[a] = v[1 + (a - p)]
      /\ \A a \in p .. p + n - 1 : High(mem, p, v)[a] = v[n - (a - p)]
    <2>1. \A a \in p .. p + n - 1 : a \in DOMAIN mem
        <3> HIDE DEF n
        <3> QED
            BY <1>1, <1>2
    <2> QED
        BY <2>1 DEF Low, High
<1> HIDE DEF n
<1>5. ASSUME NEW i \in 1 .. n
      PROVE  /\ Low(mem, p, v)[p + (i - 1)] = v[i]
             /\ Low(mem, p, v)[p + (n - i)] = v[n + 1 - i]
             /\ High(mem, p, v)[p + (i - 1)] = v[n + 1 - i]
             /\ High(mem, p, v)[p + (n - i)] = v[i]
    <2> DEFINE a == p + (i - 1)  b == p + (n - i)
    <2>1. /\ a \in p .. p + n - 1 /\ b \in p .. p + n - 1
          /\ 1 + (a - p) = i /\ 1 + (b - p) = n + 1 - i
          /\ n - (a - p) = n + 1 - i /\ n - (b - p) = i
        <3>1. n \in Nat /\ p \in Nat /\ i \in Nat /\ 1 <= i /\ i <= n
            BY <1>1
        <3>2. a - p = i - 1 /\ b - p = n - i
            BY <3>1
        <3>3. a \in p .. p + n - 1 /\ b \in p .. p + n - 1
            BY <3>1
        <3> HIDE DEF a, b
        <3> QED
            BY <3>1, <3>2, <3>3
    <2> HIDE DEF a, b
    <2>2. /\ Low(mem, p, v)[a] = v[i] /\ Low(mem, p, v)[b] = v[n + 1 - i]
          /\ High(mem, p, v)[a] = v[n + 1 - i] /\ High(mem, p, v)[b] = v[i]
        BY <1>4, <2>1
    <2> QED
        BY <2>2 DEF a, b
<1>6. unaligned_load(Low(mem, p, v), p, n, "little") = v
    BY <1>1, <1>5 DEF unaligned_load
<1>7. unaligned_load(High(mem, p, v), p, n, "big") = v
    BY <1>1, <1>5 DEF unaligned_load
<1>8. unaligned_load(Low(mem, p, v), p, n, "big") = Flip(v)
    BY <1>3, <1>5 DEF unaligned_load
<1>9. unaligned_load(High(mem, p, v), p, n, "little") = Flip(v)
    BY <1>3, <1>5 DEF unaligned_load
<1> QED
    BY <1>6, <1>7, <1>8, <1>9 DEF n

\* Whatever the byte orders of the writer and the reader, a value comes back as it was, lies
\* in memory in the order named and touches none of its neighbours; ghton on any host is a store
\* in network order, and its own inverse (endian.h:13-164, unaligned_access.h:10-32).
THEOREM WireCorrect == Spec => []WireOrder
<1>1. Init => WireOrder
    BY DEF Init, Idle, WireOrder
<1>2. ASSUME WireOrder, [Next]_call PROVE WireOrder'
    <2>1. CASE UNCHANGED call
        BY <1>2, <2>1 DEF WireOrder
    <2>2. CASE Next /\ call'.fn = "wire"
        <3>1. PICK w \in WireInputs :
                  call' = [fn |-> "wire", in |-> w,
                           out |-> [mem |-> Store(w), loaded |-> Load(w, Store(w)),
                                    sent |-> unaligned_store(w.mem, w.p, ghton(w.value, w.writer),
                                                             w.writer),
                                    back |-> gntoh(ghton(w.value, w.writer), w.writer)]]
            BY <2>2, Named DEF Wire, Called
        <3> DEFINE B == 0 .. 255
                   v == w.value
                   n == Len(v)
                   little == Low(w.mem, w.p, v)
                   big == High(w.mem, w.p, v)
        <3>2. /\ w.mem \in Seq(B) /\ v \in Seq(B) /\ n \in {2, 4, 8}
              /\ w.p \in 1 .. Len(w.mem) - n + 1
              /\ w.order \in Order /\ w.writer \in Order /\ w.reader \in Order
            BY WireAssumption
        <3>3. w.p \in Nat
            <4>1. Len(w.mem) \in Nat
                BY <3>2
            <4> QED
                BY <3>2, <4>1
        <3>4. (w.order = "little" \/ w.order = "big") /\ (w.writer = "little" \/ w.writer = "big")
              /\ (w.reader = "little" \/ w.reader = "big")
            BY <3>2 DEF Order
        <3> HIDE DEF B, v
        <3>5. /\ gbswap(v) = Flip(v) /\ gbswap(Flip(v)) = v
              /\ Flip(v) \in Seq(B) /\ Len(Flip(v)) = n
            BY <3>2, SwapOK, FlipOK
        <3>6. /\ unaligned_store(w.mem, w.p, v, "little") = little
              /\ unaligned_store(w.mem, w.p, v, "big") = big
            BY <3>2, <3>3, StoreOK
        <3>7. /\ unaligned_store(w.mem, w.p, Flip(v), "little") = big
              /\ unaligned_store(w.mem, w.p, Flip(v), "big") = little
            BY <3>2, <3>3, <3>5, StoreOK
        <3>8. /\ unaligned_load(little, w.p, n, "little") = v
              /\ unaligned_load(big, w.p, n, "big") = v
              /\ unaligned_load(little, w.p, n, "big") = Flip(v)
              /\ unaligned_load(big, w.p, n, "little") = Flip(v)
            BY <3>2, LoadOK
        <3> HIDE DEF little, big, n
        <3>9. Store(w) = IF w.order = "little" THEN little ELSE big
            BY <3>4, <3>5, <3>6, <3>7
            DEF Store, little_endian_store, big_endian_store, little_endian_host, big_endian_host, v
        <3>10. Load(w, Store(w)) = v
            BY <3>4, <3>5, <3>8, <3>9
            DEF Load, little_endian_load, big_endian_load, little_endian_host, big_endian_host, v, n
        <3>11. unaligned_store(w.mem, w.p, ghton(v, w.writer), w.writer) = big
            BY <3>4, <3>5, <3>6, <3>7 DEF ghton
        <3>12. gntoh(ghton(v, w.writer), w.writer) = v
            BY <3>4, <3>5 DEF ghton, gntoh
        <3>13. /\ call'.in = w /\ call'.out.mem = Store(w) /\ call'.out.loaded = v
               /\ call'.out.sent = big /\ call'.out.back = v
            BY <3>1, <3>10, <3>11, <3>12 DEF v
        <3> QED
            BY <3>4, <3>9, <3>13 DEF WireOrder, Low, High, v, n, little, big
    <2>3. CASE Next /\ call'.fn # "wire"
        BY <2>3 DEF WireOrder
    <2> QED
        BY <1>2, <2>1, <2>2, <2>3
<1> QED
    BY <1>1, <1>2, PTL DEF Spec

------------------------------------------------------------------------------
(* Loops, which the model writes as functions of the number of rounds. *)

\* What holds before the first round and is kept by each round holds after all of them.
LEMMA Upto ==
    ASSUME NEW n \in Nat, NEW T, 0 \in T, \A i \in 1 .. n : i - 1 \in T => i \in T
    PROVE  \A i \in 0 .. n : i \in T
<1> DEFINE Odd == {i \in 0 .. n : i \notin T}
<1>1. Odd = {}
    <2>1. ASSUME NEW m \in Odd PROVE \E k \in Odd : k < m
        <3>1. m \in 1 .. n /\ m - 1 \in 0 .. n /\ m - 1 < m
            OBVIOUS
        <3> QED
            BY <3>1
    <2>2. Odd \in SUBSET Nat
        OBVIOUS
    <2> HIDE DEF Odd
    <2> QED
        BY <2>1, <2>2, Descent
<1> QED
    BY <1>1

\* The rounds of a loop, as functions on its states, and the states after each of them.
Steps(step, n, D) == step \in [1 .. n -> [D -> D]]
Runs(f, n, D, first, step) == /\ f \in [0 .. n -> D] /\ f[0] = first
                              /\ \A i \in 1 .. n : f[i] = step[i][f[i - 1]]

\* A loop has a state after each of its rounds, which follows from the state before it.
LEMMA Loop ==
    ASSUME NEW n \in Nat, NEW D, NEW first \in D, NEW step, Steps(step, n, D)
    PROVE  \E f : Runs(f, n, D, first, step)
<1> DEFINE Some(f, m) == Runs(f, m, D, first, step)
           T == {m \in 0 .. n : \E f : Some(f, m)}
<1> USE DEF Runs
<1>1. 0 \in T
    <2> DEFINE f == [i \in 0 .. 0 |-> first]
    <2>1. Some(f, 0)
        OBVIOUS
    <2> HIDE DEF f, Some
    <2> QED
        BY <2>1
<1>2. ASSUME NEW m \in 1 .. n, m - 1 \in T PROVE m \in T
    <2>1. PICK f : Some(f, m - 1)
        BY <1>2
    <2>2. m \in Nat /\ m - 1 \in Nat /\ step[m] \in [D -> D]
        BY DEF Steps
    <2> DEFINE g == [i \in 0 .. m |-> IF i = m THEN step[m][f[m - 1]] ELSE f[i]]
    <2>3. f[m - 1] \in D
        BY <2>1, <2>2
    <2>4. g \in [0 .. m -> D]
        <3>1. \A i \in 0 .. m : i = m \/ i \in 0 .. m - 1
            BY <2>2
        <3> QED
            BY <2>1, <2>2, <2>3, <3>1
    <2>5. g[0] = first
        BY <2>1, <2>2
    <2>6. ASSUME NEW i \in 1 .. m PROVE g[i] = step[i][g[i - 1]]
        <3>1. i - 1 \in 0 .. m /\ i - 1 # m /\ i \in 0 .. m
            BY <2>2
        <3>2. g[i - 1] = f[i - 1]
            BY <3>1
        <3>3. CASE i = m
            BY <3>1, <3>2, <3>3
        <3>4. CASE i # m
            <4>1. i \in 1 .. m - 1
                BY <2>2, <3>4
            <4> QED
                BY <2>1, <3>1, <3>2, <3>4, <4>1
        <3> QED
            BY <3>3, <3>4
    <2> HIDE DEF g
    <2>7. Some(g, m)
        BY <2>4, <2>5, <2>6
    <2> HIDE DEF Some
    <2> QED
        BY <2>7
<1> HIDE DEF T
<1>3. \A m \in 0 .. n : m \in T
    BY <1>1, <1>2, Upto
<1>4. n \in T
    BY <1>3
<1> QED
    BY <1>4 DEF T

------------------------------------------------------------------------------
(* The reading of the least latency. *)

\* A reading has a time before, a time after and a count.
LEMMA ReadingOK ==
    ASSUME NEW readings \in Seq([t0 : Int, t1 : Int, tsc : Int])
    PROVE  /\ Len(readings) \in Nat /\ DOMAIN readings = 1 .. Len(readings)
           /\ \A i \in 1 .. Len(readings) :
                 /\ readings[i].t0 \in Int /\ readings[i].t1 \in Int /\ readings[i].tsc \in Int
                 /\ readings[i].t1 - readings[i].t0 \in Int
<1> DEFINE R == [t0 : Int, t1 : Int, tsc : Int]
<1>1. \A r \in R : r.t0 \in Int /\ r.t1 \in Int /\ r.tsc \in Int /\ r.t1 - r.t0 \in Int
    OBVIOUS
<1> HIDE DEF R
<1>2. readings \in Seq(R)
    BY DEF R
<1>3. /\ Len(readings) \in Nat /\ DOMAIN readings = 1 .. Len(readings)
      /\ \A i \in 1 .. Len(readings) : readings[i] \in R
    BY <1>2
<1> QED
    BY <1>1, <1>3

\* After each round the pair kept is the first of the least latency so far, or none
\* where each has taken as long as an int can tell (sysinfo.c:204-219).
LEMMA LeastOK ==
    ASSUME NEW readings \in Seq([t0 : Int, t1 : Int, tsc : Int])
    PROVE  LET Latency(i) == readings[i].t1 - readings[i].t0
               n == Len(readings)
           IN  \/ /\ GetTimeTscPair(readings) = <<>>
                  /\ \A i \in 1 .. n : Latency(i) >= INT_MAX
               \/ \E i \in 1 .. n :
                     /\ GetTimeTscPair(readings) = <<readings[i].t0, readings[i].tsc>>
                     /\ Latency(i) < INT_MAX
                     /\ \A j \in 1 .. n : Latency(i) <= Latency(j)
                     /\ \A j \in 1 .. i - 1 : Latency(i) < Latency(j)
<1> DEFINE n == Len(readings)
           Latency(i) == readings[i].t1 - readings[i].t0
           D == [latency : Int, pair : (Int \X Int) \cup {<<>>}]
           step == [i \in 1 .. n |-> [s \in D |-> IF Timed(readings[i]).latency < s.latency
                                                  THEN Timed(readings[i]) ELSE s]]
           Solves(f) == f = [i \in 0 .. n |->
                                IF i = 0 THEN Unassigned
                                ELSE IF Timed(readings[i]).latency < f[i - 1].latency
                                THEN Timed(readings[i])
                                ELSE f[i - 1]]
<1>1. n \in Nat
    BY ReadingOK
<1>2. /\ Unassigned \in D
      /\ \A i \in 1 .. n : Timed(readings[i]) \in D /\ Timed(readings[i]).latency = Latency(i)
    BY ReadingOK, ReadingAssumption DEF Unassigned, Timed
<1> HIDE DEF n
<1>3. \E f : Solves(f)
    <2>1. Steps(step, n, D)
        BY <1>2 DEF Steps
    <2>0. Unassigned \in D
        BY <1>2
    <2> HIDE DEF step, D, Solves
    <2>2. PICK f : Runs(f, n, D, Unassigned, step)
        BY <1>1, <2>0, <2>1, Loop
    <2>3. ASSUME NEW i \in 0 .. n
          PROVE  f[i] = IF i = 0 THEN Unassigned
                        ELSE IF Timed(readings[i]).latency < f[i - 1].latency
                        THEN Timed(readings[i])
                        ELSE f[i - 1]
        <3>1. CASE i = 0
            BY <2>2, <3>1 DEF Runs
        <3>2. CASE i # 0
            <4>1. i \in 1 .. n /\ i - 1 \in 0 .. n
                BY <1>1, <3>2
            <4>2. f[i] = step[i][f[i - 1]] /\ f[i - 1] \in D
                BY <2>2, <4>1 DEF Runs
            <4> QED
                BY <3>2, <4>1, <4>2 DEF step
        <3> QED
            BY <3>1, <3>2
    <2>4. Solves(f)
        BY <2>2, <2>3 DEF Solves, Runs
    <2> QED
        BY <2>4
<1> DEFINE best == CHOOSE f : Solves(f)
<1>4. Solves(best)
    <2> HIDE DEF Solves
    <2> QED
        BY <1>3
<1>5. GetTimeTscPair(readings) = best[n].pair
    BY DEF GetTimeTscPair, n
<1> HIDE DEF best
<1>6. /\ best[0] = Unassigned
      /\ \A i \in 1 .. n : best[i] = IF Timed(readings[i]).latency < best[i - 1].latency
                                     THEN Timed(readings[i]) ELSE best[i - 1]
    <2>1. \A i \in 1 .. n : i \in 0 .. n /\ i # 0
        BY <1>1
    <2>2. 0 \in 0 .. n
        BY <1>1
    <2>3. best = [i \in 0 .. n |->
                     IF i = 0 THEN Unassigned
                     ELSE IF Timed(readings[i]).latency < best[i - 1].latency
                     THEN Timed(readings[i])
                     ELSE best[i - 1]]
        BY <1>4
    <2>4. best[0] = Unassigned
        BY <2>2, <2>3
    <2>5. ASSUME NEW i \in 1 .. n
          PROVE  best[i] = IF Timed(readings[i]).latency < best[i - 1].latency
                           THEN Timed(readings[i]) ELSE best[i - 1]
        <3>1. i \in 0 .. n /\ i # 0
            BY <2>1
        <3> QED
            BY <2>3, <3>1
    <2> QED
        BY <2>4, <2>5
<1> DEFINE None(k) == best[k] = Unassigned /\ \A i \in 1 .. k : Latency(i) >= INT_MAX
           First(k, i) == /\ best[k] = Timed(readings[i])
                          /\ Latency(i) < INT_MAX
                          /\ \A j \in 1 .. k : Latency(i) <= Latency(j)
                          /\ \A j \in 1 .. i - 1 : Latency(i) < Latency(j)
           T == {k \in 0 .. n : None(k) \/ \E i \in 1 .. k : First(k, i)}
<1>7. 0 \in T
    BY <1>1, <1>6
<1>8. ASSUME NEW k \in 1 .. n, k - 1 \in T PROVE k \in T
    <2>0. \A i \in 1 .. n : Latency(i) \in Int
        BY ReadingOK DEF n
    <2>1. /\ \A i \in 1 .. k : Latency(i) \in Int /\ i \in 1 .. n
          /\ \A j \in 1 .. k : j = k \/ j \in 1 .. k - 1
          /\ k \in Nat /\ k \in 1 .. k
        BY <1>1, <2>0
    <2>2. Timed(readings[k]).latency = Latency(k) /\ INT_MAX \in Int
        BY <1>2, ReadingAssumption
    <2> HIDE DEF Latency
    <2>3. CASE None(k - 1)
        <3>1. best[k - 1].latency = INT_MAX
            BY <2>3 DEF Unassigned
        <3>2. CASE Latency(k) < INT_MAX
            <4>1. best[k] = Timed(readings[k])
                BY <1>6, <2>2, <3>1, <3>2
            <4>2. \A j \in 1 .. k - 1 : Latency(k) < Latency(j)
                BY <2>1, <2>2, <2>3, <3>2
            <4>3. \A j \in 1 .. k : Latency(k) <= Latency(j)
                <5>1. Latency(k) <= Latency(k)
                    BY <2>1
                <5>2. \A j \in 1 .. k - 1 : Latency(k) <= Latency(j)
                    BY <2>1, <4>2
                <5> QED
                    BY <2>1, <5>1, <5>2
            <4>4. First(k, k)
                BY <3>2, <4>1, <4>2, <4>3
            <4> HIDE DEF First
            <4> QED
                BY <2>1, <4>4
        <3>3. CASE ~ (Latency(k) < INT_MAX)
            <4>1. None(k)
                BY <1>6, <2>1, <2>2, <2>3, <3>1, <3>3
            <4> QED
                BY <4>1
        <3> QED
            BY <3>2, <3>3
    <2>4. ASSUME NEW i \in 1 .. k - 1, First(k - 1, i) PROVE k \in T
        <3>1. best[k - 1].latency = Latency(i) /\ i \in 1 .. k
            BY <1>2, <2>1, <2>4 DEF Latency
        <3>2. CASE Latency(k) < Latency(i)
            <4>1. best[k] = Timed(readings[k])
                BY <1>6, <2>2, <3>1, <3>2
            <4>2. \A j \in 1 .. k - 1 : Latency(k) < Latency(j)
                BY <2>1, <2>2, <2>4, <3>1, <3>2
            <4>3. \A j \in 1 .. k : Latency(k) <= Latency(j)
                <5>1. Latency(k) <= Latency(k)
                    BY <2>1
                <5>2. \A j \in 1 .. k - 1 : Latency(k) <= Latency(j)
                    BY <2>1, <4>2
                <5> QED
                    BY <2>1, <5>1, <5>2
            <4>4. Latency(k) < INT_MAX
                BY <2>1, <2>2, <2>4, <3>1, <3>2
            <4>5. First(k, k)
                BY <4>1, <4>2, <4>3, <4>4
            <4> HIDE DEF First
            <4> QED
                BY <2>1, <4>5
        <3>3. CASE ~ (Latency(k) < Latency(i))
            <4>1. best[k] = Timed(readings[i])
                BY <1>6, <2>2, <2>4, <3>1, <3>3
            <4>2. Latency(i) <= Latency(k)
                BY <2>1, <3>1, <3>3
            <4>3. \A j \in 1 .. k : Latency(i) <= Latency(j)
                BY <2>1, <2>4, <4>2
            <4>4. First(k, i)
                BY <2>4, <4>1, <4>3
            <4> HIDE DEF First
            <4> QED
                BY <2>1, <3>1, <4>4
        <3> QED
            BY <3>2, <3>3
    <2> HIDE DEF None, First
    <2> QED
        BY <1>8, <2>3, <2>4
<1>9. n \in T
    <2> HIDE DEF T
    <2>1. \A k \in 0 .. n : k \in T
        BY <1>1, <1>7, <1>8, Upto
    <2> QED
        BY <1>1, <2>1
<1>10. CASE None(n)
    BY <1>5, <1>10 DEF Unassigned, n
<1>11. ASSUME NEW i \in 1 .. n, First(n, i)
       PROVE  GetTimeTscPair(readings) = <<readings[i].t0, readings[i].tsc>>
    BY <1>5, <1>11 DEF Timed
<1> QED
    BY <1>9, <1>10, <1>11 DEF n

\* The pair is one reading's own, the first of those with the least latency
\* (sysinfo.c:204-219).
THEOREM PairCorrect == Spec => []LeastLatency
<1>1. Init => LeastLatency
    BY DEF Init, Idle, LeastLatency
<1>2. ASSUME LeastLatency, [Next]_call PROVE LeastLatency'
    <2>1. CASE UNCHANGED call
        BY <1>2, <2>1 DEF LeastLatency
    <2>2. CASE Next /\ call'.fn = "pair"
        <3>1. PICK readings \in ReadingInputs :
                  call' = [fn |-> "pair", in |-> readings, out |-> GetTimeTscPair(readings)]
            BY <2>2, Named DEF TscPair, Called
        <3>2. readings \in Seq([t0 : Int, t1 : Int, tsc : Int])
            BY ReadingAssumption
        <3> DEFINE Latency(i) == readings[i].t1 - readings[i].t0
                   out == GetTimeTscPair(readings)
        <3>3. \/ out = <<>> /\ \A i \in DOMAIN readings : Latency(i) >= INT_MAX
              \/ \E i \in DOMAIN readings :
                    /\ out = <<readings[i].t0, readings[i].tsc>>
                    /\ ~ (Latency(i) >= INT_MAX)
                    /\ \A j \in DOMAIN readings : Latency(i) <= Latency(j)
                    /\ \A j \in 1 .. i - 1 : Latency(i) < Latency(j)
            <4>1. DOMAIN readings = 1 .. Len(readings)
                BY <3>2
            <4>2. \A i \in 1 .. Len(readings) : Latency(i) \in Int
                BY <3>2, ReadingOK
            <4>3. \A i \in 1 .. Len(readings) : Latency(i) < INT_MAX => ~ (Latency(i) >= INT_MAX)
                BY <4>2, ReadingAssumption
            <4> HIDE DEF Latency
            <4> QED
                BY <3>2, <4>1, <4>3, LeastOK DEF Latency
        <3> HIDE DEF out
        <3> QED
            BY <3>1, <3>3 DEF LeastLatency, out
    <2>3. CASE Next /\ call'.fn # "pair"
        BY <2>3 DEF LeastLatency
    <2> QED
        BY <1>2, <2>1, <2>2, <2>3
<1> QED
    BY <1>1, <1>2, PTL DEF Spec

------------------------------------------------------------------------------
(* The number of processors. *)

\* A mask without its lowest bit has one bit less, until none is left (sysinfo.c:49-56).
LEMMA BitsOK ==
    ASSUME NEW mask \in SUBSET (0 .. 63)
    PROVE  /\ IsFiniteSet(mask) /\ Cardinality(mask) \in Nat
           /\ Win32CountSetBits(mask) = Cardinality(mask)
<1> DEFINE Body(f, m) == IF m = {} THEN 0 ELSE 1 + f[m \ {Min(m)}]
           Solves(f) == f = [m \in SUBSET mask |-> Body(f, m)]
<1>1. ASSUME NEW m \in SUBSET mask
      PROVE  /\ IsFiniteSet(m) /\ Cardinality(m) \in Nat
             /\ m = {} => Cardinality(m) = 0
             /\ m # {} => /\ m \ {Min(m)} \in SUBSET mask
                          /\ Cardinality(m \ {Min(m)}) = Cardinality(m) - 1
    <2>1. IsFiniteSet(0 .. 63)
        <3>1. 0 \in Int /\ 63 \in Int
            OBVIOUS
        <3> QED
            BY <3>1, FS_Interval, Zenon
    <2>2. IsFiniteSet(m)
        BY <2>1, FS_Subset
    <2>3. Cardinality(m) \in Nat
        BY <2>2, FS_CardinalityType
    <2>4. m # {} => Min(m) \in m
        BY MinOK
    <2>5. /\ m \ {Min(m)} \in SUBSET mask
          /\ Min(m) \in m => Cardinality(m \ {Min(m)}) = Cardinality(m) - 1
        BY <2>2, FS_RemoveElement
    <2> QED
        BY <2>2, <2>3, <2>4, <2>5, FS_EmptySet
<1>2. \E f : Solves(f)
    <2> DEFINE f == [m \in SUBSET mask |-> Cardinality(m)]
    <2>1. ASSUME NEW m \in SUBSET mask PROVE Cardinality(m) = Body(f, m)
        BY <1>1
    <2>2. Solves(f)
        <3> HIDE DEF Body
        <3> QED
            BY <2>1
    <2> QED
        BY <2>2
<1> DEFINE count == CHOOSE f : Solves(f)
<1>3. Solves(count)
    <2> HIDE DEF Solves
    <2> QED
        BY <1>2
<1>4. Win32CountSetBits(mask) = count[mask]
    BY DEF Win32CountSetBits
<1> HIDE DEF count
<1> DEFINE Odd == {k \in Nat : \E m \in SUBSET mask : Cardinality(m) = k /\ count[m] # k}
<1>5. Odd = {}
    <2>1. ASSUME NEW k \in Odd PROVE \E l \in Odd : l < k
        <3>1. PICK m \in SUBSET mask : Cardinality(m) = k /\ count[m] # k
            OBVIOUS
        <3>2. count[m] = Body(count, m)
            BY <1>3
        <3>3. m # {}
            BY <1>1, <3>1, <3>2
        <3> DEFINE rest == m \ {Min(m)}
        <3>4. rest \in SUBSET mask /\ Cardinality(rest) = k - 1 /\ Cardinality(rest) \in Nat
            BY <1>1, <3>1, <3>3
        <3>5. count[m] = 1 + count[rest]
            BY <3>2, <3>3
        <3> HIDE DEF rest
        <3>6. k - 1 \in Nat /\ k - 1 < k /\ k = 1 + (k - 1)
            BY <3>4
        <3>7. count[rest] # k - 1
            BY <3>1, <3>5, <3>6
        <3>8. k - 1 \in Odd
            BY <3>4, <3>6, <3>7
        <3> QED
            BY <3>6, <3>8
    <2>2. Odd \in SUBSET Nat
        OBVIOUS
    <2> HIDE DEF Odd
    <2> QED
        BY <2>1, <2>2, Descent
<1> QED
    BY <1>1, <1>4, <1>5

\* The bits of the masks of the cores among the first k entries.
CoreBits(entries, k) == {e \in (1 .. k) \X (0 .. 63) :
                            entries[e[1]].core /\ e[2] \in entries[e[1]].mask}

\* The loop over the entries adds up the bits of the masks of the cores
\* (sysinfo.c:58-103).
LEMMA ProcessorsOK ==
    ASSUME NEW entries \in Seq([core : BOOLEAN, mask : SUBSET (0 .. 63)])
    PROVE  LET bits == CoreBits(entries, Len(entries))
           IN  /\ LogicalProcessors(entries) = Cardinality(bits)
               /\ IsFiniteSet(bits) /\ Cardinality(bits) \in Nat
<1> DEFINE n == Len(entries)
           Body(f, i) == IF i = 0 THEN 0
                         ELSE IF entries[i].core
                         THEN f[i - 1] + Win32CountSetBits(entries[i].mask)
                         ELSE f[i - 1]
           Solves(f) == f = [i \in 0 .. n |-> Body(f, i)]
           step == [i \in 1 .. n |-> [c \in Nat |-> IF entries[i].core
                                                 THEN c + Win32CountSetBits(entries[i].mask)
                                                 ELSE c]]
<1>1. n \in Nat /\ \A i \in 1 .. n : entries[i].core \in BOOLEAN /\ entries[i].mask \in SUBSET (0 .. 63)
    <2> DEFINE E == [core : BOOLEAN, mask : SUBSET (0 .. 63)]
    <2>1. \A e \in E : e.core \in BOOLEAN /\ e.mask \in SUBSET (0 .. 63)
        OBVIOUS
    <2> HIDE DEF E
    <2>2. entries \in Seq(E)
        BY DEF E
    <2>3. n \in Nat /\ \A i \in 1 .. n : entries[i] \in E
        BY <2>2
    <2> QED
        BY <2>1, <2>3
<1>2. ASSUME NEW i \in 1 .. n
      PROVE  /\ Win32CountSetBits(entries[i].mask) = Cardinality(entries[i].mask)
             /\ IsFiniteSet(entries[i].mask) /\ Cardinality(entries[i].mask) \in Nat
    BY <1>1, BitsOK
<1> HIDE DEF n
<1>3. \E f : Solves(f)
    <2>1. Steps(step, n, Nat)
        BY <1>2 DEF Steps
    <2> HIDE DEF step, Solves
    <2>2. PICK f : Runs(f, n, Nat, 0, step)
        BY <1>1, <2>1, Loop
    <2>3. ASSUME NEW i \in 0 .. n PROVE f[i] = Body(f, i)
        <3>1. CASE i = 0
            BY <2>2, <3>1 DEF Runs
        <3>2. CASE i # 0
            <4>1. i \in 1 .. n /\ i - 1 \in 0 .. n
                BY <1>1, <3>2
            <4>2. f[i] = step[i][f[i - 1]] /\ f[i - 1] \in Nat
                BY <2>2, <4>1 DEF Runs
            <4> QED
                BY <3>2, <4>1, <4>2 DEF step
        <3> QED
            BY <3>1, <3>2
    <2>4. Solves(f)
        <3> HIDE DEF Body
        <3> QED
            BY <2>2, <2>3 DEF Solves, Runs
    <2> QED
        BY <2>4
<1> DEFINE count == CHOOSE f : Solves(f)
<1>4. Solves(count)
    <2> HIDE DEF Solves
    <2> QED
        BY <1>3
<1>5. LogicalProcessors(entries) = count[n]
    BY DEF LogicalProcessors, n
<1> HIDE DEF count
<1> DEFINE Bits(k) == CoreBits(entries, k)
           T == {k \in 0 .. n : count[k] = Cardinality(Bits(k)) /\ IsFiniteSet(Bits(k))}
<1>6. 0 \in T
    <2>1. Bits(0) = {}
        BY DEF CoreBits
    <2>2. count[0] = 0
        BY <1>1, <1>4
    <2>3. IsFiniteSet({}) /\ Cardinality({}) = 0
        BY FS_EmptySet
    <2>4. IsFiniteSet(Bits(0)) /\ Cardinality(Bits(0)) = 0
        BY <2>1, <2>3
    <2> HIDE DEF Bits
    <2> QED
        BY <1>1, <2>2, <2>4
<1>7. ASSUME NEW k \in 1 .. n, k - 1 \in T PROVE k \in T
    <2>1. /\ k \in 0 .. n /\ k # 0
          /\ \A i : i \in 1 .. k <=> i = k \/ i \in 1 .. k - 1
          /\ k \notin 1 .. k - 1
        BY <1>1
    <2>2. count[k] = Body(count, k)
        BY <1>4, <2>1
    <2>3. count[k - 1] = Cardinality(Bits(k - 1)) /\ IsFiniteSet(Bits(k - 1))
        BY <1>7
    <2> DEFINE new == IF entries[k].core THEN {k} \X entries[k].mask ELSE {}
    <2>4. Bits(k) = Bits(k - 1) \cup new
        BY <1>1, <2>1 DEF CoreBits
    <2>5. Bits(k - 1) \cap new = {}
        BY <2>1 DEF CoreBits
    <2>6. /\ IsFiniteSet(new) /\ Cardinality(new) \in Nat
          /\ Cardinality(new) = IF entries[k].core THEN Cardinality(entries[k].mask) ELSE 0
        <3>1. IsFiniteSet({k}) /\ Cardinality({k}) = 1
            BY FS_Singleton
        <3>2. /\ IsFiniteSet({k} \X entries[k].mask)
              /\ Cardinality({k} \X entries[k].mask) = 1 * Cardinality(entries[k].mask)
            BY <1>2, <3>1, FS_Product
        <3>3. Cardinality({k} \X entries[k].mask) = Cardinality(entries[k].mask)
            BY <1>2, <3>2
        <3> QED
            BY <1>2, <3>2, <3>3, FS_EmptySet
    <2>7. count[k] = count[k - 1] + Cardinality(new)
        <3>1. count[k - 1] \in Nat
            BY <2>3, FS_CardinalityType
        <3> QED
            BY <1>2, <2>1, <2>2, <2>6, <3>1
    <2> HIDE DEF new, Bits
    <2> DEFINE old == Bits(k - 1)
    <2> HIDE DEF old
    <2>8. IsFiniteSet(Bits(k)) /\ Cardinality(Bits(k)) = Cardinality(old) + Cardinality(new) - 0
        <3>1. Bits(k) = old \cup new /\ old \cap new = {} /\ IsFiniteSet(old) /\ IsFiniteSet(new)
            BY <2>3, <2>4, <2>5, <2>6 DEF old
        <3>2. /\ IsFiniteSet(old \cup new)
              /\ Cardinality(old \cup new) = Cardinality(old) + Cardinality(new) - Cardinality(old \cap new)
            BY <3>1, FS_Union
        <3>3. Cardinality(old \cap new) = 0
            BY <3>1, FS_EmptySet
        <3> QED
            BY <3>1, <3>2, <3>3
    <2>9. Cardinality(Bits(k - 1)) \in Nat
        BY <2>3, FS_CardinalityType
    <2> QED
        BY <2>1, <2>3, <2>6, <2>7, <2>8, <2>9 DEF old
<1>8. n \in T
    <2> HIDE DEF T
    <2>1. \A k \in 0 .. n : k \in T
        BY <1>1, <1>6, <1>7, Upto
    <2> QED
        BY <1>1, <2>1
<1> QED
    BY <1>5, <1>8, FS_CardinalityType DEF n

\* A Windows machine has at least one processor, and where the system has answered in full as
\* many as the masks of its cores have bits (sysinfo.c:49-113).
THEOREM CpusCorrect == Spec => []CpuCount
<1>1. Init => CpuCount
    BY DEF Init, Idle, CpuCount
<1>2. ASSUME CpuCount, [Next]_call PROVE CpuCount'
    <2>1. CASE UNCHANGED call
        BY <1>2, <2>1 DEF CpuCount
    <2>2. CASE Next /\ call'.fn = "cpus"
        <3>1. PICK c \in CpuInputs :
                  call' = [fn |-> "cpus", in |-> c, out |-> GetNumCPUs(c.platform, c.api)]
            BY <2>2, Named DEF Cpus, Called
        <3> DEFINE api == c.api
                   answer == IF Len(api.first) <= 1 THEN api.first ELSE api.second
                   bits == CoreBits(answer, Len(answer))
                   answered == /\ api.malloc[1] /\ ~api.fails
                               /\ \/ Len(api.first) <= 1
                                  \/ api.malloc[2] /\ Len(api.second) <= Len(api.first)
                   cpus == Win32NumCPUs(api)
        <3>2. /\ api.malloc \in BOOLEAN \X BOOLEAN /\ api.fails \in BOOLEAN
              /\ api.first \in Seq([core : BOOLEAN, mask : SUBSET (0 .. 63)])
              /\ api.second \in Seq([core : BOOLEAN, mask : SUBSET (0 .. 63)])
            BY CpuAssumption
        <3>3. /\ LogicalProcessors(answer) = Cardinality(bits)
              /\ IsFiniteSet(bits) /\ Cardinality(bits) \in Nat
            <4>1. answer \in Seq([core : BOOLEAN, mask : SUBSET (0 .. 63)])
                BY <3>2
            <4> HIDE DEF answer
            <4> QED
                BY <4>1, ProcessorsOK
        <3>4. cpus = IF answered THEN LogicalProcessors(answer) ELSE 0
            <4> HIDE DEF api
            <4> QED
                BY <3>2 DEF Win32NumCPUs
        <3>5. ASSUME c.platform = "windows"
              PROVE  GetNumCPUs(c.platform, api) = IF cpus # 0 THEN cpus ELSE 1
            BY <3>5 DEF GetNumCPUs
        <3> HIDE DEF bits, cpus, answered
        <3>6. Cardinality(bits) # 0 <=> bits # {}
            BY <3>3, FS_EmptySet
        <3>7. (IF cpus # 0 THEN cpus ELSE 1)
                  = IF answered /\ bits # {} THEN Cardinality(bits) ELSE 1
            BY <3>3, <3>4, <3>6
        <3> HIDE DEF answer
        <3> QED
            BY <3>1, <3>5, <3>7 DEF CpuCount, CoreBits, bits, answered, answer
    <2>3. CASE Next /\ call'.fn # "cpus"
        BY <2>3 DEF CpuCount
    <2> QED
        BY <1>2, <2>1, <2>2, <2>3
<1> QED
    BY <1>1, <1>2, PTL DEF Spec

------------------------------------------------------------------------------
(* The rounds of the measurement. *)

\* A round sleeps its whole time, however many signals interrupt it (sysinfo.c:223-233).
LEMMA SleptOK ==
    ASSUME NEW nanoseconds \in Nat, NEW round, round.signals \in Seq(Nat)
    PROVE  MeasureTscFrequencyWithSleep(nanoseconds, round).slept = nanoseconds
<1> DEFINE signals == round.signals
           n == Len(signals)
           asleep(s, d) == IF d < s.left THEN d ELSE s.left
           Goes(s, d) == [left |-> s.left - asleep(s, d), slept |-> s.slept + asleep(s, d)]
           D == {s \in [left : Nat, slept : Nat] : s.left + s.slept = nanoseconds}
           first == [left |-> nanoseconds, slept |-> 0]
           step == [i \in 1 .. n |-> [s \in D |-> Goes(s, signals[i])]]
           Body(f, i) == IF i = 0 THEN first ELSE Goes(f[i - 1], signals[i])
           Solves(f) == f = [i \in 0 .. n |-> Body(f, i)]
<1>1. n \in Nat /\ \A i \in 1 .. n : signals[i] \in Nat
    OBVIOUS
<1>2. first \in D
    OBVIOUS
<1>3. ASSUME NEW s \in D, NEW d \in Nat PROVE Goes(s, d) \in D
    <2>1. s.left \in Nat /\ s.slept \in Nat /\ s.left + s.slept = nanoseconds
        OBVIOUS
    <2>2. asleep(s, d) \in Nat /\ s.left - asleep(s, d) \in Nat
        BY <2>1
    <2> HIDE DEF asleep
    <2>3. s.left - asleep(s, d) + (s.slept + asleep(s, d)) = nanoseconds
        BY <2>1, <2>2
    <2> QED
        BY <2>1, <2>2, <2>3
<1> HIDE DEF signals, n, Goes, first
<1>4. \E f : Solves(f)
    <2>1. Steps(step, n, D)
        <3> HIDE DEF D
        <3> QED
            BY <1>1, <1>3 DEF Steps
    <2> HIDE DEF step, Solves, D
    <2>2. PICK f : Runs(f, n, D, first, step)
        BY <1>1, <1>2, <2>1, Loop
    <2>3. ASSUME NEW i \in 0 .. n PROVE f[i] = Body(f, i)
        <3>1. CASE i = 0
            BY <2>2, <3>1 DEF Runs
        <3>2. CASE i # 0
            <4>1. i \in 1 .. n /\ i - 1 \in 0 .. n
                BY <1>1, <3>2
            <4>2. f[i] = step[i][f[i - 1]] /\ f[i - 1] \in D
                BY <2>2, <4>1 DEF Runs
            <4> QED
                BY <3>2, <4>1, <4>2 DEF step
        <3> QED
            BY <3>1, <3>2
    <2>4. Solves(f)
        <3> HIDE DEF Body
        <3> QED
            BY <2>2, <2>3 DEF Solves, Runs
    <2> QED
        BY <2>4
<1> DEFINE after == CHOOSE f : Solves(f)
<1>5. Solves(after)
    <2> HIDE DEF Solves
    <2> QED
        BY <1>4
<1>6. MeasureTscFrequencyWithSleep(nanoseconds, round).slept = after[n].slept + after[n].left
    BY DEF MeasureTscFrequencyWithSleep, n, signals, Goes, first
<1> HIDE DEF after
<1> DEFINE T == {i \in 0 .. n : after[i] \in D}
<1>7. 0 \in T
    <2> HIDE DEF D
    <2> QED
        BY <1>1, <1>2, <1>5
<1>8. ASSUME NEW i \in 1 .. n, i - 1 \in T PROVE i \in T
    <2>1. i \in 0 .. n /\ i # 0
        BY <1>1
    <2>2. after[i] = Goes(after[i - 1], signals[i])
        BY <1>5, <2>1
    <2> HIDE DEF D
    <2> QED
        BY <1>1, <1>3, <1>8, <2>1, <2>2
<1>9. after[n] \in D
    <2> HIDE DEF T
    <2>1. \A i \in 0 .. n : i \in T
        BY <1>1, <1>7, <1>8, Upto
    <2> QED
        BY <1>1, <2>1 DEF T
<1> QED
    BY <1>6, <1>9

\* Of the rounds made the last alone may agree with the one before it, and has to where it is
\* not the last there can be; each sleeps the time that is its own (sysinfo.c:235-253).
LEMMA MeasurementsOK ==
    ASSUME NEW rounds \in MeasureInputs, NEW sleep, \A i \in 0 .. Rounds - 1 : sleep[i] \in Nat
    PROVE  LET out == Measurements(rounds, sleep)
               n == Len(out)
           IN  /\ n \in 1 .. Rounds
               /\ \A i \in 1 .. n : /\ out[i].slept = sleep[i - 1]
                                    /\ out[i].ticks \in Int /\ out[i].nanos \in Int
               /\ \A i \in 2 .. n :
                     Stable(out[i], out[i - 1])
                         <=> i = n /\ (n < Rounds \/ Stable(out[n], out[n - 1]))
<1> DEFINE m == [i \in 1 .. Rounds |-> MeasureTscFrequencyWithSleep(sleep[i - 1], rounds[i])]
           last(i) == IF i = 1 THEN [ticks |-> -1, nanos |-> 1] ELSE m[i - 1]
           ends == {i \in 1 .. Rounds : Stable(m[i], last(i))} \cup {Rounds}
           n == Min(ends)
           out == Measurements(rounds, sleep)
<1>1. Rounds \in 1 .. 8 /\ Rounds \in Nat
    BY MeasureAssumption
<1>2. ASSUME NEW i \in 1 .. Rounds
      PROVE  /\ rounds[i].signals \in Seq(Nat)
             /\ rounds[i].after[1] - rounds[i].before[1] \in Int
             /\ rounds[i].after[2] - rounds[i].before[2] \in Int
    <2> DEFINE R == [before : Int \X Int, after : Int \X Int, signals : Seq(Nat)]
    <2>1. \A r \in R : /\ r.signals \in Seq(Nat)
                       /\ r.after[1] - r.before[1] \in Int /\ r.after[2] - r.before[2] \in Int
        OBVIOUS
    <2>2. rounds \in Seq(R) /\ Len(rounds) = Rounds
        BY MeasureAssumption
    <2> HIDE DEF R
    <2>3. rounds[i] \in R
        BY <2>2
    <2> QED
        BY <2>1, <2>3
<1>3. ASSUME NEW i \in 1 .. Rounds
      PROVE  m[i].slept = sleep[i - 1] /\ m[i].ticks \in Int /\ m[i].nanos \in Int
    <2>1. i - 1 \in 0 .. Rounds - 1
        BY <1>1
    <2>2. sleep[i - 1] \in Nat
        BY <2>1
    <2>3. MeasureTscFrequencyWithSleep(sleep[i - 1], rounds[i]).slept = sleep[i - 1]
        BY <1>2, <2>2, SleptOK
    <2>4. /\ m[i].ticks = rounds[i].after[2] - rounds[i].before[2]
          /\ m[i].nanos = rounds[i].after[1] - rounds[i].before[1]
        BY DEF MeasureTscFrequencyWithSleep
    <2> QED
        BY <1>2, <2>3, <2>4
<1>4. n \in ends /\ (\A i \in ends : n <= i) /\ n \in 1 .. Rounds
    <2>1. ends \in SUBSET (1 .. Rounds) /\ Rounds \in ends
        BY <1>1
    <2> HIDE DEF ends
    <2>2. ends \in SUBSET Nat /\ ends # {}
        BY <1>1, <2>1
    <2> QED
        BY <2>1, <2>2, MinOK
<1>5. out = SubSeq(m, 1, n)
    BY DEF Measurements
<1> HIDE DEF m, n, out
<1>6. Len(out) = n /\ \A i \in 1 .. n : out[i] = m[i] /\ i \in 1 .. Rounds
    BY <1>1, <1>4, <1>5
<1>7. ASSUME NEW i \in 2 .. n
      PROVE  Stable(m[i], m[i - 1]) <=> i = n /\ (n < Rounds \/ Stable(m[n], m[n - 1]))
    <2>1. i \in 1 .. Rounds /\ i # 1 /\ (i = n \/ i < n)
        BY <1>1, <1>4
    <2>2. i < n => ~ Stable(m[i], m[i - 1])
        BY <1>4, <2>1
    <2>3. i = n /\ n < Rounds => Stable(m[i], m[i - 1])
        BY <1>1, <1>4, <2>1
    <2> QED
        BY <1>1, <1>4, <2>1, <2>2, <2>3
<1>8. \A i \in 2 .. n : i \in 1 .. n /\ i - 1 \in 1 .. n /\ n \in 1 .. n /\ n - 1 \in 1 .. n
    BY <1>1, <1>4
<1>9. \A i \in 1 .. n : /\ out[i].slept = sleep[i - 1]
                        /\ out[i].ticks \in Int /\ out[i].nanos \in Int
    BY <1>3, <1>6
<1>10. \A i \in 2 .. n : Stable(out[i], out[i - 1])
                              <=> i = n /\ (n < Rounds \/ Stable(out[n], out[n - 1]))
    BY <1>6, <1>7, <1>8
<1> QED
    BY <1>4, <1>6, <1>9, <1>10 DEF out

\* The times to sleep: each is twice the one before, and after eight doublings at most they
\* have not come to a second (sysinfo.c:239-253).
LEMMA SleepOK ==
    ASSUME NEW rounds
    PROVE  \E sleep : /\ MeasureTscFrequency(rounds) = Measurements(rounds, sleep)
                      /\ sleep[0] = 1000000
                      /\ \A i \in 1 .. Rounds - 1 : sleep[i] = 2 * sleep[i - 1]
                      /\ \A i \in 0 .. Rounds - 1 : sleep[i] \in Nat /\ sleep[i] < 1000000000
<1> DEFINE ms == 1000000
           second == 1000000000
           n == Rounds - 1
           step == [i \in 1 .. n |-> [t \in Nat |-> 2 * t]]
           Body(f, i) == IF i = 0 THEN ms ELSE 2 * f[i - 1]
           Solves(f) == f = [i \in 0 .. n |-> Body(f, i)]
<1>1. n \in Nat /\ n \in 0 .. 7
    BY MeasureAssumption
<1>2. ms \in Nat /\ second \in Nat /\ 128 * ms < second
    BY SMT
<1> HIDE DEF ms, second
<1>3. \E f : Solves(f)
    <2> HIDE DEF n
    <2>1. Steps(step, n, Nat)
        BY DEF Steps
    <2> HIDE DEF step, Solves
    <2>2. PICK f : Runs(f, n, Nat, ms, step)
        BY <1>1, <1>2, <2>1, Loop
    <2>3. ASSUME NEW i \in 0 .. n PROVE f[i] = Body(f, i)
        <3>1. CASE i = 0
            BY <2>2, <3>1 DEF Runs
        <3>2. CASE i # 0
            <4>1. i \in 1 .. n /\ i - 1 \in 0 .. n
                BY <1>1, <3>2
            <4>2. f[i] = step[i][f[i - 1]] /\ f[i - 1] \in Nat
                BY <2>2, <4>1 DEF Runs
            <4> QED
                BY <3>2, <4>1, <4>2 DEF step
        <3> QED
            BY <3>1, <3>2
    <2>4. Solves(f)
        <3> HIDE DEF Body
        <3> QED
            BY <2>2, <2>3 DEF Solves, Runs
    <2> QED
        BY <2>4
<1> DEFINE sleep == CHOOSE f : Solves(f)
<1>4. Solves(sleep)
    <2> HIDE DEF Solves
    <2> QED
        BY <1>3
<1>5. MeasureTscFrequency(rounds) = Measurements(rounds, sleep)
    BY SMT DEF MeasureTscFrequency, ms
<1> HIDE DEF sleep, n
<1>6. sleep[0] = ms /\ \A i \in 1 .. n : sleep[i] = 2 * sleep[i - 1]
    <2>1. 0 \in 0 .. n /\ \A i \in 1 .. n : i \in 0 .. n /\ i # 0
        BY <1>1
    <2>2. \A i \in 0 .. n : sleep[i] = Body(sleep, i)
        BY <1>4
    <2> QED
        BY <2>1, <2>2
<1> HIDE DEF Solves
<1>7. ASSUME NEW i \in 0 .. n PROVE sleep[i] \in Nat /\ sleep[i] <= 128 * ms
    <2>1. 1 <= n => sleep[1] = 2 * ms
        BY <1>1, <1>6
    <2>2. 2 <= n => sleep[2] = 4 * ms
        BY <1>1, <1>2, <1>6, <2>1
    <2>3. 3 <= n => sleep[3] = 8 * ms
        BY <1>1, <1>2, <1>6, <2>2
    <2>4. 4 <= n => sleep[4] = 16 * ms
        BY <1>1, <1>2, <1>6, <2>3
    <2>5. 5 <= n => sleep[5] = 32 * ms
        BY <1>1, <1>2, <1>6, <2>4
    <2>6. 6 <= n => sleep[6] = 64 * ms
        BY <1>1, <1>2, <1>6, <2>5
    <2>7. 7 <= n => sleep[7] = 128 * ms
        BY <1>1, <1>2, <1>6, <2>6
    <2>8. i \in 0 .. 7 /\ i <= n
        BY <1>1
    <2> QED
        BY <1>2, <1>6, <2>1, <2>2, <2>3, <2>4, <2>5, <2>6, <2>7, <2>8
<1>8. \A i \in 0 .. n : sleep[i] < second
    BY <1>2, <1>7
<1> QED
    BY <1>5, <1>6, <1>7, <1>8, SMT DEF ms, second, n

\* A measurement agrees with the last one exactly if the two ratios, times both of their
\* divisors, are within one percent.
LEMMA StableOK ==
    ASSUME NEW m, m.ticks \in Int, m.nanos \in Int,
           NEW last, last.ticks \in Int, last.nanos \in Int
    PROVE  Stable(m, last) <=> LET a == last.ticks * m.nanos
                                   b == m.ticks * last.nanos
                               IN  99 * b < 100 * a /\ 100 * a < 101 * b
<1> DEFINE a == last.ticks * m.nanos
           b == m.ticks * last.nanos
<1>1. \A x, y, k \in Int : x * k * y = k * (x * y)
    OBVIOUS
<1>2. /\ m.ticks * 99 * last.nanos = 99 * b
      /\ m.ticks * 101 * last.nanos = 101 * b
      /\ last.ticks * 100 * m.nanos = 100 * a
    BY <1>1
<1> HIDE DEF a, b
<1>3. Stable(m, last) <=> 99 * b < 100 * a /\ 100 * a < 101 * b
    BY <1>2 DEF Stable, Below
<1> QED
    BY <1>3 DEF a, b

\* The measurement stops at the first round that agrees with the one before within one
\* percent, or after the last; each round but the first sleeps twice as long as the one before,
\* in full, and none reaches a second (sysinfo.c:223-253).
THEOREM MeasureCorrect == Spec => []StableOrLast
<1>1. Init => StableOrLast
    BY SMT DEF Init, Idle, StableOrLast
<1>2. ASSUME StableOrLast, [Next]_call PROVE StableOrLast'
    <2>1. ASSUME UNCHANGED call PROVE StableOrLast'
        BY <1>2, <2>1, SMT DEF StableOrLast
    <2>2. CASE Next /\ call'.fn = "measure"
        <3>1. PICK rounds \in MeasureInputs :
                  call' = [fn |-> "measure", in |-> rounds, out |-> MeasureTscFrequency(rounds)]
            BY <2>2, Named DEF Measure, Called
        <3> DEFINE m == MeasureTscFrequency(rounds)
                   n == Len(m)
                   Agrees(i) == LET a == m[i - 1].ticks * m[i].nanos
                                    b == m[i].ticks * m[i - 1].nanos
                                IN  99 * b < 100 * a /\ 100 * a < 101 * b
        <3>2. PICK sleep : /\ m = Measurements(rounds, sleep)
                           /\ sleep[0] = 1000000
                           /\ \A i \in 1 .. Rounds - 1 : sleep[i] = 2 * sleep[i - 1]
                           /\ \A i \in 0 .. Rounds - 1 : sleep[i] \in Nat /\ sleep[i] < 1000000000
            BY SleepOK, SMT
        <3> DEFINE first == 1000000
                   second == 1000000000
        <3> HIDE DEF m, first, second
        <3>3. /\ sleep[0] = first
              /\ \A i \in 0 .. Rounds - 1 : sleep[i] \in Nat /\ sleep[i] < second
            BY <3>2, SMT DEF first, second
        <3>4. /\ n \in 1 .. Rounds
              /\ \A i \in 1 .. n : /\ m[i].slept = sleep[i - 1]
                                   /\ m[i].ticks \in Int /\ m[i].nanos \in Int
              /\ \A i \in 2 .. n :
                    Stable(m[i], m[i - 1]) <=> i = n /\ (n < Rounds \/ Stable(m[n], m[n - 1]))
            <4>1. \A i \in 0 .. Rounds - 1 : sleep[i] \in Nat
                BY <3>3
            <4>2. m = Measurements(rounds, sleep)
                BY <3>2
            <4> QED
                BY <4>1, <4>2, MeasurementsOK
        <3> HIDE DEF n
        <3>5. /\ \A i \in 2 .. n : /\ i - 1 \in 1 .. n /\ i \in 1 .. n /\ i - 1 \in 1 .. Rounds - 1
                                   /\ n \in 2 .. n
              /\ 1 \in 1 .. n /\ n \in 1 .. n /\ n - 1 \in 0 .. Rounds - 1
            BY <3>4, MeasureAssumption
        <3>6. \A i \in 2 .. n : Stable(m[i], m[i - 1]) <=> Agrees(i)
            BY <3>4, <3>5, StableOK
        <3> HIDE DEF Agrees
        <3>7. \A i \in 2 .. n : Agrees(i) <=> i = n /\ (n < Rounds \/ Agrees(n))
            BY <3>4, <3>5, <3>6
        <3>8. m[1].slept = first
            BY <3>3, <3>4, <3>5
        <3>9. \A i \in 2 .. n : m[i].slept = 2 * m[i - 1].slept
            BY <3>2, <3>4, <3>5, SMT
        <3>10. m[n].slept < second
            BY <3>3, <3>4, <3>5
        <3>11. call'.in = rounds /\ call'.out = m
            BY <3>1 DEF m
        <3> QED
            BY <3>4, <3>7, <3>8, <3>9, <3>10, <3>11, SMT
            DEF StableOrLast, Agrees, n, first, second
    <2>3. ASSUME Next, call'.fn # "measure" PROVE StableOrLast'
        BY <2>3, SMT DEF StableOrLast
    <2> QED
        BY <1>2, <2>1, <2>2, <2>3
<1> QED
    BY <1>1, <1>2, PTL DEF Spec

------------------------------------------------------------------------------
(* The frequency from files. *)

\* The digits of a number are those of a tenth of it and its last.
LEMMA DecimalOK ==
    ASSUME NEW k \in 0 .. TopKHz
    PROVE  /\ Decimal[k] = IF k < 10 THEN <<k>> ELSE Append(Decimal[k \div 10], k % 10)
           /\ k >= 10 => k \div 10 \in 0 .. TopKHz /\ k \div 10 < k
           /\ k % 10 \in 0 .. 9 /\ k = 10 * (k \div 10) + (k % 10)
<1> DEFINE Body(f, i) == IF i < 10 THEN <<i>> ELSE Append(f[i \div 10], i % 10)
           Solves(f, n) == f = [i \in 0 .. n |-> Body(f, i)]
           T == {n \in 0 .. TopKHz : \E f : Solves(f, n)}
<1>1. TopKHz \in Nat
    BY FrequencyAssumption
<1>2. ASSUME NEW n \in Nat, n >= 10 PROVE n \div 10 \in 0 .. n - 1 /\ n \div 10 < n
    BY <1>2
<1>3. 0 \in T
    <2> DEFINE f == [i \in 0 .. 0 |-> <<i>>]
    <2>1. Solves(f, 0)
        OBVIOUS
    <2> HIDE DEF f, Solves
    <2> QED
        BY <1>1, <2>1
<1>4. ASSUME NEW n \in 1 .. TopKHz, n - 1 \in T PROVE n \in T
    <2>1. PICK f : Solves(f, n - 1)
        BY <1>4
    <2> DEFINE g == [i \in 0 .. n |-> IF i = n THEN Body(f, n) ELSE f[i]]
    <2>2. ASSUME NEW i \in 0 .. n PROVE g[i] = Body(g, i)
        <3>1. i >= 10 => i \div 10 \in 0 .. n - 1 /\ i \div 10 # n
            BY <1>1, <1>2
        <3>2. i >= 10 => g[i \div 10] = f[i \div 10]
            <4> DEFINE tenth == i \div 10
            <4> HIDE DEF tenth
            <4>1. i >= 10 => tenth \in 0 .. n /\ tenth # n
                BY <1>1, <3>1 DEF tenth
            <4> QED
                BY <4>1 DEF tenth
        <3>3. i < 10 \/ i >= 10
            BY <1>1
        <3>4. Body(g, i) = Body(f, i)
            BY <1>1, <3>2, <3>3
        <3>5. CASE i = n
            BY <3>4, <3>5
        <3>6. CASE i # n
            <4>1. i \in 0 .. n - 1
                BY <1>1, <3>6
            <4>2. f[i] = Body(f, i)
                BY <2>1, <4>1
            <4> HIDE DEF Body
            <4> QED
                BY <3>4, <3>6, <4>2
        <3> QED
            BY <3>5, <3>6
    <2>3. Solves(g, n)
        <3> HIDE DEF Body
        <3> QED
            BY <2>2
    <2> HIDE DEF g, Solves
    <2> QED
        BY <2>3
<1>5. TopKHz \in T
    <2> HIDE DEF T
    <2>1. \A n \in 0 .. TopKHz : n \in T
        BY <1>1, <1>3, <1>4, Upto
    <2> QED
        BY <1>1, <2>1
<1>6. Solves(Decimal, TopKHz)
    <2>1. \E f : Solves(f, TopKHz)
        BY <1>5
    <2> DEFINE h == CHOOSE f : Solves(f, TopKHz)
    <2>2. Solves(h, TopKHz)
        <3> HIDE DEF Solves
        <3> QED
            BY <2>1
    <2>3. Decimal = h
        BY DEF Decimal
    <2> HIDE DEF h
    <2> QED
        BY <2>2, <2>3
<1>7. Decimal[k] = Body(Decimal, k)
    <2> HIDE DEF Body
    <2> QED
        BY <1>6
<1>8. k % 10 \in 0 .. 9 /\ k = 10 * (k \div 10) + (k % 10)
    BY <1>1
<1> QED
    BY <1>1, <1>2, <1>7, <1>8

\* The value v of the first n digits of a text, found digit by digit.
Counts(num, text, n) == /\ num \in [0 .. n -> Nat] /\ num[0] = 0
                        /\ \A i \in 1 .. n : num[i] = 10 * num[i - 1] + text[i]
Reads(text, n, v) == \E num : Counts(num, text, n) /\ num[n] = v

\* The text starts with n digits and no more.
Digits(text, n) == /\ text \in Seq(Nat) /\ n \in 0 .. Len(text)
                   /\ \A i \in 1 .. n : text[i] \in 0 .. 9
                   /\ n < Len(text) => text[n + 1] \notin 0 .. 9

\* The digits have one value.
LEMMA OneValue ==
    ASSUME NEW n \in Nat, NEW s, NEW t, \A i \in 1 .. n : s[i] = t[i],
           NEW v, NEW w, Reads(s, n, v), Reads(t, n, w)
    PROVE  v = w
<1>1. PICK f : Counts(f, s, n) /\ f[n] = v
    BY DEF Reads
<1>2. PICK g : Counts(g, t, n) /\ g[n] = w
    BY DEF Reads
<1> DEFINE T == {i \in 0 .. n : f[i] = g[i]}
<1>3. 0 \in T
    BY <1>1, <1>2 DEF Counts
<1>4. ASSUME NEW i \in 1 .. n, i - 1 \in T PROVE i \in T
    BY <1>1, <1>2, <1>4 DEF Counts
<1> HIDE DEF T
<1>5. \A i \in 0 .. n : i \in T
    BY <1>3, <1>4, Upto
<1> QED
    BY <1>1, <1>2, <1>5 DEF T

\* The digits of a number have it as their value.
LEMMA DecimalReads ==
    ASSUME NEW k \in 0 .. TopKHz
    PROVE  /\ Decimal[k] \in Seq(0 .. 9) /\ Len(Decimal[k]) \in Nat \ {0}
           /\ Reads(Decimal[k], Len(Decimal[k]), k)
<1> DEFINE Good(n) == /\ Decimal[n] \in Seq(0 .. 9) /\ Len(Decimal[n]) \in Nat \ {0}
                      /\ Reads(Decimal[n], Len(Decimal[n]), n)
           Odd == {n \in 0 .. TopKHz : ~ Good(n)}
<1>1. TopKHz \in Nat
    BY FrequencyAssumption
<1>2. ASSUME NEW n \in 0 .. TopKHz, n < 10 PROVE Good(n)
    <2>1. Decimal[n] = <<n>>
        BY <1>2, DecimalOK
    <2>2. <<n>> \in Seq(0 .. 9) /\ Len(<<n>>) = 1 /\ <<n>>[1] = n /\ n \in Nat
        BY <1>1, <1>2
    <2> DEFINE num == [i \in 0 .. 1 |-> IF i = 0 THEN 0 ELSE n]
    <2>3. Counts(num, <<n>>, 1) /\ num[1] = n
        BY <2>2 DEF Counts
    <2> HIDE DEF num
    <2>4. Reads(<<n>>, 1, n)
        BY <2>3 DEF Reads
    <2> QED
        BY <2>1, <2>2, <2>4
<1>3. ASSUME NEW n \in 0 .. TopKHz, n >= 10, Good(n \div 10) PROVE Good(n)
    <2> DEFINE tenth == n \div 10
               text == Decimal[tenth]
               digit == n % 10
               len == Len(text)
               longer == Append(text, digit)
    <2>1. Decimal[n] = longer /\ digit \in 0 .. 9 /\ n = 10 * tenth + digit
        <3>1. ~ (n < 10)
            BY <1>1, <1>3
        <3> QED
            BY <3>1, DecimalOK
    <2>2. text \in Seq(0 .. 9) /\ len \in Nat \ {0} /\ Reads(text, len, tenth)
        BY <1>3
    <2> HIDE DEF text, tenth, digit
    <2>3. /\ longer \in Seq(0 .. 9) /\ Len(longer) = len + 1
          /\ longer[len + 1] = digit /\ \A i \in 1 .. len : longer[i] = text[i]
        BY <2>1, <2>2
    <2>4. PICK f : Counts(f, text, len) /\ f[len] = tenth
        BY <2>2 DEF Reads
    <2> HIDE DEF len, longer
    <2> DEFINE num == [i \in 0 .. len + 1 |-> IF i = len + 1 THEN n ELSE f[i]]
    <2>5. num \in [0 .. len + 1 -> Nat]
        <3>1. \A i \in 0 .. len + 1 : i = len + 1 \/ i \in 0 .. len
            BY <2>2
        <3>2. n \in Nat
            BY <1>1
        <3> QED
            BY <2>4, <3>1, <3>2 DEF Counts
    <2>6. num[0] = 0 /\ num[len + 1] = n
        BY <2>2, <2>4 DEF Counts
    <2>7. ASSUME NEW i \in 1 .. len + 1 PROVE num[i] = 10 * num[i - 1] + longer[i]
        <3>1. i \in 0 .. len + 1 /\ i - 1 \in 0 .. len + 1 /\ i - 1 # len + 1
            BY <2>2
        <3>2. num[i - 1] = f[i - 1]
            BY <3>1
        <3>3. CASE i = len + 1
            <4>1. num[i - 1] = tenth
                BY <2>2, <2>4, <3>2, <3>3
            <4> QED
                BY <2>1, <2>3, <2>6, <3>3, <4>1
        <3>4. CASE i # len + 1
            <4>1. i \in 1 .. len
                BY <2>2, <3>4
            <4>2. f[i] = 10 * f[i - 1] + text[i] /\ longer[i] = text[i]
                BY <2>3, <2>4, <4>1 DEF Counts
            <4>3. num[i] = f[i]
                BY <3>1, <3>4
            <4> QED
                BY <3>2, <4>2, <4>3
        <3> QED
            BY <3>3, <3>4
    <2> HIDE DEF num
    <2>8. Reads(longer, len + 1, n)
        BY <2>5, <2>6, <2>7 DEF Reads, Counts
    <2>9. Len(longer) \in Nat \ {0}
        BY <2>2, <2>3
    <2> QED
        BY <2>1, <2>3, <2>8, <2>9
<1>4. ASSUME NEW n \in Odd PROVE \E m \in Odd : m < n
    <2>1. n \in 0 .. TopKHz /\ ~ Good(n) /\ (n < 10 \/ n >= 10)
        BY <1>1
    <2>2. n >= 10
        BY <1>2, <2>1
    <2>3. n \div 10 \in 0 .. TopKHz /\ n \div 10 < n
        BY <2>1, <2>2, DecimalOK
    <2>4. ~ Good(n \div 10)
        <3> HIDE DEF Good
        <3> QED
            BY <1>3, <2>1, <2>2
    <2> HIDE DEF Good
    <2> QED
        BY <2>3, <2>4
<1>5. Odd \in SUBSET Nat
    BY <1>1
<1> HIDE DEF Odd
<1>6. Odd = {}
    BY <1>4, <1>5, Descent
<1> HIDE DEF Good
<1>7. Good(k)
    BY <1>6 DEF Odd
<1> QED
    BY <1>7 DEF Good

\* strtol stops at the first character that is no digit, with the value of those before it
\* (sysinfo.c:171-172).
LEMMA StrtolOK ==
    ASSUME NEW line, NEW n, Digits(line, n), Len(line) # 0, line[1] # Newline
    PROVE  /\ Reads(line, n, Strtol(line).value)
           /\ Strtol(line).stop = IF n < Len(line) THEN line[n + 1] ELSE NUL
<1> DEFINE size == Len(line)
           At(i) == IF i \in DOMAIN line THEN line[i] ELSE NUL
           starts == {i \in 1 .. size + 1 : At(i) # Newline}
           start == Min(starts)
           ends == {i \in start .. size + 1 : At(i) \notin 0 .. 9}
           end == Min(ends)
           Solves(f) == f = [i \in start - 1 .. end - 1 |->
                                IF i < start THEN 0 ELSE 10 * f[i - 1] + line[i]]
           number == CHOOSE f : Solves(f)
           step == [i \in 1 .. n |-> [v \in Nat |-> 10 * v + line[i]]]
<1>0. /\ size \in Nat \ {0} /\ DOMAIN line = 1 .. size
      /\ n \in 0 .. size
      /\ \A i \in 1 .. n : line[i] \in 0 .. 9
      /\ n < size => line[n + 1] \notin 0 .. 9
    BY DEF Digits
<1>1. n \in Nat /\ size \in Nat /\ size >= 1 /\ n <= size
    <2> HIDE DEF size
    <2> QED
        BY <1>0
<1>2. Strtol(line) = [value |-> number[end - 1],
                      stop |-> IF end = start THEN At(1) ELSE At(end)]
    BY DEF Strtol
<1> HIDE DEF size
<1>3. start = 1
    <2>1. At(1) # Newline
        <3>1. 1 \in DOMAIN line
            BY <1>0
        <3> QED
            BY <3>1
    <2>2. 1 \in 1 .. size + 1 /\ \A i \in 1 .. size + 1 : i \in Nat /\ 1 <= i
        BY <1>1
    <2> HIDE DEF At
    <2>3. 1 \in starts /\ starts \in SUBSET Nat /\ \A i \in starts : 1 <= i
        BY <2>1, <2>2
    <2> HIDE DEF starts
    <2> QED
        BY <2>3, LeastIsMin
<1> HIDE DEF start
<1>4. /\ At(n + 1) = (IF n < size THEN line[n + 1] ELSE NUL) /\ At(n + 1) \notin 0 .. 9
      /\ \A i \in 1 .. n : At(i) \in 0 .. 9
    <2>1. (n + 1 \in DOMAIN line <=> n < size) /\ \A i \in 1 .. n : i \in DOMAIN line
        BY <1>0, <1>1
    <2>2. NUL \notin 0 .. 9
        BY DEF NUL
    <2> QED
        BY <1>0, <2>1, <2>2
<1> HIDE DEF At
<1>5. end = n + 1
    <2>1. n + 1 \in ends
        <3>1. n + 1 \in start .. size + 1
            BY <1>1, <1>3
        <3> QED
            BY <1>4, <3>1
    <2>2. ends \in SUBSET Nat
        BY <1>1, <1>3
    <2>3. ASSUME NEW i \in ends PROVE n + 1 <= i
        <3>1. i \in Nat /\ i >= 1 /\ At(i) \notin 0 .. 9
            BY <1>1, <1>3
        <3>2. i \notin 1 .. n
            BY <1>4, <3>1
        <3> HIDE DEF ends
        <3> QED
            BY <1>1, <3>1, <3>2
    <2> HIDE DEF ends
    <2> QED
        BY <2>1, <2>2, <2>3, LeastIsMin
<1> HIDE DEF end
<1>6. Strtol(line).stop = IF n < size THEN line[n + 1] ELSE NUL
    <2>1. end = start => n + 1 = 1
        BY <1>1, <1>3, <1>5
    <2>2. Strtol(line).stop = At(n + 1)
        <3> HIDE DEF number
        <3> QED
            BY <1>2, <1>5, <2>1
    <2> QED
        BY <1>4, <2>2
<1>7. /\ Strtol(line).value = number[n]
      /\ \A f : Solves(f) <=> f = [i \in 0 .. n |-> IF i < 1 THEN 0 ELSE 10 * f[i - 1] + line[i]]
    <2>1. start - 1 = 0 /\ end - 1 = n
        BY <1>1, <1>3, <1>5
    <2>2. \A f : Solves(f) <=> f = [i \in 0 .. n |-> IF i < 1 THEN 0 ELSE 10 * f[i - 1] + line[i]]
        BY <1>3, <2>1
    <2>3. Strtol(line).value = number[n]
        <3> HIDE DEF number
        <3> QED
            BY <1>2, <2>1
    <2> QED
        BY <2>2, <2>3
<1> HIDE DEF Solves
<1>8. \E f : Solves(f)
    <2>1. Steps(step, n, Nat)
        <3>1. \A i \in 1 .. n : line[i] \in Nat
            BY <1>0
        <3> QED
            BY <3>1 DEF Steps
    <2> HIDE DEF step
    <2>2. PICK f : Runs(f, n, Nat, 0, step)
        BY <1>1, <2>1, Loop
    <2>3. ASSUME NEW i \in 0 .. n
          PROVE  f[i] = IF i < 1 THEN 0 ELSE 10 * f[i - 1] + line[i]
        <3>1. CASE i = 0
            BY <2>2, <3>1 DEF Runs
        <3>2. CASE i # 0
            <4>1. i \in 1 .. n /\ i - 1 \in 0 .. n /\ ~ (i < 1)
                BY <1>1, <3>2
            <4>2. f[i] = step[i][f[i - 1]] /\ f[i - 1] \in Nat
                BY <2>2, <4>1 DEF Runs
            <4> QED
                BY <4>1, <4>2 DEF step
        <3> QED
            BY <3>1, <3>2
    <2>4. f = [i \in 0 .. n |-> IF i < 1 THEN 0 ELSE 10 * f[i - 1] + line[i]]
        BY <2>2, <2>3 DEF Runs
    <2> QED
        BY <1>7, <2>4
<1>9. Solves(number)
    BY <1>8
<1> HIDE DEF number
<1>10. number = [i \in 0 .. n |-> IF i < 1 THEN 0 ELSE 10 * number[i - 1] + line[i]]
    BY <1>7, <1>9
<1>11. number[0] = 0 /\ \A i \in 1 .. n : number[i] = 10 * number[i - 1] + line[i]
    <2>1. 0 \in 0 .. n /\ 0 < 1 /\ \A i \in 1 .. n : i \in 0 .. n /\ ~ (i < 1)
        BY <1>1
    <2> QED
        BY <1>10, <2>1
<1> DEFINE T == {i \in 0 .. n : number[i] \in Nat}
<1>12. 0 \in T
    BY <1>1, <1>11
<1>13. ASSUME NEW i \in 1 .. n, i - 1 \in T PROVE i \in T
    <2>1. line[i] \in 0 .. 9 /\ i \in 0 .. n
        BY <1>0, <1>1
    <2>2. number[i] = 10 * number[i - 1] + line[i] /\ number[i - 1] \in Nat /\ line[i] \in Nat
        BY <1>11, <1>13, <2>1
    <2>3. number[i] \in Nat
        BY <2>2
    <2> QED
        BY <2>1, <2>3
<1> HIDE DEF T
<1>14. \A i \in 0 .. n : i \in T
    BY <1>1, <1>12, <1>13, Upto
<1>15. number \in [0 .. n -> Nat]
    BY <1>10, <1>14 DEF T
<1>16. Counts(number, line, n)
    BY <1>11, <1>15 DEF Counts
<1> QED
    BY <1>6, <1>7, <1>16 DEF Reads, size

\* A text that shows a number is read as that number, with or without a new line after it.
LEMMA ShownOK ==
    ASSUME NEW k \in 0 .. TopKHz, NEW text, Shows(text, k)
    PROVE  /\ text # <<>> /\ text[1] # NUL
           /\ Strtol(text).value = k /\ Strtol(text).stop \in {Newline, NUL}
<1> DEFINE number == Decimal[k]
           n == Len(number)
<1>1. number \in Seq(0 .. 9) /\ n \in Nat \ {0} /\ Reads(number, n, k)
    BY DecimalReads
<1> HIDE DEF number
<1>2. \A i \in 1 .. n : number[i] \in 0 .. 9
    BY <1>1
<1>3. text = number \/ text = number \o <<Newline>>
    BY DEF Shows, number
<1>4. /\ text \in Seq(Nat) /\ \A i \in 1 .. n : text[i] = number[i]
      /\ Len(text) = n \/ (Len(text) = n + 1 /\ text[n + 1] = Newline)
    <2>1. number \in Seq(Nat) /\ <<Newline>> \in Seq(Nat) /\ Len(<<Newline>>) = 1
          /\ <<Newline>>[1] = Newline
        <3>1. Newline \in Nat
            BY DEF Newline
        <3> QED
            BY <1>1, <3>1
    <2>2. CASE text = number
        BY <2>1, <2>2
    <2>3. CASE text = number \o <<Newline>>
        <3> HIDE DEF n
        <3> DEFINE nl == <<Newline>>
        <3> HIDE DEF nl
        <3>1. /\ number \o nl \in Seq(Nat) /\ Len(number \o nl) = n + 1
              /\ \A i \in 1 .. n : (number \o nl)[i] = number[i]
              /\ (number \o nl)[n + 1] = Newline
            BY <1>1, <2>1 DEF nl, n
        <3> QED
            BY <2>3, <3>1 DEF nl
    <2> QED
        BY <1>3, <2>2, <2>3
<1> HIDE DEF n
<1>5. 1 \in 1 .. n /\ text[1] \in 0 .. 9 /\ text[1] # NUL /\ text[1] # Newline
    <2>1. 1 \in 1 .. n
        BY <1>1
    <2>2. text[1] \in 0 .. 9
        BY <1>2, <1>4, <2>1
    <2>3. NUL \notin 0 .. 9 /\ Newline \notin 0 .. 9
        BY DEF NUL, Newline
    <2> QED
        BY <2>1, <2>2, <2>3
<1>6. Digits(text, n)
    <2>1. n \in 0 .. Len(text) /\ (n < Len(text) => text[n + 1] \notin 0 .. 9)
        BY <1>1, <1>4 DEF Newline
    <2> QED
        BY <1>2, <1>4, <2>1 DEF Digits
<1>7. Len(text) # 0 /\ text # <<>>
    BY <1>1, <1>4
<1>8. /\ Reads(text, n, Strtol(text).value)
      /\ Strtol(text).stop = IF n < Len(text) THEN text[n + 1] ELSE NUL
    BY <1>5, <1>6, <1>7, StrtolOK
<1>9. Strtol(text).value = k
    BY <1>1, <1>4, <1>8, OneValue
<1>10. Strtol(text).stop \in {Newline, NUL}
    BY <1>1, <1>4, <1>8
<1> QED
    BY <1>5, <1>7, <1>9, <1>10

\* A text that is spoilt is empty, or begins with its end, or strtol stops at what has spoilt it.
LEMMA SpoiltOK ==
    ASSUME NEW text \in Seq(0 .. NUL), Spoilt(text)
    PROVE  text = <<>> \/ text[1] = NUL \/ Strtol(text).stop = Other
<1> SUFFICES ASSUME NEW i \in 1 .. Len(text), text[i] = Other, \A j \in 1 .. i - 1 : text[j] \in 0 .. 9
             PROVE  Strtol(text).stop = Other
    BY DEF Spoilt
<1> DEFINE n == i - 1
           size == Len(text)
<1>1. size \in Nat /\ text \in Seq(Nat)
    BY DEF NUL
<1> HIDE DEF size
<1>2. n \in 0 .. size /\ n < size /\ n + 1 = i /\ size # 0 /\ (n = 0 \/ 1 \in 1 .. n)
    <2>1. i \in 1 .. size
        BY DEF size
    <2> QED
        BY <1>1, <2>1
<1>3. text[1] # Newline
    <2>1. Other # Newline /\ Newline \notin 0 .. 9
        BY DEF Other, Newline
    <2>2. CASE n = 0
        BY <2>1, <2>2, <1>2
    <2>3. CASE 1 \in 1 .. n
        BY <2>1, <2>3
    <2> QED
        BY <1>2, <2>2, <2>3
<1>4. Digits(text, n)
    <2>1. Other \notin 0 .. 9
        BY DEF Other
    <2> QED
        BY <1>1, <1>2, <2>1 DEF Digits, size
<1>5. Strtol(text).stop = IF n < Len(text) THEN text[n + 1] ELSE NUL
    BY <1>2, <1>3, <1>4, StrtolOK DEF size
<1> QED
    BY <1>2, <1>5 DEF size

\* Where a line begins with its end and no number follows, strtol stops where it began, with
\* nothing read (sysinfo.c:169-172).
LEMMA BlankOK ==
    ASSUME NEW text \in Seq(0 .. NUL), Blank(text)
    PROVE  /\ text # <<>> /\ text[1] # NUL
           /\ Strtol(text).value = 0 /\ Strtol(text).stop = Newline
<1> DEFINE size == Len(text)
           At(i) == IF i \in DOMAIN text THEN text[i] ELSE NUL
           starts == {i \in 1 .. size + 1 : At(i) # Newline}
           start == Min(starts)
           ends == {i \in start .. size + 1 : At(i) \notin 0 .. 9}
           end == Min(ends)
           Solves(f) == f = [i \in start - 1 .. end - 1 |->
                                IF i < start THEN 0 ELSE 10 * f[i - 1] + text[i]]
           number == CHOOSE f : Solves(f)
<1>1. size \in Nat /\ size >= 1 /\ DOMAIN text = 1 .. size
    BY DEF Blank
<1>2. /\ text # <<>> /\ text[1] = Newline
      /\ \A i \in 1 .. size : text[i] \in 0 .. 9 => \E j \in 1 .. i - 1 : text[j] \in {Other, NUL}
    BY DEF Blank
<1>3. /\ Newline # NUL /\ Newline \notin {Other, NUL} /\ NUL # Newline /\ NUL \notin 0 .. 9
      /\ Newline \notin 0 .. 9
    BY DEF Newline, Other, NUL
<1>4. Strtol(text) = [value |-> number[end - 1],
                      stop |-> IF end = start THEN At(1) ELSE At(end)]
    BY DEF Strtol
<1> HIDE DEF size
<1>5. At(1) = Newline
    BY <1>1, <1>2
<1>6. start \in starts /\ \A i \in starts : start <= i
    <2>1. size + 1 \in 1 .. size + 1 /\ size + 1 \notin DOMAIN text /\ 1 .. size + 1 \in SUBSET Nat
        BY <1>1
    <2>2. At(size + 1) # Newline
        BY <1>3, <2>1
    <2> HIDE DEF At
    <2>3. starts # {} /\ starts \in SUBSET Nat
        BY <2>1, <2>2
    <2> HIDE DEF starts
    <2> QED
        BY <2>3, MinOK
<1> HIDE DEF start
<1>7. start \in 1 .. size + 1 /\ start \in Nat
    BY <1>1, <1>6
<1>8. At(start) \notin 0 .. 9
    <2> SUFFICES ASSUME At(start) \in 0 .. 9 PROVE FALSE
        OBVIOUS
    <2>1. start \in 1 .. size /\ text[start] \in 0 .. 9
        BY <1>1, <1>3
    <2>2. PICK j \in 1 .. start - 1 : text[j] \in {Other, NUL}
        BY <1>2, <2>1
    <2>3. j \in 1 .. size /\ j \in 1 .. size + 1 /\ j < start /\ ~ (start <= j)
        BY <1>1, <2>1, <2>2
    <2>4. At(j) # Newline
        BY <1>1, <1>3, <2>2, <2>3
    <2>5. j \in starts
        BY <2>3, <2>4
    <2> QED
        BY <1>6, <2>3, <2>5
<1> HIDE DEF At
<1>9. end = start
    <2>1. start \in ends /\ ends \in SUBSET Nat /\ \A i \in ends : start <= i
        BY <1>1, <1>7, <1>8
    <2> HIDE DEF ends
    <2> QED
        BY <2>1, LeastIsMin
<1> HIDE DEF end
<1>10. Strtol(text).stop = Newline
    <2> HIDE DEF number
    <2> QED
        BY <1>4, <1>5, <1>9
<1>11. \A f : Solves(f) <=> f = [i \in start - 1 .. start - 1 |-> 0]
    <2>1. \A i \in start - 1 .. start - 1 : i < start
        BY <1>7
    <2>2. end - 1 = start - 1
        BY <1>9
    <2> QED
        BY <2>1, <2>2
<1> HIDE DEF Solves
<1>12. number = [i \in start - 1 .. start - 1 |-> 0]
    BY <1>11
<1>13. number[start - 1] = 0
    <2> HIDE DEF number
    <2>1. start - 1 \in start - 1 .. start - 1
        BY <1>7
    <2> QED
        BY <1>12, <2>1
<1>14. Strtol(text).value = 0
    <2> HIDE DEF number
    <2> QED
        BY <1>4, <1>9, <1>13
<1> QED
    BY <1>2, <1>3, <1>10, <1>14

\* A file that shows a number gives it, and a blank one 0, however often the reads of it were
\* interrupted; one that shows none gives none (sysinfo.c:154-178).
LEMMA FileOK ==
    ASSUME NEW file, File(file)
    PROVE  /\ \A k \in 0 .. TopKHz :
                 Says(file, k) => ReadLongFromFile(file) = [ok |-> TRUE, value |-> k]
           /\ SaysNothing(file) => ReadLongFromFile(file) = NoValue
           /\ ReadLongFromFile(file).ok \in BOOLEAN
<1> DEFINE size == Len(file.reads)
           last == file.reads[size]
           done == {i \in DOMAIN file.reads : file.reads[i].kind # "EINTR"}
<1>1. /\ file.exists \in BOOLEAN
      /\ size \in Nat \ {0} /\ DOMAIN file.reads = 1 .. size
      /\ \A i \in 1 .. size : file.reads[i].kind = "EINTR" <=> i < size
      /\ last.text \in Seq(0 .. NUL)
      /\ \/ Spoilt(last.text) \/ Blank(last.text)
         \/ \E k \in 0 .. TopKHz : Shows(last.text, k)
      /\ last.kind = "error" => last.text = <<>>
    BY DEF File
<1>2. Min(done) = size
    <2> HIDE DEF size
    <2>1. /\ size \in 1 .. size /\ ~ (size < size)
          /\ \A i \in 1 .. size : i \in Nat /\ (i < size \/ i = size) /\ (i = size => size <= i)
        BY <1>1
    <2>2. size \in done /\ done \in SUBSET Nat /\ \A i \in done : size <= i
        BY <1>1, <2>1
    <2> HIDE DEF done
    <2> QED
        BY <2>2, LeastIsMin
<1>3. ReadLongFromFile(file) = IF file.exists THEN Parsed(last) ELSE NoValue
    BY <1>2 DEF ReadLongFromFile
<1>4. \A k : Says(file, k)
                 <=> file.exists /\ (Shows(last.text, k) \/ (k = 0 /\ Blank(last.text)))
    BY DEF Says
<1> HIDE DEF last
<1>5. ASSUME NEW k \in 0 .. TopKHz, Says(file, k)
      PROVE  ReadLongFromFile(file) = [ok |-> TRUE, value |-> k]
    <2>1. file.exists /\ (Shows(last.text, k) \/ (k = 0 /\ Blank(last.text)))
        BY <1>4, <1>5
    <2>2. /\ last.text # <<>> /\ last.text[1] # NUL
          /\ Strtol(last.text).value = k /\ Strtol(last.text).stop \in {Newline, NUL}
        BY <1>1, <2>1, ShownOK, BlankOK
    <2>3. last.kind # "error"
        BY <1>1, <2>2
    <2>4. Parsed(last) = [ok |-> TRUE, value |-> k]
        BY <2>2, <2>3 DEF Parsed
    <2> QED
        BY <1>3, <2>1, <2>4
<1>6. ASSUME SaysNothing(file) PROVE ReadLongFromFile(file) = NoValue
    <2>1. CASE ~ file.exists
        BY <1>3, <2>1
    <2>2. CASE file.exists
        <3>1. (\A k \in 0 .. TopKHz : ~ Shows(last.text, k)) /\ ~ Blank(last.text)
            <4>1. 0 \in 0 .. TopKHz
                BY FrequencyAssumption
            <4> QED
                BY <1>4, <1>6, <2>2, <4>1 DEF SaysNothing
        <3>2. Spoilt(last.text)
            BY <1>1, <3>1
        <3>3. last.text = <<>> \/ last.text[1] = NUL \/ Strtol(last.text).stop = Other
            BY <1>1, <3>2, SpoiltOK
        <3>4. Other \notin {Newline, NUL}
            BY DEF Other, Newline, NUL
        <3>5. Parsed(last) = NoValue
            BY <3>3, <3>4 DEF Parsed
        <3> QED
            BY <1>3, <2>2, <3>5
    <2> QED
        BY <1>1, <2>1, <2>2
<1>7. ReadLongFromFile(file).ok \in BOOLEAN
    <2> DEFINE value == ReadLongFromFile(file)
    <2>1. value = NoValue \/ \E k \in 0 .. TopKHz : value = [ok |-> TRUE, value |-> k]
        BY <1>5, <1>6 DEF SaysNothing
    <2> HIDE DEF value
    <2>2. ASSUME value = NoValue PROVE value.ok = FALSE
        BY <2>2 DEF NoValue
    <2>3. ASSUME NEW k, value = [ok |-> TRUE, value |-> k] PROVE value.ok = TRUE
        BY <2>3
    <2>4. value.ok \in BOOLEAN
        BY <2>1, <2>2, <2>3, Zenon
    <2> QED
        BY <2>4 DEF value
<1> QED
    BY <1>5, <1>6, <1>7

\* The nominal frequency is a thousand times the number the first file shows that shows one,
\* a blank file showing 0, however often the reads were interrupted; a file that shows none
\* counts for nothing; a registry or sysctl gives 0 only if it says 0 (sysinfo.c:117-177,
\* 257-274).
THEOREM FrequencyCorrect == Spec => []FrequencyFromFiles
<1>1. Init => FrequencyFromFiles
    BY DEF Init, Idle, FrequencyFromFiles
<1>2. ASSUME FrequencyFromFiles, [Next]_call PROVE FrequencyFromFiles'
    <2>1. CASE UNCHANGED call
        BY <1>2, <2>1 DEF FrequencyFromFiles, Says, SaysNothing
    <2>2. CASE Next /\ call'.fn = "frequency"
        <3>1. PICK p \in FrequencyInputs :
                  call' = [fn |-> "frequency", in |-> p, out |-> GetNominalCPUFrequency(p)]
            BY <2>2, Named DEF NominalFrequency, Called
        <3> DEFINE out == GetNominalCPUFrequency(p)
                   first == p.tsc_freq_khz
                   second == p.cpuinfo_max_freq
        <3>2. /\ p.platform \in {"windows", "sysctl", "files"}
              /\ p.answers \in BOOLEAN /\ p.mhz \in Nat /\ p.hz \in Nat
              /\ p.measures \in BOOLEAN /\ File(first) /\ File(second)
            BY FrequencyAssumption
        <3>3. /\ p.platform = "windows" => (out = 0 <=> p.answers /\ p.mhz = 0)
              /\ p.platform = "sysctl" => (out = 0 <=> p.answers /\ p.hz = 0)
            <4>1. p.mhz * 1000000 = 0 <=> p.mhz = 0
                BY <3>2, SMT
            <4>2. p.platform = "windows" => out = IF p.answers THEN p.mhz * 1000000 ELSE 1
                BY SMT DEF GetNominalCPUFrequency
            <4>3. p.platform = "sysctl" => out = IF p.answers THEN p.hz ELSE 1
                BY SMT DEF GetNominalCPUFrequency
            <4>4. 1 # 0
                OBVIOUS
            <4> HIDE DEF out
            <4> QED
                BY <3>2, <4>1, <4>2, <4>3, <4>4
        <3>4. ASSUME p.platform = "files" PROVE out = FromFiles(p)
            BY <3>4, SMT DEF GetNominalCPUFrequency
        <3> DEFINE tsc == ReadLongFromFile(first)
                   max == ReadLongFromFile(second)
        <3>5. /\ \A k \in 0 .. TopKHz : Says(first, k) => tsc = [ok |-> TRUE, value |-> k]
              /\ SaysNothing(first) => tsc = NoValue
              /\ \A k \in 0 .. TopKHz : Says(second, k) => max = [ok |-> TRUE, value |-> k]
              /\ SaysNothing(second) => max = NoValue
            BY <3>2, FileOK
        <3>6. FromFiles(p) = IF tsc.ok THEN tsc.value * 1000
                             ELSE IF p.measures THEN p.measured
                             ELSE IF max.ok THEN max.value * 1000 ELSE 1
            <4>1. tsc.ok \in BOOLEAN /\ max.ok \in BOOLEAN
                BY <3>2, FileOK
            <4> HIDE DEF tsc, max
            <4> QED
                BY <3>2, <4>1 DEF FromFiles, tsc, max
        <3> HIDE DEF tsc, max, out, first, second
        <3>7. \A k \in 0 .. TopKHz : k * 1000 = 1000 * k
            BY FrequencyAssumption
        <3>8. ASSUME p.platform = "files", SaysNothing(first)
              PROVE  IF p.measures THEN out = p.measured
                     ELSE IF SaysNothing(second) THEN out = 1
                     ELSE \E k \in 0 .. TopKHz : Says(second, k) /\ out = 1000 * k
            <4>1. ~ tsc.ok
                BY <3>5, <3>8 DEF NoValue
            <4>2. CASE SaysNothing(second)
                BY <3>4, <3>5, <3>6, <3>8, <4>1, <4>2 DEF NoValue
            <4>3. CASE ~ SaysNothing(second)
                <5>1. PICK k \in 0 .. TopKHz : Says(second, k)
                    BY <4>3 DEF SaysNothing
                <5>2. max.ok /\ max.value = k
                    BY <3>5, <5>1
                <5> QED
                    BY <3>4, <3>6, <3>7, <3>8, <4>1, <4>3, <5>1, <5>2
            <4> QED
                BY <4>2, <4>3
        <3>9. ASSUME p.platform = "files", ~ SaysNothing(first)
              PROVE  \E k \in 0 .. TopKHz : Says(first, k) /\ out = 1000 * k
            <4>1. PICK k \in 0 .. TopKHz : Says(first, k)
                BY <3>9 DEF SaysNothing
            <4>2. tsc.ok /\ tsc.value = k
                BY <3>5, <4>1
            <4> QED
                BY <3>4, <3>6, <3>7, <3>9, <4>1, <4>2
        <3>10. call'.in = p /\ call'.out = out
            BY <3>1 DEF out
        <3> QED
            BY <3>2, <3>3, <3>8, <3>9, <3>10 DEF FrequencyFromFiles, first, second
    <2>3. CASE Next /\ call'.fn # "frequency"
        BY <2>3 DEF FrequencyFromFiles
    <2> QED
        BY <1>2, <2>1, <2>2, <2>3
<1> QED
    BY <1>1, <1>2, PTL DEF Spec
====
