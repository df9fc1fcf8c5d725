---- MODULE PureCalls ----
(* The functions of base/ that keep no state, each called with each of its inputs
   and compared with what it is for. *)
EXTENDS AllocMath, Bytes, SysInfo, Clocks, Helpers

CONSTANTS TopKHz,  \* the greatest number a file shows
          WireInputs, Pointers, RoundInputs, FrequencyInputs, ReadingInputs, MeasureInputs,
          CpuInputs, DelayInputs, ClockInputs, TimeBaseInputs, MmapInputs, NameInputs

Order == {"little", "big"}

\* The value to store has 16, 32 or 64 bits and lies within the memory.
ASSUME WireAssumption ==
    \A w \in WireInputs :
        /\ w.mem \in Seq(0 .. 255) /\ w.value \in Seq(0 .. 255) /\ Len(w.value) \in {2, 4, 8}
        /\ w.p \in 1 .. Len(w.mem) - Len(w.value) + 1
        /\ w.order \in Order /\ w.writer \in Order /\ w.reader \in Order

ASSUME PointerAssumption == \A p \in Pointers : p \in Seq(SUBSET (0 .. 7)) /\ Len(p) \in {4, 8}

\* A power of two divides the number of words; 0 is the alignment of an arena that
\* nobody has initialised.
ASSUME RoundAssumption ==
    \A r \in RoundInputs : /\ r.addr \in 0 .. WordSize - 1 /\ r.align \in 0 .. WordSize - 1
                           /\ r.align # 0 => WordSize % r.align = 0

\* A number as a file of /sys shows it, from its last digit to its first.
Decimal[k \in 0 .. TopKHz] ==
    IF k < 10 THEN <<k>> ELSE Append(Decimal[k \div 10], k % 10)

Shows(text, k) == text \in {Decimal[k], Decimal[k] \o <<Newline>>}

\* No number: nothing at all, or something else at the place of a digit.
Spoilt(text) ==
    \/ text = <<>> \/ text[1] = NUL
    \/ \E i \in 1 .. Len(text) : text[i] = Other /\ \A j \in 1 .. i - 1 : text[j] \in 0 .. 9

\* A line that begins with its end, and has no number behind it.
Blank(text) ==
    /\ text # <<>> /\ text[1] = Newline
    /\ \A i \in 1 .. Len(text) : text[i] \in 0 .. 9 => \E j \in 1 .. i - 1 : text[j] \in {Other, NUL}

\* The reads of a file are interrupted but for the last, which shows a number, is blank
\* or is spoilt.
File(file) ==
    LET size == Len(file.reads)
    IN  /\ file.exists \in BOOLEAN
        /\ size \in Nat \ {0} /\ DOMAIN file.reads = 1 .. size
        /\ \A i \in 1 .. size : file.reads[i].kind = "EINTR" <=> i < size
        /\ LET last == file.reads[size]
           IN  /\ last.text \in Seq(0 .. NUL)
               /\ \/ Spoilt(last.text) \/ Blank(last.text)
                  \/ \E k \in 0 .. TopKHz : Shows(last.text, k)
               /\ last.kind = "error" => last.text = <<>>

ASSUME FrequencyAssumption ==
    /\ TopKHz \in Nat
    /\ \A p \in FrequencyInputs :
          /\ p.platform \in {"windows", "sysctl", "files"}
          /\ p.answers \in BOOLEAN /\ p.mhz \in Nat /\ p.hz \in Nat
          /\ p.measures \in BOOLEAN /\ File(p.tsc_freq_khz) /\ File(p.cpuinfo_max_freq)

ASSUME ReadingAssumption ==
    /\ INT_MAX \in Int
    /\ \A readings \in ReadingInputs : readings \in Seq([t0 : Int, t1 : Int, tsc : Int])

\* The clock is a monotonic one, and goes on while a round sleeps.
ASSUME MeasureAssumption ==
    /\ Rounds \in 1 .. 8
    /\ \A rounds \in MeasureInputs :
          /\ rounds \in Seq([before : Int \X Int, after : Int \X Int, signals : Seq(Nat)])
          /\ Len(rounds) = Rounds
          /\ \A i \in 1 .. Rounds : rounds[i].before[1] < rounds[i].after[1]

ASSUME CpuAssumption ==
    \A c \in CpuInputs :
        /\ c.api.malloc \in BOOLEAN \X BOOLEAN /\ c.api.fails \in BOOLEAN
        /\ c.api.first \in Seq([core : BOOLEAN, mask : SUBSET (0 .. 63)])
        /\ c.api.second \in Seq([core : BOOLEAN, mask : SUBSET (0 .. 63)])

ASSUME BitAssumption == \E k \in 0 .. 24 : kMinDelay = 2 ^ k

\* kMinDelay << 5 nanoseconds are less than a second.
ASSUME DelayAssumption ==
    /\ kMinDelay \in Nat \ {0} /\ 32 * kMinDelay < 1000000000
    /\ \A d \in DelayInputs : d.loop \in Int /\ d.r \in Int

\* Half is the power of two that a word of half the counter's width can hold.
ASSUME HalfAssumption == Half \in Nat \ {0} /\ Half % 2 = 0

\* A source that has been registered is not taken back. The machine that reads the counter
\* in halves is left to ReadTimeBase.
ASSUME ClockAssumption ==
    \A c \in ClockInputs :
        /\ c.machine # "ppc"
        /\ c.build \in [ndebug : BOOLEAN, frequency_is_cpu_frequency : BOOLEAN]
        /\ \A i \in 1 .. 2 :
              /\ c.readings[i].counts[1] \in Int /\ c.readings[i].fn \in Int
              /\ c.readings[i].loads[1] # "NULL" => c.readings[i].loads[2] # "NULL"
              /\ c.times[i] \in [tv_sec : Int, tv_nsec : Int]

\* The counter does not go back, and the attempts come to an end.
ASSUME TimeBaseAssumption ==
    \A counts \in TimeBaseInputs :
        /\ counts \in Seq(Nat)
        /\ \A i, j \in 1 .. Len(counts) : i <= j => counts[i] <= counts[j]
        /\ \E k \in 1 .. Len(counts) \div 3 :
              counts[3 * k - 2] \div Half = counts[3 * k] \div Half

ASSUME MmapAssumption ==
    /\ Ulong \in Nat \ {0}
    /\ \A m \in MmapInputs : m.pagesize \in Nat \ {0} /\ m.offset \in Int

ASSUME NameAssumption ==
    /\ SYS_NERR \in Nat \ {0}
    /\ \A n \in NameInputs : n.memory \in BOOLEAN /\ n.errnum \in Int

VARIABLE call  \* the function called, its arguments and what it returned

Idle == [fn |-> "none", in |-> <<>>, out |-> <<>>]

Called(fn, in, out) == call.fn = "none" /\ call' = [fn |-> fn, in |-> in, out |-> out]

Init == call = Idle

\* One machine stores a value, another loads it, and swaps it again to send it on.
Store(w) == IF w.order = "little" THEN little_endian_store(w.mem, w.p, w.value, w.writer)
                                  ELSE big_endian_store(w.mem, w.p, w.value, w.writer)
Load(w, mem) == IF w.order = "little" THEN little_endian_load(mem, w.p, Len(w.value), w.reader)
                                      ELSE big_endian_load(mem, w.p, Len(w.value), w.reader)
Wire == \E w \in WireInputs :
    Called("wire", w, [mem |-> Store(w), loaded |-> Load(w, Store(w)),
                       sent |-> unaligned_store(w.mem, w.p, ghton(w.value, w.writer), w.writer),
                       back |-> gntoh(ghton(w.value, w.writer), w.writer)])

Hide == \E p \in Pointers :
    Called("hide", p, [hidden |-> hide_ptr(p), back |-> unhide_ptr(hide_ptr(p))])

Round == \E r \in RoundInputs : Called("round", r, round_up(r.addr, r.align))

NominalFrequency == \E p \in FrequencyInputs : Called("frequency", p, GetNominalCPUFrequency(p))

TscPair == \E readings \in ReadingInputs : Called("pair", readings, GetTimeTscPair(readings))

Measure == \E rounds \in MeasureInputs : Called("measure", rounds, MeasureTscFrequency(rounds))

Cpus == \E c \in CpuInputs : Called("cpus", c, GetNumCPUs(c.platform, c.api))

Delay == \E d \in DelayInputs :
    Called("delay", d, [suggested |-> SpinLockSuggestedDelayNS(d.loop, d.r),
                        slept |-> cicflowInternalSpinLockDelay(d.loop, d.r)])

Clock == \E c \in ClockInputs :
    Called("clock", c, [now |-> [i \in 1 .. 2 |-> Now(c.build, c.machine, c.readings[i])],
                        frequency |-> Frequency(c.build, c.machine, 1000),
                        nanos |-> [i \in 1 .. 2 |-> cycle_clock_now(c.times[i])]])

ReadTimeBase == \E counts \in TimeBaseInputs :
    Called("timebase", counts, unscaled_cycle_clock_now("ppc", counts))

Mmap == \E m \in MmapInputs : Called("mmap", m, direct_mmap(m.arch, m.offset, m.pagesize))

Name == \E n \in NameInputs : \E text \in str_error(n.errnum, n.known) :
    Called("name", n, [severities |-> log_severities(n.memory),
                       names |-> [s \in 0 .. 10 |-> log_severity_name(s)],
                       text |-> text])

Return == call.fn # "none" /\ call' = Idle

Next == \/ Wire \/ Hide \/ Round \/ NominalFrequency \/ TscPair \/ Measure \/ Cpus
        \/ Delay \/ Clock \/ ReadTimeBase \/ Mmap \/ Name \/ Return

Spec == Init /\ [][Next]_call

------------------------------------------------------------------------------
(* Properties *)

\* Whatever the byte orders of the writer and the reader: a value comes back as it
\* was, lies in memory in the order named, at any alignment, and touches none of its
\* neighbours; ghton on any host is a store in network order, and its own inverse
\* (endian.h:13-164, unaligned_access.h:10-32).
WireOrder ==
    call.fn = "wire" =>
        LET w == call.in
            n == Len(w.value)
            Big == [a \in DOMAIN w.mem |-> IF a \in w.p .. w.p + n - 1
                                           THEN w.value[n - (a - w.p)] ELSE w.mem[a]]
            Little == [a \in DOMAIN w.mem |-> IF a \in w.p .. w.p + n - 1
                                              THEN w.value[1 + (a - w.p)] ELSE w.mem[a]]
        IN  /\ call.out.mem = (IF w.order = "little" THEN Little ELSE Big)
            /\ call.out.loaded = w.value
            /\ call.out.sent = Big
            /\ call.out.back = w.value

\* A hidden pointer comes back as it was, and no byte of it reads as it did, whatever
\* the width of a pointer: a scan of memory does not find it (hide_ptr.h:6-9).
HiddenAndBack ==
    call.fn = "hide" =>
        /\ call.out.back = call.in
        /\ \A i \in DOMAIN call.in : call.out.hidden[i] # call.in[i]

\* round_up gives the least multiple of a power of two that is not below the address,
\* or fails because there is none in a word; by 0 it rounds no address but 0
\* (low_level_alloc.c:223-229).
RoundUpLeast ==
    call.fn = "round" =>
        LET above == IF call.in.align = 0 THEN {call.in.addr} \cap {0}
                     ELSE {m \in call.in.addr .. WordSize - 1 : m % call.in.align = 0}
        IN  IF above # {} THEN call.out = Min(above) ELSE call.out = Failed

Says(file, k) ==
    LET text == file.reads[Len(file.reads)].text
    IN  file.exists /\ (Shows(text, k) \/ (k = 0 /\ Blank(text)))
SaysNothing(file) == \A k \in 0 .. TopKHz : ~Says(file, k)

\* The nominal frequency is a thousand times the number the first file shows that shows
\* one, however often the reads were interrupted; a blank file shows 0, for strtol
\* stops where it began, at the new line; one that is missing, unreadable, empty or spoilt
\* counts for nothing; a machine without files says 0 only if its registry or
\* sysctl does (sysinfo.c:117-177, 257-274).
FrequencyFromFiles ==
    call.fn = "frequency" =>
        LET p == call.in
        IN  CASE p.platform = "windows" -> call.out = 0 <=> p.answers /\ p.mhz = 0
              [] p.platform = "sysctl" -> call.out = 0 <=> p.answers /\ p.hz = 0
              [] p.platform = "files" /\ SaysNothing(p.tsc_freq_khz) ->
                    IF p.measures THEN call.out = p.measured
                    ELSE IF SaysNothing(p.cpuinfo_max_freq) THEN call.out = 1
                    ELSE \E k \in 0 .. TopKHz :
                            Says(p.cpuinfo_max_freq, k) /\ call.out = 1000 * k
              [] OTHER -> \E k \in 0 .. TopKHz : Says(p.tsc_freq_khz, k) /\ call.out = 1000 * k

\* The pair is one reading's own time and count, the first of those with the least
\* latency; it is left unassigned only if each took as long as an int can tell
\* (sysinfo.c:204-219).
LeastLatency ==
    call.fn = "pair" =>
        LET Latency(i) == call.in[i].t1 - call.in[i].t0
        IN  IF \A i \in DOMAIN call.in : Latency(i) >= INT_MAX
            THEN call.out = <<>>
            ELSE \E i \in DOMAIN call.in :
                    /\ call.out = <<call.in[i].t0, call.in[i].tsc>>
                    /\ \A j \in DOMAIN call.in : Latency(i) <= Latency(j)
                    /\ \A j \in 1 .. i - 1 : Latency(i) < Latency(j)

\* The measurement stops at the first round that agrees with the one before within one
\* percent, or after the last; each round but the first sleeps twice as long as the one
\* before, in full however many signals interrupt it, and none reaches the second
\* nanosleep refuses (sysinfo.c:223-253).
StableOrLast ==
    call.fn = "measure" =>
        LET m == call.out
            n == Len(m)
            \* ticks / nanos of the round before and of this one, times both nanos
            Agrees(i) == LET a == m[i - 1].ticks * m[i].nanos
                             b == m[i].ticks * m[i - 1].nanos
                         IN  99 * b < 100 * a /\ 100 * a < 101 * b
        IN  /\ n \in 1 .. Rounds
            /\ \A i \in 2 .. n : Agrees(i) <=> i = n /\ (n < Rounds \/ Agrees(n))
            /\ m[1].slept = 1000000
            /\ \A i \in 2 .. n : m[i].slept = 2 * m[i - 1].slept
            /\ m[n].slept < 1000000000

\* The number of processors of a Windows machine is at least 1, and where the system
\* has answered in full the number of bits in the masks of its cores, no matter that
\* their number changed between the two calls or that the first failed for another
\* reason than its room (sysinfo.c:49-113).
CpuCount ==
    call.fn = "cpus" /\ call.in.platform = "windows" =>
        LET api == call.in.api
            answer == IF Len(api.first) <= 1 THEN api.first ELSE api.second
            bits == {e \in (1 .. Len(answer)) \X (0 .. 63) :
                        answer[e[1]].core /\ e[2] \in answer[e[1]].mask}
            answered == /\ api.malloc[1] /\ ~api.fails
                        /\ \/ Len(api.first) <= 1
                           \/ api.malloc[2] /\ Len(api.second) <= Len(api.first)
        IN  call.out = IF answered /\ bits # {} THEN Cardinality(bits) ELSE 1

\* However the random part turns out, which comes from a variable that is never
\* initialised, a round of waiting that is eight rounds later waits longer, up to round
\* 32, and a negative or overflown count waits as long as that; the sleep that is made
\* of it is one nanosleep accepts (spinlock_wait.c:35-46, spinlock_posix.inc:12-31).
DelayGrows ==
    call.fn = "delay" =>
        LET d == call.in
            Later(e) == d.loop \in 0 .. 24 /\ e.loop \notin 0 .. d.loop + 7
        IN  /\ call.out.suggested >= kMinDelay
            /\ \A e \in DelayInputs :
                  Later(e) => /\ SpinLockSuggestedDelayNS(e.loop, e.r) > call.out.suggested
                              /\ cicflowInternalSpinLockDelay(e.loop, e.r) > call.out.slept
            /\ call.out.slept < 1000000000

\* The time between two calls of Now, in units of Frequency, is right to one tick in
\* every build and with a source of one's own, and for counts on both sides of zero;
\* the clock in nanoseconds does not step back at a full second (cycleclock.h:31-50,
\* cycleclock_config.h:9-19, cycleclock.c:14-22).
ClockScale ==
    call.fn = "clock" =>
        LET c == call.in
            Raw(i) == IF c.readings[i].loads[1] = "NULL" THEN c.readings[i].counts[1]
                      ELSE c.readings[i].fn
            off == (call.out.now[2] - call.out.now[1]) * call.out.frequency.den - (Raw(2) - Raw(1))
        IN  /\ off < call.out.frequency.den /\ off > -call.out.frequency.den
            /\ Raw(1) <= Raw(2) => call.out.now[1] <= call.out.now[2]
            /\ call.out.nanos[2] - call.out.nanos[1] =
                   (c.times[2].tv_sec - c.times[1].tv_sec) * cycle_clock_frequency
                       + c.times[2].tv_nsec - c.times[1].tv_nsec

\* The time base of a 32-bit PowerPC comes from one value the counter had while it was
\* read, never from the halves of two: it is that value, or, where the top bit of the low
\* half is set and its sign covers the high half, what that makes of the same value
\* (unscaledcycleclock.c:47-57).
TimeBaseNotTorn ==
    call.fn = "timebase" =>
        \E i \in DOMAIN call.in :
            LET low == call.in[i] % Half
            IN  call.out = IF low < Half \div 2 THEN call.in[i] ELSE low - Half

\* A mapping is refused where the offset is negative or not on a page, and there only, and
\* starts where it was asked to, bytes and pages not mixed up, on every machine but one with
\* mmap2: there an offset whose page an unsigned long cannot name is not refused, but is
\* taken modulo the pages it can (direct_mmap.h:47-87).
MmapOffset ==
    call.fn = "mmap" =>
        LET m == call.in
            end == m.pagesize * Ulong
        IN  IF m.offset \in {m.pagesize * k : k \in 0 .. m.offset}
            THEN call.out = IF m.arch = "mmap2" /\ m.offset >= end THEN m.offset % end ELSE m.offset
            ELSE call.out = EINVAL

\* The list of severities has each of its entries written once and none outside it, and two
\* severities differ in name but for CRITICAL, which is called ERROR (log_severity.c:4-41).
NamesTellApart ==
    call.fn = "name" =>
        LET names == call.out.names
        IN  /\ DOMAIN call.out.severities = IF call.in.memory THEN 0 .. NUM_SEVERITY - 1 ELSE {}
            /\ \A s, t \in 0 .. 10 : names[s] = names[t] => s = t \/ {s, t} = {5, 6}
====
