---- MODULE Clocks ----
(* The cycle clock, the counters it reads and the delay of the spin lock wait
   (cycleclock.h, cycleclock_config.h, cycleclock.c, unscaledcycleclock.c,
   unscaledcycleclock.h, spinlock_wait.c, spinlock_posix.inc). *)
EXTENDS Integers, Sequences, FiniteSets, FiniteSetsExt

CONSTANTS Half,     \* the values of one half of a counter, 2^32
          kMinDelay \* 128 << 10, or another power of two

------------------------------------------------------------------------------
(* The counter. counts are its values at the moments it is read. *)

\* mftbu, mftb, mftbu: the halves of attempt k and the check of the high one.
Attempt(counts, k) == [hi32 |-> counts[3 * k - 2] \div Half,
                       lo32 |-> counts[3 * k - 1] % Half,
                       tmp |-> counts[3 * k] \div Half]

\* (int64)tbu << 32 | tbl: a low half with its top bit set is negative, and its sign
\* covers the high half.
Combine(a) == IF a.lo32 < Half \div 2 THEN a.hi32 * Half + a.lo32 ELSE a.lo32 - Half

\* Slip: the high half is not read again.
TimeBaseOnce(counts) == Combine(Attempt(counts, 1))

\* 32-bit PowerPC tries again until the high half stays the same.
TimeBase(counts) ==
    LET Same(k) == Attempt(counts, k).hi32 = Attempt(counts, k).tmp
    IN  Combine(Attempt(counts, Min({k \in 1 .. Len(counts) \div 3 : Same(k)})))

\* rdtsc gives the counter of one moment in two halves without a sign.
Rdtsc(count) == (count \div Half) * Half + (count % Half)

\* The other machines read the counter with one instruction.
unscaled_cycle_clock_now(machine, counts) ==
    CASE machine = "ppc" -> TimeBase(counts)
      [] machine = "x86_64" -> Rdtsc(counts[1])
      [] OTHER -> counts[1]

\* freq: what nominal_cpu_frequency, the C library or the register says. FreeBSD
\* keeps 0, for the call that would set it is a comment.
unscaled_cycle_clock_frequency(machine, freq) ==
    CASE machine = "ppc_aix" -> 512000000
      [] machine = "ppc_freebsd" -> 0
      [] OTHER -> freq

------------------------------------------------------------------------------
(* The cycle clock. *)

\* The misspelt name of the middle case is read as the right one.
kCycleClockShift(build) ==
    CASE ~build.ndebug -> 2
      [] build.ndebug /\ ~build.frequency_is_cpu_frequency -> 0
      [] OTHER -> 1

\* loads: what one and another load of the cell find.
LoadCycleClockSource(machine, loads) ==
    IF machine # "x86_64" /\ loads[1] = "NULL" THEN "NULL"
    ELSE IF machine = "x86_64" THEN loads[1] ELSE loads[2]

\* Slip: a registered source is taken to be scaled.
NowUnscaledSource(build, machine, r) ==
    IF LoadCycleClockSource(machine, r.loads) = "NULL"
    THEN unscaled_cycle_clock_now(machine, r.counts) \div 2 ^ kCycleClockShift(build)
    ELSE r.fn

\* >> keeps the sign.
Now(build, machine, r) ==
    IF LoadCycleClockSource(machine, r.loads) = "NULL"
    THEN unscaled_cycle_clock_now(machine, r.counts) \div 2 ^ kCycleClockShift(build)
    ELSE r.fn \div 2 ^ kCycleClockShift(build)

\* kFrequencyScale * frequency, as a fraction.
Frequency(build, machine, freq) ==
    [num |-> unscaled_cycle_clock_frequency(machine, freq), den |-> 2 ^ kCycleClockShift(build)]

\* The clock of cycleclock.c counts nanoseconds.
cycle_clock_now(time) == 1000000000 * time.tv_sec + time.tv_nsec
cycle_clock_frequency == 1000000000

------------------------------------------------------------------------------
(* The delay of one round of waiting; r stands for the low bits of a number that is
   never initialised. *)

\* Slip: the random part takes the place of the delay.
SpinLockSuggestedDelayNSRandom(loop, r) ==
    LET round == IF loop < 0 \/ loop > 32 THEN 32 ELSE loop
    IN  r % (kMinDelay * 2 ^ (round \div 8))

\* The delay is a power of two: the bits of r below it are the remainder, and join it.
SpinLockSuggestedDelayNS(loop, r) ==
    LET round == IF loop < 0 \/ loop > 32 THEN 32 ELSE loop
        delay == kMinDelay * 2 ^ (round \div 8)
    IN  delay + (r % delay)

\* Where there is no futex: nothing, then a yield, then a sleep of so many nanoseconds.
cicflowInternalSpinLockDelay(loop, r) ==
    IF loop \in {0, 1} THEN 0 ELSE SpinLockSuggestedDelayNS(loop, r)
====
