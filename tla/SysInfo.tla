---- MODULE SysInfo ----
(* What sysinfo.c works out from files, clocks and the system, as functions of
   the answers it gets. *)
EXTENDS Integers, Sequences, FiniteSetsExt

CONSTANTS Rounds,    \* measurements of the frequency, 8
          INT_MAX    \* the latency no reading is worse than

------------------------------------------------------------------------------
(* Files. A character is a digit 0 .. 9 or one of these. *)
Newline == 10
Other == 11
NUL == 12

\* strtol: white space, then the longest run of digits; where there is none it
\* stops at the first character of all.
Strtol(line) ==
    LET At(i) == IF i \in DOMAIN line THEN line[i] ELSE NUL
        start == Min({i \in 1 .. Len(line) + 1 : At(i) # Newline})
        end == Min({i \in start .. Len(line) + 1 : At(i) \notin 0 .. 9})
        number[i \in start - 1 .. end - 1] ==
            IF i < start THEN 0 ELSE 10 * number[i - 1] + line[i]
    IN  [value |-> number[end - 1],
         stop |-> IF end = start THEN At(1) ELSE At(end)]

NoValue == [ok |-> FALSE, value |-> 0]

\* What a read that was not interrupted is good for.
Parsed(answer) ==
    LET number == Strtol(answer.text)
    IN  IF \/ answer.kind = "error"
           \/ answer.text = <<>>
           \/ answer.text[1] = NUL
           \/ number.stop \notin {Newline, NUL}
        THEN NoValue
        ELSE [ok |-> TRUE, value |-> number.value]

\* Slip: a read that was interrupted is not tried again.
ReadLongFromFileOnce(file) ==
    IF file.exists /\ file.reads[1].kind # "EINTR" THEN Parsed(file.reads[1]) ELSE NoValue

\* file.reads are the answers of read(); the first that is no EINTR counts for
\* the whole file.
ReadLongFromFile(file) ==
    IF file.exists
    THEN Parsed(file.reads[Min({i \in DOMAIN file.reads : file.reads[i].kind # "EINTR"})])
    ELSE NoValue

\* In Hz, from files in kHz, the second of which is not read where the counter of
\* the processor can be measured.
FromFiles(p) ==
    LET tsc == ReadLongFromFile(p.tsc_freq_khz)
        max == ReadLongFromFile(p.cpuinfo_max_freq)
    IN  CASE tsc.ok -> tsc.value * 1000
          [] ~tsc.ok /\ p.measures -> p.measured
          [] ~tsc.ok /\ ~p.measures /\ max.ok -> max.value * 1000
          [] OTHER -> 1

\* From the registry (MHz) or sysctl where there is one. No answer is 1.
GetNominalCPUFrequency(p) ==
    CASE p.platform = "windows" -> IF p.answers THEN p.mhz * 1000000 ELSE 1
      [] p.platform = "sysctl" -> IF p.answers THEN p.hz ELSE 1
      [] OTHER -> FromFiles(p)

------------------------------------------------------------------------------
(* The frequency of the time stamp counter, from pairs of a time and a count. *)

\* A reading is the clock before, the count and the clock after.
Timed(r) == [latency |-> r.t1 - r.t0, pair |-> <<r.t0, r.tsc>>]
Unassigned == [latency |-> INT_MAX, pair |-> <<>>]

\* Slip: a later reading of the same latency wins.
GetTimeTscPairLast(readings) ==
    LET best[i \in 0 .. Len(readings)] ==
            IF i = 0 THEN Unassigned
            ELSE IF Timed(readings[i]).latency <= best[i - 1].latency THEN Timed(readings[i])
            ELSE best[i - 1]
    IN  best[Len(readings)].pair

\* Of the readings (10 of them) the first of the least latency, as a pair; <<>> stands
\* for a pair that was never assigned.
GetTimeTscPair(readings) ==
    LET best[i \in 0 .. Len(readings)] ==
            IF i = 0 THEN Unassigned
            ELSE IF Timed(readings[i]).latency < best[i - 1].latency THEN Timed(readings[i])
            ELSE best[i - 1]
    IN  best[Len(readings)].pair

\* One measurement, with signals at the given times into the sleep; nanosleep
\* writes what is left back into the time it is then called with again.
MeasureTscFrequencyWithSleep(sleep_nanoseconds, round) ==
    LET asleep(s, d) == IF d < s.left THEN d ELSE s.left
        after[i \in 0 .. Len(round.signals)] ==
            IF i = 0 THEN [left |-> sleep_nanoseconds, slept |-> 0]
            ELSE LET s == after[i - 1]
                     d == asleep(s, round.signals[i])
                 IN  [left |-> s.left - d, slept |-> s.slept + d]
        last == after[Len(round.signals)]
    IN  [slept |-> last.slept + last.left,
         ticks |-> round.after[2] - round.before[2],
         nanos |-> round.after[1] - round.before[1]]

\* m * factor / 100 < n, for frequencies m and n.
Below(m, factor, n) == m.ticks * factor * n.nanos < n.ticks * 100 * m.nanos

\* Within one percent of the last measurement, which is -1 before the first.
Stable(m, last) ==
    /\ Below(m, 99, last)
    /\ last.ticks * 100 * m.nanos < m.ticks * 101 * last.nanos

\* The measurements made, of which the last is the answer; sleep[i] is the time to
\* sleep after i rounds.
Measurements(rounds, sleep) ==
    LET m == [i \in 1 .. Rounds |-> MeasureTscFrequencyWithSleep(sleep[i - 1], rounds[i])]
        last(i) == IF i = 1 THEN [ticks |-> -1, nanos |-> 1] ELSE m[i - 1]
    IN  SubSeq(m, 1, Min({i \in 1 .. Rounds : Stable(m[i], last(i))} \cup {Rounds}))

\* Slip: the sleep stays as long as it was.
MeasureTscFrequencyLevel(rounds) == Measurements(rounds, [i \in 0 .. Rounds - 1 |-> 1000000])

\* The sleep doubles from one millisecond on.
MeasureTscFrequency(rounds) ==
    LET sleep[i \in 0 .. Rounds - 1] == IF i = 0 THEN 1000000 ELSE 2 * sleep[i - 1]
    IN  Measurements(rounds, sleep)

------------------------------------------------------------------------------
(* Processors. A mask is the set of its bits that are one. *)

\* bitMask & (bitMask - 1) is without its lowest bit.
Win32CountSetBits(bitMask) ==
    LET count[m \in SUBSET bitMask] == IF m = {} THEN 0 ELSE 1 + count[m \ {Min(m)}]
    IN  count[bitMask]

LogicalProcessors(entries) ==
    LET count[i \in 0 .. Len(entries)] ==
            IF i = 0 THEN 0
            ELSE IF entries[i].core THEN count[i - 1] + Win32CountSetBits(entries[i].mask)
            ELSE count[i - 1]
    IN  count[Len(entries)]

\* Slip: the entries of the second answer count whether it succeeded or not.
Win32NumCPUsUnchecked(api) ==
    CASE ~api.malloc[1] \/ api.fails -> 0
      [] api.malloc[1] /\ ~api.fails /\ Len(api.first) <= 1 -> LogicalProcessors(api.first)
      [] OTHER -> IF api.malloc[2] THEN LogicalProcessors(api.second) ELSE 0

\* GetLogicalProcessorInformation gives its entries if the buffer has room for
\* them, otherwise it says how many they are. The first buffer has room for one, the
\* second for as many as there were; an answer that has grown meanwhile fails. Where the
\* first call fails for another reason there is no second.
Win32NumCPUs(api) ==
    CASE ~api.malloc[1] \/ api.fails -> 0
      [] api.malloc[1] /\ ~api.fails /\ Len(api.first) <= 1 -> LogicalProcessors(api.first)
      [] OTHER -> IF api.malloc[2] /\ Len(api.second) <= Len(api.first)
                  THEN LogicalProcessors(api.second) ELSE 0

\* pthread_getconcurrency gives 0 unless somebody has set a level.
GetNumCPUs(platform, api) ==
    CASE platform = "myriad2" -> 1
      [] platform = "windows" -> IF Win32NumCPUs(api) # 0 THEN Win32NumCPUs(api) ELSE 1
      [] platform = "aix" -> api.sysconf
      [] OTHER -> api.concurrency
====
