---- MODULE MCPureCalls ----
EXTENDS PureCalls

Hosts == {"little", "big"}
MCWireInputs ==
    [mem : {[a \in 1 .. 10 |-> 100 + a]}, p : 1 .. 3, writer : Hosts, reader : Hosts, order : Hosts,
     value : {<<1, 2>>, <<0, 0>>, <<1, 2, 3, 4>>, <<0, 0, 7, 0>>, <<1, 2, 3, 4, 5, 6, 7, 8>>}]

Bits(byte) == {b \in 0 .. 7 : (byte \div 2 ^ b) % 2 = 1}
MCPointers ==
    {[i \in DOMAIN p |-> Bits(p[i])] :
        p \in {<<0, 0, 0, 0>>, <<123, 95, 58, 240>>, <<1, 2, 3, 255>>, <<0, 0, 0, 0, 0, 0, 0, 0>>,
               <<8, 7, 6, 5, 4, 3, 2, 1>>, <<0, 16, 64, 255, 123, 95, 0, 0>>}}

MCRoundInputs == [addr : {0, 1, 15, 16, 17, 31, 32, 4032, 4033, 4094, 4095},
                  align : {0, 1, 2, 16, 64, 2048}]

Text(chars) == [kind |-> "text", text |-> chars]
Interrupted == [kind |-> "EINTR", text |-> <<>>]
Answers == {Text(<<4, 2>>), Text(<<0, Newline>>), Text(<<1, 0, 7, Newline>>), Text(<<4, Other>>),
            Text(<<Other, 4>>), Text(<<Newline>>), Text(<<Newline, Other, 4>>), Text(<<>>), Text(<<NUL, 4>>), [kind |-> "error", text |-> <<>>]}
Files == [exists : {TRUE}, reads : {<<a>> : a \in Answers}
                              \cup {<<Interrupted, Interrupted, a>> : a \in Answers}]
             \cup {[exists |-> FALSE, reads |-> <<Text(<<7>>)>>]}
MCFrequencyInputs == [platform : {"windows", "sysctl", "files"}, answers : BOOLEAN,
                      mhz : {0, 1500}, hz : {0, 2000}, measures : BOOLEAN, measured : {3000},
                      tsc_freq_khz : Files, cpuinfo_max_freq : Files]

\* Latencies by a clock that may step back, and of which 100 is the greatest.
MCReadingInputs == {[i \in 1 .. 4 |-> [t0 |-> 10 * i, t1 |-> 10 * i + l[i], tsc |-> i]] :
                        l \in [1 .. 4 -> {-1, 1, 2, 100, 101}]}

MCMeasureInputs == {[i \in 1 .. Rounds |-> [before |-> <<5, 7>>, after |-> <<6, 7 + ticks[i]>>,
                                            signals |-> signals]] :
                        ticks \in [1 .. Rounds -> {98, 99, 100, 101, 102}],
                        signals \in {<<>>, <<0, 300000>>, <<999999, 4000000, 1>>}}

Entries == {<<>>} \cup UNION {[1 .. n -> [core : BOOLEAN, mask : {{0}, {1, 2}}]] : n \in 1 .. 3}
MCCpuInputs == [platform : {"windows", "aix"},
                api : [malloc : BOOLEAN \X BOOLEAN, fails : BOOLEAN, first : {<<[core |-> TRUE, mask |-> {0, 2}]>>,
                          <<[core |-> TRUE, mask |-> {0}], [core |-> FALSE, mask |-> {0, 1}]>>},
                       second : Entries \ {<<>>}, sysconf : {4}, concurrency : {0}]]

MCDelayInputs == [loop : {-1, 0, 1, 7, 8, 9, 15, 16, 24, 31, 32, 33, 1000},
                  r : {0, 11, 131071, 131072, 1398101, 2097151, 2147483647, -5}]

Reading(loads, raw) == [loads |-> loads, counts |-> <<raw>>, fn |-> raw + 5]
Raws == {-9, -1, 0, 1, 6, 15}
MCClockInputs ==
    {[build |-> b, machine |-> machine, times |-> t,
      readings |-> <<Reading(l, r[1]), Reading(l, r[2])>>] :
        machine \in {"aarch64", "x86_64"},
        b \in [ndebug : BOOLEAN, frequency_is_cpu_frequency : BOOLEAN],
        t \in {<<[tv_sec |-> 0, tv_nsec |-> 999999999], [tv_sec |-> 1, tv_nsec |-> 0]>>},
        l \in {<<"NULL", "NULL">>, <<"NULL", "fn">>, <<"fn", "fn">>}, r \in Raws \X Raws}

\* A counter that goes on between two reads by any amount; two attempts are enough.
MCTimeBaseInputs ==
    {c \in [1 .. 6 -> 0 .. 9] :
        /\ \A i \in 1 .. 5 : c[i] <= c[i + 1]
        /\ c[1] \div Half = c[3] \div Half \/ c[4] \div Half = c[6] \div Half}

MCMmapInputs == [arch : {"mmap2", "x86_64", "s390x"}, pagesize : {4}, offset : -5 .. 41 \cup {64, 68}]

MCNameInputs == [memory : BOOLEAN, errnum : {-1, 0, 2, 3, 4, 1000}, known : {{0, 1, 2}, 0 .. 4, {}}]
====
