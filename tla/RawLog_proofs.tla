---------------------------- MODULE RawLog_proofs ----------------------------
(***************************************************************************)
(* Proofs about raw logging: for every buffer size, notice size and set of *)
(* threads, the variables keep to their types, the cursor of each logger   *)
(* describes its buffer, and the end of a line is lost only to a buffer    *)
(* that is full.                                                           *)
(***************************************************************************)
EXTENDS RawLog, AtomicHook_proofs, TLAPS

USE BufferAssumption DEF BufferAssumption

------------------------------------------------------------------------------
(* The cursor *)

\* A cursor that describes its buffer: pointer and count agree, and once
\* anything has been stored the string is closed inside the buffer.
CursorOK(c) ==
  /\ c \in Cursors
  /\ c.off + c.size = LOG_BUF_SIZE
  /\ c.size < LOG_BUF_SIZE => c.len < LOG_BUF_SIZE

\* vsnprintf does not move the cursor, closes the string inside the buffer, and
\* shows what it stores when the cursor is not behind the end of the string.
LEMMA StoredOK ==
  ASSUME NEW c, CursorOK(c), NEW k \in Nat, c.size = 0 \/ k < c.size,
         NEW tail \in Tails
  PROVE  LET s == Stored(c, k, tail)
         IN  /\ CursorOK(s)
             /\ s.off = c.off
             /\ s.size = c.size
             /\ s.len < LOG_BUF_SIZE
             /\ c.size > 0 /\ c.len >= c.off =>
                  s.len = c.off + k /\ s.tail = tail
             /\ c.size = 0 \/ c.len < c.off => s = c
<1> DEFINE s == Stored(c, k, tail)
<1>1. CASE c.size > 0 /\ c.len >= c.off
  <2>1. s = [c EXCEPT !.len = c.off + k, !.tail = tail]
    BY <1>1 DEF Stored
  <2>2. c \in Cursors /\ c.off + k \in 0..LOG_BUF_SIZE
    BY <1>1 DEF CursorOK, Cursors
  <2>3. /\ s \in Cursors
        /\ s.off = c.off /\ s.size = c.size /\ s.len = c.off + k /\ s.tail = tail
    BY <2>1, <2>2 DEF Cursors
  <2> QED
    BY <1>1, <2>3 DEF CursorOK, Cursors
<1>2. CASE ~(c.size > 0 /\ c.len >= c.off)
  <2>1. s = c
    BY <1>2 DEF Stored
  <2> QED
    BY <1>2, <2>1 DEF CursorOK, Cursors
<1> QED
  BY <1>1, <1>2

\* The pointer and the count move together.
LEMMA AdvanceOK ==
  ASSUME NEW c, CursorOK(c), c.len < LOG_BUF_SIZE, NEW n \in 0..c.size
  PROVE  LET a == Advance(c, n)
         IN  /\ CursorOK(a)
             /\ a.off = c.off + n
             /\ a.size = c.size - n
             /\ a.len = c.len
             /\ a.tail = c.tail
<1> DEFINE a == Advance(c, n)
<1>1. a = [c EXCEPT !.off = c.off + n, !.size = c.size - n]
  BY DEF Advance
<1>2. c \in Cursors /\ c.off + n \in 0..LOG_BUF_SIZE /\ c.size - n \in 0..LOG_BUF_SIZE
  BY DEF CursorOK, Cursors
<1>3. /\ a \in Cursors
      /\ a.off = c.off + n /\ a.size = c.size - n /\ a.len = c.len /\ a.tail = c.tail
  BY <1>1, <1>2 DEF Cursors
<1> QED
  BY <1>2, <1>3 DEF CursorOK, Cursors

LEMMA NewCursorOK == CursorOK(NewCursor) /\ NewCursor.len >= NewCursor.off
BY DEF CursorOK, Cursors, NewCursor, Tails

\* vsnprintf of a text that fits keeps all of it; of one that does not, as much
\* as fills the buffer up to its last byte.
LEMMA PrintedOK ==
  ASSUME NEW c, CursorOK(c), NEW n \in Nat, NEW tail \in Tails
  PROVE  LET p == Printed(c, n, tail)
         IN  /\ CursorOK(p)
             /\ p.off = c.off
             /\ p.size = c.size
             /\ p.len < LOG_BUF_SIZE
             /\ c.size > 0 /\ c.len >= c.off /\ n < c.size =>
                  p.len = c.off + n /\ p.tail = tail
             /\ c.size > 0 /\ c.len >= c.off /\ n >= c.size =>
                  p.len = LOG_BUF_SIZE - 1
             /\ c.size = 0 => p = c
<1> DEFINE k == Least(n, c.size - 1)
           p == Printed(c, n, tail)
<1>1. c.size \in Nat /\ c.off \in Nat /\ c.off + c.size = LOG_BUF_SIZE
  BY DEF CursorOK, Cursors
<1>2. CASE c.size = 0
  <2>1. p = c
    BY <1>2 DEF Printed, Stored
  <2> QED
    BY <1>1, <1>2, <2>1 DEF CursorOK, Cursors
<1>3. CASE c.size > 0
  <2>1. k \in Nat /\ k < c.size
    BY <1>1, <1>3 DEF Least
  <2> DEFINE shown == IF n < c.size THEN tail ELSE "text"
  <2>2. p = Stored(c, k, shown)
    BY DEF Printed
  <2>3. shown \in Tails
    BY DEF Tails
  <2> HIDE DEF k, shown
  <2>4. /\ CursorOK(p) /\ p.off = c.off /\ p.size = c.size /\ p.len < LOG_BUF_SIZE
        /\ c.len >= c.off => /\ p.len = c.off + k
                            /\ p.tail = shown
    BY <1>3, <2>1, <2>2, <2>3, StoredOK
  <2> QED
    BY <1>1, <1>3, <2>1, <2>4 DEF k, shown, Least
<1> QED
  BY <1>1, <1>2, <1>3

\* do_raw_log keeps the cursor right whether or not the text fits.
LEMMA DoRawLogOK ==
  ASSUME NEW c, CursorOK(c), NEW n \in Nat, NEW tail \in Tails
  PROVE  LET d == DoRawLog(c, n, tail)
         IN  /\ CursorOK(d)
             /\ d.len < LOG_BUF_SIZE
             /\ c.size > 0 /\ c.len >= c.off /\ n < c.size =>
                  /\ d.len = c.off + n /\ d.tail = tail
                  /\ d.off = c.off + n /\ d.size = c.size - n
             /\ c.size > 0 /\ c.len >= c.off /\ n >= c.size => d.len = LOG_BUF_SIZE - 1
             /\ c.size > 0 /\ n = c.size => d.size = 0
             /\ n > c.size => d.off = c.off /\ d.size = c.size
             /\ d.off >= c.off
             /\ c.size = 0 => d.len = c.len
<1> DEFINE p == Printed(c, n, tail)
           d == DoRawLog(c, n, tail)
<1>0. c.size \in Nat /\ c.off \in Nat
  BY DEF CursorOK, Cursors
<1>1. /\ CursorOK(p) /\ p.off = c.off /\ p.size = c.size /\ p.len < LOG_BUF_SIZE
      /\ c.size > 0 /\ c.len >= c.off /\ n < c.size =>
           p.len = c.off + n /\ p.tail = tail
      /\ c.size > 0 /\ c.len >= c.off /\ n >= c.size => p.len = LOG_BUF_SIZE - 1
      /\ c.size = 0 => p = c
  BY PrintedOK
<1>2. CASE n > c.size
  BY <1>0, <1>1, <1>2 DEF DoRawLog
<1>3. CASE n <= c.size
  <2>1. d = Advance(p, n)
    BY <1>0, <1>3 DEF DoRawLog
  <2>2. n \in 0..p.size
    BY <1>0, <1>1, <1>3
  <2>3. /\ CursorOK(d) /\ d.off = p.off + n /\ d.size = p.size - n
        /\ d.len = p.len /\ d.tail = p.tail
    BY <1>1, <2>1, <2>2, AdvanceOK
  <2> QED
    BY <1>0, <1>1, <1>3, <2>3
<1> QED
  BY <1>0, <1>2, <1>3

\* The step back never leaves the rest of the buffer, and leaves room for the
\* notice when there was room for it.
LEMMA BackedOK ==
  ASSUME NEW c, CursorOK(c), c.len < LOG_BUF_SIZE
  PROVE  LET b == Backed(c)
         IN  /\ CursorOK(b)
             /\ b.len = c.len
             /\ b.off >= c.off
             /\ c.size > TruncatedSize =>
                  b.size = TruncatedSize /\ b.off = LOG_BUF_SIZE - TruncatedSize
             /\ c.size <= TruncatedSize => b.size = c.size /\ b.off = c.off
<1> DEFINE m == IF c.size > TruncatedSize THEN c.size - TruncatedSize ELSE 0
<1>1. c.size \in Nat /\ c.off \in Nat /\ c.off + c.size = LOG_BUF_SIZE
  BY DEF CursorOK, Cursors
<1>2. m \in 0..c.size
  BY <1>1
<1>3. Backed(c) = Advance(c, m)
  BY DEF Backed
<1>4. /\ CursorOK(Advance(c, m))
      /\ Advance(c, m).off = c.off + m
      /\ Advance(c, m).size = c.size - m
      /\ Advance(c, m).len = c.len
  BY <1>2, AdvanceOK
<1> QED
  BY <1>1, <1>3, <1>4

\* A message keeps the cursor right.  If it was longer than its room the notice
\* will fit, visibly, where it had room; if it took all of its room or more, and
\* the notice had none, the buffer is full to its last byte.
LEMMA VaDoRawLogOK ==
  ASSUME NEW c, CursorOK(c), NEW n \in Nat,
         c.size > 0 => c.len >= c.off,
         c.size = 0 => c.len = LOG_BUF_SIZE - 1
  PROVE  LET v == VaDoRawLog(c, n)
         IN  /\ CursorOK(v)
             /\ v.off >= c.off
             /\ v.len < LOG_BUF_SIZE
             /\ n > c.size /\ c.size >= TruncatedSize =>
                  v.size = TruncatedSize /\ v.len >= v.off
             /\ n > c.size /\ c.size < TruncatedSize =>
                  /\ v.size = c.size /\ v.len = LOG_BUF_SIZE - 1
                  /\ c.size > 0 => v.len >= v.off
             /\ n < c.size => v.size > 0 /\ v.len >= v.off
             /\ n = c.size => v.size = 0 /\ v.len = LOG_BUF_SIZE - 1
<1> DEFINE p == Printed(c, n, "text")
           v == VaDoRawLog(c, n)
<1>1. c.size \in Nat /\ c.off \in Nat /\ c.len \in Nat /\ c.off + c.size = LOG_BUF_SIZE
  BY DEF CursorOK, Cursors
<1>2. "text" \in Tails
  BY DEF Tails
<1>3. /\ CursorOK(p) /\ p.off = c.off /\ p.size = c.size /\ p.len < LOG_BUF_SIZE
      /\ c.size > 0 /\ n < c.size => p.len = c.off + n
      /\ c.size > 0 /\ n >= c.size => p.len = LOG_BUF_SIZE - 1
      /\ c.size = 0 => p = c
  BY <1>2, PrintedOK
<1>4. CASE n > c.size
  <2>1. v = Backed(p)
    BY <1>4 DEF VaDoRawLog
  <2>2. /\ CursorOK(v) /\ v.len = p.len /\ v.off >= p.off
        /\ p.size > TruncatedSize =>
             v.size = TruncatedSize /\ v.off = LOG_BUF_SIZE - TruncatedSize
        /\ p.size <= TruncatedSize => v.size = p.size /\ v.off = p.off
    BY <1>3, <2>1, BackedOK
  <2> QED
    BY <1>1, <1>3, <1>4, <2>2
<1>5. CASE n <= c.size
  <2>1. v = Advance(p, n)
    BY <1>1, <1>5 DEF VaDoRawLog
  <2>2. n \in 0..p.size
    BY <1>1, <1>3, <1>5
  <2>3. /\ CursorOK(v) /\ v.off = p.off + n /\ v.size = p.size - n
        /\ v.len = p.len /\ v.tail = p.tail
    BY <1>3, <2>1, <2>2, AdvanceOK
  <2> QED
    BY <1>1, <1>3, <1>5, <2>3
<1> QED
  BY <1>1, <1>4, <1>5

\* A text that vsnprintf refuses after k characters leaves the cursor where it was
\* and closes the string inside the buffer.
LEMMA DoRawLogErrorOK ==
  ASSUME NEW c, CursorOK(c), NEW k \in BeforeError(c)
  PROVE  LET d == DoRawLogError(c, k)
         IN  /\ CursorOK(d) /\ d.len < LOG_BUF_SIZE /\ d.off = c.off /\ d.size = c.size
             /\ c.size > 0 /\ c.len >= c.off => d.len >= d.off
<1>1. c.size \in Nat /\ c.off \in Nat /\ "text" \in Tails
  BY DEF CursorOK, Cursors, Tails
<1>2. k \in Nat /\ (c.size = 0 \/ k < c.size)
  BY <1>1 DEF BeforeError
<1> QED
  BY <1>1, <1>2, StoredOK DEF DoRawLogError

\* A message that vsnprintf refuses keeps the cursor right as well.
LEMMA VaDoRawLogErrorOK ==
  ASSUME NEW c, CursorOK(c), NEW k \in BeforeError(c)
  PROVE  LET v == VaDoRawLogError(c, k)
         IN  CursorOK(v) /\ v.len < LOG_BUF_SIZE /\ v.off >= c.off
<1>1. LET s == Stored(c, k, "text")
      IN  CursorOK(s) /\ s.len < LOG_BUF_SIZE /\ s.off = c.off
  BY DoRawLogErrorOK DEF DoRawLogError
<1> QED
  BY <1>1, BackedOK DEF VaDoRawLogError

\* A prefix leaves its string open to the message, or no room at all.
PrefixOK(c) ==
  /\ c.size > 0 => c.len >= c.off
  /\ c.size = 0 => c.len = LOG_BUF_SIZE - 1

\* Whatever the filter does with do_raw_log leaves a prefix, or nothing.
LEMMA PrefixedOK ==
  ASSUME NEW c \in Prefixed \cup {NewCursor}
  PROVE  CursorOK(c) /\ PrefixOK(c)
<1>1. /\ NewCursor.size = LOG_BUF_SIZE /\ NewCursor.off = 0
      /\ NewCursor.len = LOG_BUF_SIZE /\ CursorOK(NewCursor)
  BY NewCursorOK DEF NewCursor
<1>2. ASSUME NEW n \in PrefixLens, c = DoRawLog(NewCursor, n, "text")
      PROVE  CursorOK(c) /\ PrefixOK(c)
  <2>1. n \in Nat /\ "text" \in Tails
    BY DEF Tails
  <2>2. /\ CursorOK(c)
        /\ n < LOG_BUF_SIZE => c.len = n /\ c.off = n /\ c.size = LOG_BUF_SIZE - n
        /\ n >= LOG_BUF_SIZE => c.len = LOG_BUF_SIZE - 1
        /\ n = LOG_BUF_SIZE => c.size = 0
        /\ n > LOG_BUF_SIZE => c.off = 0 /\ c.size = LOG_BUF_SIZE
    BY <1>1, <1>2, <2>1, DoRawLogOK
  <2> QED
    BY <2>1, <2>2 DEF PrefixOK
<1>3. ASSUME NEW k \in BeforeError(NewCursor), c = DoRawLogError(NewCursor, k)
      PROVE  CursorOK(c) /\ PrefixOK(c)
  BY <1>1, <1>3, DoRawLogErrorOK DEF PrefixOK
<1> QED
  BY <1>1, <1>2, <1>3 DEF Prefixed, PrefixOK

------------------------------------------------------------------------------
(* The inductive invariant *)

\* What the message formatted so far leaves for the end of the line.
EndReady(t) ==
  /\ cur[t].off >= PrefixEnd(t)
  /\ cur[t].len < LOG_BUF_SIZE
  /\ msg[t].n > msg[t].room /\ msg[t].room >= TruncatedSize =>
       cur[t].size = TruncatedSize /\ cur[t].len >= cur[t].off
  /\ msg[t].n > msg[t].room /\ msg[t].room < TruncatedSize =>
       /\ cur[t].size = msg[t].room /\ cur[t].len = LOG_BUF_SIZE - 1
       /\ msg[t].room > 0 => cur[t].len >= cur[t].off
  /\ msg[t].n >= 0 /\ msg[t].n < msg[t].room => cur[t].size > 0 /\ cur[t].len >= cur[t].off
  /\ msg[t].n >= 0 /\ msg[t].n = msg[t].room => cur[t].size = 0 /\ cur[t].len = LOG_BUF_SIZE - 1

\* What a prefix leaves for the message.
MessageReady(t) ==
  /\ cur[t].size > 0 => cur[t].len >= cur[t].off
  /\ cur[t].size = 0 => cur[t].len = LOG_BUF_SIZE - 1

LineReady(t) ==
  /\ cur[t].off >= PrefixEnd(t)
  /\ cur[t].len < LOG_BUF_SIZE
  /\ msg[t].n > msg[t].room /\ msg[t].room >= TruncatedSize => cur[t].tail = "notice"
  /\ msg[t].n >= 0 => \/ cur[t].tail \in {"newline", "notice"}
                     \/ cur[t].len = LOG_BUF_SIZE - 1

LoggerInv(t) ==
  /\ CursorOK(cur[t])
  /\ pc[t] = "message" => MessageReady(t)
  /\ pc[t] = "end" => EndReady(t)
  /\ pc[t] = "write" => LineReady(t)

IInv == TypeOK /\ \A t \in Loggers : LoggerInv(t)

\* A logger that has not started has nothing in its buffer.
LEMMA InitInv == Init => IInv
<1> SUFFICES ASSUME Init PROVE IInv
  OBVIOUS
<1>1. HookTypeOK
  BY DEF Init, HookInit, HookTypeOK, StaticInit, Hooks, Fns, Ops
<1>2. LogTypeOK
  BY NewCursorOK DEF Init, LogTypeOK, CursorOK
<1>3. ASSUME NEW t \in Loggers PROVE LoggerInv(t)
  BY NewCursorOK DEF Init, LoggerInv
<1> QED
  BY <1>1, <1>2, <1>3 DEF IInv, TypeOK

\* A logger whose own variables do not change keeps its invariant.
LEMMA LoggerUnchanged ==
  ASSUME NEW t \in Loggers, LoggerInv(t),
         pc'[t] = pc[t], cur'[t] = cur[t], msg'[t] = msg[t]
  PROVE  LoggerInv(t)'
BY DEF LoggerInv, CursorOK, MessageReady, EndReady, LineReady, PrefixEnd

\* Every step of a logger keeps the types of the logging variables, its own
\* invariant, and everything the other loggers' invariants speak of.
LEMMA LogStepInv ==
  ASSUME IInv, NEW t \in Loggers, LogStep(t)
  PROVE  /\ HookTypeOK' /\ LogTypeOK' /\ LoggerInv(t)'
         /\ \A u \in Loggers \ {t} : pc'[u] = pc[u] /\ cur'[u] = cur[u] /\ msg'[u] = msg[u]
<1> DEFINE Goal == /\ HookTypeOK' /\ LogTypeOK' /\ LoggerInv(t)'
                   /\ \A u \in Loggers \ {t} :
                        pc'[u] = pc[u] /\ cur'[u] = cur[u] /\ msg'[u] = msg[u]
<1>1. /\ HookTypeOK /\ LogTypeOK /\ LoggerInv(t) /\ CursorOK(cur[t])
  BY DEF IInv, TypeOK, LoggerInv
<1>2. UNCHANGED hookVars => HookTypeOK'
  BY <1>1 DEF hookVars, HookTypeOK
<1>3. ASSUME NEW c \in Calls, CallRawLog(t, c) PROVE Goal
  BY <1>1, <1>2, <1>3 DEF CallRawLog, Goto, LogTypeOK, LoggerInv, CursorOK
<1>4. ASSUME NEW c \in Calls, CallInternalLog(t, c) PROVE Goal
  BY <1>1, <1>2, <1>4, LoggerUnchanged DEF CallInternalLog, Goto, LogTypeOK, LoggerInv, CursorOK
<1>5. ASSUME CallFilter(t) PROVE Goal
  <2>1. pc[t] = "filter" /\ UNCHANGED <<hookVars, call, msg>>
    BY <1>5 DEF CallFilter
  <2>2. CASE cell["filter"] = NULL
    <3>1. UNCHANGED <<pc, cur>> /\ status' = "null_call"
      BY <1>5, <2>2 DEF CallFilter
    <3> QED
      BY <1>1, <1>2, <2>1, <3>1, LoggerUnchanged DEF LogTypeOK
  <2>3. CASE cell["filter"] # NULL
    <3>1. UNCHANGED status
      BY <1>5, <2>3 DEF CallFilter
    <3>2. PICK enabled \in BOOLEAN, c \in Prefixed \cup {NewCursor} :
            /\ cur' = [cur EXCEPT ![t] = c]
            /\ Goto(t, "filter", IF enabled THEN "message" ELSE "severity")
      BY <1>5, <2>3 DEF CallFilter
    <3>3. CursorOK(c) /\ c \in Cursors /\ PrefixOK(c)
      BY PrefixedOK DEF CursorOK
    <3>4. cur'[t] = c /\ pc'[t] \in {"message", "severity"}
      BY <1>1, <3>2 DEF LogTypeOK, Goto
    <3>5. LoggerInv(t)'
      BY <3>3, <3>4 DEF LoggerInv, CursorOK, MessageReady, PrefixOK
    <3> QED
      BY <1>1, <1>2, <2>1, <3>1, <3>2, <3>3, <3>5 DEF Goto, LogTypeOK
  <2> QED
    BY <2>2, <2>3
<1>6. ASSUME Message(t) PROVE Goal
  <2> DEFINE c == cur[t]
  <2>1. /\ CursorOK(c) /\ c \in Cursors /\ c.size \in 0..LOG_BUF_SIZE
        /\ c.size > 0 => c.len >= c.off
        /\ c.size = 0 => c.len = LOG_BUF_SIZE - 1
    BY <1>1, <1>6 DEF Message, Goto, LoggerInv, MessageReady, CursorOK, Cursors
  <2>2. /\ pc' = [pc EXCEPT ![t] = "end"] /\ pc'[t] = "end"
        /\ UNCHANGED <<hookVars, call, status>>
    BY <1>1, <1>6 DEF Message, Goto, LogTypeOK
  <2>3. CASE \E n \in MsgLens :
               /\ cur' = [cur EXCEPT ![t] = VaDoRawLog(cur[t], n)]
               /\ msg' = [msg EXCEPT ![t] = [n |-> n, room |-> cur[t].size]]
    <3>1. PICK n \in MsgLens :
               /\ cur' = [cur EXCEPT ![t] = VaDoRawLog(cur[t], n)]
               /\ msg' = [msg EXCEPT ![t] = [n |-> n, room |-> cur[t].size]]
      BY <2>3
    <3> DEFINE v == VaDoRawLog(c, n)
    <3>2. n \in Nat
      OBVIOUS
    <3>3. /\ CursorOK(v) /\ v \in Cursors
          /\ v.off >= LOG_BUF_SIZE - c.size
          /\ v.len < LOG_BUF_SIZE
          /\ n > c.size /\ c.size >= TruncatedSize =>
               v.size = TruncatedSize /\ v.len >= v.off
          /\ n > c.size /\ c.size < TruncatedSize =>
               /\ v.size = c.size /\ v.len = LOG_BUF_SIZE - 1
               /\ c.size > 0 => v.len >= v.off
          /\ n < c.size => v.size > 0 /\ v.len >= v.off
          /\ n = c.size => v.size = 0 /\ v.len = LOG_BUF_SIZE - 1
      <4>1. CursorOK(v) /\ v.off >= c.off
        BY <2>1, <3>2, VaDoRawLogOK
      <4>2. v.off \in Nat /\ c.off \in Nat /\ c.off + c.size = LOG_BUF_SIZE
        BY <2>1, <4>1 DEF CursorOK, Cursors
      <4> QED
        BY <2>1, <3>2, <4>1, <4>2, VaDoRawLogOK DEF CursorOK
    <3>4. cur'[t] = v /\ msg'[t] = [n |-> n, room |-> c.size]
      BY <1>1, <3>1 DEF LogTypeOK
    <3>5. LoggerInv(t)'
      BY <2>2, <3>3, <3>4 DEF LoggerInv, EndReady, CursorOK, PrefixEnd
    <3>6. cur' \in [Loggers -> Cursors] /\ msg' \in [Loggers -> [n : Nat \cup {-1}, room : 0..LOG_BUF_SIZE]]
      BY <1>1, <2>1, <3>1, <3>3 DEF LogTypeOK
    <3> HIDE DEF v
    <3> QED
      BY <1>1, <1>2, <2>2, <3>1, <3>5, <3>6 DEF LogTypeOK
  <2>4. CASE \E k \in BeforeError(cur[t]) :
               /\ cur' = [cur EXCEPT ![t] = VaDoRawLogError(cur[t], k)]
               /\ msg' = [msg EXCEPT ![t] = [n |-> -1, room |-> cur[t].size]]
    <3>1. PICK k \in BeforeError(cur[t]) :
               /\ cur' = [cur EXCEPT ![t] = VaDoRawLogError(cur[t], k)]
               /\ msg' = [msg EXCEPT ![t] = [n |-> -1, room |-> cur[t].size]]
      BY <2>4
    <3> DEFINE v == VaDoRawLogError(c, k)
    <3>2. CursorOK(v) /\ v \in Cursors /\ v.len < LOG_BUF_SIZE /\ v.off >= LOG_BUF_SIZE - c.size
      <4>1. CursorOK(v) /\ v.off >= c.off /\ v.len < LOG_BUF_SIZE
        BY <2>1, VaDoRawLogErrorOK
      <4>2. v.off \in Nat /\ c.off \in Nat /\ c.off + c.size = LOG_BUF_SIZE
        BY <2>1, <4>1 DEF CursorOK, Cursors
      <4> QED
        BY <2>1, <4>1, <4>2 DEF CursorOK
    <3>3. cur'[t] = v /\ msg'[t] = [n |-> -1, room |-> c.size]
      BY <1>1, <3>1 DEF LogTypeOK
    <3>4. LoggerInv(t)'
      BY <2>1, <2>2, <3>2, <3>3 DEF LoggerInv, EndReady, CursorOK, PrefixEnd
    <3>5. cur' \in [Loggers -> Cursors] /\ msg' \in [Loggers -> [n : Nat \cup {-1}, room : 0..LOG_BUF_SIZE]]
      BY <1>1, <2>1, <3>1, <3>2 DEF LogTypeOK
    <3> HIDE DEF v
    <3> QED
      BY <1>1, <1>2, <2>2, <3>1, <3>4, <3>5 DEF LogTypeOK
  <2> QED
    BY <1>6, <2>3, <2>4 DEF Message
<1>7. ASSUME EndLine(t) PROVE Goal
  <2> DEFINE c == cur[t]
             m == msg[t]
             chop == ~NoChop(m.n, m.room)
             d == IF chop THEN DoRawLog(c, TruncatedSize - 1, "notice")
                          ELSE DoRawLog(c, 1, "newline")
  <2>1. /\ CursorOK(c) /\ c \in Cursors /\ c.size \in Nat /\ c.off \in Nat /\ c.len \in Nat
        /\ m.n \in Nat \cup {-1} /\ m.room \in 0..LOG_BUF_SIZE
        /\ EndReady(t)
        /\ c.off + c.size = LOG_BUF_SIZE
    BY <1>1, <1>7 DEF EndLine, Goto, LoggerInv, CursorOK, Cursors, LogTypeOK
  <2>2. /\ pc' = [pc EXCEPT ![t] = "write"] /\ pc'[t] = "write"
        /\ UNCHANGED <<hookVars, call, status>>
    BY <1>1, <1>7 DEF EndLine, Goto, LogTypeOK
  <2>13. CASE \E k \in BeforeError(c) :
                /\ cur' = [cur EXCEPT ![t] = DoRawLogError(c, k)]
                /\ msg' = [msg EXCEPT ![t].n = -1]
    <3>1. PICK k \in BeforeError(c) :
                /\ cur' = [cur EXCEPT ![t] = DoRawLogError(c, k)]
                /\ msg' = [msg EXCEPT ![t].n = -1]
      BY <2>13
    <3> DEFINE v == DoRawLogError(c, k)
    <3>2. CursorOK(v) /\ v \in Cursors /\ v.len < LOG_BUF_SIZE /\ v.off = c.off
      BY <2>1, DoRawLogErrorOK DEF CursorOK
    <3>3. cur'[t] = v /\ msg'[t] = [m EXCEPT !.n = -1]
      BY <1>1, <3>1 DEF LogTypeOK
    <3> HIDE DEF v
    <3>4. [m EXCEPT !.n = -1] \in [n : Nat \cup {-1}, room : 0..LOG_BUF_SIZE]
          /\ [m EXCEPT !.n = -1].n = -1 /\ [m EXCEPT !.n = -1].room = m.room
      BY <1>1 DEF LogTypeOK
    <3>5. LoggerInv(t)'
      BY <2>1, <2>2, <3>2, <3>3, <3>4 DEF LoggerInv, EndReady, LineReady, CursorOK, PrefixEnd, m
    <3>6. /\ cur' \in [Loggers -> Cursors]
          /\ msg' \in [Loggers -> [n : Nat \cup {-1}, room : 0..LOG_BUF_SIZE]]
      BY <1>1, <3>1, <3>2, <3>4 DEF LogTypeOK, v
    <3> QED
      BY <1>1, <1>2, <2>2, <3>1, <3>5, <3>6 DEF LogTypeOK
  <2>14. CASE cur' = [cur EXCEPT ![t] = d] /\ UNCHANGED msg
    <3>0. cur'[t] = d
      BY <1>1, <2>14 DEF LogTypeOK
    <3> DEFINE k == TruncatedSize - 1
               nl == DoRawLog(c, 1, "newline")
               nt == DoRawLog(c, k, "notice")
    <3>3. "newline" \in Tails /\ "notice" \in Tails /\ 1 \in Nat /\ k \in Nat /\ k < TruncatedSize
      BY DEF Tails
    <3>4. d = IF chop THEN nt ELSE nl
      OBVIOUS
    <3>5. chop <=> m.n < 0 \/ m.n > m.room
      BY DEF NoChop
    <3> HIDE DEF c, m, k, d, chop
    <3>6. /\ CursorOK(nt) /\ nt.off >= c.off /\ nt.len < LOG_BUF_SIZE
          /\ c.size > 0 /\ c.len >= c.off /\ k < c.size => nt.tail = "notice"
          /\ c.size > 0 /\ c.len >= c.off /\ k >= c.size => nt.len = LOG_BUF_SIZE - 1
          /\ c.size = 0 => nt.len = c.len
      <4>1. CursorOK(c)
        BY <2>1
      <4> QED
        BY ONLY <4>1, <3>3, DoRawLogOK
    <3>7. /\ CursorOK(nl) /\ nl.off >= c.off /\ nl.len < LOG_BUF_SIZE
          /\ c.size > 0 /\ c.len >= c.off /\ 1 < c.size => nl.tail = "newline"
          /\ c.size > 0 /\ c.len >= c.off /\ 1 >= c.size => nl.len = LOG_BUF_SIZE - 1
          /\ c.size = 0 => nl.len = c.len
      <4>1. CursorOK(c)
        BY <2>1
      <4> QED
        BY ONLY <4>1, <3>3, DoRawLogOK
    <3> HIDE DEF nt, nl
    <3>8. CursorOK(d) /\ d \in Cursors /\ d.len < LOG_BUF_SIZE
      BY <3>4, <3>6, <3>7 DEF CursorOK
    <3>9. m.n > m.room /\ m.room >= TruncatedSize => d.tail = "notice"
      BY <2>1, <3>3, <3>4, <3>5, <3>6 DEF EndReady, c, m
    <3>10. m.n >= 0 => d.tail \in {"newline", "notice"} \/ d.len = LOG_BUF_SIZE - 1
      <4>1. CASE m.n > m.room
        BY <2>1, <3>3, <3>4, <3>5, <3>6, <4>1 DEF EndReady, c, m
      <4>2. CASE m.n <= m.room
        BY <2>1, <3>4, <3>5, <3>7, <4>2 DEF EndReady, c, m
      <4> QED
        BY <2>1, <4>1, <4>2
    <3>11. d.off >= LOG_BUF_SIZE - m.room
      <4>1. c.off >= LOG_BUF_SIZE - m.room
        BY <2>1 DEF EndReady, PrefixEnd, c, m
      <4>2. d.off >= c.off /\ d.off \in Nat
        BY <3>4, <3>6, <3>7, <3>8 DEF Cursors
      <4> QED
        BY <2>1, <4>1, <4>2
    <3>12. LoggerInv(t)'
      BY <2>2, <2>14, <3>0, <3>8, <3>9, <3>10, <3>11 DEF LoggerInv, LineReady, CursorOK, PrefixEnd, m
    <3> QED
      BY <1>1, <1>2, <2>14, <2>2, <3>8, <3>12 DEF LogTypeOK
  <2> QED
    BY <1>7, <2>13, <2>14 DEF EndLine
<1>8. ASSUME Write(t) PROVE Goal
  BY <1>1, <1>2, <1>8 DEF Write, Goto, LogTypeOK, LoggerInv, CursorOK
<1>9. ASSUME CallAbortHook(t) PROVE Goal
  BY <1>1, <1>2, <1>9 DEF CallAbortHook, Goto, LogTypeOK, LoggerInv, CursorOK
<1>10. ASSUME Abort(t) PROVE Goal
  BY <1>1, <1>2, <1>10 DEF Abort, Goto, LogTypeOK, LoggerInv, CursorOK
<1>11. ASSUME Return(t) PROVE Goal
  BY <1>1, <1>2, <1>11, NewCursorOK DEF Return, Goto, LogTypeOK, LoggerInv, CursorOK
<1> QED
  BY <1>3, <1>4, <1>5, <1>6, <1>7, <1>8, <1>9, <1>10, <1>11 DEF LogStep

\* A step of a logger or of a thread that sets hooks keeps the invariant.
LEMMA StepInv == IInv /\ [Next]_vars => IInv'
<1> SUFFICES ASSUME IInv, [Next]_vars PROVE IInv'
  OBVIOUS
<1>1. ASSUME NEW t \in Loggers, LogStep(t) PROVE IInv'
  <2>1. /\ HookTypeOK' /\ LogTypeOK' /\ LoggerInv(t)'
        /\ \A u \in Loggers \ {t} : pc'[u] = pc[u] /\ cur'[u] = cur[u] /\ msg'[u] = msg[u]
    BY <1>1, LogStepInv
  <2>2. ASSUME NEW u \in Loggers PROVE LoggerInv(u)'
    BY <2>1, LoggerUnchanged DEF IInv
  <2> QED
    BY <2>1, <2>2 DEF IInv, TypeOK
<1>2. ASSUME UNCHANGED logVars, HookTypeOK' PROVE IInv'
  <2>1. LogTypeOK'
    BY <1>2 DEF IInv, TypeOK, LogTypeOK, logVars
  <2>2. ASSUME NEW u \in Loggers PROVE LoggerInv(u)'
    BY <1>2, LoggerUnchanged DEF IInv, logVars
  <2> QED
    BY <1>2, <2>1, <2>2 DEF IInv, TypeOK
<1>3. CASE SetHooks
  BY <1>2, <1>3, HookStepType DEF SetHooks, HookNext, IInv, TypeOK
<1>4. CASE UNCHANGED vars
  <2>1. UNCHANGED logVars /\ HookTypeOK'
    BY <1>4 DEF vars, hookVars, HookTypeOK, IInv, TypeOK
  <2> QED
    BY <1>2, <2>1
<1> QED
  BY <1>1, <1>3, <1>4 DEF Next

------------------------------------------------------------------------------
(* Theorems *)

\* The inductive invariant holds in every reachable state.
THEOREM Invariant == Spec => []IInv
BY InitInv, StepInv, PTL DEF Spec

\* Every variable keeps to its type, for every buffer and notice size.
THEOREM TypeCorrect == Spec => []TypeOK
<1>1. IInv => TypeOK
  BY DEF IInv
<1> QED
  BY <1>1, Invariant, PTL

\* No formatting call is ever told of more room than its pointer has, and the
\* string that is written to stderr ends inside the buffer.
THEOREM Bounds == Spec => []BufferInBounds
<1>1. IInv => BufferInBounds
  BY DEF IInv, LoggerInv, LineReady, CursorOK, BufferInBounds
<1> QED
  BY <1>1, Invariant, PTL

\* The prefix the filter hook wrote is never written over.
THEOREM Prefix == Spec => []PrefixKept
<1>1. IInv => PrefixKept
  BY DEF IInv, LoggerInv, EndReady, LineReady, PrefixKept
<1> QED
  BY <1>1, Invariant, PTL

\* A message longer than its room always ends in the notice if that had room.
THEOREM Announced == Spec => []OverflowAnnounced
<1>1. IInv => OverflowAnnounced
  BY DEF IInv, LoggerInv, LineReady, OverflowAnnounced
<1> QED
  BY <1>1, Invariant, PTL

\* The end of a line is lost only to a full buffer.
THEOREM EndLost == Spec => []OnlyAFullBufferLosesTheEnd
<1>1. IInv => OnlyAFullBufferLosesTheEnd
  BY DEF IInv, LoggerInv, LineReady, OnlyAFullBufferLosesTheEnd
<1> QED
  BY <1>1, Invariant, PTL

\* Nothing brings a thread back from an EMERGENCY to the caller of raw_log.
THEOREM NoReturn == Spec => EmergencyNeverReturns
<1> DEFINE Stays(t) == pc[t] # "idle" /\ call[t].sev = "EMERGENCY" => pc'[t] # "idle"
<1>1. IInv /\ [Next]_vars => [\A t \in Loggers : Stays(t)]_vars
  <2> SUFFICES ASSUME IInv, Next, NEW t \in Loggers PROVE Stays(t)
    BY DEF vars
  <2>1. /\ pc \in [Loggers ->
                {"idle", "filter", "message", "end", "write", "severity", "abort"}]
        /\ call \in [Loggers -> Calls \cup {NoCall}]
    BY DEF IInv, TypeOK, LogTypeOK
  <2>2. ASSUME NEW u \in Loggers, LogStep(u), u # t PROVE Stays(t)
    BY <2>1, <2>2, LogStepInv
  <2>3. ASSUME LogStep(t) PROVE Stays(t)
    <3>1. ASSUME NEW c \in Calls, CallRawLog(t, c) \/ CallInternalLog(t, c) PROVE Stays(t)
      BY <2>1, <3>1 DEF CallRawLog, CallInternalLog, Goto
    <3>2. CASE CallFilter(t) \/ Message(t) \/ EndLine(t) \/ Write(t)
      BY <2>1, <3>2 DEF CallFilter, Message, EndLine, Write, Goto
    <3>3. CASE CallAbortHook(t) \/ Abort(t) \/ Return(t)
      BY <2>1, <3>3 DEF CallAbortHook, Abort, Return, Goto
    <3> QED
      BY <2>3, <3>1, <3>2, <3>3 DEF LogStep
  <2>4. ASSUME UNCHANGED pc PROVE Stays(t)
    BY <2>4
  <2> QED
    BY <2>2, <2>3, <2>4 DEF Next, SetHooks, logVars
<1> QED
  BY <1>1, Invariant, PTL DEF Spec, EmergencyNeverReturns

\* The filter and the internal cell are emptied by a registration of the null
\* pointer and by nothing else that any thread does (raw_logging.c:194-243).
THEOREM OnlyRegistered == Spec => OnlyARegistrationEmpties
<1> DEFINE Emptied(h) == cell[h] # NULL /\ cell'[h] = NULL
           Kept == \A h \in {"filter", "internal"} :
                     Emptied(h) => \E t \in Threads : Register(t, h, NULL)
<1>1. IInv /\ [Next]_vars => [Kept]_vars
  <2> SUFFICES ASSUME IInv, Next PROVE Kept
    OBVIOUS
  <2>1. /\ cell \in [Hooks -> Fns \cup {NULL}]
        /\ op \in [Threads -> Ops]
        /\ NULL \notin Fns
        /\ \A h \in Hooks : FnsOf(h) \subseteq Fns
    BY CustomAssumption DEF IInv, TypeOK, HookTypeOK, Fns, FnsOf, Default, Hooks
  <2>2. ASSUME UNCHANGED cell PROVE Kept
    BY <2>2
  <2>3. ASSUME NEW h \in Hooks, NEW f, f # NULL \/ h = "abort", cell' = [cell EXCEPT ![h] = f]
        PROVE  Kept
    BY <2>1, <2>3
  <2>4. ASSUME NEW t \in Threads, HookStep(t) PROVE Kept
    <3>1. ASSUME NEW h \in Hooks, NEW f \in FnsOf(h), StoreLoad(t, h, f) PROVE Kept
      BY <2>2, <3>1 DEF StoreLoad
    <3>2. ASSUME StoreCas(t) PROVE Kept
      <4>1. op[t].hook \in Hooks /\ op[t].fn \in Fns
        <5>1. op[t] \in [pc : {"cas"}, hook : Hooks, fn : Fns, expected : Fns \cup {NULL}]
          BY <2>1, <3>2 DEF StoreCas, Ops, IdleOp
        <5> QED
          BY <5>1
      <4>2. \/ cell' = [cell EXCEPT ![op[t].hook] = op[t].fn]
            \/ UNCHANGED cell
        BY <3>2 DEF StoreCas
      <4> QED
        BY <2>1, <2>2, <2>3, <4>1, <4>2
    <3>3. ASSUME NEW h \in Hooks, NEW f \in FnsOf(h) \cup {NULL}, Register(t, h, f) PROVE Kept
      <4>1. CASE f = NULL
        <5>1. \A g \in Hooks \ {h} : cell'[g] = cell[g]
          BY <2>1, <3>3 DEF Register
        <5> QED
          BY <3>3, <4>1, <5>1 DEF Hooks
      <4>2. CASE f # NULL
        BY <2>3, <3>3, <4>2 DEF Register
      <4> QED
        BY <4>1, <4>2
    <3>4. CASE InitFilter(t) \/ InitAbort(t) \/ InitInternal(t)
      <4>1. /\ Default["filter"] # NULL /\ Default["internal"] # NULL
            /\ {"filter", "abort", "internal"} = Hooks
        BY CustomAssumption DEF Default, Hooks
      <4> QED
        BY <2>3, <3>4, <4>1 DEF InitFilter, InitAbort, InitInternal, InitStep
    <3> QED
      BY <2>4, <3>1, <3>2, <3>3, <3>4 DEF HookStep
  <2>5. ASSUME NEW t \in Loggers, LogStep(t) PROVE Kept
    BY <2>2, <2>5 DEF LogStep, CallRawLog, CallInternalLog, CallFilter, Message, EndLine, Write,
                      CallAbortHook, Abort, Return, hookVars
  <2> QED
    BY <2>4, <2>5 DEF Next, SetHooks, HookNext
<1> QED
  BY <1>1, Invariant, PTL DEF Spec, OnlyARegistrationEmpties

\* Whatever the loggers do, the hook cells beside them promise what HookCells
\* says: a logger reads the cells and never writes one (raw_logging.c).
THEOREM LoggersOnlyRead == Spec => ImplementsHookCells
<1>1. Init => HookInit
  BY DEF Init
<1>2. IInv /\ [Next]_vars => [HookNext]_hookVars
  <2> SUFFICES ASSUME [Next]_vars PROVE [HookNext]_hookVars
    OBVIOUS
  <2>1. CASE \E t \in Loggers : LogStep(t)
    BY <2>1 DEF LogStep, CallRawLog, CallInternalLog, CallFilter, Message, EndLine, Write,
                CallAbortHook, Abort, Return, hookVars
  <2>2. CASE SetHooks
    BY <2>2 DEF SetHooks
  <2>3. CASE UNCHANGED vars
    BY <2>3 DEF vars, hookVars
  <2> QED
    BY <2>1, <2>2, <2>3 DEF Next
<1> QED
  BY <1>1, <1>2, Implements, Invariant, PTL DEF Spec, HookSpec
==============================================================================
