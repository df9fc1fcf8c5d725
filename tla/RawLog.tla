-------------------------------- MODULE RawLog --------------------------------
(***************************************************************************)
(* Raw logging (raw_logging.c, raw_logging.h): each logging thread formats *)
(* one record into a buffer of its own, writes it to stderr with one call, *)
(* and stops the process after an EMERGENCY.  Other threads set the hook   *)
(* cells meanwhile (module AtomicHook); a logger reads a cell each time it *)
(* calls through it.                                                       *)
(*                                                                         *)
(* Text is a cursor: where the next byte goes, how many bytes are left,    *)
(* how long the C string in the buffer is and what that string ends with.  *)
(***************************************************************************)
EXTENDS Integers, AtomicHook

CONSTANTS Loggers,      \* the threads that log
          LOG_BUF_SIZE, \* bytes of the record buffer
          TruncatedSize,\* sizeof(truncated), its NUL included
          PrefixLens,   \* lengths a filter hook may format in front
          MsgLens       \* lengths of formatted messages

ASSUME BufferAssumption ==
  /\ LOG_BUF_SIZE \in Nat \ {0}
  /\ TruncatedSize \in Nat \ {0}
  /\ PrefixLens \subseteq Nat
  /\ MsgLens \subseteq Nat

VARIABLES pc,      \* where each logger is
          call,    \* the call it is in: entry point and severity
          cur,     \* the cursor into its buffer
          msg,     \* its message: what vsnprintf returned, and the room it had;
                   \* -1 when vsnprintf failed, here or for the end of the line
          status   \* the process

logVars == <<pc, call, cur, msg, status>>
vars == <<hookVars, logVars>>

\* INFO stands for every severity that neither raw_log nor the macros single out.
Severities == {"INFO", "EMERGENCY", "FATAL"}

Vias == {"raw_log", "CIC_RAW_LOG", "CIC_INTERNAL_LOG"}

\* CIC_RAW_LOG compiles only for the severities raw_logging.h has a macro for.
Calls == {c \in [via : Vias, sev : Severities] :
            c.via = "CIC_RAW_LOG" => c.sev # "EMERGENCY"}

NoCall == [via |-> "none", sev |-> "INFO"]

Tails == {"none", "text", "newline", "notice"}

Cursors == [off : 0..LOG_BUF_SIZE, size : 0..LOG_BUF_SIZE, len : 0..LOG_BUF_SIZE, tail : Tails]

\* A new buffer: no NUL yet, so its string has no end within it.
NewCursor == [off |-> 0, size |-> LOG_BUF_SIZE, len |-> LOG_BUF_SIZE, tail |-> "none"]

------------------------------------------------------------------------------
(* Formatting *)

Least(a, b) == IF a < b THEN a ELSE b

\* What vsnprintf leaves when it stores k characters and a NUL at the cursor:
\* with no room it stores nothing, and behind an earlier NUL nobody sees it.
Stored(c, k, tail) ==
  IF c.size > 0 /\ c.len >= c.off
  THEN [c EXCEPT !.len = c.off + k, !.tail = tail]
  ELSE c

\* vsnprintf of a text of n characters: at most size - 1 of them, and only a
\* whole newline or notice is one.
Printed(c, n, tail) ==
  Stored(c, Least(n, c.size - 1), IF n < c.size THEN tail ELSE "text")

\* Slip: moves the pointer and forgets the count.
AdvancePointerOnly(c, n) == [c EXCEPT !.off = c.off + n]

Advance(c, n) == [c EXCEPT !.off = c.off + n, !.size = c.size - n]

\* Slip: takes what vsnprintf would have stored for what it stored.
DoRawLogUnchecked(c, n, tail) == Advance(Printed(c, n, tail), n)

\* do_raw_log: a text that does not fit stays, cut, but the cursor does not move;
\* a negative size (line 75) would change nothing, as here.
DoRawLog(c, n, tail) ==
  IF n > c.size THEN Printed(c, n, tail) ELSE Advance(Printed(c, n, tail), n)

\* Slip: steps back even when the rest is shorter than the notice.
BackedAlways(c) == Advance(c, c.size - TruncatedSize)

\* The step back of va_do_raw_log that leaves room for the truncation notice.
Backed(c) == Advance(c, IF c.size > TruncatedSize THEN c.size - TruncatedSize ELSE 0)

\* Slip: takes the NUL for a part of the message.
VaDoRawLogPastNul(c, n) ==
  IF n >= c.size THEN Backed(Printed(c, n, "text")) ELSE Advance(Printed(c, n, "text"), n + 1)

\* va_do_raw_log of a message of n characters; a negative size (line 54) would
\* change nothing, as here.
VaDoRawLog(c, n) ==
  IF n > c.size THEN Backed(Printed(c, n, "text")) ELSE Advance(Printed(c, n, "text"), n)

\* va_do_raw_log when vsnprintf fails after k characters.
VaDoRawLogError(c, k) == Backed(Stored(c, k, "text"))

\* Slip: only an error of vsnprintf counts as a cut.
NoChopUnlessError(n, size) == n >= 0

\* The result of va_do_raw_log.
NoChop(n, size) == ~(n < 0 \/ n > size)

\* do_raw_log when vsnprintf fails after k characters: the cursor does not move.
DoRawLogError(c, k) == Stored(c, k, "text")

\* How many characters a vsnprintf that fails may have stored.
BeforeError(c) == {0} \cup 0..(c.size - 1)

------------------------------------------------------------------------------
Init ==
  /\ HookInit
  /\ pc = [t \in Loggers |-> "idle"]
  /\ call = [t \in Loggers |-> NoCall]
  /\ cur = [t \in Loggers |-> NewCursor]
  /\ msg = [t \in Loggers |-> [n |-> 0, room |-> 0]]
  /\ status = "running"

Running == status = "running"

Goto(t, from, to) == pc[t] = from /\ pc' = [pc EXCEPT ![t] = to]

\* raw_log called directly, or by the macro CIC_RAW_LOG.
CallRawLog(t, c) ==
  /\ Running
  /\ c.via # "CIC_INTERNAL_LOG"
  /\ Goto(t, "idle", "filter")
  /\ call' = [call EXCEPT ![t] = c]
  /\ UNCHANGED <<hookVars, cur, msg, status>>

\* CIC_INTERNAL_LOG calls through its cell: default_internal_log is raw_log, a
\* function of the application's does what it likes with the message, and the
\* empty cell ends the process.
CallInternalLog(t, c) ==
  /\ Running
  /\ c.via = "CIC_INTERNAL_LOG"
  /\ pc[t] = "idle"
  /\ \/ /\ cell["internal"] = DefaultInternal
        /\ Goto(t, "idle", "filter")
        /\ call' = [call EXCEPT ![t] = c]
        /\ UNCHANGED status
     \/ /\ cell["internal"] = NULL
        /\ status' = "null_call"
        /\ UNCHANGED <<pc, call>>
  /\ UNCHANGED <<hookVars, cur, msg>>

\* What a filter hook may leave in the buffer, which it writes by do_raw_log.
Prefixed == {DoRawLog(NewCursor, n, "text") : n \in PrefixLens}
            \cup {DoRawLogError(NewCursor, k) : k \in BeforeError(NewCursor)}

\* raw_log_va calls the filter, with no test for null.  The default one prefixes
\* a position and lets the record through; another may do either.
CallFilter(t) ==
  /\ Running
  /\ pc[t] = "filter"
  /\ IF cell["filter"] = NULL
     THEN status' = "null_call" /\ UNCHANGED <<pc, cur>>
     ELSE /\ \E enabled \in BOOLEAN, c \in Prefixed \cup {NewCursor} :
               /\ cell["filter"] = DefaultFilter => enabled /\ c \in Prefixed
               /\ cur' = [cur EXCEPT ![t] = c]
               /\ Goto(t, "filter", IF enabled THEN "message" ELSE "severity")
          /\ UNCHANGED status
  /\ UNCHANGED <<hookVars, call, msg>>

\* raw_log_va formats the message.
Message(t) ==
  /\ Running
  /\ Goto(t, "message", "end")
  /\ \/ \E n \in MsgLens :
          /\ cur' = [cur EXCEPT ![t] = VaDoRawLog(cur[t], n)]
          /\ msg' = [msg EXCEPT ![t] = [n |-> n, room |-> cur[t].size]]
     \/ \E k \in BeforeError(cur[t]) :
          /\ cur' = [cur EXCEPT ![t] = VaDoRawLogError(cur[t], k)]
          /\ msg' = [msg EXCEPT ![t] = [n |-> -1, room |-> cur[t].size]]
  /\ UNCHANGED <<hookVars, call, status>>

\* raw_log_va ends the line: a newline, or the notice if the message was cut,
\* unless vsnprintf fails.
EndLine(t) ==
  /\ Running
  /\ Goto(t, "end", "write")
  /\ \/ /\ cur' = [cur EXCEPT ![t] =
                    IF NoChop(msg[t].n, msg[t].room)
                    THEN DoRawLog(cur[t], 1, "newline")
                    ELSE DoRawLog(cur[t], TruncatedSize - 1, "notice")]
        /\ UNCHANGED msg
     \/ \E k \in BeforeError(cur[t]) :
          /\ cur' = [cur EXCEPT ![t] = DoRawLogError(cur[t], k)]
          /\ msg' = [msg EXCEPT ![t].n = -1]
  /\ UNCHANGED <<hookVars, call, status>>

\* async_signal_safe_write_stderr(buffer, strlen(buffer)): the line is what the
\* cursor says at "write", and the result of the write is ignored.
Write(t) ==
  /\ Running
  /\ Goto(t, "write", "severity")
  /\ UNCHANGED <<hookVars, call, cur, msg, status>>

\* Slip: calls the abort hook, and aborts, only if there is a hook.
CallAbortHookIfSet(t) ==
  /\ Running
  /\ pc[t] = "severity"
  /\ call[t].sev = "EMERGENCY"
  /\ Goto(t, "severity", IF cell["abort"] = NULL THEN "idle" ELSE "abort")
  /\ UNCHANGED <<hookVars, call, cur, msg, status>>

\* After an EMERGENCY raw_log_va calls the abort hook, with no test for null.
CallAbortHook(t) ==
  /\ Running
  /\ pc[t] = "severity"
  /\ call[t].sev = "EMERGENCY"
  /\ IF cell["abort"] = NULL
     THEN status' = "null_call" /\ UNCHANGED pc
     ELSE Goto(t, "severity", "abort") /\ UNCHANGED status
  /\ UNCHANGED <<hookVars, call, cur, msg>>

\* The abort hook returned: abort().
Abort(t) ==
  /\ Running
  /\ pc[t] = "abort"
  /\ status' = "aborted"
  /\ UNCHANGED <<hookVars, pc, call, cur, msg>>

\* Slip: FATAL, not EMERGENCY, is the severity that does not return.
ReturnUnlessFatal(t) ==
  /\ Running
  /\ pc[t] = "severity"
  /\ call[t].sev # "FATAL"
  /\ Goto(t, "severity", "idle")
  /\ call' = [call EXCEPT ![t] = NoCall]
  /\ UNCHANGED <<hookVars, cur, msg, status>>

\* Any other severity returns to the caller.  The macro has put CIC_UNREACHABLE
\* behind a FATAL call: an assertion failure, or undefined behaviour.
Return(t) ==
  /\ Running
  /\ pc[t] = "severity"
  /\ call[t].sev # "EMERGENCY"
  /\ Goto(t, "severity", "idle")
  /\ call' = [call EXCEPT ![t] = NoCall]
  /\ cur' = [cur EXCEPT ![t] = NewCursor]
  /\ msg' = [msg EXCEPT ![t] = [n |-> 0, room |-> 0]]
  /\ status' = IF call[t].via = "CIC_RAW_LOG" /\ call[t].sev = "FATAL"
               THEN "unreachable" ELSE status
  /\ UNCHANGED hookVars

LogStep(t) ==
  \/ \E c \in Calls : CallRawLog(t, c)
  \/ \E c \in Calls : CallInternalLog(t, c)
  \/ CallFilter(t)
  \/ Message(t)
  \/ EndLine(t)
  \/ Write(t)
  \/ CallAbortHook(t)
  \/ Abort(t)
  \/ Return(t)

SetHooks == Running /\ HookNext /\ UNCHANGED logVars

Next == SetHooks \/ \E t \in Loggers : LogStep(t)

Spec == Init /\ [][Next]_vars

\* A logger that can take a step of the call it is in takes one, eventually.
Fairness == \A t \in Loggers :
  WF_vars(pc[t] # "idle" /\ (CallFilter(t) \/ Message(t) \/ EndLine(t) \/ Write(t)
                              \/ CallAbortHook(t) \/ Abort(t) \/ Return(t)))

FairSpec == Spec /\ Fairness

------------------------------------------------------------------------------
(* Properties *)

LogTypeOK ==
  /\ pc \in [Loggers -> {"idle", "filter", "message", "end", "write", "severity", "abort"}]
  /\ call \in [Loggers -> Calls \cup {NoCall}]
  /\ cur \in [Loggers -> Cursors]
  /\ msg \in [Loggers -> [n : Nat \cup {-1}, room : 0..LOG_BUF_SIZE]]
  /\ status \in {"running", "aborted", "null_call", "unreachable"}

\* Every variable keeps to the values the code can give it.
TypeOK == HookTypeOK /\ LogTypeOK

\* The pointer and the count that raw_log_va hands from one formatting call to
\* the next always describe the same rest of the buffer, so no vsnprintf stores
\* past its end, and the string is closed within the buffer before strlen in the
\* call of async_signal_safe_write_stderr walks it (raw_logging.c:53-84, 119-129).
BufferInBounds == \A t \in Loggers :
  /\ cur[t].off + cur[t].size = LOG_BUF_SIZE
  /\ pc[t] = "write" => cur[t].len < LOG_BUF_SIZE

\* Where the message begins: prefix_end, for the abort hook.
PrefixEnd(t) == LOG_BUF_SIZE - msg[t].room

\* Neither the message nor the step back for the notice goes back over the prefix:
\* what the abort hook is given as the prefix is still what the filter hook wrote
\* there (raw_logging.c:57-66, 117, 138).
PrefixKept == \A t \in Loggers :
  pc[t] \in {"end", "write"} => cur[t].off >= PrefixEnd(t)

\* A message longer than the room it had is always announced: the line written
\* ends in the whole notice whenever the notice had room (raw_logging.c:53-68).
OverflowAnnounced == \A t \in Loggers :
  pc[t] = "write" /\ msg[t].n > msg[t].room /\ msg[t].room >= TruncatedSize
    => cur[t].tail = "notice"

\* A line lacks both the newline and the notice only because the buffer is full
\* to its last byte, or because vsnprintf itself failed (raw_logging.c:121-126).
OnlyAFullBufferLosesTheEnd == \A t \in Loggers :
  pc[t] = "write" /\ msg[t].n >= 0 /\ cur[t].tail \notin {"newline", "notice"}
    => cur[t].len = LOG_BUF_SIZE - 1

\* No logging thread gets back to its caller from an EMERGENCY, whatever hooks
\* are installed or removed while it formats (raw_logging.c:136-140).
EmergencyNeverReturns ==
  [][\A t \in Loggers : pc[t] # "idle" /\ call[t].sev = "EMERGENCY" => pc'[t] # "idle"]_vars

\* An EMERGENCY brings the process down, whatever hooks are installed or removed
\* while it formats: by abort(), or by the call through an empty hook cell.
EmergencyStops == \A t \in Loggers :
  (pc[t] # "idle" /\ call[t].sev = "EMERGENCY") ~> ~Running

\* The cells that raw_log_va and CIC_INTERNAL_LOG call through with no test for
\* null become empty in one way only, a registration of the null pointer: no
\* store, no interrupted store and no second atomic_hook_init empties them
\* (raw_logging.c:194-243).
OnlyARegistrationEmpties ==
  [][\A h \in {"filter", "internal"} :
       cell[h] # NULL /\ cell'[h] = NULL => \E t \in Threads : Register(t, h, NULL)]_vars

\* raw_logging.h:18 puts CIC_UNREACHABLE() behind a FATAL CIC_RAW_LOG, which
\* says that raw_log does not return from it; optimization.h asserts the same.
FatalNeverReturns == status # "unreachable"

\* raw_logging.c:62 excuses a missing notice only by "no room for truncation
\* message": a message that was cut and had that room should end in the notice.
CutMessageIsMarked == \A t \in Loggers :
  pc[t] = "write" /\ msg[t].n >= msg[t].room /\ msg[t].room >= TruncatedSize
    => cur[t].tail = "notice"
==============================================================================
