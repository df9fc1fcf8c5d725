------------------------------- MODULE MCRawLog -------------------------------
(***************************************************************************)
(* Raw logging on a buffer of six bytes with a notice of two characters:   *)
(* every relation of prefix, message and notice to the room left occurs.   *)
(***************************************************************************)
EXTENDS RawLog

\* Prefixes that leave much room, room for a bare notice, one byte and none,
\* and one that is longer than the buffer.
MCPrefixLens == {1, 3, 5, 6, 7}

\* Messages from empty to longer than the whole buffer.
MCMsgLens == 0..(LOG_BUF_SIZE + 1)

\* The shortest prefix alone.
MCShortPrefix == {1}
===============================================================================
