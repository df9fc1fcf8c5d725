---- MODULE MCThreadIds ----
(* The fallback GetTID with three threads and words of two bits, so that the vector
   grows twice and ids are asked for while others are on their way to the key. *)
EXTENDS ThreadIds
====
