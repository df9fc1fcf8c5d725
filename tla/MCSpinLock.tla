------------------------------ MODULE MCSpinLock ------------------------------
(***************************************************************************)
(* Four threads try one lock, of either mode, again and again.             *)
(***************************************************************************)
EXTENDS SpinLock
===============================================================================
