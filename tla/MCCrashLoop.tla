---------------------------- MODULE MCCrashLoop ----------------------------
(* Instances of CrashLoop for TLC. *)
EXTENDS CrashLoop

CONSTANTS c1, p1, p2
=============================================================================
