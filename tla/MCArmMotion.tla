---------------------------- MODULE MCArmMotion ----------------------------
(***************************************************************************)
(* An instance of ArmMotion for TLC: two calls that overlap, and a mover   *)
(* that one of them waits for or a lost call has left behind.              *)
(***************************************************************************)
EXTENDS ArmMotion

CONSTANTS h1, h2, m1, m2
=============================================================================
