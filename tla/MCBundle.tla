------------------------------ MODULE MCBundle ------------------------------
(***************************************************************************)
(* An instance of Bundle for TLC: two calls that overlap, while a stage    *)
(* runs.                                                                   *)
(***************************************************************************)
EXTENDS Bundle, TLC

(* Calls differ in nothing but what they set.                              *)
Alike == Permutations(Writers)
=============================================================================
