---------------------------- MODULE MCPoseMover ----------------------------
(***************************************************************************)
(* Instances of PoseMover for TLC.  A joint may have to turn by a radian   *)
(* (the shortest move there is), by six (the longest that is still started,*)
(* when no time has been lost) or by more.                                 *)
(***************************************************************************)
EXTENDS PoseMover
=============================================================================
