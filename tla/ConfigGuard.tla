---------------------------- MODULE ConfigGuard ----------------------------
(***************************************************************************)
(* What the guard on severing configuration promises, with no word about   *)
(* how.  A robot's transport configuration is `disk'; `good' is the last   *)
(* one its telemetry vouched for.  A change is pending from the moment it  *)
(* is announced until it is either kept, which makes it the good one, or   *)
(* undone, which puts the good one back.  Nothing but a pending change may *)
(* touch the disk.  SeveringConfig implements this with a journal file,    *)
(* two configuration files, a restart and a watch on the fabric.           *)
(***************************************************************************)

CONSTANT Configs        \* the transport configurations a robot can hold

VARIABLES
  disk,                 \* what the configuration files say
  good,                 \* the last configuration telemetry vouched for
  pending               \* whether a change is open

vars == <<disk, good, pending>>

Init ==
  /\ good \in Configs
  /\ disk = good
  /\ pending = FALSE

Announce ==
  /\ ~pending
  /\ pending' = TRUE
  /\ UNCHANGED <<disk, good>>

Change ==
  /\ pending
  /\ disk' \in Configs
  /\ UNCHANGED <<good, pending>>

Keep ==
  /\ pending
  /\ pending' = FALSE
  /\ good' = disk
  /\ UNCHANGED disk

Undone ==
  /\ pending
  /\ disk = good
  /\ pending' = FALSE
  /\ UNCHANGED <<disk, good>>

Next == Announce \/ Change \/ Keep \/ Undone

Spec == Init /\ [][Next]_vars
=============================================================================
