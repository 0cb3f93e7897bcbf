----------------------------- MODULE StageSwap -----------------------------
(***************************************************************************)
(* stage.py: one run of `fm robot stage' replaces the managed entries of   *)
(* the description bundle by those of a checkout, with renames that can    *)
(* fail, and be undone, one at a time.                                     *)
(***************************************************************************)
EXTENDS Naturals

VARIABLES
  at,             \* where the run is
  bundle,         \* each managed entry of the bundle: gone, old or new
  before,         \* history: what the bundle was
  aside,          \* the entries that were moved out of the bundle
  fresh,          \* the copied entries that are not yet in the bundle
  placed,         \* the entries that were moved into it
  upset,          \* history: the undoing failed, or the run was interrupted
  outcome         \* what the run ended with: none, staged or error

staging == <<at, bundle, before, aside, fresh, placed, upset, outcome>>

New     == {"robot.urdf", "packages"}
Managed == New \cup {"arms", "grippers"}

(* MANAGED is moved in its order, the new entries in any.                  *)
Order == [n \in Managed |-> CASE n = "robot.urdf" -> 1 [] n = "packages" -> 2
                              [] n = "arms" -> 3 [] n = "grippers" -> 4]

StageSteps == {"copy", "setAside", "place", "unplace", "putBack", "clean", "over"}

-----------------------------------------------------------------------------
(* Nothing staged yet, staged before, or copied by hand.                   *)
StageInit ==
  /\ at = "copy"
  /\ \E there \in {{}, New, Managed \ {"packages"}} :
       bundle = [n \in Managed |-> IF n \in there THEN "old" ELSE "gone"]
  /\ before = bundle
  /\ aside = {}
  /\ fresh = {}
  /\ placed = {}
  /\ upset = FALSE
  /\ outcome = "none"

(* The copies are made beside the bundle, in a directory of the run's own; *)
(* a checkout or a bundle that does not pass is refused, and a copy can    *)
(* fail.                                                                   *)
Copy ==
  /\ at = "copy"
  /\ \/ at' = "setAside" /\ fresh' = New /\ UNCHANGED outcome
     \/ at' = "clean" /\ outcome' = "error" /\ UNCHANGED fresh
  /\ UNCHANGED <<bundle, before, aside, placed, upset>>

Present == {n \in Managed : bundle[n] # "gone"}

SetAside ==
  /\ at = "setAside"
  /\ \/ Present = {} /\ at' = "place" /\ UNCHANGED <<bundle, aside>>
     \/ \E n \in Present :
          /\ \A o \in Present : Order[n] <= Order[o]
          /\ bundle' = [bundle EXCEPT ![n] = "gone"]
          /\ aside' = aside \cup {n}
          /\ UNCHANGED at
  /\ UNCHANGED <<before, fresh, placed, upset, outcome>>

Place ==
  /\ at = "place"
  /\ \/ /\ fresh = {}
        /\ at' = "clean"
        /\ outcome' = "staged"
        /\ UNCHANGED <<bundle, fresh, placed>>
     \/ \E n \in fresh :
          /\ bundle' = [bundle EXCEPT ![n] = "new"]
          /\ fresh' = fresh \ {n}
          /\ placed' = placed \cup {n}
          /\ UNCHANGED <<at, outcome>>
  /\ UNCHANGED <<before, aside, upset>>

(* Mutant: only the old entries are put back.                              *)
MoveFailsOver ==
  /\ at \in {"setAside", "place"}
  /\ at' = "putBack"
  /\ outcome' = "error"
  /\ placed' = {}
  /\ UNCHANGED <<bundle, before, aside, fresh, upset>>

(* A rename raises OSError: the moves made so far are undone.              *)
MoveFails ==
  /\ at \in {"setAside", "place"}
  /\ at' = "unplace"
  /\ outcome' = "error"
  /\ UNCHANGED <<bundle, before, aside, fresh, placed, upset>>

Unplace ==
  /\ at = "unplace"
  /\ \/ placed = {} /\ at' = "putBack" /\ UNCHANGED <<bundle, placed>>
     \/ \E n \in placed :
          /\ bundle' = [bundle EXCEPT ![n] = "gone"]
          /\ placed' = placed \ {n}
          /\ UNCHANGED at
  /\ UNCHANGED <<before, aside, fresh, upset, outcome>>

PutBack ==
  /\ at = "putBack"
  /\ \/ aside = {} /\ at' = "clean" /\ UNCHANGED <<bundle, aside>>
     \/ \E n \in aside :
          /\ bundle' = [bundle EXCEPT ![n] = "old"]
          /\ aside' = aside \ {n}
          /\ UNCHANGED at
  /\ UNCHANGED <<before, fresh, placed, upset, outcome>>

(* The undoing raises in its turn, or the run is interrupted, which is no  *)
(* OSError: nothing (more) is undone.                                      *)
Abandon ==
  /\ at \in StageSteps \ {"clean", "over"}
  /\ at' = "clean"
  /\ upset' = TRUE
  /\ outcome' = "error"
  /\ UNCHANGED <<bundle, before, aside, fresh, placed>>

(* finally: the run's own directory goes, with what is still in it.        *)
Clean ==
  /\ at = "clean"
  /\ at' = "over"
  /\ aside' = {}
  /\ fresh' = {}
  /\ UNCHANGED <<bundle, before, placed, upset, outcome>>

(* Killed, or the power lost: the directory stays beside the bundle.       *)
Killed ==
  /\ at # "over"
  /\ at' = "over"
  /\ upset' = TRUE
  /\ UNCHANGED <<bundle, before, aside, fresh, placed, outcome>>

StageNext ==
  Copy \/ SetAside \/ Place \/ MoveFails \/ Unplace \/ PutBack \/ Abandon \/ Clean \/ Killed

-----------------------------------------------------------------------------
(* Properties.                                                             *)

(* Every variable stays in its type.                                       *)
StageTypeOK ==
  /\ at \in StageSteps
  /\ bundle \in [Managed -> {"gone", "old", "new"}]
  /\ before \in [Managed -> {"gone", "old"}]
  /\ aside \subseteq Managed /\ fresh \subseteq New /\ placed \subseteq New
  /\ upset \in BOOLEAN
  /\ outcome \in {"none", "staged", "error"}

Staged == [n \in Managed |-> IF n \in New THEN "new" ELSE "gone"]

(* A run that ends has replaced every managed entry or none, the hand      *)
(* copy's too, unless its undoing failed or somebody interrupted it.       *)
NeverHalfStaged ==
  at = "over" => \/ outcome = "staged" /\ bundle = Staged
                 \/ outcome = "error" /\ bundle = before
                 \/ upset

(* Until the new bundle is complete every old entry still exists, in the   *)
(* bundle or beside it, whatever fails or kills the run: only the clean-up *)
(* after an interruption loses one.                                        *)
OldIsKept ==
  at # "over" \/ outcome = "none" =>
    \A n \in Managed : before[n] = "old" => bundle[n] = "old" \/ n \in aside

-----------------------------------------------------------------------------
(* The inductive invariant the proofs use.                                 *)

(* Every variable stays in its type; an entry of the bundle is an old one  *)
(* that was not moved or a new one that was, and what has been moved fits  *)
(* the step the run is at.                                                 *)
StageInv ==
  /\ StageTypeOK
  /\ OldIsKept
  /\ at \notin {"clean", "over"} => ~upset
  /\ at = "clean" => outcome # "none"
  /\ ~upset =>
       /\ \A n \in Managed :
            /\ bundle[n] = "new" <=> n \in placed
            /\ n \in aside => before[n] = "old" /\ bundle[n] # "old"
            /\ bundle[n] = "old" => before[n] = "old"
            /\ before[n] = "old" /\ bundle[n] # "old" =>
                 n \in aside \/ (at \in {"clean", "over"} /\ outcome = "staged")
       /\ at \in {"copy", "setAside"} => placed = {} /\ outcome = "none"
       /\ at = "copy" => aside = {}
       /\ at = "setAside" => fresh = New
       /\ at = "place" => fresh = New \ placed /\ Present = placed /\ outcome = "none"
       /\ at \in {"unplace", "putBack"} => outcome = "error"
       /\ at = "putBack" => placed = {}
       /\ at \in {"clean", "over"} =>
            /\ outcome # "none"
            /\ \A n \in Managed :
                 bundle[n] = IF outcome = "staged" THEN Staged[n] ELSE before[n]
=============================================================================
