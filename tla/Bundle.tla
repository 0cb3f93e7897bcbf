------------------------------- MODULE Bundle -------------------------------
(***************************************************************************)
(* The directory of the robot's description: the agent writes calibrations *)
(* in it while somebody stages a new description into it, and one power    *)
(* loss ends both.                                                         *)
(***************************************************************************)
EXTENDS Calibration, StageSwap

BundleInit == CalibrationInit /\ StageInit

BundleNext ==
  \/ CalibrationNext /\ UNCHANGED staging
  \/ StageNext /\ UNCHANGED calibration
  \/ PowerLoss /\ (Killed \/ (at = "over" /\ UNCHANGED staging))

Spec == BundleInit /\ [][BundleNext]_<<calibration, staging>>

(* The inductive invariants of both, which the proofs use: what the lock,  *)
(* the steps and the undoing of each have kept so far.                     *)
BundleInv == CalibrationInv /\ StageInv
=============================================================================
