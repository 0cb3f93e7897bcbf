-------------------------- MODULE MCSeveringConfig --------------------------
(***************************************************************************)
(* Instances of SeveringConfig for TLC.  Every run names its key set: one  *)
(* paired severing key, one severing key that is not paired, a tuning key, *)
(* a mode key and a motion key.                                            *)
(***************************************************************************)
EXTENDS SeveringConfig, EnvFile

CONSTANTS domain, transport, verbosity, mode, scale, h1, h2
=============================================================================
