---------------------------- MODULE MCNightWorker ----------------------------
(* Instances of NightWorker for TLC. *)
EXTENDS NightWorker
=============================================================================
