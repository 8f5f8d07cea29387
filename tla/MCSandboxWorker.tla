--------------------------- MODULE MCSandboxWorker ---------------------------
(* The instances of SandboxWorker that TLC checks. *)
EXTENDS SandboxWorker
=============================================================================
