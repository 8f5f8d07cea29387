-------------------------- MODULE MCPrivilegedTurn --------------------------
(* The instance of PrivilegedTurn that TLC checks. *)
EXTENDS PrivilegedTurn
=============================================================================
