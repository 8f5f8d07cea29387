-------------------------- MODULE MCNativeBootstrap ---------------------------
(* Instances of NativeBootstrap for TLC. *)
EXTENDS NativeBootstrap
=============================================================================
