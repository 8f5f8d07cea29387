---------------------------- MODULE MCJobService ----------------------------
(* The instances of JobService that TLC checks: two callers, whose calls   *)
(* overlap as they like.                                                   *)
EXTENDS JobService
=============================================================================
