---------------------------- MODULE MCPendingEdits ----------------------------
(* The instances of PendingEdits that TLC checks: two names, one with a    *)
(* name below it and room for a moved subtree.                             *)
EXTENDS PendingEdits

SmallPaths == {<<"a">>, <<"b">>, <<"a", "x">>, <<"b", "x">>}

(* A file of one region after the other, all different. *)
DistinctRegions == {[r \in {1, 2} |-> r]}
OneRegion == {[r \in {1} |-> r]}
=============================================================================
