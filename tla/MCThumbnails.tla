---------------------------- MODULE MCThumbnails ----------------------------
(* Three files: two that fit the budget of three together, and one that costs  *)
(* more than all of it.                                                        *)
EXTENDS Thumbnails, TLC

CONSTANTS p1, p2, p3

MCPaths == {p1, p2, p3}
MCBytes == (p1 :> 1) @@ (p2 :> 2) @@ (p3 :> 4)
=============================================================================
