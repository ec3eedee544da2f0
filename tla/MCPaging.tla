------------------------------ MODULE MCPaging ------------------------------
(* One chat of four messages, two of one millisecond, and a chat of one.      *)
EXTENDS Paging, TLC

CONSTANTS w1, w2, w3, w4, v1, c1, c2

MCChat == w1 :> c1 @@ w2 :> c1 @@ w3 :> c1 @@ w4 :> c1 @@ v1 :> c2
MCTime == w1 :> 1 @@ w2 :> 2 @@ w3 :> 2 @@ w4 :> 3 @@ v1 :> 2
MCHistories == {{w1, w2, w3}, {v1}}

\* A chat with more messages above the hit than the jump loads.
MCJumpHistories == {{w1, w2, w3, w4}}
=============================================================================
