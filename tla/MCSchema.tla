------------------------------ MODULE MCSchema ------------------------------
(* Two processes, and a file of at most three messages: of one word or of     *)
(* two.  The word is in both texts, the two words in a row in the longer one  *)
(* only, and a search asks for two hits: with one, there are no more.         *)
EXTENDS Schema, TLC

CONSTANTS p1, p2, short, long, word, words

MCTokens == (short :> 1) @@ (long :> 2)
MCHolds == (short :> {word}) @@ (long :> {word, words})
=============================================================================
