------------------------------ MODULE MCBubbles ------------------------------
(* A group of two others; Ann writes a photo with a link and then a text
   within the window, Bea in between them; the last message is the user's. *)
EXTENDS Bubbles, TLC

CONSTANTS a1, a2, b1, s1

MCts == a1 :> 2 @@ b1 :> 3 @@ a2 :> 4 @@ s1 :> 5
MCsender == a1 :> "ann" @@ a2 :> "ann" @@ b1 :> "bea"
MCattachments == a1 :> {"media", "link"} @@ a2 :> {"quote"} @@ b1 :> {}
MCNameFor == "ann" :> "Ann" @@ "bea" :> NoName @@ "me" :> "Me"
=============================================================================
