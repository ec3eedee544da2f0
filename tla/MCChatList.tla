------------------------------ MODULE MCChatList ------------------------------
(* Two chats: one with a message received and one sent, one with a message     *)
(* received.                                                                   *)
EXTENDS ChatList, TLC

CONSTANTS c1, c2, w1, w2, s1

MCChat == w1 :> c1 @@ s1 :> c1 @@ w2 :> c2
MCTime == w1 :> 1 @@ s1 :> 3 @@ w2 :> 2

\* One chat muted, or archived and muted; or the other one pinned.
MCFlags ==
  {[pinned |-> {}, archived |-> a, muted |-> {c1}] : a \in {{}, {c1}}}
    \cup {[pinned |-> {c2}, archived |-> {}, muted |-> {}]}

\* A sync of a message received and the one sent.
MCHistories == {[messages |-> {w1, s1}, named |-> {c2}]}
=============================================================================
