----------------------------- MODULE MCOutgoing -----------------------------
(* One chat, one message of ours and one of theirs, a server copy of ours,    *)
(* and receipts for both.                                                     *)
EXTENDS Outgoing, TLC

CONSTANTS w1, w2, c1, hello, g1, r1

Msg(w, s) == [wa_id |-> w, chat_jid |-> c1, ts |-> 1, body |-> hello, status |-> s]

Ours == Msg(w1, StatusPending)
Theirs == [msg |-> Msg(w2, ""), from_me |-> FALSE]
Echo == [msg |-> Msg(w1, ""), from_me |-> TRUE]

MCComposed == {Ours}
MCLiveEvents == {Echo, Theirs}
MCEchoOnly == {Echo}
MCBatches == {<<Msg(w2, ""), Msg(w1, "")>>}
MCHistories == {[batch |-> b, names |-> {}] : b \in MCBatches}
MCPayloads == {Ours} \cup {e.msg : e \in MCLiveEvents}
MCNewStatuses == Statuses \ {StatusPending}
MCReceipts ==
  {[ids |-> <<"", w1>>, type |-> ""], [ids |-> <<w2, w1>>, type |-> "read"],
   [ids |-> <<w1>>, type |-> "retry"]}
MCDelivered == {[ids |-> <<w1>>, type |-> ""]}
=============================================================================
