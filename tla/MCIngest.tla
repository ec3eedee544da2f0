------------------------------ MODULE MCIngest ------------------------------
(* Two live messages of one chat, any number of times each, a history sync    *)
(* that carries one of them too, and a channel that holds one event.          *)
EXTENDS Ingest, TLC

CONSTANTS w1, w2, c1, c2, hello, g1, g2

Msg(w, c, t) == [wa_id |-> w, chat_jid |-> c, ts |-> t, body |-> hello, status |-> ""]

Live1 == [msg |-> Msg(w1, c1, 2), from_me |-> FALSE]
Live2 == [msg |-> Msg(w2, c1, 1), from_me |-> TRUE]

MCLiveEvents == {Live1, Live2}
MCPayloads == {e.msg : e \in MCLiveEvents}
Overlap == <<Msg(w2, c1, 1)>>
MCBatches == {Overlap}
MCHistories == {[batch |-> Overlap, names |-> {<<c1, "Ann">>}]}
=============================================================================
