------------------------------ MODULE MCStore ------------------------------
(* Two chats and two message ids, each with two payloads: the second copy of *)
(* w1 has another time (our optimistic bubble against the server's echo),    *)
(* the second copy of w2 another chat (the same person under another JID).   *)
EXTENDS Store, TLC

CONSTANTS w1, w2, c1, c2, hello, bye

Msg(w, c, t, s) ==
  [wa_id |-> w, chat_jid |-> c, ts |-> t, body |-> hello, status |-> s]

MCPayloads ==
  {Msg(w1, c1, 2, ""), Msg(w1, c1, 3, StatusPending), Msg(w2, c1, 1, ""), Msg(w2, c2, 1, "")}

MCBatches ==
  {<<Msg(w1, c1, 2, ""), Msg(w2, c1, 1, ""), Msg(w2, c2, 1, "")>>,
   <<Msg("", c1, 3, ""), Msg(w2, c2, 1, "")>>}

MCNewStatuses == {StatusRead}
MCFlagValues == {TRUE}
MCMuteDeadlines == {-1}
=============================================================================
