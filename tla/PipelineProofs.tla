--------------------------- MODULE PipelineProofs ---------------------------
(***************************************************************************)
(* Proofs about the three modules that share the tables: the store, the    *)
(* pipeline that fills it, and the messages sent from here.  For every set *)
(* of ids, chats, payloads and batches, any number of goroutines, any      *)
(* channel capacity, any events, history syncs and receipts.               *)
(*                                                                         *)
(* 1. The store.  StoreTypeOK is inductive by itself; UnreadExact and      *)
(* ChatListCovers need the conjunction StoreInv, which also records that   *)
(* an unseen id is a stored one (so a redelivery cannot add it again) and  *)
(* that the sets counted are finite.                                       *)
(*                                                                         *)
(* 2. The pipeline.  Each of its steps is a step of Store or leaves the    *)
(* tables alone, so the store's theorems hold of it too, and with them the *)
(* fact the rest needs: a stored message stays stored, in its chat.        *)
(* NoLostWakeup is inductive with the types; PersistBeforePublish and      *)
(* PaneComplete need one another's step facts and StoreInv.                *)
(*                                                                         *)
(* 3. Sends.  Three goroutines write the status column, and none of the    *)
(* properties is inductive by itself: a tick is honest because what is     *)
(* ABOUT to be written is.  OutgoingInv adds that: a sender past the       *)
(* acknowledgement has it, the ids a receipt worker still holds were       *)
(* reported, and a copy of a message of ours about to be stored is of an   *)
(* accepted one.                                                           *)
(***************************************************************************)
EXTENDS Outgoing, FiniteSetTheorems, TLAPS

-----------------------------------------------------------------------------
(* 1. The store *)

\* A stored message's id may be counted once: unseen ids are stored ids.
UnseenStored ==
  \A jid \in JIDs : unseen[jid] \subseteq DOMAIN messages /\ IsFiniteSet(unseen[jid])

StoreInv == StoreTypeOK /\ UnseenStored /\ UnreadExact /\ ChatListCovers

-----------------------------------------------------------------------------
(* Tables and rows *)

\* The row a payload becomes is a well-typed message.
LEMMA RowType ==
  ASSUME NEW m \in Payload, m.wa_id # "", m.chat_jid # ""
  PROVE  Row(m) \in Message
BY DEF Row, Payload, Message, Statuses, StatusSent

\* A row keeps its payload's chat and time.
LEMMA RowFact ==
  ASSUME NEW m
  PROVE  Row(m).chat_jid = m.chat_jid /\ Row(m).ts = m.ts
BY DEF Row

\* Reading a chat row gives a chat row, the empty one when there is none.
LEMMA ChatRowType ==
  ASSUME StoreTypeOK, NEW jid \in JIDs
  PROVE  ChatRow(jid) \in Chat
<1>1. EmptyChat \in Chat
  BY DEF EmptyChat, Chat, NullTS
<1>2. jid \in DOMAIN chats => chats[jid] \in Chat
  BY DEF StoreTypeOK
<1> QED
  BY <1>1, <1>2 DEF ChatRow

\* Chat times are integers, hence comparable.
LEMMA ChatTimeRefl ==
  ASSUME NEW row \in Chat
  PROVE  row.last_ts \in Int /\ row.last_ts >= row.last_ts
<1>1. row.last_ts \in Nat \cup {NullTS}
  BY DEF Chat
<1> QED
  BY <1>1 DEF NullTS

\* MAX(COALESCE(last_ts, 0), ts) is a time no older than either.
LEMMA LaterFact ==
  ASSUME NEW ts \in Nat, NEW old \in Nat \cup {NullTS}
  PROVE  /\ Later(Coalesce(old), ts) \in Nat
         /\ Later(Coalesce(old), ts) >= ts
         /\ Later(Coalesce(old), ts) >= old
BY DEF Later, Coalesce, NullTS

\* Touching a chat yields a typed row at least as late as the message and as
\* the row before, with delta more unread.
LEMMA TouchedChatFact ==
  ASSUME StoreTypeOK, NEW jid \in JIDs, NEW ts \in Nat, NEW delta \in Nat
  PROVE  /\ TouchedChat(jid, ts, delta) \in Chat
         /\ TouchedChat(jid, ts, delta).unread = ChatRow(jid).unread + delta
         /\ TouchedChat(jid, ts, delta).last_ts >= ts
         /\ TouchedChat(jid, ts, delta).last_ts >= ChatRow(jid).last_ts
<1>1. PICK row \in Chat : row = ChatRow(jid)
  BY ChatRowType
<1>2. row.last_ts \in Nat \cup {NullTS} /\ row.unread \in Nat
  BY DEF Chat
<1>3. PICK time : time = Later(Coalesce(row.last_ts), ts)
  OBVIOUS
<1>4. time \in Nat /\ time >= ts /\ time >= row.last_ts
  BY <1>2, <1>3, LaterFact
<1>5. row.unread + delta \in Nat
  BY <1>2
<1>6. TouchedChat(jid, ts, delta) = [row EXCEPT !.last_ts = time, !.unread = row.unread + delta]
  BY <1>1, <1>3 DEF TouchedChat
<1>7. TouchedChat(jid, ts, delta) \in Chat
  BY <1>4, <1>5, <1>6 DEF Chat
<1>8. /\ TouchedChat(jid, ts, delta).unread = row.unread + delta
      /\ TouchedChat(jid, ts, delta).last_ts = time
  BY <1>6 DEF Chat
<1> QED
  BY <1>1, <1>4, <1>7, <1>8

-----------------------------------------------------------------------------
(* One lemma per way a step changes the tables.  Each gives what the three   *)
(* theorems need of the step.                                                *)

StepOK == StoreInv' /\ MessagesKeptStep /\ LastTSStep

\* A row rewritten in place keeps itself.
LEMMA RowKeptRefl ==
  ASSUME NEW row
  PROVE  RowKept(row, row)
BY DEF RowKept

\* messages untouched: its step property holds.
LEMMA MessagesUnchanged ==
  ASSUME UNCHANGED messages
  PROVE  MessagesKeptStep
BY RowKeptRefl DEF MessagesKeptStep

\* One chat row upserted, its time not set back.
LEMMA ChatPut ==
  ASSUME StoreTypeOK, NEW jid \in JIDs, NEW row \in Chat,
         row.last_ts >= ChatRow(jid).last_ts,
         chats' = Put(chats, jid, row)
  PROVE  /\ DOMAIN chats' = DOMAIN chats \cup {jid}
         /\ DOMAIN chats' \subseteq JIDs
         /\ chats' \in [DOMAIN chats' -> Chat]
         /\ \A j \in DOMAIN chats' : chats'[j].last_ts >= ChatRow(j).last_ts
         /\ \A j \in JIDs : ChatRow(j)' = IF j = jid THEN row ELSE ChatRow(j)
<1>1. /\ DOMAIN chats' = DOMAIN chats \cup {jid}
      /\ chats'[jid] = row
      /\ \A j \in DOMAIN chats \ {jid} : chats'[j] = chats[j]
  BY DEF Put
<1>2. DOMAIN chats \subseteq JIDs /\ \A j \in DOMAIN chats : chats[j] \in Chat
  BY DEF StoreTypeOK
<1>3. chats' \in [DOMAIN chats' -> Chat]
  BY <1>1, <1>2 DEF Put
<1>4. \A j \in JIDs : ChatRow(j)' = IF j = jid THEN row ELSE ChatRow(j)
  BY <1>1 DEF ChatRow
<1>5. \A j \in DOMAIN chats' : chats'[j].last_ts >= ChatRow(j).last_ts
  <2> SUFFICES ASSUME NEW j \in DOMAIN chats' PROVE chats'[j].last_ts >= ChatRow(j).last_ts
    OBVIOUS
  <2>1. CASE j = jid
    BY <2>1, <1>1
  <2>2. CASE j # jid
    <3>1. chats'[j] = chats[j] /\ ChatRow(j) = chats[j] /\ chats[j] \in Chat
      BY <2>2, <1>1, <1>2 DEF ChatRow
    <3> QED
      BY <3>1, ChatTimeRefl
  <2> QED
    BY <2>1, <2>2
<1> QED
  BY <1>1, <1>2, <1>3, <1>4, <1>5

\* Chat times not set back: chats keep their order and still cover messages.
LEMMA ChatTimes ==
  ASSUME StoreTypeOK,
         DOMAIN chats \subseteq DOMAIN chats',
         \A j \in DOMAIN chats' : chats'[j].last_ts >= ChatRow(j).last_ts
  PROVE  LastTSStep
BY DEF LastTSStep, ChatRow

\* A step that only upserts a chat row, with the unread counter it had.
LEMMA ChatOnlyStep ==
  ASSUME StoreInv, NEW jid \in JIDs, NEW row \in Chat,
         row.last_ts = ChatRow(jid).last_ts,
         row.unread = ChatRow(jid).unread,
         chats' = Put(chats, jid, row),
         UNCHANGED <<messages, unseen>>
  PROVE  StepOK
<1> USE DEF StoreInv
<1>0. row.last_ts >= ChatRow(jid).last_ts
  BY ChatTimeRefl
<1>1. /\ DOMAIN chats' = DOMAIN chats \cup {jid}
      /\ DOMAIN chats' \subseteq JIDs
      /\ chats' \in [DOMAIN chats' -> Chat]
      /\ \A j \in DOMAIN chats' : chats'[j].last_ts >= ChatRow(j).last_ts
      /\ \A j \in JIDs : ChatRow(j)' = IF j = jid THEN row ELSE ChatRow(j)
  BY <1>0, ChatPut
<1>2. StoreTypeOK'
  BY <1>1 DEF StoreTypeOK
<1>3. UnseenStored'
  BY DEF UnseenStored
<1>4. UnreadExact'
  BY <1>1 DEF UnreadExact
<1>5. ChatListCovers'
  BY <1>1 DEF ChatListCovers, ChatRow
<1>6. MessagesKeptStep /\ LastTSStep
  BY <1>1, MessagesUnchanged, ChatTimes
<1> QED
  BY <1>2, <1>3, <1>4, <1>5, <1>6 DEF StepOK

\* A step that rewrites one message in place, in its chat and at its time.
LEMMA MessageOnlyStep ==
  ASSUME StoreInv, NEW w \in DOMAIN messages, NEW row \in Message,
         RowKept(messages[w], row),
         messages' = [messages EXCEPT ![w] = row],
         UNCHANGED <<chats, unseen>>
  PROVE  StepOK
<1> USE DEF StoreInv
<1>1. /\ DOMAIN messages' = DOMAIN messages
      /\ messages'[w] = row
      /\ \A v \in DOMAIN messages \ {w} : messages'[v] = messages[v]
  BY DEF StoreTypeOK
<1>2. StoreTypeOK'
  <2>1. messages' \in [DOMAIN messages -> Message]
    BY DEF StoreTypeOK
  <2> QED
    BY <2>1, <1>1 DEF StoreTypeOK
<1>3. UnseenStored'
  BY <1>1 DEF UnseenStored
<1>4. UnreadExact'
  BY DEF UnreadExact, ChatRow
<1>5. \A v \in DOMAIN messages : RowKept(messages[v], messages'[v])
  BY <1>1, RowKeptRefl
<1>6. ChatListCovers'
  BY <1>1, <1>5 DEF ChatListCovers, RowKept
<1>7. MessagesKeptStep
  BY <1>1, <1>5 DEF MessagesKeptStep
<1>8. LastTSStep
  BY ChatTimeRefl DEF LastTSStep, StoreTypeOK
<1> QED
  BY <1>2, <1>3, <1>4, <1>6, <1>7, <1>8 DEF StepOK

\* A step that leaves every table alone.
LEMMA StutterStep ==
  ASSUME StoreInv, UNCHANGED storeVars
  PROVE  StepOK
<1> USE DEF StoreInv, storeVars
<1>1. StoreInv'
  BY DEF StoreTypeOK, UnseenStored, UnreadExact, ChatListCovers, ChatRow
<1>2. MessagesKeptStep
  BY MessagesUnchanged
<1>3. LastTSStep
  BY ChatTimeRefl DEF LastTSStep, StoreTypeOK
<1> QED
  BY <1>1, <1>2, <1>3 DEF StepOK

\* MarkRead empties the counter and the set it counts together.
LEMMA MarkReadStep ==
  ASSUME StoreInv, NEW jid \in JIDs, MarkRead(jid)
  PROVE  StepOK
<1> USE DEF StoreInv, MarkRead
<1>1. /\ DOMAIN chats' = DOMAIN chats
      /\ \A j \in DOMAIN chats :
           /\ chats'[j] \in Chat
           /\ chats'[j].last_ts = chats[j].last_ts
           /\ chats'[j].unread = IF j = jid THEN 0 ELSE chats[j].unread
  <2>1. \A j \in DOMAIN chats : chats[j] \in Chat
    BY DEF StoreTypeOK
  <2>2. \A c \in Chat : /\ [c EXCEPT !.unread = 0] \in Chat
                        /\ [c EXCEPT !.unread = 0].last_ts = c.last_ts
                        /\ [c EXCEPT !.unread = 0].unread = 0
    BY DEF Chat
  <2>3. CASE jid \in DOMAIN chats
    <3>1. chats' = [chats EXCEPT ![jid] = [chats[jid] EXCEPT !.unread = 0]]
      BY <2>3
    <3>2. chats \in [DOMAIN chats -> Chat]
      BY DEF StoreTypeOK
    <3> QED
      BY <2>1, <2>2, <2>3, <3>1, <3>2
  <2>4. CASE jid \notin DOMAIN chats
    BY <2>1, <2>4
  <2> QED
    BY <2>3, <2>4
<1>2. /\ unseen' \in [JIDs -> SUBSET WAIDs]
      /\ \A j \in JIDs : unseen'[j] = IF j = jid THEN {} ELSE unseen[j]
  BY DEF StoreTypeOK
<1>3. StoreTypeOK'
  <2>1. chats' \in [DOMAIN chats' -> Chat]
    BY <1>1 DEF StoreTypeOK
  <2> QED
    BY <1>1, <1>2, <2>1 DEF StoreTypeOK
<1>4. UnseenStored'
  BY <1>2, FS_EmptySet DEF UnseenStored
<1>5. \A j \in JIDs : ChatRow(j).unread' = IF j = jid THEN 0 ELSE ChatRow(j).unread
  BY <1>1 DEF ChatRow, EmptyChat
<1>6. UnreadExact'
  BY <1>2, <1>5, FS_EmptySet DEF UnreadExact
<1>7. ChatListCovers'
  BY <1>1 DEF ChatListCovers
<1>8. MessagesKeptStep /\ LastTSStep
  BY <1>1, MessagesUnchanged, ChatTimeRefl DEF LastTSStep, StoreTypeOK
<1> QED
  BY <1>3, <1>4, <1>6, <1>7, <1>8 DEF StepOK

\* Insert counts an id only when it stores it, and only when asked to.
LEMMA InsertStep ==
  ASSUME StoreInv, NEW m \in Payload, NEW bumpUnread \in BOOLEAN, Insert(m, bumpUnread)
  PROVE  StepOK
<1> USE DEF StoreInv
<1> DEFINE jid == m.chat_jid
           delta == UnreadDelta(m, bumpUnread)
           counted == bumpUnread /\ m.wa_id \notin DOMAIN messages
           row == TouchedChat(jid, m.ts, delta)
<1>1. jid \in JIDs /\ m.wa_id \in WAIDs /\ m.ts \in Nat
  BY DEF Insert, Payload
<1>2. delta = IF counted THEN 1 ELSE 0
  BY DEF UnreadDelta
<1>3. /\ row \in Chat /\ row.unread = ChatRow(jid).unread + delta
      /\ row.last_ts >= m.ts /\ row.last_ts >= ChatRow(jid).last_ts
  BY <1>1, <1>2, TouchedChatFact
<1>4. chats' = Put(chats, jid, row)
  BY DEF Insert
<1> HIDE DEF delta, row
<1>5. /\ DOMAIN chats' = DOMAIN chats \cup {jid}
      /\ DOMAIN chats' \subseteq JIDs
      /\ chats' \in [DOMAIN chats' -> Chat]
      /\ \A j \in DOMAIN chats' : chats'[j].last_ts >= ChatRow(j).last_ts
      /\ \A j \in JIDs : ChatRow(j)' = IF j = jid THEN row ELSE ChatRow(j)
  BY <1>1, <1>3, <1>4, ChatPut
<1>6. /\ DOMAIN messages' = DOMAIN messages \cup {m.wa_id}
      /\ \A v \in DOMAIN messages : messages'[v] = messages[v]
      /\ m.wa_id \notin DOMAIN messages => messages'[m.wa_id] = Row(m)
  BY DEF Insert, InsertIgnore, Put
<1>7. Row(m) \in Message /\ Row(m).chat_jid = jid /\ Row(m).ts = m.ts
  BY <1>1, RowType DEF Insert, Row
<1>8. /\ unseen' \in [JIDs -> SUBSET WAIDs]
      /\ \A j \in JIDs : unseen'[j] = IF counted /\ j = jid
                                       THEN unseen[j] \cup {m.wa_id} ELSE unseen[j]
  <2>1. unseen \in [JIDs -> SUBSET WAIDs]
    BY DEF StoreTypeOK
  <2>2. unseen' = IF counted THEN [unseen EXCEPT ![jid] = @ \cup {m.wa_id}] ELSE unseen
    BY DEF Insert
  <2> QED
    BY <1>1, <2>1, <2>2
<1>9. StoreTypeOK'
  <2>1. \A v \in DOMAIN messages' : messages'[v] \in Message
    BY <1>6, <1>7 DEF StoreTypeOK
  <2>2. messages' = [v \in DOMAIN messages' |-> messages'[v]]
    BY DEF Insert, InsertIgnore, Put, StoreTypeOK
  <2>3. messages' \in [DOMAIN messages' -> Message]
    BY <2>1, <2>2
  <2> QED
    BY <1>1, <1>5, <1>6, <1>8, <2>3 DEF StoreTypeOK
<1>10. UnseenStored'
  BY <1>6, <1>8, FS_AddElement DEF UnseenStored
<1>11. UnreadExact'
  <2> SUFFICES ASSUME NEW j \in JIDs PROVE ChatRow(j)'.unread = Cardinality(unseen'[j])
    BY DEF UnreadExact
  <2>1. /\ ChatRow(j).unread = Cardinality(unseen[j])
        /\ IsFiniteSet(unseen[j]) /\ unseen[j] \subseteq DOMAIN messages
    BY DEF UnreadExact, UnseenStored
  <2>2. CASE counted /\ j = jid
    <3>1. Cardinality(unseen[j] \cup {m.wa_id}) = Cardinality(unseen[j]) + 1
      BY <2>1, <2>2, FS_AddElement
    <3> QED
      BY <3>1, <2>1, <2>2, <1>2, <1>3, <1>5, <1>8
  <2>3. CASE ~counted /\ j = jid
    BY <2>1, <2>3, <1>2, <1>3, <1>5, <1>8, FS_CardinalityType
  <2>4. CASE j # jid
    BY <2>1, <2>4, <1>5, <1>8
  <2> QED
    BY <2>2, <2>3, <2>4
<1>12. ChatListCovers'
  <2> SUFFICES ASSUME NEW v \in DOMAIN messages'
               PROVE  /\ messages'[v].chat_jid \in DOMAIN chats'
                      /\ chats'[messages'[v].chat_jid].last_ts >= messages'[v].ts
    BY DEF ChatListCovers
  <2>1. CASE v \in DOMAIN messages
    <3> DEFINE c == messages[v].chat_jid
    <3>1. /\ messages'[v] = messages[v] /\ messages[v] \in Message
          /\ c \in DOMAIN chats /\ chats[c].last_ts >= messages[v].ts
          /\ chats[c] \in Chat /\ chats'[c] \in Chat
      BY <2>1, <1>5, <1>6 DEF ChatListCovers, StoreTypeOK
    <3>2. chats'[c].last_ts >= chats[c].last_ts
      BY <3>1, <1>5 DEF ChatRow
    <3>3. messages[v].ts \in Int /\ chats[c].last_ts \in Int /\ chats'[c].last_ts \in Int
      BY <3>1, ChatTimeRefl DEF Message
    <3> QED
      BY <3>1, <3>2, <3>3, <1>5
  <2>2. CASE v = m.wa_id /\ v \notin DOMAIN messages
    <3>1. ChatRow(jid)' = row /\ jid \in DOMAIN chats'
      BY <1>1, <1>5
    <3> QED
      BY <2>2, <3>1, <1>3, <1>6, <1>7 DEF ChatRow
  <2> QED
    BY <2>1, <2>2, <1>6
<1>13. MessagesKeptStep
  BY <1>6, RowKeptRefl DEF MessagesKeptStep
<1>14. LastTSStep
  BY <1>5, ChatTimes
<1> QED
  BY <1>9, <1>10, <1>11, <1>12, <1>13, <1>14 DEF StepOK

\* The entries InsertBatch uses are complete messages.
LEMMA UsableEntries ==
  ASSUME NEW batch \in Seq(Payload), NEW i \in Usable(batch)
  PROVE  /\ batch[i] \in Payload /\ batch[i].wa_id # "" /\ batch[i].chat_jid # ""
         /\ batch[i].wa_id \in WAIDs /\ batch[i].chat_jid \in JIDs /\ batch[i].ts \in Nat
<1>1. i \in DOMAIN batch /\ batch[i].wa_id # "" /\ batch[i].chat_jid # ""
  BY DEF Usable
<1>2. batch[i] \in Payload
  <2>1. DOMAIN batch = 1..Len(batch) /\ \A k \in 1..Len(batch) : batch[k] \in Payload
    OBVIOUS
  <2> QED
    BY <1>1, <2>1
<1> QED
  BY <1>1, <1>2 DEF Payload

\* InsertBatch adds rows and moves chat times on, and counts nothing.
LEMMA InsertBatchStep ==
  ASSUME StoreInv, NEW batch \in Seq(Payload), InsertBatch(batch)
  PROVE  StepOK
<1> USE DEF StoreInv
<1> DEFINE ids  == {batch[i].wa_id : i \in Usable(batch)}
           jids == {batch[i].chat_jid : i \in Usable(batch)}
           times == {batch[i].ts : i \in Usable(batch)}
<1>1. PICK first \in [ids -> Usable(batch)], lastTS \in [jids -> times] :
        /\ FirstEntries(batch, first)
        /\ LatestTS(batch, lastTS)
        /\ messages' = [w \in DOMAIN messages \cup ids |->
                          IF w \in DOMAIN messages
                          THEN messages[w]
                          ELSE Row(batch[first[w]])]
        /\ chats' = [j \in DOMAIN chats \cup jids |->
                       IF j \in jids
                       THEN TouchedChat(j, lastTS[j], 0)
                       ELSE chats[j]]
        /\ UNCHANGED unseen
  BY DEF InsertBatch
<1>2. \A i \in Usable(batch) :
        /\ batch[i] \in Payload /\ batch[i].wa_id # "" /\ batch[i].chat_jid # ""
        /\ batch[i].wa_id \in WAIDs /\ batch[i].chat_jid \in JIDs /\ batch[i].ts \in Nat
  BY UsableEntries
<1>3. \A j \in jids : /\ j \in JIDs /\ lastTS[j] \in Nat
                      /\ TouchedChat(j, lastTS[j], 0) \in Chat
                      /\ TouchedChat(j, lastTS[j], 0).unread = ChatRow(j).unread
                      /\ TouchedChat(j, lastTS[j], 0).last_ts >= lastTS[j]
                      /\ TouchedChat(j, lastTS[j], 0).last_ts >= ChatRow(j).last_ts
  <2> SUFFICES ASSUME NEW j \in jids
               PROVE  /\ j \in JIDs /\ lastTS[j] \in Nat
                      /\ TouchedChat(j, lastTS[j], 0) \in Chat
                      /\ TouchedChat(j, lastTS[j], 0).unread = ChatRow(j).unread
                      /\ TouchedChat(j, lastTS[j], 0).last_ts >= lastTS[j]
                      /\ TouchedChat(j, lastTS[j], 0).last_ts >= ChatRow(j).last_ts
    OBVIOUS
  <2>1. j \in JIDs /\ lastTS[j] \in Nat
    BY <1>1, <1>2
  <2>2. StoreTypeOK
    BY DEF StoreInv
  <2>3. PICK time \in Nat : time = lastTS[j]
    BY <2>1
  <2>4. /\ TouchedChat(j, time, 0) \in Chat
        /\ TouchedChat(j, time, 0).unread = ChatRow(j).unread + 0
        /\ TouchedChat(j, time, 0).last_ts >= time
        /\ TouchedChat(j, time, 0).last_ts >= ChatRow(j).last_ts
    BY <2>1, <2>2, TouchedChatFact
  <2>5. ChatRow(j).unread \in Nat
    BY <2>1, <2>2, ChatRowType DEF Chat
  <2>6. ChatRow(j).unread + 0 = ChatRow(j).unread
    BY <2>5
  <2> QED
    BY <2>1, <2>3, <2>4, <2>6
<1>4. /\ DOMAIN chats' = DOMAIN chats \cup jids
      /\ \A j \in DOMAIN chats' : /\ j \in JIDs
                                  /\ chats'[j] \in Chat
                                  /\ chats'[j].last_ts >= ChatRow(j).last_ts
                                  /\ chats'[j].unread = ChatRow(j).unread
  <2>1. \A j \in DOMAIN chats \ jids : /\ chats'[j] = chats[j] /\ ChatRow(j) = chats[j]
                                       /\ chats[j] \in Chat /\ j \in JIDs
    BY <1>1 DEF ChatRow, StoreTypeOK
  <2>2. \A j \in jids : chats'[j] = TouchedChat(j, lastTS[j], 0)
    BY <1>1
  <2>3. DOMAIN chats' = DOMAIN chats \cup jids
    BY <1>1
  <2> HIDE DEF jids
  <2> QED
    BY <1>3, <2>1, <2>2, <2>3, ChatTimeRefl
<1>5. /\ DOMAIN messages' = DOMAIN messages \cup ids
      /\ \A v \in DOMAIN messages : messages'[v] = messages[v]
      /\ \A v \in DOMAIN messages' \ DOMAIN messages :
           \E i \in Usable(batch) : messages'[v] = Row(batch[i])
  BY <1>1
<1>6. StoreTypeOK'
  <2>1. \A v \in DOMAIN messages' : messages'[v] \in Message
    BY <1>2, <1>5, RowType DEF StoreTypeOK
  <2>2. messages' \in [DOMAIN messages' -> Message]
    BY <2>1, <1>1
  <2>3. chats' \in [DOMAIN chats' -> Chat]
    BY <1>1, <1>4
  <2>4. DOMAIN messages' \subseteq WAIDs
    BY <1>2, <1>5 DEF StoreTypeOK
  <2>5. unseen' \in [JIDs -> SUBSET WAIDs]
    BY <1>1 DEF StoreTypeOK
  <2> QED
    BY <1>4, <2>2, <2>3, <2>4, <2>5 DEF StoreTypeOK
<1>7. UnseenStored'
  BY <1>1, <1>5 DEF UnseenStored
<1>8. UnreadExact'
  <2>1. \A j \in JIDs : ChatRow(j)'.unread = ChatRow(j).unread
    BY <1>4 DEF ChatRow
  <2> QED
    BY <1>1, <2>1 DEF UnreadExact
<1>9. ChatListCovers'
  <2> SUFFICES ASSUME NEW v \in DOMAIN messages'
               PROVE  /\ messages'[v].chat_jid \in DOMAIN chats'
                      /\ chats'[messages'[v].chat_jid].last_ts >= messages'[v].ts
    BY DEF ChatListCovers
  <2>1. CASE v \in DOMAIN messages
    <3> DEFINE c == messages[v].chat_jid
    <3>1. /\ messages'[v] = messages[v] /\ messages[v] \in Message
          /\ c \in DOMAIN chats /\ chats[c].last_ts >= messages[v].ts
          /\ c \in DOMAIN chats' /\ chats[c] \in Chat /\ chats'[c] \in Chat
      BY <2>1, <1>4, <1>5 DEF ChatListCovers, StoreTypeOK
    <3>2. chats'[c].last_ts >= chats[c].last_ts
      BY <3>1, <1>4 DEF ChatRow
    <3>3. messages[v].ts \in Int /\ chats[c].last_ts \in Int /\ chats'[c].last_ts \in Int
      BY <3>1, ChatTimeRefl DEF Message
    <3> QED
      BY <3>1, <3>2, <3>3
  <2>2. CASE v \notin DOMAIN messages
    <3>1. PICK i \in Usable(batch) : messages'[v] = Row(batch[i])
      BY <2>2, <1>5
    <3> DEFINE c == batch[i].chat_jid
    <3>2. messages'[v].chat_jid = c /\ messages'[v].ts = batch[i].ts
      BY <3>1, RowFact
    <3>3. c \in jids /\ lastTS[c] >= batch[i].ts
      BY <1>1 DEF LatestTS
    <3>4. chats'[c] = TouchedChat(c, lastTS[c], 0)
      BY <1>1, <3>3
    <3>5. chats'[c].last_ts >= lastTS[c] /\ lastTS[c] \in Nat /\ batch[i].ts \in Nat
      <4>1. TouchedChat(c, lastTS[c], 0).last_ts >= lastTS[c] /\ lastTS[c] \in Nat
        BY <1>3, <3>3
      <4>2. batch[i].ts \in Nat
        BY <1>2
      <4> QED
        BY <3>4, <4>1, <4>2
    <3>6. chats'[c].last_ts \in Int /\ c \in DOMAIN chats'
      BY <1>3, <1>4, <3>3, <3>4, ChatTimeRefl
    <3>7. chats'[c].last_ts >= batch[i].ts
      BY <3>3, <3>5, <3>6
    <3> QED
      BY <3>2, <3>6, <3>7
  <2> QED
    BY <2>1, <2>2
<1>10. MessagesKeptStep
  BY <1>5, RowKeptRefl DEF MessagesKeptStep
<1>11. LastTSStep
  BY <1>4, ChatTimes
<1> QED
  BY <1>6, <1>7, <1>8, <1>9, <1>10, <1>11 DEF StepOK

-----------------------------------------------------------------------------
(* The theorems *)

\* UPDATE ... WHERE wa_id = waID, on a known id or an unknown one.
LEMMA UpdateMessageStep ==
  ASSUME StoreInv, NEW waID \in WAIDs, NEW row,
         waID \in DOMAIN messages => row \in Message /\ RowKept(messages[waID], row),
         UpdateMessage(waID, row),
         UNCHANGED <<chats, unseen>>
  PROVE  StepOK
<1>1. CASE waID \in DOMAIN messages
  BY <1>1, MessageOnlyStep DEF UpdateMessage
<1>2. CASE waID \notin DOMAIN messages
  BY <1>2, StutterStep DEF UpdateMessage, storeVars
<1> QED
  BY <1>1, <1>2

\* The empty database satisfies the invariant.
LEMMA StoreInitInv == StoreInit => StoreInv
<1> SUFFICES ASSUME StoreInit PROVE StoreInv
  OBVIOUS
<1>1. DOMAIN messages = {} /\ DOMAIN chats = {}
  BY DEF StoreInit
<1>2. StoreTypeOK
  BY DEF StoreInit, StoreTypeOK
<1>3. UnseenStored /\ UnreadExact /\ ChatListCovers
  BY <1>1, FS_EmptySet DEF StoreInit, UnseenStored, UnreadExact, ChatListCovers, ChatRow, EmptyChat
<1> QED
  BY <1>2, <1>3 DEF StoreInv

\* Every call of the store keeps the invariant and the two step properties.
LEMMA StoreNextInv ==
  ASSUME StoreInv, [StoreNext]_storeVars
  PROVE  StepOK
<1> USE DEF StoreInv
<1>1. ASSUME NEW m \in Payloads, NEW bumpUnread \in BOOLEAN, Insert(m, bumpUnread)
      PROVE  StepOK
  BY <1>1, InsertStep, StoreAssumption
<1>2. ASSUME NEW batch \in Batches, InsertBatch(batch) PROVE StepOK
  BY <1>2, InsertBatchStep, StoreAssumption
<1>3. ASSUME NEW jid \in JIDs, NEW name \in Names, UpsertChat(jid, name) PROVE StepOK
  <2> DEFINE row == [ChatRow(jid) EXCEPT !.name = name]
  <2>1. row \in Chat /\ row.last_ts = ChatRow(jid).last_ts /\ row.unread = ChatRow(jid).unread
    BY ChatRowType DEF Chat
  <2>2. chats' = Put(chats, jid, row) /\ UNCHANGED <<messages, unseen>>
    BY <1>3 DEF UpsertChat
  <2> HIDE DEF row
  <2> QED
    BY <2>1, <2>2, ChatOnlyStep
<1>4. ASSUME NEW waID \in WAIDs, NEW status \in NewStatuses, UpdateStatus(waID, status)
      PROVE  StepOK
  <2> DEFINE row == [messages[waID] EXCEPT !.status = status]
  <2>1. ASSUME waID \in DOMAIN messages PROVE row \in Message /\ RowKept(messages[waID], row)
    <3>1. messages[waID] \in Message /\ status \in Statuses
      BY <2>1, StoreAssumption DEF StoreTypeOK
    <3> QED
      BY <3>1 DEF Message, RowKept
  <2>2. UpdateMessage(waID, row) /\ UNCHANGED <<chats, unseen>>
    BY <1>4 DEF UpdateStatus
  <2> HIDE DEF row
  <2> QED
    BY <2>1, <2>2, UpdateMessageStep
<1>5. ASSUME NEW waID \in WAIDs, NEW body \in Bodies, ApplyEdit(waID, body) PROVE StepOK
  <2> DEFINE row == [messages[waID] EXCEPT !.body = body, !.edited = TRUE]
  <2>1. ASSUME waID \in DOMAIN messages PROVE row \in Message /\ RowKept(messages[waID], row)
    <3>1. messages[waID] \in Message
      BY <2>1 DEF StoreTypeOK
    <3> QED
      BY <3>1 DEF Message, RowKept
  <2>2. UpdateMessage(waID, row) /\ UNCHANGED <<chats, unseen>>
    BY <1>5 DEF ApplyEdit
  <2> HIDE DEF row
  <2> QED
    BY <2>1, <2>2, UpdateMessageStep
<1>6. ASSUME NEW waID \in WAIDs, ApplyRevoke(waID) PROVE StepOK
  <2> DEFINE row == [messages[waID] EXCEPT !.revoked = TRUE]
  <2>1. ASSUME waID \in DOMAIN messages PROVE row \in Message /\ RowKept(messages[waID], row)
    <3>1. messages[waID] \in Message
      BY <2>1 DEF StoreTypeOK
    <3> QED
      BY <3>1 DEF Message, RowKept
  <2>2. UpdateMessage(waID, row) /\ UNCHANGED <<chats, unseen>>
    BY <1>6 DEF ApplyRevoke
  <2> HIDE DEF row
  <2> QED
    BY <2>1, <2>2, UpdateMessageStep
<1>7. ASSUME NEW waID \in WAIDs, NEW starred \in FlagValues, SetStarred(waID, starred)
      PROVE  StepOK
  <2> DEFINE row == [messages[waID] EXCEPT !.starred = starred]
  <2>1. ASSUME waID \in DOMAIN messages PROVE row \in Message /\ RowKept(messages[waID], row)
    <3>1. messages[waID] \in Message /\ starred \in BOOLEAN
      BY <2>1, StoreAssumption DEF StoreTypeOK
    <3> QED
      BY <3>1 DEF Message, RowKept
  <2>2. UpdateMessage(waID, row) /\ UNCHANGED <<chats, unseen>>
    BY <1>7 DEF SetStarred
  <2> HIDE DEF row
  <2> QED
    BY <2>1, <2>2, UpdateMessageStep
<1>8. ASSUME NEW jid \in JIDs, MarkRead(jid) PROVE StepOK
  BY <1>8, MarkReadStep
<1>9. ASSUME NEW jid \in AppStateJIDs, EnsureChatRow(jid) PROVE StepOK
  <2>1. jid \in JIDs /\ ChatRow(jid) \in Chat
    BY ChatRowType, StoreAssumption
  <2> QED
    BY <1>9, <2>1, ChatOnlyStep DEF EnsureChatRow
<1>10. ASSUME NEW jid \in AppStateJIDs, NEW pinned \in FlagValues, SetPinned(jid, pinned)
       PROVE  StepOK
  <2> DEFINE row == [ChatRow(jid) EXCEPT !.pinned = pinned]
  <2>1. jid \in JIDs /\ pinned \in BOOLEAN
    BY StoreAssumption
  <2>2. row \in Chat /\ row.last_ts = ChatRow(jid).last_ts /\ row.unread = ChatRow(jid).unread
    BY <2>1, ChatRowType DEF Chat
  <2>3. chats' = Put(chats, jid, row) /\ UNCHANGED <<messages, unseen>>
    BY <1>10 DEF SetPinned
  <2> HIDE DEF row
  <2> QED
    BY <2>1, <2>2, <2>3, ChatOnlyStep
<1>11. ASSUME NEW jid \in AppStateJIDs, NEW archived \in FlagValues, SetArchived(jid, archived)
       PROVE  StepOK
  <2> DEFINE row == [ChatRow(jid) EXCEPT !.archived = archived]
  <2>1. jid \in JIDs /\ archived \in BOOLEAN
    BY StoreAssumption
  <2>2. row \in Chat /\ row.last_ts = ChatRow(jid).last_ts /\ row.unread = ChatRow(jid).unread
    BY <2>1, ChatRowType DEF Chat
  <2>3. chats' = Put(chats, jid, row) /\ UNCHANGED <<messages, unseen>>
    BY <1>11 DEF SetArchived
  <2> HIDE DEF row
  <2> QED
    BY <2>1, <2>2, <2>3, ChatOnlyStep
<1>12. ASSUME NEW jid \in AppStateJIDs, NEW until \in MuteDeadlines, SetMuteUntil(jid, until)
       PROVE  StepOK
  <2> DEFINE row == [ChatRow(jid) EXCEPT !.mute_until = until]
  <2>1. jid \in JIDs /\ until \in Int
    BY StoreAssumption
  <2>2. row \in Chat /\ row.last_ts = ChatRow(jid).last_ts /\ row.unread = ChatRow(jid).unread
    BY <2>1, ChatRowType DEF Chat
  <2>3. chats' = Put(chats, jid, row) /\ UNCHANGED <<messages, unseen>>
    BY <1>12 DEF SetMuteUntil
  <2> HIDE DEF row
  <2> QED
    BY <2>1, <2>2, <2>3, ChatOnlyStep
<1>13. CASE UNCHANGED storeVars
  BY <1>13, StutterStep
<1> QED
  BY <1>1, <1>2, <1>3, <1>4, <1>5, <1>6, <1>7, <1>8, <1>9, <1>10, <1>11, <1>12, <1>13
  DEF StoreNext

\* The store's tables are well typed and StoreInv holds, whatever calls are
\* made in whatever order.
THEOREM StoreInvariant == StoreSpec => []StoreInv
<1>1. StoreInv /\ [StoreNext]_storeVars => StoreInv'
  BY StoreNextInv DEF StepOK
<1> QED
  BY <1>1, StoreInitInv, PTL DEF StoreSpec

\* Types of the two tables.
THEOREM StoreTypes == StoreSpec => []StoreTypeOK
BY StoreInvariant, PTL DEF StoreInv

\* The unread counter is exact for every workload.
THEOREM UnreadIsExact == StoreSpec => []UnreadExact
BY StoreInvariant, PTL DEF StoreInv

\* Every stored message is reachable from the chat list, at a time no older
\* than its own.
THEOREM ChatListIsComplete == StoreSpec => []ChatListCovers
BY StoreInvariant, PTL DEF StoreInv

\* No step loses, moves or silently rewrites a message.
THEOREM NothingIsLost == StoreSpec => MessagesKept
<1>1. StoreInv /\ [StoreNext]_storeVars => [MessagesKeptStep]_storeVars
  BY StoreNextInv DEF StepOK
<1> QED
  BY <1>1, StoreInvariant, PTL DEF StoreSpec, MessagesKept

\* No step drops a chat or sets its time back.
THEOREM ChatTimesAdvance == StoreSpec => LastTSNeverBack
<1>1. StoreInv /\ [StoreNext]_storeVars => [LastTSStep]_storeVars
  BY StoreNextInv DEF StepOK
<1> QED
  BY <1>1, StoreInvariant, PTL DEF StoreSpec, LastTSNeverBack

-----------------------------------------------------------------------------
(* 2. The pipeline *)

IngestInv == IngestTypeOK /\ StoreInv /\ PersistBeforePublish /\ NoLostWakeup /\ PaneComplete

-----------------------------------------------------------------------------
(* The pipeline implements the store *)

\* The events that are dispatched carry complete, typed messages.
LEMMA LiveEventFact ==
  ASSUME NEW e \in LiveEvents
  PROVE  /\ e.msg \in Payloads /\ e.msg \in Payload /\ e.from_me \in BOOLEAN
         /\ e.msg.wa_id \in WAIDs /\ e.msg.chat_jid \in JIDs
         /\ e.msg.wa_id # "" /\ e.msg.chat_jid # ""
<1>1. /\ e.msg \in Payloads /\ e.msg \in Payload /\ e.from_me \in BOOLEAN
      /\ e.msg.wa_id # "" /\ e.msg.chat_jid # ""
  BY IngestAssumption, StoreAssumption DEF Event
<1> QED
  BY <1>1 DEF Payload

\* The parts of a history sync.
LEMMA HistoryFact ==
  ASSUME NEW h \in History
  PROVE  h.batch \in Batches /\ h.names \subseteq JIDs \X Names
BY DEF History

\* Each step of the pipeline is a call of the store or touches no table.
LEMMA IngestStepsStore ==
  ASSUME IngestTypeOK, [IngestNext]_vars
  PROVE  [StoreNext]_storeVars
<1>1. ASSUME NEW w \in Workers, Persist(w) PROVE StoreNext
  <2>1. job[w] \in LiveEvents
    BY <1>1 DEF IngestTypeOK, Persist
  <2>2. job[w].msg \in Payloads /\ (~job[w].from_me) \in BOOLEAN
    BY <2>1, LiveEventFact
  <2>3. Insert(job[w].msg, ~job[w].from_me)
    BY <1>1 DEF Persist
  <2> QED
    BY <2>2, <2>3 DEF StoreNext
<1>2. ASSUME NEW w \in Workers, PersistBatch(w) PROVE StoreNext
  <2>1. job[w].batch \in Batches
    BY <1>2, HistoryFact DEF IngestTypeOK, PersistBatch
  <2> QED
    BY <1>2, <2>1 DEF PersistBatch, StoreNext
<1>3. ASSUME NEW w \in Workers, UpsertName(w) PROVE StoreNext
  <2>1. PICK p \in job[w].names : UpsertChat(p[1], p[2])
    BY <1>3 DEF UpsertName
  <2>2. p[1] \in JIDs /\ p[2] \in Names
    BY <1>3, HistoryFact DEF IngestTypeOK, UpsertName
  <2> QED
    BY <2>1, <2>2 DEF StoreNext
<1>4. ASSUME NEW w \in Workers,
             Dispatch(w) \/ PersistFails(w) \/ Send(w) \/ Notify(w) \/ NamesDone(w)
      PROVE  UNCHANGED storeVars
  BY <1>4 DEF Dispatch, PersistFails, Send, Notify, NamesDone
<1>5. ASSUME FrameLoop \/ (\E jid \in JIDs : SelectChat(jid)) \/ OnBack \/ UserInput \/ Restart
      PROVE  UNCHANGED storeVars
  BY <1>5 DEF FrameLoop, FoldNext, DrainDone, NextFrame, Render, SelectChat, OnBack,
              UserInput, Restart
<1>6. CASE UNCHANGED vars
  BY <1>6 DEF vars
<1> QED
  BY <1>1, <1>2, <1>3, <1>4, <1>5, <1>6 DEF IngestNext, Handle

\* What a pipeline step may do to the tables.
LEMMA IngestStoreStep ==
  ASSUME IngestTypeOK, StoreInv, [IngestNext]_vars
  PROVE  StoreInv' /\ MessagesKeptStep
BY IngestStepsStore, StoreNextInv DEF StepOK

-----------------------------------------------------------------------------
(* Types *)

\* An empty channel is typed, whatever its capacity.
LEMMA EmptyChannel == <<>> \in Seq(LiveEvents) /\ Len(<<>>) <= incomingBuffer
<1>1. incomingBuffer \in Nat
  BY IngestAssumption
<1> QED
  BY <1>1

\* The process starts in a typed state.
LEMMA IngestInitTypes ==
  ASSUME IngestInit
  PROVE  IngestTypeOK
<1>1. /\ pc \in [Workers -> {"idle", "insert", "send", "batch", "names", "notify"}]
      /\ job \in [Workers -> LiveEvents \cup History \cup {NoJob}]
      /\ \A w \in Workers : pc[w] = "idle"
  BY DEF IngestInit
<1>2. incoming \in Seq(LiveEvents) /\ Len(incoming) <= incomingBuffer
  BY EmptyChannel DEF IngestInit
<1> QED
  BY <1>1, <1>2 DEF IngestInit, IngestTypeOK

\* Sending to a channel that has room.
LEMMA SendTypes ==
  ASSUME NEW ch \in Seq(LiveEvents), NEW e \in LiveEvents, Len(ch) < incomingBuffer
  PROVE  Append(ch, e) \in Seq(LiveEvents) /\ Len(Append(ch, e)) <= incomingBuffer
<1>1. incomingBuffer \in Nat
  BY IngestAssumption
<1> QED
  BY <1>1

\* Receiving from a channel that is not empty.
LEMMA ReceiveTypes ==
  ASSUME NEW ch \in Seq(LiveEvents), ch # <<>>, Len(ch) <= incomingBuffer
  PROVE  /\ Tail(ch) \in Seq(LiveEvents) /\ Len(Tail(ch)) <= incomingBuffer
         /\ Head(ch) \in LiveEvents
<1>1. incomingBuffer \in Nat
  BY IngestAssumption
<1> QED
  BY <1>1

\* A step of a worker is typed.
LEMMA WorkerTypes ==
  ASSUME IngestTypeOK, StoreInv, NEW w \in Workers, Dispatch(w) \/ Handle(w)
  PROVE  IngestTypeOK'
<1> USE DEF IngestTypeOK
<1>1. CASE Dispatch(w)
  BY <1>1, IngestAssumption DEF Dispatch, uiVars
<1>2. CASE PersistFails(w)
  BY <1>2 DEF PersistFails, uiVars
<1>3. CASE Persist(w)
  BY <1>3 DEF Persist, uiVars
<1>4. CASE Send(w)
  <2>1. job[w] \in LiveEvents /\ job[w].msg.wa_id \in WAIDs
    BY <1>4, LiveEventFact DEF Send
  <2>2. incoming' \in Seq(LiveEvents) /\ Len(incoming') <= incomingBuffer
    <3>1. Len(incoming) < incomingBuffer =>
            /\ Append(incoming, job[w]) \in Seq(LiveEvents)
            /\ Len(Append(incoming, job[w])) <= incomingBuffer
      BY <2>1, SendTypes
    <3> QED
      BY <1>4, <3>1 DEF Send
  <2> QED
    BY <1>4, <2>1, <2>2 DEF Send, uiVars
<1>5. CASE Notify(w)
  BY <1>5 DEF Notify, uiVars
<1>6. CASE PersistBatch(w)
  <2>1. job[w].batch \in Seq(Payload)
    BY <1>6, HistoryFact, StoreAssumption DEF PersistBatch
  <2>2. InsertBatchIds(job[w].batch) \subseteq WAIDs
    BY <2>1, UsableEntries DEF InsertBatchIds
  <2> QED
    BY <1>6, <2>2 DEF PersistBatch, uiVars
<1>7. CASE UpsertName(w)
  <2>1. PICK p \in job[w].names : job' = [job EXCEPT ![w] = [job[w] EXCEPT !.names = @ \ {p}]]
    BY <1>7 DEF UpsertName
  <2>2. [job[w] EXCEPT !.names = @ \ {p}] \in History
    BY <1>7 DEF UpsertName, History
  <2>3. job[w] \in History /\ pc[w] = "names"
    BY <1>7 DEF UpsertName
  <2> QED
    BY <1>7, <2>1, <2>2, <2>3 DEF UpsertName, uiVars
<1>8. CASE NamesDone(w)
  BY <1>8 DEF NamesDone, uiVars
<1> QED
  BY <1>1, <1>2, <1>3, <1>4, <1>5, <1>6, <1>7, <1>8 DEF Handle

\* A step of the frame loop, of the user or of a restart is typed.
LEMMA UITypes ==
  ASSUME IngestTypeOK, StoreInv,
         FrameLoop \/ (\E jid \in JIDs : SelectChat(jid)) \/ OnBack \/ UserInput \/ Restart
  PROVE  IngestTypeOK'
<1> USE DEF IngestTypeOK, workerVars, uiVars
<1>1. CASE FoldNext
  <2>1. incoming \in Seq(LiveEvents) /\ incoming # <<>> /\ Len(incoming) <= incomingBuffer
    BY <1>1 DEF FoldNext
  <2>2. /\ Tail(incoming) \in Seq(LiveEvents) /\ Len(Tail(incoming)) <= incomingBuffer
        /\ Head(incoming) \in LiveEvents
    BY <2>1, ReceiveTypes
  <2>3. Head(incoming).msg.wa_id \in WAIDs
    BY <2>2, LiveEventFact
  <2>4. pane' \subseteq WAIDs
    BY <1>1, <2>3 DEF FoldNext
  <2> QED
    BY <1>1, <2>2, <2>4 DEF FoldNext
<1>2. CASE DrainDone \/ NextFrame \/ Render
  BY <1>2 DEF DrainDone, NextFrame, Render
<1>3. ASSUME NEW jid \in JIDs, SelectChat(jid) PROVE IngestTypeOK'
  <2>1. ChatMessages(jid) \subseteq WAIDs
    BY DEF ChatMessages, StoreInv, StoreTypeOK
  <2> QED
    BY <1>3, <2>1 DEF SelectChat
<1>4. CASE OnBack
  BY <1>4 DEF OnBack
<1>5. CASE UserInput
  BY <1>5 DEF UserInput
<1>6. CASE Restart
  <2>1. incoming' \in Seq(LiveEvents) /\ Len(incoming') <= incomingBuffer
    BY <1>6, EmptyChannel DEF Restart
  <2> QED
    BY <1>6, <2>1 DEF Restart
<1> QED
  BY <1>1, <1>2, <1>3, <1>4, <1>5, <1>6 DEF FrameLoop

\* IngestTypeOK is inductive given the store's invariant.
LEMMA IngestTypesStep ==
  ASSUME IngestTypeOK, StoreInv, [IngestNext]_vars
  PROVE  IngestTypeOK'
<1>1. CASE UNCHANGED vars
  BY <1>1 DEF vars, ingestVars, IngestTypeOK
<1> QED
  BY <1>1, WorkerTypes, UITypes DEF IngestNext

-----------------------------------------------------------------------------
(* Wake-ups *)

\* Only Send fills the channel, and its worker still has to notify; only
\* NextFrame consumes a request, and it leaves the loop's wait.
LEMMA NoLostWakeupStep ==
  ASSUME IngestTypeOK, NoLostWakeup, [IngestNext]_vars
  PROVE  NoLostWakeup'
<1> SUFFICES ASSUME ui' = "wait", incoming' # <<>>, ~invalidated'
             PROVE  \E v \in Workers : pc'[v] = "notify"
  BY DEF NoLostWakeup
<1> USE DEF workerVars, uiVars
<1>1. ASSUME NEW w \in Workers, Send(w) PROVE pc'[w] = "notify"
  BY <1>1 DEF Send, IngestTypeOK
<1>2. ASSUME NEW w \in Workers, Notify(w) PROVE FALSE
  BY <1>2 DEF Notify
<1>3. ASSUME NEW w \in Workers,
             Dispatch(w) \/ PersistFails(w) \/ Persist(w) \/ PersistBatch(w)
               \/ UpsertName(w) \/ NamesDone(w)
      PROVE  \E v \in Workers : pc'[v] = "notify"
  <2>1. /\ ui = ui' /\ incoming = incoming' /\ invalidated = invalidated'
        /\ pc[w] # "notify"
        /\ \A v \in Workers \ {w} : pc'[v] = pc[v]
    BY <1>3 DEF Dispatch, PersistFails, Persist, PersistBatch, UpsertName, NamesDone, IngestTypeOK
  <2> QED
    BY <2>1 DEF NoLostWakeup
<1>4. ASSUME FrameLoop \/ (\E jid \in JIDs : SelectChat(jid)) \/ OnBack \/ UserInput \/ Restart
      PROVE  FALSE
  BY <1>4 DEF FrameLoop, FoldNext, DrainDone, NextFrame, Render, SelectChat, OnBack,
              UserInput, Restart
<1>5. CASE UNCHANGED vars
  BY <1>5 DEF vars, ingestVars, NoLostWakeup
<1> QED
  BY <1>1, <1>2, <1>3, <1>4, <1>5 DEF IngestNext, Handle

-----------------------------------------------------------------------------
(* What is published: on the channel, or past the insert in its worker.      *)
(* One lemma for each action that changes it.                                *)

Published == InChannel \cup Sending

\* What a sequence holds after an append.
LEMMA ElementsOfAppend ==
  ASSUME NEW S, NEW ch \in Seq(S), NEW e \in S
  PROVE  {Append(ch, e)[i] : i \in DOMAIN Append(ch, e)} = {ch[i] : i \in DOMAIN ch} \cup {e}
<1> DEFINE new == Append(ch, e)
<1>1. /\ new \in Seq(S) /\ DOMAIN new = 1..(Len(ch) + 1) /\ DOMAIN ch = 1..Len(ch)
      /\ Len(ch) \in Nat
      /\ \A i \in 1..Len(ch) : new[i] = ch[i]
      /\ new[Len(ch) + 1] = e
  OBVIOUS
<1>2. 1..(Len(ch) + 1) = 1..Len(ch) \cup {Len(ch) + 1}
  BY <1>1
<1> HIDE DEF new
<1> QED
  BY <1>1, <1>2

\* What a sequence holds is its head and what its tail holds.
LEMMA ElementsOfTail ==
  ASSUME NEW S, NEW ch \in Seq(S), ch # <<>>
  PROVE  {ch[i] : i \in DOMAIN ch} =
           {Tail(ch)[i] : i \in DOMAIN Tail(ch)} \cup {Head(ch)}
<1>0. PICK old : old = Tail(ch)
  OBVIOUS
<1>1. /\ DOMAIN ch = 1..Len(ch) /\ Len(ch) \in Nat /\ Len(ch) >= 1
      /\ DOMAIN old = 1..(Len(ch) - 1)
      /\ \A i \in 1..(Len(ch) - 1) : old[i] = ch[i + 1]
      /\ Head(ch) = ch[1]
  BY <1>0
<1>2. \A i \in 1..Len(ch) : i = 1 \/ (i - 1 \in 1..(Len(ch) - 1) /\ i = (i - 1) + 1)
  BY <1>1
<1>3. \A i \in 1..(Len(ch) - 1) : i + 1 \in 1..Len(ch)
  BY <1>1
<1>4. 1 \in 1..Len(ch)
  BY <1>1
<1>5. \A i \in 1..Len(ch) : i # 1 => ch[i] = old[i - 1] /\ i - 1 \in 1..(Len(ch) - 1)
  <2> TAKE i \in 1..Len(ch)
  <2> HAVE i # 1
  <2>1. i - 1 \in 1..(Len(ch) - 1) /\ (i - 1) + 1 = i
    BY <1>2
  <2> QED
    BY <1>1, <2>1
<1>6. \A i \in 1..Len(ch) : ch[i] \in {old[k] : k \in 1..(Len(ch) - 1)} \cup {ch[1]}
  <2> TAKE i \in 1..Len(ch)
  <2>1. CASE i = 1
    BY <2>1
  <2>2. CASE i # 1
    <3>1. PICK k \in 1..(Len(ch) - 1) : ch[i] = old[k]
      BY <1>5, <2>2
    <3> QED
      BY <3>1
  <2> QED
    BY <2>1, <2>2
<1>7. \A k \in 1..(Len(ch) - 1) : old[k] \in {ch[i] : i \in 1..Len(ch)}
  <2> TAKE k \in 1..(Len(ch) - 1)
  <2>1. PICK i \in 1..Len(ch) : old[k] = ch[i]
    BY <1>1, <1>3
  <2> QED
    BY <2>1
<1>8. ch[1] \in {ch[i] : i \in 1..Len(ch)}
  BY <1>4
<1>9. {ch[i] : i \in 1..Len(ch)} = {old[i] : i \in 1..(Len(ch) - 1)} \cup {ch[1]}
  BY <1>6, <1>7, <1>8, Zenon
<1> QED
  BY <1>0, <1>1, <1>9

\* Persist makes its event about to be sent.
LEMMA PublishedByPersist ==
  ASSUME IngestTypeOK, NEW w \in Workers, Persist(w)
  PROVE  Published' = Published \cup {job[w]} /\ job[w] \in Sending'
<1>1. /\ pc'[w] = "send" /\ \A v \in Workers \ {w} : pc'[v] = pc[v]
      /\ job' = job /\ incoming' = incoming
  BY DEF Persist, IngestTypeOK
<1>2. Sending' = Sending \cup {job[w]}
  BY <1>1 DEF Sending
<1> QED
  BY <1>1, <1>2 DEF Published, InChannel

\* Send moves its event to the channel or drops it, and then records the id.
LEMMA PublishedBySend ==
  ASSUME IngestTypeOK, NEW w \in Workers, Send(w)
  PROVE  /\ job[w] \in Published /\ job[w] \in LiveEvents
         /\ Published' \subseteq Published
         /\ Published \subseteq Published' \cup {job[w]}
         /\ job[w] \in Published' \/ job[w].msg.wa_id \in bypassed'
<1>1. /\ pc[w] = "send" /\ pc'[w] = "notify" /\ \A v \in Workers \ {w} : pc'[v] = pc[v]
      /\ job' = job /\ job[w] \in LiveEvents
  BY DEF Send, IngestTypeOK
<1>2. /\ job[w] \in Sending /\ Sending' \subseteq Sending
      /\ Sending \subseteq Sending' \cup {job[w]}
  BY <1>1 DEF Sending
<1>3. CASE Len(incoming) < incomingBuffer
  <2>1. incoming \in Seq(LiveEvents) /\ incoming' = Append(incoming, job[w])
    BY <1>3 DEF Send, IngestTypeOK
  <2>2. InChannel' = InChannel \cup {job[w]}
    BY <1>1, <2>1, ElementsOfAppend DEF InChannel
  <2> QED
    BY <1>1, <1>2, <2>2 DEF Published
<1>4. CASE ~(Len(incoming) < incomingBuffer)
  <2>1. incoming' = incoming /\ job[w].msg.wa_id \in bypassed'
    BY <1>4 DEF Send
  <2> QED
    BY <1>1, <1>2, <2>1 DEF Published, InChannel
<1> QED
  BY <1>3, <1>4

\* The frame loop takes the oldest event off the channel.
LEMMA PublishedByFold ==
  ASSUME IngestTypeOK, FoldNext
  PROVE  /\ Head(incoming) \in Published /\ Head(incoming) \in LiveEvents
         /\ Published = Published' \cup {Head(incoming)}
<1>1. incoming \in Seq(LiveEvents) /\ incoming # <<>> /\ incoming' = Tail(incoming)
  BY DEF FoldNext, IngestTypeOK
<1>2. InChannel = InChannel' \cup {Head(incoming)}
  BY <1>1, ElementsOfTail DEF InChannel
<1>3. Sending' = Sending
  BY DEF FoldNext, workerVars, Sending
<1>4. Head(incoming) \in LiveEvents
  BY <1>1
<1> QED
  BY <1>2, <1>3, <1>4 DEF Published

\* No other step of a worker publishes or retracts anything.
LEMMA PublishedByOthers ==
  ASSUME IngestTypeOK, NEW w \in Workers,
         Dispatch(w) \/ PersistFails(w) \/ Notify(w) \/ PersistBatch(w) \/ UpsertName(w)
           \/ NamesDone(w)
  PROVE  Published' = Published
<1>1. /\ pc[w] # "send" /\ pc'[w] # "send"
      /\ \A v \in Workers \ {w} : pc'[v] = pc[v] /\ job'[v] = job[v]
      /\ incoming' = incoming
  BY DEF Dispatch, PersistFails, Notify, PersistBatch, UpsertName, NamesDone, IngestTypeOK
<1>2. Sending' = Sending
  BY <1>1 DEF Sending
<1> QED
  BY <1>1, <1>2 DEF Published, InChannel

\* Nor does a step outside the workers, except that a restart forgets it all.
LEMMA PublishedByUI ==
  ASSUME DrainDone \/ NextFrame \/ Render \/ (\E jid \in JIDs : SelectChat(jid)) \/ OnBack
           \/ UserInput \/ UNCHANGED vars
  PROVE  Published' = Published
BY DEF DrainDone, NextFrame, Render, SelectChat, OnBack, UserInput, vars, ingestVars,
       workerVars, Published, InChannel, Sending

\* A restart forgets everything in flight.
LEMMA PublishedByRestart ==
  ASSUME Restart
  PROVE  Published' = {}
<1>1. incoming' = <<>> /\ \A w \in Workers : pc'[w] = "idle"
  BY DEF Restart
<1> QED
  BY <1>1 DEF Published, InChannel, Sending

-----------------------------------------------------------------------------
(* Persist before publish *)

\* Where a step publishes nothing and shows nothing new.
LEMMA PersistKept ==
  ASSUME PersistBeforePublish, MessagesKeptStep,
         Published' \subseteq Published, pane' \cup screen' \subseteq pane \cup screen
  PROVE  PersistBeforePublish'
BY DEF PersistBeforePublish, MessagesKeptStep, Published

\* Every step publishes and shows stored messages only.
LEMMA PersistBeforePublishStep ==
  ASSUME IngestTypeOK, StoreInv, PersistBeforePublish, [IngestNext]_vars
  PROVE  PersistBeforePublish'
<1>1. MessagesKeptStep
  BY IngestStoreStep
<1>2. ASSUME NEW w \in Workers, Persist(w) PROVE PersistBeforePublish'
  <2>1. Published' = Published \cup {job[w]}
    BY <1>2, PublishedByPersist
  <2>2. job[w].msg.wa_id \in DOMAIN messages'
    BY <1>2 DEF Persist, Insert, InsertIgnore, Put
  <2>3. pane' = pane /\ screen' = screen
    BY <1>2 DEF Persist, uiVars
  <2> QED
    BY <1>1, <2>1, <2>2, <2>3 DEF PersistBeforePublish, MessagesKeptStep, Published
<1>3. ASSUME NEW w \in Workers, Send(w) PROVE PersistBeforePublish'
  <2>1. Published' \subseteq Published /\ pane' = pane /\ screen' = screen
    BY <1>3, PublishedBySend DEF Send, uiVars
  <2> QED
    BY <1>1, <2>1, PersistKept
<1>4. ASSUME NEW w \in Workers,
             Dispatch(w) \/ PersistFails(w) \/ Notify(w) \/ PersistBatch(w) \/ UpsertName(w)
               \/ NamesDone(w)
      PROVE  PersistBeforePublish'
  <2>1. pane' = pane /\ screen' = screen
    BY <1>4 DEF Dispatch, PersistFails, Notify, PersistBatch, UpsertName, NamesDone, uiVars
  <2> QED
    BY <1>1, <1>4, <2>1, PublishedByOthers, PersistKept
<1>5. CASE FoldNext
  <2>1. /\ Head(incoming) \in Published /\ Published' \subseteq Published
    BY <1>5, PublishedByFold
  <2>2. Head(incoming).msg.wa_id \in DOMAIN messages
    BY <2>1 DEF PersistBeforePublish, Published
  <2>3. screen' = screen /\ pane' \subseteq pane \cup {Head(incoming).msg.wa_id}
    BY <1>5 DEF FoldNext
  <2> QED
    BY <1>1, <2>1, <2>2, <2>3 DEF PersistBeforePublish, MessagesKeptStep, Published
<1>6. ASSUME NEW jid \in JIDs, SelectChat(jid) PROVE PersistBeforePublish'
  <2>1. Published' = Published /\ pane' \subseteq DOMAIN messages /\ screen' = screen
    BY <1>6, PublishedByUI DEF SelectChat, ChatMessages
  <2> QED
    BY <1>1, <2>1 DEF PersistBeforePublish, MessagesKeptStep, Published
<1>7. CASE DrainDone \/ NextFrame \/ Render \/ OnBack \/ UserInput \/ UNCHANGED vars
  <2>1. pane' \cup screen' \subseteq pane \cup screen
    BY <1>7 DEF DrainDone, NextFrame, Render, OnBack, UserInput, uiVars, vars, ingestVars
  <2> QED
    BY <1>1, <1>7, <2>1, PublishedByUI, PersistKept
<1>8. CASE Restart
  BY <1>8, PublishedByRestart DEF Restart, PersistBeforePublish, Published
<1> QED
  BY <1>2, <1>3, <1>4, <1>5, <1>6, <1>7, <1>8 DEF IngestNext, Handle, FrameLoop

-----------------------------------------------------------------------------
(* The open chat *)

\* A step that keeps the chat open, takes nothing from the pane, and accounts
\* for the messages it stores and for the events it takes out of flight.
LEMMA PaneKept ==
  ASSUME PaneComplete, MessagesKeptStep, selected' = selected,
         pane \subseteq pane', bypassed \subseteq bypassed',
         \A v \in DOMAIN messages' \ DOMAIN messages : v \in bypassed' \/ InFlight(v)',
         \A e \in Published, v \in ChatMessages(selected) :
           e.msg.wa_id = v /\ e.msg.chat_jid = selected
             => v \in pane' \cup bypassed' \/ e \in Published'
  PROVE  PaneComplete'
<1> SUFFICES ASSUME NEW v \in ChatMessages(selected)'
             PROVE  v \in pane' \/ v \in bypassed' \/ InFlight(v)'
  BY DEF PaneComplete
<1>1. v \in DOMAIN messages' /\ messages'[v].chat_jid = selected
  BY DEF ChatMessages
<1>2. CASE v \notin DOMAIN messages
  BY <1>1, <1>2
<1>3. CASE v \in DOMAIN messages
  <2>1. messages[v].chat_jid = selected /\ v \in ChatMessages(selected)
    BY <1>1, <1>3 DEF MessagesKeptStep, RowKept, ChatMessages
  <2>2. CASE v \in pane \/ v \in bypassed
    BY <2>2
  <2>3. CASE InFlight(v)
    <3>1. PICK e \in Published : e.msg.wa_id = v /\ e.msg.chat_jid = selected
      BY <2>1, <2>3 DEF InFlight, Published
    <3>2. e \in Published' => InFlight(v)'
      BY <1>1, <3>1 DEF InFlight, Published
    <3> QED
      BY <2>1, <3>1, <3>2
  <2> QED
    BY <2>1, <2>2, <2>3 DEF PaneComplete
<1> QED
  BY <1>2, <1>3

\* Every step accounts for each stored message of the open chat.
LEMMA PaneCompleteStep ==
  ASSUME IngestTypeOK, StoreInv, PaneComplete, [IngestNext]_vars
  PROVE  PaneComplete'
<1>1. MessagesKeptStep
  BY IngestStoreStep
<1>2. ASSUME NEW w \in Workers, Persist(w) PROVE PaneComplete'
  <2>1. Published' = Published \cup {job[w]} /\ job[w] \in Sending'
    BY <1>2, PublishedByPersist
  <2>2. /\ selected' = selected /\ pane' = pane /\ bypassed' = bypassed
        /\ messages' = InsertIgnore(job[w].msg)
    BY <1>2 DEF Persist, Insert, uiVars
  <2>3. ASSUME NEW v \in DOMAIN messages' \ DOMAIN messages PROVE InFlight(v)'
    <3>1. v = job[w].msg.wa_id /\ messages'[v] = Row(job[w].msg)
      BY <2>2, <2>3 DEF InsertIgnore, Put
    <3>2. messages'[v].chat_jid = job[w].msg.chat_jid
      BY <3>1, RowFact
    <3> QED
      BY <2>1, <3>1, <3>2 DEF InFlight
  <2> QED
    BY <1>1, <2>1, <2>2, <2>3, PaneKept
<1>3. ASSUME NEW w \in Workers, Send(w) PROVE PaneComplete'
  <2>1. /\ Published \subseteq Published' \cup {job[w]}
        /\ job[w] \in Published' \/ job[w].msg.wa_id \in bypassed'
    BY <1>3, PublishedBySend
  <2>2. /\ selected' = selected /\ pane' = pane /\ bypassed \subseteq bypassed'
        /\ messages' = messages
    BY <1>3 DEF Send, uiVars, storeVars
  <2> QED
    BY <1>1, <2>1, <2>2, PaneKept
<1>4. ASSUME NEW w \in Workers, PersistBatch(w) PROVE PaneComplete'
  <2>1. /\ selected' = selected /\ pane' = pane
        /\ bypassed' = bypassed \cup (InsertBatchIds(job[w].batch) \ DOMAIN messages)
        /\ DOMAIN messages' = DOMAIN messages \cup InsertBatchIds(job[w].batch)
    BY <1>4 DEF PersistBatch, InsertBatch, InsertBatchIds, uiVars
  <2> QED
    BY <1>1, <1>4, <2>1, PublishedByOthers, PaneKept
<1>5. ASSUME NEW w \in Workers,
             Dispatch(w) \/ PersistFails(w) \/ Notify(w) \/ UpsertName(w) \/ NamesDone(w)
      PROVE  PaneComplete'
  <2>1. selected' = selected /\ pane' = pane /\ bypassed' = bypassed /\ messages' = messages
    BY <1>5 DEF Dispatch, PersistFails, Notify, UpsertName, UpsertChat, NamesDone, uiVars,
                storeVars
  <2> QED
    BY <1>1, <1>5, <2>1, PublishedByOthers, PaneKept
<1>6. CASE FoldNext
  <2>1. Published = Published' \cup {Head(incoming)}
    BY <1>6, PublishedByFold
  <2>2. /\ selected' = selected /\ pane \subseteq pane' /\ bypassed' = bypassed
        /\ messages' = messages
        /\ Head(incoming).msg.chat_jid = selected => Head(incoming).msg.wa_id \in pane'
    BY <1>6 DEF FoldNext, storeVars
  <2> QED
    BY <1>1, <2>1, <2>2, PaneKept
<1>7. ASSUME NEW jid \in JIDs, SelectChat(jid) PROVE PaneComplete'
  BY <1>7 DEF SelectChat, PaneComplete, ChatMessages, storeVars
<1>8. CASE DrainDone \/ NextFrame \/ Render \/ UserInput \/ UNCHANGED vars
  <2>1. selected' = selected /\ pane' = pane /\ bypassed' = bypassed /\ messages' = messages
    BY <1>8 DEF DrainDone, NextFrame, Render, UserInput, uiVars, vars, ingestVars, storeVars
  <2> QED
    BY <1>1, <1>8, <2>1, PublishedByUI, PaneKept
<1>9. CASE OnBack \/ Restart
  <2>1. selected' = NoChat /\ messages' = messages
    BY <1>9 DEF OnBack, Restart, storeVars
  <2>2. \A v \in DOMAIN messages : messages[v].chat_jid # NoChat
    BY StoreAssumption DEF StoreInv, StoreTypeOK, Message, NoChat
  <2> QED
    BY <2>1, <2>2 DEF PaneComplete, ChatMessages
<1> QED
  BY <1>2, <1>3, <1>4, <1>5, <1>6, <1>7, <1>8, <1>9 DEF IngestNext, Handle, FrameLoop

-----------------------------------------------------------------------------
(* The theorems *)

\* The invariant holds when the process starts on an empty database.
LEMMA IngestInitInv ==
  ASSUME IngestInit
  PROVE  IngestInv
<1>1. StoreInit /\ ui = "drain" /\ incoming = <<>> /\ pane = {} /\ screen = {}
      /\ \A w \in Workers : pc[w] = "idle"
  BY DEF IngestInit
<1>2. InChannel = {} /\ Sending = {}
  BY <1>1 DEF InChannel, Sending
<1>3. PersistBeforePublish /\ NoLostWakeup /\ PaneComplete
  BY <1>1, <1>2 DEF PersistBeforePublish, NoLostWakeup, PaneComplete, ChatMessages, StoreInit
<1> QED
  BY <1>1, <1>3, IngestInitTypes, StoreInitInv DEF IngestInv

\* The inductive invariant holds of every run of the pipeline, whatever is
\* delivered, however often, and wherever the process is stopped.
THEOREM IngestInvariant == IngestSpec => []IngestInv
<1>1. IngestInit => IngestInv
  BY IngestInitInv
<1>2. IngestInv /\ [IngestNext]_vars => IngestInv'
  BY IngestTypesStep, IngestStoreStep, NoLostWakeupStep, PersistBeforePublishStep,
     PaneCompleteStep DEF IngestInv
<1> QED
  BY <1>1, <1>2, PTL DEF IngestSpec

\* Types of the pipeline's variables.
THEOREM IngestTypes == IngestSpec => []IngestTypeOK
BY IngestInvariant, PTL DEF IngestInv

\* The pipeline drives the store only through its operations: refinement.
THEOREM IngestImplementsStore == IngestSpec => StoreSpec
<1>1. IngestInit => StoreInit
  BY DEF IngestInit
<1>2. IngestInv /\ [IngestNext]_vars => [StoreNext]_storeVars
  BY IngestStepsStore DEF IngestInv
<1> QED
  BY <1>1, <1>2, IngestInvariant, PTL DEF IngestSpec, StoreSpec

\* Nothing reaches the channel, the view-model or the screen before the store.
THEOREM NothingShownUnpersisted == IngestSpec => []PersistBeforePublish
BY IngestInvariant, PTL DEF IngestInv

\* The frame loop never sleeps on an event with no wake-up coming.
THEOREM WakeupIsNeverLost == IngestSpec => []NoLostWakeup
BY IngestInvariant, PTL DEF IngestInv

\* The open chat misses no stored message but those in flight or bypassed.
THEOREM OpenChatIsComplete == IngestSpec => []PaneComplete
BY IngestInvariant, PTL DEF IngestInv

-----------------------------------------------------------------------------
(* 3. Messages sent from here *)

\* A sender that is about to write "sent" has the server's answer.
AckedIsAccepted == \A waID \in OwnIDs : sender[waID] = "update" => waID \in accepted

\* A receipt worker writes only what its receipt said.
ReceiptsReported ==
  \A r \in ReceiptWorkers : receipts[r] # Idle =>
    /\ receipts[r].status \in {StatusDelivered, StatusRead, StatusPlayed}
    /\ \A i \in DOMAIN receipts[r].ids :
         receipts[r].ids[i] # "" => <<receipts[r].ids[i], receipts[r].status>> \in reported

\* A copy about to be stored is one of those that can come, of an accepted message.
CopiesAccepted ==
  \A w \in Workers :
    /\ pc[w] = "batch" => job[w] \in Histories
    /\ pc[w] \in {"insert", "batch"} => Brings(job[w]) \cap OwnIDs \subseteq accepted

OutgoingInv ==
  /\ OutgoingTypeOK /\ StoreInv
  /\ AckedIsAccepted /\ ReceiptsReported /\ CopiesAccepted
  /\ TickHonest /\ PendingIsTracked

-----------------------------------------------------------------------------
(* Facts about the constants *)

\* Our own messages have proper ids.
LEMMA OwnIDsFact == OwnIDs \subseteq WAIDs /\ "" \notin OwnIDs
<1> SUFFICES ASSUME NEW m \in Composed PROVE m.wa_id \in WAIDs /\ m.wa_id # ""
  BY DEF OwnIDs
<1>1. m \in Payload /\ m.wa_id # ""
  BY OutgoingAssumption, StoreAssumption
<1> QED
  BY <1>1 DEF Payload

\* Every status but "pending" can be written over a row.
LEMMA StatusFact ==
  /\ StatusSent \in NewStatuses /\ {StatusDelivered, StatusRead, StatusPlayed} \subseteq NewStatuses
  /\ NewStatuses \subseteq Statuses
  /\ StatusPending \notin {StatusSent, StatusDelivered, StatusRead, StatusPlayed}
  /\ "" \notin Statuses
BY OutgoingAssumption, StoreAssumption
DEF Statuses, StatusPending, StatusSent, StatusDelivered, StatusRead, StatusPlayed

\* A receipt of a known type says "delivered", "read" or "played".
LEMMA ReceiptStatusFact ==
  ASSUME NEW type \in ReceiptTypes, receiptStatus(type) # ""
  PROVE  receiptStatus(type) \in {StatusDelivered, StatusRead, StatusPlayed}
BY DEF ReceiptTypes, receiptStatus

\* An event and a history sync are different things.
LEMMA EventIsNoHistory ==
  ASSUME NEW h \in Histories
  PROVE  h \in History /\ h \notin LiveEvents /\ Brings(h) = InsertBatchIds(h.batch)
<1>1. h \in History
  BY IngestAssumption
<1>2. h \notin Event
  <2>1. DOMAIN h = {"batch", "names"}
    BY <1>1 DEF History
  <2>2. h \in Event => DOMAIN h = {"msg", "from_me"}
    BY DEF Event
  <2>3. "msg" \notin {"batch", "names"}
    OBVIOUS
  <2> QED
    BY <2>1, <2>2, <2>3
<1>3. h \notin LiveEvents
  BY <1>2, IngestAssumption
<1> QED
  BY <1>1, <1>3 DEF Brings

\* The parts of a sequence that is not empty.
LEMMA HeadAndTail ==
  ASSUME NEW S, NEW s \in Seq(S), s # <<>>
  PROVE  /\ Head(s) \in S /\ Tail(s) \in Seq(S)
         /\ 1 \in DOMAIN s /\ Head(s) = s[1]
         /\ \A i \in DOMAIN Tail(s) : i + 1 \in DOMAIN s /\ Tail(s)[i] = s[i + 1]
<1>1. PICK rest : rest = Tail(s)
  OBVIOUS
<1>2. /\ DOMAIN s = 1..Len(s) /\ Len(s) \in Nat /\ Len(s) >= 1
      /\ DOMAIN rest = 1..(Len(s) - 1) /\ rest \in Seq(S)
      /\ \A i \in 1..(Len(s) - 1) : rest[i] = s[i + 1]
      /\ Head(s) = s[1] /\ s[1] \in S
  BY <1>1
<1>3. 1 \in 1..Len(s) /\ \A i \in 1..(Len(s) - 1) : i + 1 \in 1..Len(s)
  BY <1>2
<1> QED
  BY <1>1, <1>2, <1>3

\* What a receipt worker has at hand when ids are left to update.
LEMMA ReceiptHead ==
  ASSUME OutgoingTypeOK, ReceiptsReported, NEW r \in ReceiptWorkers, receipts[r].ids # <<>>
  PROVE  LET ids == receipts[r].ids  status == receipts[r].status IN
         /\ status \in {StatusDelivered, StatusRead, StatusPlayed}
         /\ Head(ids) \in WAIDs \cup {""}
         /\ Head(ids) # "" => <<Head(ids), status>> \in reported
         /\ Tail(ids) \in Seq(WAIDs \cup {""})
         /\ \A i \in DOMAIN Tail(ids) :
              Tail(ids)[i] # "" => <<Tail(ids)[i], status>> \in reported
<1> DEFINE ids == receipts[r].ids
           status == receipts[r].status
<1>1. ids \in Seq(WAIDs \cup {""}) /\ ids # <<>>
  BY DEF OutgoingTypeOK
<1>2. receipts[r] # Idle
  <2>1. Idle.ids = <<>>
    BY DEF Idle
  <2> QED
    BY <2>1
<1>3. /\ status \in {StatusDelivered, StatusRead, StatusPlayed}
      /\ \A i \in DOMAIN ids : ids[i] # "" => <<ids[i], status>> \in reported
  BY <1>2 DEF ReceiptsReported
<1> HIDE DEF ids, status
<1>4. /\ Head(ids) \in WAIDs \cup {""} /\ Tail(ids) \in Seq(WAIDs \cup {""})
      /\ 1 \in DOMAIN ids /\ Head(ids) = ids[1]
      /\ \A i \in DOMAIN Tail(ids) : i + 1 \in DOMAIN ids /\ Tail(ids)[i] = ids[i + 1]
  BY <1>1, HeadAndTail
<1>5. \A i \in DOMAIN Tail(ids) : Tail(ids)[i] # "" => <<Tail(ids)[i], status>> \in reported
  BY <1>3, <1>4
<1> QED
  BY <1>3, <1>4, <1>5 DEF ids, status

-----------------------------------------------------------------------------
(* The steps that are the pipeline's *)

PipelineStep ==
  \/ \E w \in Workers : DispatchAny(w)
  \/ FoldIncoming \/ (\E jid \in JIDs : OpenChat(jid)) \/ CloseChat \/ RestartAll \/ OtherSteps

\* Such a step is a step of Ingest.
LEMMA PipelineIsIngest ==
  ASSUME PipelineStep
  PROVE  IngestNext
BY DEF PipelineStep, DispatchAny, FoldIncoming, OpenChat, CloseChat, RestartAll, OtherSteps,
       IngestNext, FrameLoop

\* Every step calls the store through its operations, or not at all.
LEMMA OutgoingStepsStore ==
  ASSUME OutgoingTypeOK, ReceiptsReported, [OutgoingNext]_allVars
  PROVE  [StoreNext]_storeVars
<1>1. CASE PipelineStep
  BY <1>1, PipelineIsIngest, IngestStepsStore DEF OutgoingTypeOK
<1>2. ASSUME NEW m \in Composed, OnSend(m) PROVE StoreNext
  <2>1. m \in Payloads /\ Insert(m, FALSE) /\ FALSE \in BOOLEAN
    BY <1>2, OutgoingAssumption DEF OnSend
  <2> QED
    BY <2>1 DEF StoreNext
<1>3. ASSUME NEW waID \in OwnIDs, FlipSent(waID) PROVE StoreNext
  <2>1. waID \in WAIDs /\ StatusSent \in NewStatuses /\ UpdateStatus(waID, StatusSent)
    BY <1>3, OwnIDsFact, StatusFact DEF FlipSent
  <2> QED
    BY <2>1 DEF StoreNext
<1>4. ASSUME NEW r \in ReceiptWorkers, ApplyReceipt(r) PROVE [StoreNext]_storeVars
  <2>1. CASE Head(receipts[r].ids) = ""
    BY <1>4, <2>1 DEF ApplyReceipt
  <2>2. CASE Head(receipts[r].ids) # ""
    <3> DEFINE id == Head(receipts[r].ids)
    <3>1. id \in WAIDs /\ receipts[r].status \in NewStatuses
      BY <1>4, <2>2, ReceiptHead, StatusFact DEF ApplyReceipt
    <3>2. UpdateStatus(id, receipts[r].status)
      BY <1>4, <2>2 DEF ApplyReceipt
    <3> HIDE DEF id
    <3> QED
      BY <3>1, <3>2 DEF StoreNext
  <2> QED
    BY <2>1, <2>2
<1>5. ASSUME NEW m \in Composed, OnSendUnstored(m) PROVE UNCHANGED storeVars
  BY <1>5 DEF OnSendUnstored
<1>6. ASSUME NEW waID \in OwnIDs, ServerAccepts(waID) \/ SendReturns(waID) \/ SendFails(waID)
                                    \/ FlipFails(waID) \/ Redraw(waID)
      PROVE  UNCHANGED storeVars
  BY <1>6 DEF ServerAccepts, SendReturns, SendFails, FlipFails, Redraw
<1>7. ASSUME NEW r \in ReceiptWorkers,
             (\E receipt \in Receipts : OnReceipt(r, receipt)) \/ ApplyReceiptFails(r)
               \/ ReceiptDone(r)
      PROVE  UNCHANGED storeVars
  BY <1>7 DEF OnReceipt, ApplyReceiptFails, ReceiptDone
<1>8. CASE UNCHANGED allVars
  BY <1>8 DEF allVars, vars
<1> QED
  BY <1>1, <1>2, <1>3, <1>4, <1>5, <1>6, <1>7, <1>8 DEF OutgoingNext, SenderSteps, PipelineStep

-----------------------------------------------------------------------------
(* The status column *)

\* What a step may do to the status of a row: leave it, store it pending with
\* its sender starting, or make it one the outside world has said.
StatusKept(waID) ==
  waID \in DOMAIN messages /\ messages'[waID].status = messages[waID].status

StoredPending(waID) ==
  /\ waID \notin DOMAIN messages
  /\ messages'[waID].status = StatusPending /\ waID \in OwnIDs /\ sender'[waID] = "sending"

Settled(waID) ==
  /\ messages'[waID].status \in {StatusSent, StatusDelivered, StatusRead, StatusPlayed}
  /\ waID \in OwnIDs => Earned(waID, messages[waID].status)'

StatusStep ==
  \A waID \in DOMAIN messages' : StatusKept(waID) \/ StoredPending(waID) \/ Settled(waID)

\* The row of a copy that comes without a status is "sent".
LEMMA CopyIsSent ==
  ASSUME NEW m, m.status = ""
  PROVE  Row(m).status = StatusSent
BY DEF Row

\* A row made or marked "sent" is settled once the server has the message.
LEMMA SentIsSettled ==
  ASSUME NEW waID, messages'[waID].status = StatusSent, waID \in OwnIDs => waID \in accepted'
  PROVE  Settled(waID)
BY DEF Settled, Earned, StatusSent, StatusDelivered, StatusRead, StatusPlayed

\* A row marked by a receipt is settled once the receipt has been reported.
LEMMA ReportedIsSettled ==
  ASSUME NEW waID,
         messages'[waID].status \in {StatusDelivered, StatusRead, StatusPlayed},
         <<waID, messages'[waID].status>> \in reported'
  PROVE  Settled(waID)
BY DEF Settled, Earned, StatusSent, StatusDelivered, StatusRead, StatusPlayed

\* Every step respects the status column.
LEMMA OutgoingStatusStep ==
  ASSUME OutgoingInv, [OutgoingNext]_allVars
  PROVE  StatusStep
<1> USE DEF OutgoingInv
<1> SUFFICES ASSUME NEW waID \in DOMAIN messages'
             PROVE  StatusKept(waID) \/ StoredPending(waID) \/ Settled(waID)
  BY DEF StatusStep
<1>1. ASSUME messages' = messages PROVE StatusKept(waID)
  BY <1>1 DEF StatusKept
<1>2. ASSUME NEW m \in Composed, OnSend(m) PROVE StatusKept(waID) \/ StoredPending(waID)
  <2>1. /\ messages' = InsertIgnore(m) /\ m.status = StatusPending /\ m.wa_id \in OwnIDs
        /\ sender' = [sender EXCEPT ![m.wa_id] = "sending"]
    BY <1>2, OutgoingAssumption DEF OnSend, Insert, Launch, OwnIDs
  <2>2. sender'[m.wa_id] = "sending"
    BY <2>1 DEF OutgoingTypeOK
  <2>3. waID \in DOMAIN messages => StatusKept(waID)
    BY <2>1 DEF InsertIgnore, Put, StatusKept
  <2>4. ASSUME waID \notin DOMAIN messages PROVE StoredPending(waID)
    <3>1. waID = m.wa_id /\ messages'[waID] = Row(m)
      BY <2>1, <2>4 DEF InsertIgnore, Put
    <3>2. messages'[waID].status = StatusPending
      BY <2>1, <3>1 DEF Row, StatusPending
    <3> QED
      BY <2>1, <2>2, <2>4, <3>1, <3>2 DEF StoredPending
  <2> QED
    BY <2>3, <2>4
<1>3. ASSUME NEW id \in OwnIDs, FlipSent(id) PROVE StatusKept(waID) \/ Settled(waID)
  <2>1. /\ UpdateMessage(id, [messages[id] EXCEPT !.status = StatusSent])
        /\ id \in accepted'
    BY <1>3 DEF FlipSent, UpdateStatus, AckedIsAccepted
  <2>2. CASE waID = id
    <3>1. messages'[waID].status = StatusSent
      BY <2>1, <2>2 DEF UpdateMessage, StoreInv, StoreTypeOK, Message
    <3> QED
      BY <2>1, <2>2, <3>1, SentIsSettled
  <2>3. CASE waID # id
    BY <2>1, <2>3 DEF UpdateMessage, StatusKept
  <2> QED
    BY <2>2, <2>3
<1>4. ASSUME NEW r \in ReceiptWorkers, ApplyReceipt(r) PROVE StatusKept(waID) \/ Settled(waID)
  <2> DEFINE id == Head(receipts[r].ids)
             status == receipts[r].status
  <2>1. /\ status \in {StatusDelivered, StatusRead, StatusPlayed}
        /\ id # "" => <<id, status>> \in reported
    BY <1>4, ReceiptHead DEF ApplyReceipt
  <2>2. CASE id = ""
    BY <1>4, <2>2 DEF ApplyReceipt, storeVars, StatusKept
  <2>3. CASE id # ""
    <3>1. /\ UpdateMessage(id, [messages[id] EXCEPT !.status = status])
          /\ <<id, status>> \in reported'
      BY <1>4, <2>1, <2>3 DEF ApplyReceipt, UpdateStatus
    <3> HIDE DEF id, status
    <3>2. CASE waID = id
      <4>1. messages'[waID].status = status
        BY <3>1, <3>2 DEF UpdateMessage, StoreInv, StoreTypeOK, Message
      <4>2. /\ messages'[waID].status \in {StatusDelivered, StatusRead, StatusPlayed}
            /\ <<waID, messages'[waID].status>> \in reported'
        BY <2>1, <3>1, <3>2, <4>1
      <4> QED
        BY <4>2, ReportedIsSettled
    <3>3. CASE waID # id
      BY <3>1, <3>3 DEF UpdateMessage, StatusKept
    <3> QED
      BY <3>2, <3>3
  <2> QED
    BY <2>2, <2>3
<1>5. ASSUME NEW w \in Workers, Persist(w), UNCHANGED outVars
      PROVE  StatusKept(waID) \/ Settled(waID)
  <2>1. /\ job[w] \in LiveEvents /\ pc[w] = "insert"
        /\ messages' = InsertIgnore(job[w].msg)
    BY <1>5 DEF Persist, Insert, OutgoingTypeOK, IngestTypeOK
  <2>2. /\ job[w].msg.status = ""
        /\ job[w].msg.wa_id \in OwnIDs => job[w].msg.wa_id \in accepted'
    BY <1>5, <2>1, OutgoingAssumption DEF CopiesAccepted, Brings, outVars
  <2>3. CASE waID \in DOMAIN messages
    BY <2>1, <2>3 DEF InsertIgnore, Put, StatusKept
  <2>4. CASE waID \notin DOMAIN messages
    <3>1. waID = job[w].msg.wa_id /\ messages'[waID] = Row(job[w].msg)
      BY <2>1, <2>4 DEF InsertIgnore, Put
    <3> QED
      BY <2>2, <3>1, CopyIsSent, SentIsSettled
  <2> QED
    BY <2>3, <2>4
<1>6. ASSUME NEW w \in Workers, PersistBatch(w), UNCHANGED outVars
      PROVE  StatusKept(waID) \/ Settled(waID)
  <2> DEFINE batch == job[w].batch
  <2>1. /\ pc[w] = "batch" /\ job[w] \in Histories /\ InsertBatch(batch)
        /\ InsertBatchIds(batch) \cap OwnIDs \subseteq accepted'
    BY <1>6, EventIsNoHistory DEF PersistBatch, CopiesAccepted, outVars
  <2>2. \A i \in Usable(batch) : batch[i].status = ""
    BY <2>1, OutgoingAssumption DEF Usable
  <2> HIDE DEF batch
  <2>3. CASE waID \in DOMAIN messages
    BY <2>1, <2>3 DEF InsertBatch, StatusKept
  <2>4. CASE waID \notin DOMAIN messages
    <3>1. PICK i \in Usable(batch) : batch[i].wa_id = waID /\ messages'[waID] = Row(batch[i])
      BY <2>1, <2>4 DEF InsertBatch, FirstEntries
    <3>2. waID \in OwnIDs => waID \in accepted'
      BY <2>1, <3>1 DEF InsertBatchIds
    <3> QED
      BY <2>2, <3>1, <3>2, CopyIsSent, SentIsSettled
  <2> QED
    BY <2>3, <2>4
<1>7. ASSUME NEW w \in Workers, Handle(w), ~Persist(w), ~PersistBatch(w)
      PROVE  messages' = messages
  BY <1>7 DEF Handle, PersistFails, Send, Notify, UpsertName, UpsertChat, NamesDone, storeVars
<1>8. CASE PipelineStep
  <2>1. ASSUME NEW w \in Workers, Handle(w), UNCHANGED outVars
        PROVE  StatusKept(waID) \/ Settled(waID)
    <3>1. CASE Persist(w)
      BY <2>1, <3>1, <1>5
    <3>2. CASE PersistBatch(w)
      BY <2>1, <3>2, <1>6
    <3>3. CASE ~Persist(w) /\ ~PersistBatch(w)
      <4>1. messages' = messages
        BY <2>1, <3>3, <1>7
      <4> QED
        BY <4>1, <1>1
    <3> QED
      BY <3>1, <3>2, <3>3
  <2>2. CASE OtherSteps
    BY <1>1, <2>1, <2>2 DEF OtherSteps, DrainDone, NextFrame, Render, UserInput, storeVars
  <2>3. CASE ~OtherSteps
    <3>1. messages' = messages
      BY <1>8, <2>3 DEF PipelineStep, DispatchAny, Dispatch, FoldIncoming, FoldNext, OpenChat,
                        SelectChat, CloseChat, OnBack, RestartAll, Restart, storeVars
    <3> QED
      BY <1>1, <3>1
  <2> QED
    BY <2>2, <2>3
<1>9. ASSUME \/ \E m \in Composed : OnSendUnstored(m)
             \/ \E id \in OwnIDs : ServerAccepts(id) \/ SendReturns(id) \/ SendFails(id)
                                      \/ FlipFails(id) \/ Redraw(id)
             \/ \E r \in ReceiptWorkers, receipt \in Receipts : OnReceipt(r, receipt)
             \/ \E r \in ReceiptWorkers : ApplyReceiptFails(r) \/ ReceiptDone(r)
             \/ UNCHANGED allVars
      PROVE  messages' = messages
  BY <1>9 DEF OnSendUnstored, ServerAccepts, SendReturns, SendFails, FlipFails, Redraw,
              OnReceipt, ApplyReceiptFails, ReceiptDone, allVars, vars, storeVars
<1> QED
  BY <1>1, <1>2, <1>3, <1>4, <1>8, <1>9 DEF OutgoingNext, SenderSteps, PipelineStep

-----------------------------------------------------------------------------
(* Senders, bubbles and the outside world *)

\* What has been accepted, reported or lost stays so.
LEMMA HistoryGrows ==
  ASSUME OutgoingTypeOK, [OutgoingNext]_allVars
  PROVE  accepted \subseteq accepted' /\ reported \subseteq reported' /\ lost \subseteq lost'
<1>1. ASSUME UNCHANGED <<accepted, reported, lost>>
      PROVE  accepted \subseteq accepted' /\ reported \subseteq reported' /\ lost \subseteq lost'
  BY <1>1
<1>2. CASE PipelineStep
  BY <1>2 DEF PipelineStep, DispatchAny, FoldIncoming, OpenChat, CloseChat, RestartAll,
              OtherSteps, outVars
<1>3. CASE \E m \in Composed : OnSend(m) \/ OnSendUnstored(m)
  BY <1>1, <1>3 DEF OnSend, OnSendUnstored, sendUnchanged
<1>4. CASE \E waID \in OwnIDs : SenderSteps(waID)
  BY <1>4 DEF SenderSteps, ServerAccepts, SendReturns, SendFails, FlipSent, FlipFails, Redraw,
              senderUnchanged
<1>5. CASE \E r \in ReceiptWorkers, receipt \in Receipts : OnReceipt(r, receipt)
  BY <1>5 DEF OnReceipt, receiptUnchanged
<1>6. CASE \E r \in ReceiptWorkers : ApplyReceipt(r) \/ ApplyReceiptFails(r) \/ ReceiptDone(r)
  BY <1>1, <1>6 DEF ApplyReceipt, ApplyReceiptFails, ReceiptDone, receiptUnchanged
<1>7. CASE UNCHANGED allVars
  BY <1>1, <1>7 DEF allVars, outVars
<1> QED
  BY <1>2, <1>3, <1>4, <1>5, <1>6, <1>7 DEF OutgoingNext, PipelineStep

\* What was said of a status stays said.
LEMMA EarnedStays ==
  ASSUME OutgoingTypeOK, [OutgoingNext]_allVars, NEW waID, NEW status, Earned(waID, status)
  PROVE  \/ status = StatusSent /\ waID \in accepted'
         \/ status \in {StatusDelivered, StatusRead, StatusPlayed} /\ <<waID, status>> \in reported'
         \/ status \notin {StatusSent, StatusDelivered, StatusRead, StatusPlayed}
BY HistoryGrows DEF Earned, StatusSent, StatusDelivered, StatusRead, StatusPlayed

\* A message is earned if the world has said it, or if there was nothing to say.
LEMMA EarnedIntro ==
  ASSUME NEW waID, NEW STATE status,
         \/ status = StatusSent /\ waID \in accepted
         \/ status \in {StatusDelivered, StatusRead, StatusPlayed} /\ <<waID, status>> \in reported
         \/ status \notin {StatusSent, StatusDelivered, StatusRead, StatusPlayed}
  PROVE  Earned(waID, status)
BY DEF Earned, StatusSent, StatusDelivered, StatusRead, StatusPlayed

\* A sender stops only by writing "sent", or losing the message.
LEMMA SenderStep ==
  ASSUME OutgoingInv, [OutgoingNext]_allVars, NEW waID \in OwnIDs,
         sender[waID] \in {"sending", "update"}
  PROVE  \/ sender'[waID] \in {"sending", "update"}
         \/ waID \in lost'
         \/ waID \in DOMAIN messages' => messages'[waID].status # StatusPending
<1> DEFINE Goal == \/ sender'[waID] \in {"sending", "update"}
                   \/ waID \in lost'
                   \/ waID \in DOMAIN messages' => messages'[waID].status # StatusPending
<1> SUFFICES Goal
  OBVIOUS
<1>0. sender \in [OwnIDs -> {"none", "sending", "update", "redraw"}]
  BY DEF OutgoingInv, OutgoingTypeOK
<1>1. ASSUME sender' = sender PROVE Goal
  BY <1>1
<1>2. CASE \E m \in Composed : OnSend(m) \/ OnSendUnstored(m)
  BY <1>0, <1>2 DEF OnSend, OnSendUnstored, Launch
<1>3. ASSUME NEW id \in OwnIDs, ServerAccepts(id) \/ SendReturns(id) \/ SendFails(id)
                                  \/ FlipFails(id) \/ Redraw(id)
      PROVE  Goal
  BY <1>0, <1>3 DEF ServerAccepts, SendReturns, SendFails, FlipFails, Redraw
<1>4. ASSUME NEW id \in OwnIDs, FlipSent(id) PROVE Goal
  <2>1. CASE id = waID
    <3>1. UpdateMessage(waID, [messages[waID] EXCEPT !.status = StatusSent])
      BY <1>4, <2>1 DEF FlipSent, UpdateStatus
    <3>2. waID \in DOMAIN messages' => messages'[waID].status = StatusSent
      BY <3>1 DEF UpdateMessage, OutgoingInv, StoreInv, StoreTypeOK, Message
    <3> QED
      BY <3>2 DEF StatusSent, StatusPending
  <2>2. CASE id # waID
    BY <1>0, <1>4, <2>2 DEF FlipSent
  <2> QED
    BY <2>1, <2>2
<1>5. CASE \E r \in ReceiptWorkers, receipt \in Receipts : OnReceipt(r, receipt)
  BY <1>1, <1>5 DEF OnReceipt, receiptUnchanged
<1>6. CASE \E r \in ReceiptWorkers : ApplyReceipt(r) \/ ApplyReceiptFails(r) \/ ReceiptDone(r)
  BY <1>1, <1>6 DEF ApplyReceipt, ApplyReceiptFails, ReceiptDone, receiptUnchanged
<1>7. CASE RestartAll
  BY <1>7 DEF RestartAll
<1>8. CASE PipelineStep /\ ~RestartAll
  BY <1>1, <1>8 DEF PipelineStep, DispatchAny, FoldIncoming, OpenChat, CloseChat, OtherSteps,
                    outVars
<1>9. CASE UNCHANGED allVars
  BY <1>1, <1>9 DEF allVars, outVars
<1> HIDE DEF Goal
<1> QED
  BY <1>2, <1>3, <1>4, <1>5, <1>6, <1>7, <1>8, <1>9 DEF OutgoingNext, SenderSteps, PipelineStep

\* A bubble keeps its status, gets none or "pending", or is loaded from its row.
LEMMA BubbleStep ==
  ASSUME OutgoingInv, [OutgoingNext]_allVars, NEW waID \in pane'
  PROVE  \/ waID \in pane /\ bubble'[waID] = bubble[waID]
         \/ bubble'[waID] \in {"", StatusPending}
         \/ waID \in DOMAIN messages /\ bubble'[waID] = messages[waID].status
<1> DEFINE Goal == \/ waID \in pane /\ bubble'[waID] = bubble[waID]
                   \/ bubble'[waID] \in {"", StatusPending}
                   \/ waID \in DOMAIN messages /\ bubble'[waID] = messages[waID].status
<1> SUFFICES Goal
  OBVIOUS
<1>0. DOMAIN bubble = pane
  BY DEF OutgoingInv, OutgoingTypeOK
<1>1. ASSUME UNCHANGED <<pane, bubble>> PROVE Goal
  BY <1>1
<1>2. CASE \E m \in Composed : OnSend(m) \/ OnSendUnstored(m)
  BY <1>0, <1>2 DEF OnSend, OnSendUnstored, Put
<1>3. CASE \E id \in OwnIDs : SenderSteps(id)
  BY <1>1, <1>3 DEF SenderSteps, ServerAccepts, SendReturns, SendFails, FlipSent, FlipFails,
                    Redraw, senderUnchanged, uiVars
<1>4. CASE \/ \E r \in ReceiptWorkers, receipt \in Receipts : OnReceipt(r, receipt)
           \/ \E r \in ReceiptWorkers : ApplyReceipt(r) \/ ApplyReceiptFails(r) \/ ReceiptDone(r)
  BY <1>1, <1>4 DEF OnReceipt, ApplyReceipt, ApplyReceiptFails, ReceiptDone, receiptUnchanged,
                    uiVars
<1>5. CASE \E w \in Workers : DispatchAny(w)
  BY <1>1, <1>5 DEF DispatchAny, Dispatch, uiVars
<1>6. CASE FoldIncoming
  BY <1>0, <1>6 DEF FoldIncoming, FoldNext, Put
<1>7. CASE \E jid \in JIDs : OpenChat(jid)
  BY <1>7 DEF OpenChat, SelectChat, ChatMessages
<1>8. CASE CloseChat \/ RestartAll
  BY <1>8 DEF CloseChat, OnBack, RestartAll, Restart
<1>9. CASE OtherSteps
  <2>1. ASSUME NEW w \in Workers, Handle(w) PROVE pane' = pane
    BY <2>1 DEF Handle, PersistFails, Persist, Send, Notify, PersistBatch, UpsertName,
                NamesDone, uiVars
  <2> QED
    BY <1>1, <1>9, <2>1 DEF OtherSteps, DrainDone, NextFrame, Render, UserInput, uiVars
<1>10. CASE UNCHANGED allVars
  BY <1>1, <1>10 DEF allVars, vars, ingestVars
<1> HIDE DEF Goal
<1> QED
  BY <1>2, <1>3, <1>4, <1>5, <1>6, <1>7, <1>8, <1>9, <1>10 DEF OutgoingNext

-----------------------------------------------------------------------------
(* Types *)

\* The pipeline's variables stay typed: the steps that are not its own change
\* at most what is loaded, by a stored id, and the wake-up.
LEMMA OutgoingIngestTypes ==
  ASSUME OutgoingInv, [OutgoingNext]_allVars
  PROVE  IngestTypeOK'
<1>0. IngestTypeOK /\ StoreInv
  BY DEF OutgoingInv, OutgoingTypeOK
<1>1. CASE PipelineStep
  BY <1>0, <1>1, PipelineIsIngest, IngestTypesStep
<1>2. ASSUME UNCHANGED <<pc, job, incoming, ui, selected, screen, bypassed>>,
             pane' \subseteq WAIDs, invalidated' \in BOOLEAN
      PROVE  IngestTypeOK'
  BY <1>0, <1>2 DEF IngestTypeOK
<1>3. ASSUME UNCHANGED <<pc, job, incoming, ui, selected, screen, bypassed, pane>>,
             invalidated' \in {invalidated, TRUE}
      PROVE  IngestTypeOK'
  BY <1>0, <1>3 DEF IngestTypeOK
<1>4. ASSUME NEW m \in Composed, OnSend(m) PROVE IngestTypeOK'
  <2>1. m.wa_id \in WAIDs
    BY OwnIDsFact DEF OwnIDs
  <2>2. pane' = pane \cup {m.wa_id} /\ invalidated' = TRUE
    BY <1>4 DEF OnSend, Launch
  <2>3. pane' \subseteq WAIDs /\ invalidated' \in BOOLEAN
    BY <1>0, <2>1, <2>2 DEF IngestTypeOK
  <2> QED
    BY <1>2, <1>4, <2>3 DEF OnSend, sendUnchanged, workerVars
<1>5. ASSUME NEW m \in Composed, OnSendUnstored(m) PROVE IngestTypeOK'
  BY <1>3, <1>5 DEF OnSendUnstored, Launch, sendUnchanged, workerVars
<1>6. ASSUME NEW waID \in OwnIDs, SenderSteps(waID) PROVE IngestTypeOK'
  BY <1>3, <1>6 DEF SenderSteps, ServerAccepts, SendReturns, SendFails, FlipSent, FlipFails,
                    Redraw, senderUnchanged, workerVars, uiVars
<1>7. ASSUME NEW r \in ReceiptWorkers,
             (\E receipt \in Receipts : OnReceipt(r, receipt)) \/ ApplyReceipt(r)
               \/ ApplyReceiptFails(r) \/ ReceiptDone(r)
      PROVE  IngestTypeOK'
  BY <1>3, <1>7 DEF OnReceipt, ApplyReceipt, ApplyReceiptFails, ReceiptDone, receiptUnchanged,
                    workerVars, uiVars
<1>8. CASE UNCHANGED allVars
  BY <1>3, <1>8 DEF allVars, vars, ingestVars
<1> QED
  BY <1>1, <1>4, <1>5, <1>6, <1>7, <1>8 DEF OutgoingNext, PipelineStep

\* bubble maps exactly the loaded ids, each to a status or to none.
LEMMA BubbleTypes ==
  ASSUME OutgoingInv, [OutgoingNext]_allVars
  PROVE  bubble' \in [pane' -> Statuses \cup {""}]
<1> DEFINE Total == bubble' = [w \in pane' |-> bubble'[w]]
<1>0. bubble \in [pane -> Statuses \cup {""}]
  BY DEF OutgoingInv, OutgoingTypeOK
<1>1. ASSUME NEW waID \in pane' PROVE bubble'[waID] \in Statuses \cup {""}
  <2>1. waID \in DOMAIN messages => messages[waID].status \in Statuses
    BY DEF OutgoingInv, StoreInv, StoreTypeOK, Message
  <2> QED
    BY <1>0, <1>1, <2>1, BubbleStep DEF Statuses
<1>2. Total
  <2>1. ASSUME UNCHANGED <<pane, bubble>> PROVE Total
    BY <1>0, <2>1
  <2>2. ASSUME NEW m \in Composed, OnSend(m) PROVE Total
    BY <1>0, <2>2 DEF OnSend, Put
  <2>3. CASE \E m \in Composed : OnSendUnstored(m)
    BY <2>1, <2>3 DEF OnSendUnstored
  <2>4. CASE \E id \in OwnIDs : SenderSteps(id)
    BY <2>1, <2>4 DEF SenderSteps, ServerAccepts, SendReturns, SendFails, FlipSent, FlipFails,
                      Redraw, senderUnchanged, uiVars
  <2>5. CASE \/ \E r \in ReceiptWorkers, receipt \in Receipts : OnReceipt(r, receipt)
             \/ \E r \in ReceiptWorkers : ApplyReceipt(r) \/ ApplyReceiptFails(r) \/ ReceiptDone(r)
    BY <2>1, <2>5 DEF OnReceipt, ApplyReceipt, ApplyReceiptFails, ReceiptDone, receiptUnchanged,
                      uiVars
  <2>6. CASE \E w \in Workers : DispatchAny(w)
    BY <2>1, <2>6 DEF DispatchAny, Dispatch, uiVars
  <2>7. CASE FoldIncoming
    BY <1>0, <2>7 DEF FoldIncoming, FoldNext, Put
  <2>8. CASE \E jid \in JIDs : OpenChat(jid)
    BY <2>8 DEF OpenChat, SelectChat
  <2>9. CASE CloseChat \/ RestartAll
    BY <2>9 DEF CloseChat, OnBack, RestartAll, Restart
  <2>10. CASE OtherSteps
    <3>1. ASSUME NEW w \in Workers, Handle(w) PROVE pane' = pane
      BY <3>1 DEF Handle, PersistFails, Persist, Send, Notify, PersistBatch, UpsertName,
                  NamesDone, uiVars
    <3> QED
      BY <2>1, <2>10, <3>1 DEF OtherSteps, DrainDone, NextFrame, Render, UserInput, uiVars
  <2>11. CASE UNCHANGED allVars
    BY <2>1, <2>11 DEF allVars, vars, ingestVars
  <2> HIDE DEF Total
  <2> QED
    BY <2>2, <2>3, <2>4, <2>5, <2>6, <2>7, <2>8, <2>9, <2>10, <2>11 DEF OutgoingNext
<1> QED
  BY <1>1, <1>2

OutTypes ==
  /\ sender \in [OwnIDs -> {"none", "sending", "update", "redraw"}]
  /\ receipts \in [ReceiptWorkers -> [ids : Seq(WAIDs \cup {""}), status : Statuses \cup {""}]]
  /\ accepted \subseteq OwnIDs /\ minted \subseteq OwnIDs /\ lost \subseteq OwnIDs
  /\ reported \subseteq WAIDs \X Statuses

\* A receipt worker with nothing to do is typed.
LEMMA IdleType == Idle \in [ids : Seq(WAIDs \cup {""}), status : Statuses \cup {""}]
BY DEF Idle

\* Giving a receipt worker other ids leaves its status.
LEMMA NextIds ==
  ASSUME NEW A, NEW B, NEW held \in [ids : A, status : B], NEW rest
  PROVE  [held EXCEPT !.ids = rest] = [ids |-> rest, status |-> held.status]
OBVIOUS

\* What a sequence holds is of its type.
LEMMA ElementsAreTyped ==
  ASSUME NEW S, NEW s \in Seq(S)
  PROVE  {s[i] : i \in DOMAIN s} \subseteq S
<1>1. DOMAIN s = 1..Len(s) /\ \A i \in 1..Len(s) : s[i] \in S
  OBVIOUS
<1> QED
  BY <1>1

\* So do the senders, the receipt workers and the server's memory.
LEMMA OutTypesStep ==
  ASSUME OutgoingInv, [OutgoingNext]_allVars
  PROVE  OutTypes'
<1>0. OutTypes
  BY DEF OutgoingInv, OutgoingTypeOK, OutTypes
<1>1. ASSUME UNCHANGED outVars PROVE OutTypes'
  BY <1>0, <1>1 DEF OutTypes, outVars
<1>2. ASSUME NEW m \in Composed, OnSend(m) \/ OnSendUnstored(m) PROVE OutTypes'
  <2>1. m.wa_id \in OwnIDs
    BY DEF OwnIDs
  <2> QED
    BY <1>0, <1>2, <2>1 DEF OnSend, OnSendUnstored, Launch, sendUnchanged, OutTypes
<1>3. ASSUME NEW waID \in OwnIDs, SenderSteps(waID) PROVE OutTypes'
  BY <1>0, <1>3 DEF SenderSteps, ServerAccepts, SendReturns, SendFails, FlipSent, FlipFails,
                    Redraw, senderUnchanged, OutTypes
<1>4. ASSUME NEW r \in ReceiptWorkers, NEW receipt \in Receipts, OnReceipt(r, receipt)
      PROVE  OutTypes'
  <2> DEFINE status == receiptStatus(receipt.type)
             ids == {receipt.ids[i] : i \in DOMAIN receipt.ids}
  <2>1. receipt \in Receipt
    BY OutgoingAssumption
  <2>2. status \in Statuses
    BY <1>4, <2>1, ReceiptStatusFact DEF OnReceipt, Receipt, Statuses
  <2>3. receipt.ids \in Seq(WAIDs \cup {""}) /\ ids \subseteq WAIDs \cup {""}
    <3> DEFINE given == receipt.ids
    <3>1. given \in Seq(WAIDs \cup {""})
      BY <2>1 DEF Receipt
    <3> HIDE DEF given
    <3>2. {given[i] : i \in DOMAIN given} \subseteq WAIDs \cup {""}
      BY <3>1, ElementsAreTyped
    <3> QED
      BY <3>1, <3>2 DEF given
  <2>4. /\ receipts' = [receipts EXCEPT ![r] = [ids |-> receipt.ids, status |-> status]]
        /\ reported' = reported \cup {<<id, status>> : id \in ids \ {""}}
        /\ UNCHANGED <<sender, accepted, minted, lost>>
    BY <1>4 DEF OnReceipt, receiptUnchanged
  <2> HIDE DEF status, ids
  <2>5. reported' \subseteq WAIDs \X Statuses
    <3>1. \A id \in ids \ {""} : <<id, status>> \in WAIDs \X Statuses
      BY <2>2, <2>3
    <3> QED
      BY <1>0, <2>4, <3>1 DEF OutTypes
  <2> QED
    BY <1>0, <2>2, <2>3, <2>4, <2>5 DEF OutTypes
<1>5. ASSUME NEW r \in ReceiptWorkers, ApplyReceipt(r) \/ ApplyReceiptFails(r) PROVE OutTypes'
  <2>1. Tail(receipts[r].ids) \in Seq(WAIDs \cup {""})
    BY <1>5, ReceiptHead DEF ApplyReceipt, ApplyReceiptFails, OutgoingInv
  <2>2. /\ receipts' = [receipts EXCEPT ![r].ids = Tail(@)]
        /\ UNCHANGED <<sender, accepted, minted, lost, reported>>
    BY <1>5 DEF ApplyReceipt, ApplyReceiptFails, receiptUnchanged
  <2>3. receipts' = [receipts EXCEPT ![r] = [ids |-> Tail(receipts[r].ids),
                                             status |-> receipts[r].status]]
    <3> DEFINE held == receipts[r]
               rest == Tail(held.ids)
               A == Seq(WAIDs \cup {""})
               B == Statuses \cup {""}
    <3>1. held \in [ids : A, status : B]
      BY <1>0 DEF OutTypes
    <3>2. receipts' = [receipts EXCEPT ![r] = [held EXCEPT !.ids = rest]]
      BY <2>2
    <3> HIDE DEF held, rest, A, B
    <3>3. [held EXCEPT !.ids = rest] = [ids |-> rest, status |-> held.status]
      BY <3>1, NextIds
    <3> QED
      BY <3>2, <3>3 DEF held, rest
  <2>4. receipts[r].status \in Statuses \cup {""}
    BY <1>0 DEF OutTypes
  <2> QED
    BY <1>0, <2>1, <2>2, <2>3, <2>4 DEF OutTypes
<1>6. ASSUME NEW r \in ReceiptWorkers, ReceiptDone(r) PROVE OutTypes'
  BY <1>0, <1>6, IdleType DEF ReceiptDone, receiptUnchanged, OutTypes
<1>7. CASE RestartAll
  BY <1>0, <1>7, IdleType DEF RestartAll, OutTypes
<1>8. CASE PipelineStep /\ ~RestartAll
  BY <1>1, <1>8 DEF PipelineStep, DispatchAny, FoldIncoming, OpenChat, CloseChat, OtherSteps
<1>9. CASE UNCHANGED allVars
  BY <1>1, <1>9 DEF allVars
<1> QED
  BY <1>2, <1>3, <1>4, <1>5, <1>6, <1>7, <1>8, <1>9 DEF OutgoingNext, PipelineStep

-----------------------------------------------------------------------------
(* What is about to be written *)

\* SendText returns only what the server has accepted.
LEMMA AckedIsAcceptedStep ==
  ASSUME OutgoingInv, [OutgoingNext]_allVars
  PROVE  AckedIsAccepted'
<1> SUFFICES ASSUME NEW waID \in OwnIDs, sender'[waID] = "update" PROVE waID \in accepted
  BY HistoryGrows DEF AckedIsAccepted, OutgoingInv
<1>0. /\ sender \in [OwnIDs -> {"none", "sending", "update", "redraw"}]
      /\ sender[waID] = "update" => waID \in accepted
  BY DEF OutgoingInv, OutgoingTypeOK, AckedIsAccepted
<1>1. ASSUME sender' = sender PROVE waID \in accepted
  BY <1>0, <1>1
<1>2. CASE \E m \in Composed : OnSend(m) \/ OnSendUnstored(m)
  BY <1>0, <1>2 DEF OnSend, OnSendUnstored, Launch
<1>3. CASE \E id \in OwnIDs : SenderSteps(id)
  BY <1>0, <1>3 DEF SenderSteps, ServerAccepts, SendReturns, SendFails, FlipSent, FlipFails, Redraw
<1>4. CASE \/ \E r \in ReceiptWorkers, receipt \in Receipts : OnReceipt(r, receipt)
           \/ \E r \in ReceiptWorkers : ApplyReceipt(r) \/ ApplyReceiptFails(r) \/ ReceiptDone(r)
  BY <1>1, <1>4 DEF OnReceipt, ApplyReceipt, ApplyReceiptFails, ReceiptDone, receiptUnchanged
<1>5. CASE RestartAll
  BY <1>5 DEF RestartAll
<1>6. CASE PipelineStep /\ ~RestartAll
  BY <1>1, <1>6 DEF PipelineStep, DispatchAny, FoldIncoming, OpenChat, CloseChat, OtherSteps,
                    outVars
<1>7. CASE UNCHANGED allVars
  BY <1>1, <1>7 DEF allVars, outVars
<1> QED
  BY <1>2, <1>3, <1>4, <1>5, <1>6, <1>7 DEF OutgoingNext, PipelineStep

\* What one receipt worker may hold.
Held(rec, said) ==
  rec # Idle =>
    /\ rec.status \in {StatusDelivered, StatusRead, StatusPlayed}
    /\ \A i \in DOMAIN rec.ids : rec.ids[i] # "" => <<rec.ids[i], rec.status>> \in said

\* To hold something is to have had it said, id by id.
LEMMA HeldIntro ==
  ASSUME NEW ids, NEW status \in {StatusDelivered, StatusRead, StatusPlayed}, NEW said,
         \A i \in DOMAIN ids : ids[i] # "" => <<ids[i], status>> \in said
  PROVE  Held([ids |-> ids, status |-> status], said)
<1> DEFINE rec == [ids |-> ids, status |-> status]
<1>1. rec.ids = ids /\ rec.status = status
  OBVIOUS
<1> HIDE DEF rec
<1>2. Held(rec, said)
  BY <1>1 DEF Held
<1> QED
  BY <1>2 DEF rec

\* A receipt worker holds what its receipt brought, and less with every turn.
LEMMA ReceiptsReportedStep ==
  ASSUME OutgoingInv, [OutgoingNext]_allVars
  PROVE  ReceiptsReported'
<1> SUFFICES ASSUME NEW r \in ReceiptWorkers PROVE Held(receipts'[r], reported')
  BY DEF ReceiptsReported, Held
<1>0. /\ Held(receipts[r], reported) /\ reported \subseteq reported'
      /\ receipts \in [ReceiptWorkers -> [ids : Seq(WAIDs \cup {""}), status : Statuses \cup {""}]]
  BY HistoryGrows DEF OutgoingInv, OutgoingTypeOK, ReceiptsReported, Held
<1>1. ASSUME receipts'[r] = receipts[r] PROVE Held(receipts'[r], reported')
  BY <1>0, <1>1 DEF Held
<1>2. ASSUME receipts'[r] = Idle PROVE Held(receipts'[r], reported')
  BY <1>2 DEF Held
<1>3. CASE \E m \in Composed : OnSend(m) \/ OnSendUnstored(m)
  BY <1>1, <1>3 DEF OnSend, OnSendUnstored, sendUnchanged
<1>4. CASE \E waID \in OwnIDs : SenderSteps(waID)
  BY <1>1, <1>4 DEF SenderSteps, ServerAccepts, SendReturns, SendFails, FlipSent, FlipFails,
                    Redraw, senderUnchanged
<1>5. ASSUME NEW v \in ReceiptWorkers, NEW receipt \in Receipts, OnReceipt(v, receipt)
      PROVE  Held(receipts'[r], reported')
  <2>1. CASE v # r
    BY <1>0, <1>1, <1>5, <2>1 DEF OnReceipt
  <2>2. CASE v = r
    <3> DEFINE status == receiptStatus(receipt.type)
               given == receipt.ids
    <3>1. /\ receipts'[r] = [ids |-> given, status |-> status]
          /\ reported' = reported \cup {<<id, status>> : id \in {given[i] : i \in DOMAIN given} \ {""}}
          /\ status # ""
      BY <1>0, <1>5, <2>2 DEF OnReceipt
    <3>2. status \in {StatusDelivered, StatusRead, StatusPlayed}
      BY <3>1, ReceiptStatusFact, OutgoingAssumption DEF Receipt
    <3> HIDE DEF status, given
    <3>3. \A i \in DOMAIN given : given[i] # "" => <<given[i], status>> \in reported'
      BY <3>1
    <3>4. PICK said : said = reported'
      OBVIOUS
    <3>5. Held([ids |-> given, status |-> status], said)
      BY <3>2, <3>3, <3>4, HeldIntro
    <3> QED
      BY <3>1, <3>4, <3>5
  <2> QED
    BY <2>1, <2>2
<1>6. ASSUME NEW v \in ReceiptWorkers, ApplyReceipt(v) \/ ApplyReceiptFails(v)
      PROVE  Held(receipts'[r], reported')
  <2>1. receipts[v].ids # <<>> /\ receipts' = [receipts EXCEPT ![v].ids = Tail(@)]
    BY <1>6 DEF ApplyReceipt, ApplyReceiptFails
  <2>2. CASE v # r
    BY <1>0, <1>1, <2>1, <2>2
  <2>3. CASE v = r
    <3> DEFINE held == receipts[r]
               rest == Tail(held.ids)
               A == Seq(WAIDs \cup {""})
               B == Statuses \cup {""}
    <3>1. /\ held.status \in {StatusDelivered, StatusRead, StatusPlayed}
          /\ \A i \in DOMAIN rest : rest[i] # "" => <<rest[i], held.status>> \in reported
      BY <2>1, <2>3, ReceiptHead DEF OutgoingInv
    <3>2. held \in [ids : A, status : B] /\ receipts'[r] = [held EXCEPT !.ids = rest]
      BY <1>0, <2>1, <2>3
    <3> HIDE DEF held, rest, A, B
    <3>3. receipts'[r] = [ids |-> rest, status |-> held.status]
      BY <3>2, NextIds
    <3>4. PICK said : said = reported'
      OBVIOUS
    <3>5. \A i \in DOMAIN rest : rest[i] # "" => <<rest[i], held.status>> \in said
      BY <1>0, <3>1, <3>4
    <3>6. Held([ids |-> rest, status |-> held.status], said)
      BY <3>1, <3>5, HeldIntro
    <3> QED
      BY <3>3, <3>4, <3>6
  <2> QED
    BY <2>2, <2>3
<1>7. ASSUME NEW v \in ReceiptWorkers, ReceiptDone(v) PROVE Held(receipts'[r], reported')
  BY <1>0, <1>1, <1>2, <1>7 DEF ReceiptDone
<1>8. CASE RestartAll
  BY <1>2, <1>8 DEF RestartAll
<1>9. CASE PipelineStep /\ ~RestartAll
  BY <1>1, <1>9 DEF PipelineStep, DispatchAny, FoldIncoming, OpenChat, CloseChat, OtherSteps,
                    outVars
<1>10. CASE UNCHANGED allVars
  BY <1>1, <1>10 DEF allVars, outVars
<1> QED
  BY <1>3, <1>4, <1>5, <1>6, <1>7, <1>8, <1>9, <1>10 DEF OutgoingNext, PipelineStep

\* A worker takes up only copies that can come, and stores what it took up.
LEMMA CopiesAcceptedStep ==
  ASSUME OutgoingInv, [OutgoingNext]_allVars
  PROVE  CopiesAccepted'
<1> DEFINE Good(v) ==
      /\ pc'[v] = "batch" => job'[v] \in Histories
      /\ pc'[v] \in {"insert", "batch"} => Brings(job'[v]) \cap OwnIDs \subseteq accepted
<1> SUFFICES ASSUME NEW v \in Workers PROVE Good(v)
  BY HistoryGrows DEF CopiesAccepted, OutgoingInv, Brings
<1>0. /\ CopiesAccepted
      /\ pc \in [Workers -> {"idle", "insert", "send", "batch", "names", "notify"}]
      /\ job \in [Workers -> LiveEvents \cup History \cup {NoJob}]
  BY DEF OutgoingInv, OutgoingTypeOK, IngestTypeOK
<1>1. ASSUME pc'[v] = pc[v], job'[v] = job[v] PROVE Good(v)
  BY <1>0, <1>1 DEF CopiesAccepted
<1>2. ASSUME pc'[v] \notin {"insert", "batch"} PROVE Good(v)
  BY <1>2
<1>3. ASSUME NEW w \in Workers, DispatchAny(w) PROVE Good(v)
  <2>1. CASE v # w
    BY <1>0, <1>1, <1>3, <2>1 DEF DispatchAny, Dispatch
  <2>2. CASE v = w
    BY <1>0, <1>3, <2>2 DEF DispatchAny, Dispatch
  <2> QED
    BY <2>1, <2>2
<1>4. ASSUME NEW w \in Workers, Handle(w) PROVE Good(v)
  <2>1. CASE v # w
    <3>1. pc'[v] = pc[v] /\ job'[v] = job[v]
      BY <1>0, <1>4, <2>1 DEF Handle, PersistFails, Persist, Send, Notify, PersistBatch,
                              UpsertName, NamesDone
    <3> QED
      BY <1>1, <3>1
  <2>2. CASE v = w
    <3>1. pc'[v] \notin {"insert", "batch"}
      BY <1>0, <1>4, <2>2 DEF Handle, PersistFails, Persist, Send, Notify, PersistBatch,
                              UpsertName, NamesDone
    <3> QED
      BY <1>2, <3>1
  <2> QED
    BY <2>1, <2>2
<1>5. CASE RestartAll
  BY <1>2, <1>5 DEF RestartAll, Restart
<1>6. ASSUME pc' = pc, job' = job PROVE Good(v)
  BY <1>1, <1>6
<1>7. CASE FoldIncoming \/ (\E jid \in JIDs : OpenChat(jid)) \/ CloseChat \/ OtherSteps
  <2>1. (\E w \in Workers : Handle(w)) \/ (pc' = pc /\ job' = job)
    BY <1>7 DEF FoldIncoming, FoldNext, OpenChat, SelectChat, CloseChat, OnBack, OtherSteps,
                DrainDone, NextFrame, Render, UserInput, workerVars
  <2> QED
    BY <1>4, <1>6, <2>1
<1>8. CASE \E m \in Composed : OnSend(m) \/ OnSendUnstored(m)
  BY <1>6, <1>8 DEF OnSend, OnSendUnstored, sendUnchanged, workerVars
<1>9. CASE \E waID \in OwnIDs : SenderSteps(waID)
  BY <1>6, <1>9 DEF SenderSteps, ServerAccepts, SendReturns, SendFails, FlipSent, FlipFails,
                    Redraw, senderUnchanged, workerVars
<1>10. CASE \/ \E r \in ReceiptWorkers, receipt \in Receipts : OnReceipt(r, receipt)
            \/ \E r \in ReceiptWorkers : ApplyReceipt(r) \/ ApplyReceiptFails(r) \/ ReceiptDone(r)
  BY <1>6, <1>10 DEF OnReceipt, ApplyReceipt, ApplyReceiptFails, ReceiptDone, receiptUnchanged,
                     workerVars
<1>11. CASE UNCHANGED allVars
  BY <1>6, <1>11 DEF allVars, vars, ingestVars
<1> HIDE DEF Good
<1> QED
  BY <1>3, <1>5, <1>7, <1>8, <1>9, <1>10, <1>11 DEF OutgoingNext

-----------------------------------------------------------------------------
(* The properties *)

\* Ticks stay honest: a status is left alone, or was said.
LEMMA TickHonestStep ==
  ASSUME OutgoingInv, [OutgoingNext]_allVars
  PROVE  TickHonest'
<1> SUFFICES ASSUME NEW waID \in OwnIDs
             PROVE  /\ waID \in DOMAIN messages' => Earned(waID, messages[waID].status)'
                    /\ waID \in pane' => Earned(waID, bubble[waID])'
  BY DEF TickHonest
<1>0. OutgoingTypeOK /\ TickHonest
  BY DEF OutgoingInv
<1>1. ASSUME waID \in DOMAIN messages' PROVE Earned(waID, messages[waID].status)'
  <2>1. StatusKept(waID) \/ StoredPending(waID) \/ Settled(waID)
    BY <1>1, OutgoingStatusStep DEF StatusStep
  <2>2. CASE StatusKept(waID)
    <3>1. Earned(waID, messages[waID].status)
      BY <1>0, <2>2 DEF StatusKept, TickHonest
    <3> QED
      BY <1>0, <2>2, <3>1, EarnedStays
      DEF StatusKept, Earned, StatusSent, StatusDelivered, StatusRead, StatusPlayed
  <2>3. CASE StoredPending(waID)
    BY <2>3 DEF StoredPending, Earned, StatusPending, StatusSent, StatusDelivered, StatusRead,
                StatusPlayed
  <2>4. CASE Settled(waID)
    BY <2>4 DEF Settled
  <2> QED
    BY <2>1, <2>2, <2>3, <2>4
<1>2. ASSUME waID \in pane' PROVE Earned(waID, bubble[waID])'
  <2>1. CASE waID \in pane /\ bubble'[waID] = bubble[waID]
    <3>1. Earned(waID, bubble[waID])
      BY <1>0, <2>1 DEF TickHonest
    <3> QED
      BY <1>0, <2>1, <3>1, EarnedStays
      DEF Earned, StatusSent, StatusDelivered, StatusRead, StatusPlayed
  <2>2. CASE bubble'[waID] \in {"", StatusPending}
    BY <2>2 DEF Earned, StatusPending, StatusSent, StatusDelivered, StatusRead, StatusPlayed
  <2>3. CASE waID \in DOMAIN messages /\ bubble'[waID] = messages[waID].status
    <3>1. Earned(waID, messages[waID].status)
      BY <1>0, <2>3 DEF TickHonest
    <3> QED
      BY <1>0, <2>3, <3>1, EarnedStays
      DEF Earned, StatusSent, StatusDelivered, StatusRead, StatusPlayed
  <2> QED
    BY <1>2, <2>1, <2>2, <2>3, BubbleStep
<1> QED
  BY <1>1, <1>2

\* A pending row keeps its sender until the message is sent or lost.
LEMMA PendingIsTrackedStep ==
  ASSUME OutgoingInv, [OutgoingNext]_allVars
  PROVE  PendingIsTracked'
<1> SUFFICES ASSUME NEW waID \in DOMAIN messages' \cap OwnIDs,
                    messages'[waID].status = StatusPending
             PROVE  sender'[waID] \in {"sending", "update"} \/ waID \in lost'
  BY DEF PendingIsTracked
<1>1. StatusKept(waID) \/ StoredPending(waID) \/ Settled(waID)
  BY OutgoingStatusStep DEF StatusStep
<1>2. CASE StatusKept(waID)
  <2>1. sender[waID] \in {"sending", "update"} \/ waID \in lost
    BY <1>2 DEF StatusKept, OutgoingInv, PendingIsTracked
  <2> QED
    BY <2>1, SenderStep, HistoryGrows DEF OutgoingInv
<1>3. CASE StoredPending(waID)
  BY <1>3 DEF StoredPending
<1>4. CASE Settled(waID)
  BY <1>4, StatusFact DEF Settled
<1> QED
  BY <1>1, <1>2, <1>3, <1>4

\* The process starts with no message and nothing said.
LEMMA OutgoingInitInv ==
  ASSUME OutgoingInit
  PROVE  OutgoingInv
<1>1. IngestInit /\ StoreInit /\ DOMAIN messages = {} /\ pane = {}
  BY DEF OutgoingInit, IngestInit, StoreInit
<1>2. IngestTypeOK /\ StoreInv
  BY <1>1, IngestInitTypes, StoreInitInv
<1>3. OutTypes
  BY IdleType DEF OutgoingInit, OutTypes
<1>4. OutgoingTypeOK
  <2>1. bubble \in [pane -> Statuses \cup {""}]
    BY <1>1 DEF OutgoingInit
  <2> QED
    BY <1>2, <1>3, <2>1 DEF StoreInv, OutTypes, OutgoingTypeOK
<1>5. AckedIsAccepted
  BY DEF OutgoingInit, AckedIsAccepted
<1>6. ReceiptsReported
  BY DEF OutgoingInit, ReceiptsReported
<1>7. CopiesAccepted
  BY <1>1 DEF IngestInit, CopiesAccepted
<1>8. TickHonest /\ PendingIsTracked
  BY <1>1 DEF TickHonest, PendingIsTracked
<1> QED
  BY <1>2, <1>4, <1>5, <1>6, <1>7, <1>8 DEF OutgoingInv

\* Every step keeps the invariant.
LEMMA OutgoingInvStep ==
  ASSUME OutgoingInv, [OutgoingNext]_allVars
  PROVE  OutgoingInv'
<1>1. StoreInv'
  BY OutgoingStepsStore, StoreNextInv DEF OutgoingInv, StepOK
<1>2. OutgoingTypeOK'
  BY <1>1, OutgoingIngestTypes, BubbleTypes, OutTypesStep DEF StoreInv, OutTypes, OutgoingTypeOK
<1> QED
  BY <1>1, <1>2, AckedIsAcceptedStep, ReceiptsReportedStep, CopiesAcceptedStep, TickHonestStep,
     PendingIsTrackedStep DEF OutgoingInv

\* The invariant holds of every run, however senders, receipts, copies,
\* failures and restarts are interleaved.
THEOREM OutgoingInvariant == OutgoingSpec => []OutgoingInv
BY OutgoingInitInv, OutgoingInvStep, PTL DEF OutgoingSpec

\* Types of the whole composition.
THEOREM OutgoingTypes == OutgoingSpec => []OutgoingTypeOK
<1>1. OutgoingInv => OutgoingTypeOK
  BY DEF OutgoingInv
<1> QED
  BY <1>1, OutgoingInvariant, PTL

\* No tick claims more than the outside world has said.
THEOREM TicksAreHonest == OutgoingSpec => []TickHonest
<1>1. OutgoingInv => TickHonest
  BY DEF OutgoingInv
<1> QED
  BY <1>1, OutgoingInvariant, PTL

\* No row is pending with nobody at work on it, but those known to be lost.
THEOREM PendingHasASender == OutgoingSpec => []PendingIsTracked
<1>1. OutgoingInv => PendingIsTracked
  BY DEF OutgoingInv
<1> QED
  BY <1>1, OutgoingInvariant, PTL

\* A settled message never becomes pending again.
THEOREM SettledStaysSettled == OutgoingSpec => PendingNeverReturns
<1>1. ASSUME OutgoingInv, [OutgoingNext]_allVars PROVE [PendingNeverReturnsStep]_allVars
  <2> SUFFICES ASSUME NEW waID \in DOMAIN messages, messages[waID].status # StatusPending
               PROVE  messages'[waID].status # StatusPending
    BY DEF PendingNeverReturnsStep
  <2>1. waID \in DOMAIN messages'
    BY <1>1, OutgoingStepsStore, StoreNextInv DEF OutgoingInv, StepOK, MessagesKeptStep
  <2> QED
    BY <1>1, <2>1, OutgoingStatusStep, StatusFact DEF StatusStep, StatusKept, StoredPending, Settled
<1> QED
  BY <1>1, OutgoingInvariant, PTL DEF OutgoingSpec, PendingNeverReturns

\* Sending, receipts and the pipeline together still drive the store only
\* through its operations: refinement.
THEOREM OutgoingImplementsStore == OutgoingSpec => StoreSpec
<1>1. OutgoingInit => StoreInit
  BY DEF OutgoingInit, IngestInit
<1>2. ASSUME OutgoingInv, [OutgoingNext]_allVars PROVE [StoreNext]_storeVars
  BY <1>2, OutgoingStepsStore DEF OutgoingInv
<1> QED
  BY <1>1, <1>2, OutgoingInvariant, PTL DEF OutgoingSpec, StoreSpec
=============================================================================
