------------------------------- MODULE Store -------------------------------
(***************************************************************************)
(* The SQLite message store of wachat (src/internal/store): the tables     *)
(* `messages` and `chats`, and one action per method of store.Store that   *)
(* writes them.                                                            *)
(*                                                                         *)
(* Open limits the pool to ONE connection, and every method below is       *)
(* either one transaction (Insert, InsertBatch) or one statement, so each  *)
(* is a single atomic step whatever goroutine calls it.  A call that       *)
(* returns an error has rolled back: it is a stuttering step, except for   *)
(* the three app-state methods, whose first statement may commit alone     *)
(* (EnsureChatRow).                                                        *)
(*                                                                         *)
(* A table is a function over the keys it holds; `messages` is keyed on    *)
(* wa_id, its UNIQUE column.  The columns nothing here tells apart         *)
(* (sender, media, quote, link preview) travel with `body`.                *)
(***************************************************************************)
EXTENDS Integers, Sequences, FiniteSets

CONSTANTS
  WAIDs,          \* WhatsApp message ids: messages.wa_id
  JIDs,           \* chat ids: chats.jid
  Names,          \* display names handed to UpsertChat, all non-empty
  Bodies,         \* message bodies
  Payloads,       \* the messages callers hand to Insert
  Batches,        \* the message lists callers hand to InsertBatch
  NewStatuses,    \* the statuses handed to UpdateStatus
  AppStateJIDs,   \* the chats the phone pins, archives or mutes
  FlagValues,     \* the values handed to SetStarred, SetPinned, SetArchived
  MuteDeadlines   \* the values handed to SetMuteUntil; 0 unmutes, -1 is forever

StatusPending   == "pending"
StatusSent      == "sent"
StatusDelivered == "delivered"
StatusRead      == "read"
StatusPlayed    == "played"

Statuses == {StatusPending, StatusSent, StatusDelivered, StatusRead, StatusPlayed}

\* last_ts of a chat row no message has touched: SQL NULL.
NullTS == -1

\* A message as callers build it.  "" is Go's zero value: a missing id, or a
\* status left for Insert to default.
Payload ==
  [wa_id : WAIDs \cup {""}, chat_jid : JIDs \cup {""}, ts : Nat,
   body : Bodies, status : Statuses \cup {""}]

\* A row of messages, without its key.
Message ==
  [chat_jid : JIDs, ts : Nat, body : Bodies, status : Statuses,
   edited : BOOLEAN, revoked : BOOLEAN, starred : BOOLEAN]

\* A row of chats, without its key.
Chat ==
  [name : Names \cup {""}, last_ts : Nat \cup {NullTS}, unread : Nat,
   pinned : BOOLEAN, archived : BOOLEAN, mute_until : Int]

ASSUME StoreAssumption ==
  /\ "" \notin WAIDs /\ "" \notin JIDs /\ "" \notin Names
  /\ Payloads \subseteq Payload
  /\ Batches \subseteq Seq(Payload)
  /\ NewStatuses \subseteq Statuses
  /\ AppStateJIDs \subseteq JIDs
  /\ FlagValues \subseteq BOOLEAN
  /\ MuteDeadlines \subseteq Int

VARIABLES
  messages,  \* wa_id -> Message
  chats,     \* jid -> Chat
  unseen     \* history variable, not in the code: per chat, the ids of the
             \* live incoming messages first stored since the last MarkRead

storeVars == <<messages, chats, unseen>>

StoreTypeOK ==
  /\ DOMAIN messages \subseteq WAIDs
  /\ messages \in [DOMAIN messages -> Message]
  /\ DOMAIN chats \subseteq JIDs
  /\ chats \in [DOMAIN chats -> Chat]
  /\ unseen \in [JIDs -> SUBSET WAIDs]

StoreInit ==
  /\ messages = [w \in {} |-> 0]
  /\ chats = [j \in {} |-> 0]
  /\ unseen = [j \in JIDs |-> {}]

-----------------------------------------------------------------------------
\* Table operations.

\* INSERT ... ON CONFLICT(key) DO UPDATE: the table with `row` under `key`.
Put(table, key, row) ==
  [k \in DOMAIN table \cup {key} |-> IF k = key THEN row ELSE table[k]]

\* UPDATE messages SET ... WHERE wa_id = waID: no row, no effect.
UpdateMessage(waID, row) ==
  messages' = IF waID \in DOMAIN messages
              THEN [messages EXCEPT ![waID] = row]
              ELSE messages

Coalesce(ts) == IF ts = NullTS THEN 0 ELSE ts

Later(t, u) == IF t >= u THEN t ELSE u

\* Mutant: the status stored as given, "" included.
RowRawStatus(m) ==
  [chat_jid |-> m.chat_jid, ts |-> m.ts, body |-> m.body, status |-> m.status,
   edited |-> FALSE, revoked |-> FALSE, starred |-> FALSE]

\* A new row; Insert and InsertBatch default the status.
Row(m) ==
  [chat_jid |-> m.chat_jid, ts |-> m.ts, body |-> m.body,
   status |-> IF m.status = "" THEN StatusSent ELSE m.status,
   edited |-> FALSE, revoked |-> FALSE, starred |-> FALSE]

EmptyChat ==
  [name |-> "", last_ts |-> NullTS, unread |-> 0,
   pinned |-> FALSE, archived |-> FALSE, mute_until |-> 0]

\* The row ensureChatRow leaves for jid.
ChatRow(jid) == IF jid \in DOMAIN chats THEN chats[jid] ELSE EmptyChat

\* Mutant: the chat upsert without MAX, so the last arrival wins.
TouchedChatNoMax(jid, ts, delta) ==
  [ChatRow(jid) EXCEPT !.last_ts = ts, !.unread = @ + delta]

\* The chat upsert of Insert and InsertBatch.
TouchedChat(jid, ts, delta) ==
  LET row == ChatRow(jid) IN
  [row EXCEPT !.last_ts = Later(Coalesce(row.last_ts), ts),
              !.unread = row.unread + delta]

-----------------------------------------------------------------------------
\* The write methods of store.Store.

\* Mutant: INSERT OR REPLACE.
InsertReplace(m) == Put(messages, m.wa_id, Row(m))

\* INSERT INTO messages ... ON CONFLICT(wa_id) DO NOTHING.
InsertIgnore(m) ==
  IF m.wa_id \in DOMAIN messages THEN messages ELSE Put(messages, m.wa_id, Row(m))

\* Mutant: a redelivery counts again.
UnreadDeltaAlways(m, bumpUnread) == IF bumpUnread THEN 1 ELSE 0

UnreadDelta(m, bumpUnread) ==
  IF m.wa_id \notin DOMAIN messages /\ bumpUnread THEN 1 ELSE 0

Insert(m, bumpUnread) ==
  /\ m.wa_id # "" /\ m.chat_jid # ""
  /\ messages' = InsertIgnore(m)
  /\ chats' = Put(chats, m.chat_jid,
                  TouchedChat(m.chat_jid, m.ts, UnreadDelta(m, bumpUnread)))
  /\ unseen' = IF bumpUnread /\ m.wa_id \notin DOMAIN messages
               THEN [unseen EXCEPT ![m.chat_jid] = @ \cup {m.wa_id}]
               ELSE unseen

\* The entries of a batch that InsertBatch does not skip.
Usable(batch) ==
  {i \in DOMAIN batch : batch[i].wa_id # "" /\ batch[i].chat_jid # ""}

\* first maps each id to the entry whose row is written: later entries of the
\* same id hit ON CONFLICT DO NOTHING.
FirstEntries(batch, first) ==
  /\ \A w \in DOMAIN first : batch[first[w]].wa_id = w
  /\ \A i \in Usable(batch) : first[batch[i].wa_id] <= i

\* Mutant: chatLastTS holds the ts of the last entry seen, not the greatest.
LastSeenTS(batch, chatLastTS) ==
  \A i \in Usable(batch) :
    (\A k \in Usable(batch) : batch[k].chat_jid = batch[i].chat_jid => k <= i)
      => chatLastTS[batch[i].chat_jid] = batch[i].ts

\* chatLastTS maps each chat of the batch to its greatest ts.
LatestTS(batch, chatLastTS) ==
  /\ \A i \in Usable(batch) : chatLastTS[batch[i].chat_jid] >= batch[i].ts
  /\ \A j \in DOMAIN chatLastTS :
       \E i \in Usable(batch) : batch[i].chat_jid = j /\ chatLastTS[j] = batch[i].ts

InsertBatch(batch) ==
  LET ids   == {batch[i].wa_id : i \in Usable(batch)}
      jids  == {batch[i].chat_jid : i \in Usable(batch)}
      times == {batch[i].ts : i \in Usable(batch)}
  IN  \E first \in [ids -> Usable(batch)], chatLastTS \in [jids -> times] :
        /\ FirstEntries(batch, first)
        /\ LatestTS(batch, chatLastTS)
        /\ messages' = [w \in DOMAIN messages \cup ids |->
                          IF w \in DOMAIN messages
                          THEN messages[w]
                          ELSE Row(batch[first[w]])]
        /\ chats' = [j \in DOMAIN chats \cup jids |->
                       IF j \in jids
                       THEN TouchedChat(j, chatLastTS[j], 0)
                       ELSE chats[j]]
        /\ UNCHANGED unseen

UpsertChat(jid, name) ==
  /\ chats' = Put(chats, jid, [ChatRow(jid) EXCEPT !.name = name])
  /\ UNCHANGED <<messages, unseen>>

UpdateStatus(waID, status) ==
  /\ UpdateMessage(waID, [messages[waID] EXCEPT !.status = status])
  /\ UNCHANGED <<chats, unseen>>

ApplyEdit(waID, newBody) ==
  /\ UpdateMessage(waID, [messages[waID] EXCEPT !.body = newBody, !.edited = TRUE])
  /\ UNCHANGED <<chats, unseen>>

ApplyRevoke(waID) ==
  /\ UpdateMessage(waID, [messages[waID] EXCEPT !.revoked = TRUE])
  /\ UNCHANGED <<chats, unseen>>

SetStarred(waID, starred) ==
  /\ UpdateMessage(waID, [messages[waID] EXCEPT !.starred = starred])
  /\ UNCHANGED <<chats, unseen>>

MarkRead(jid) ==
  /\ chats' = IF jid \in DOMAIN chats THEN [chats EXCEPT ![jid].unread = 0] ELSE chats
  /\ unseen' = [unseen EXCEPT ![jid] = {}]
  /\ UNCHANGED messages

\* The first statement of SetPinned, SetArchived and SetMuteUntil; a step of
\* its own because the UPDATE after it may fail or a crash may come between.
EnsureChatRow(jid) ==
  /\ chats' = Put(chats, jid, ChatRow(jid))
  /\ UNCHANGED <<messages, unseen>>

SetPinned(jid, pinned) ==
  /\ chats' = Put(chats, jid, [ChatRow(jid) EXCEPT !.pinned = pinned])
  /\ UNCHANGED <<messages, unseen>>

SetArchived(jid, archived) ==
  /\ chats' = Put(chats, jid, [ChatRow(jid) EXCEPT !.archived = archived])
  /\ UNCHANGED <<messages, unseen>>

SetMuteUntil(jid, muteUntilMS) ==
  /\ chats' = Put(chats, jid, [ChatRow(jid) EXCEPT !.mute_until = muteUntilMS])
  /\ UNCHANGED <<messages, unseen>>

StoreNext ==
  \/ \E m \in Payloads, bumpUnread \in BOOLEAN : Insert(m, bumpUnread)
  \/ \E batch \in Batches : InsertBatch(batch)
  \/ \E jid \in JIDs, name \in Names : UpsertChat(jid, name)
  \/ \E waID \in WAIDs, status \in NewStatuses : UpdateStatus(waID, status)
  \/ \E waID \in WAIDs, body \in Bodies : ApplyEdit(waID, body)
  \/ \E waID \in WAIDs : ApplyRevoke(waID)
  \/ \E waID \in WAIDs, starred \in FlagValues : SetStarred(waID, starred)
  \/ \E jid \in JIDs : MarkRead(jid)
  \/ \E jid \in AppStateJIDs : EnsureChatRow(jid)
  \/ \E jid \in AppStateJIDs, pinned \in FlagValues : SetPinned(jid, pinned)
  \/ \E jid \in AppStateJIDs, archived \in FlagValues : SetArchived(jid, archived)
  \/ \E jid \in AppStateJIDs, until \in MuteDeadlines : SetMuteUntil(jid, until)

StoreSpec == StoreInit /\ [][StoreNext]_storeVars

-----------------------------------------------------------------------------
(* Properties *)

\* A chat's unread counter is the number of distinct live incoming messages
\* stored since the chat was last marked read: redeliveries, replays from
\* history sync, our own messages and out-of-order arrivals neither add to it
\* nor take from it (Insert's created/bumpUnread rule, InsertBatch's 0).
UnreadExact ==
  \A jid \in JIDs :
    ChatRow(jid).unread = Cardinality(unseen[jid])

\* The chat list never hides a message: the chat of every stored message has
\* a row, and the time it sorts by is no older than the message, in whatever
\* order messages arrive and whichever method creates the chat row first.
ChatListCovers ==
  \A w \in DOMAIN messages :
    /\ messages[w].chat_jid \in DOMAIN chats
    /\ chats[messages[w].chat_jid].last_ts >= messages[w].ts

\* What may become of a row.
RowKept(old, new) ==
  /\ new.chat_jid = old.chat_jid /\ new.ts = old.ts
  /\ old.edited => new.edited
  /\ old.revoked => new.revoked
  /\ new.body # old.body => new.edited

\* The store's claim to be a record: no step removes a message, moves it to
\* another chat or time, changes its text without marking it edited, or takes
\* back an edit or a revocation.  In particular a redelivery or a history
\* replay never overwrites what an edit or a revoke has done.
MessagesKeptStep ==
  \A w \in DOMAIN messages :
    w \in DOMAIN messages' /\ RowKept(messages[w], messages'[w])

MessagesKept == [][MessagesKeptStep]_storeVars

\* A chat row is never dropped and the time it sorts by never goes back,
\* whichever of the seven methods that upsert chats gets there (UpsertChat's
\* promise not to touch last_ts; the MAX in Insert and InsertBatch).
LastTSStep ==
  \A jid \in DOMAIN chats :
    jid \in DOMAIN chats' /\ chats'[jid].last_ts >= chats[jid].last_ts

LastTSNeverBack == [][LastTSStep]_storeVars
=============================================================================
