------------------------------- MODULE ChatList -------------------------------
(***************************************************************************)
(* The chat list: State.Chats, which LoadChats reads from the store, the   *)
(* frame loop folds events into, and View.Layout draws and turns clicks on *)
(* into a selection, by index.                                             *)
(*                                                                         *)
(* LoadChats runs on whatsmeow's goroutine (OnConnState), without a lock:  *)
(* it queries, and later assigns, between any two steps of the UI          *)
(* goroutine, or in the middle of one.  A history sync stores messages and *)
(* chats and sends no event for them; a live message is sent, or dropped.  *)
(*                                                                         *)
(* The store's last_ts and unread are what module Store shows them to be   *)
(* (ChatListCovers, UnreadExact), and nothing in main.go marks a chat      *)
(* read, so both follow from `stored` and `counted`.                       *)
(***************************************************************************)
EXTENDS Integers, Sequences, SequencesExt, FiniteSetsExt

CONSTANTS
  WAIDs, JIDs,
  chat_jid, ts,  \* the chat and the time of each message
  FromMe,        \* the messages of the account itself, sent here or on the phone
  Flags,         \* the flags an earlier session may have left in the store
  Histories,     \* what a history sync may bring: messages, and chats by name
  MaxQueue,      \* capacity of the event channel
  MaxEvents      \* bound: messages, syncs and app-state events dispatched

NoChat == ""

ASSUME ChatListAssumption ==
  /\ IsFiniteSet(WAIDs) /\ IsFiniteSet(JIDs)
  /\ chat_jid \in [WAIDs -> JIDs] /\ NoChat \notin JIDs
  /\ ts \in [WAIDs -> Nat] /\ FromMe \subseteq WAIDs
  /\ Flags \subseteq [pinned : SUBSET JIDs, archived : SUBSET JIDs, muted : SUBSET JIDs]
  /\ Histories \subseteq [messages : SUBSET WAIDs, named : SUBSET JIDs]
  /\ MaxQueue \in Nat \ {0} /\ MaxEvents \in Nat

VARIABLES
  stored,     \* the messages in the store
  counted,    \* those of them whose insert bumped unread
  known,      \* the rows of the chats table
  pinned, archived, muted,  \* the chats with that flag in the store
  incoming,   \* Handler.Out
  Chats,      \* State.Chats
  selected,   \* State.SelectedChat
  load,       \* what LoadChats has read on whatsmeow's goroutine
  at,         \* where the UI goroutine is
  chatClicks, \* how many Clickables the view has, and
  clicked,    \* which of them holds a click (zero: none)
  panicked,
  toast,      \* history: the chat the last step notified of
  stale,      \* history: the chats archived at, or changed since, the query
              \* whose rows Chats came from
  hidden,     \* history: the stored messages that the query did not see and no
              \* event tells of: it was dropped, or folded into the rows before,
              \* or there was none (a history sync)
  torn,       \* history: a load and a fold have met in the middle
  overlap,    \* history: a load assigned inside this frame
  events      \* counts to MaxEvents

flagVars == <<pinned, archived, muted>>
storeVars == <<stored, counted, known, flagVars>>
frameVars == <<selected, at, chatClicks, clicked, panicked, overlap>>
historyVars == <<stale, hidden, torn, events>>
vars == <<storeVars, incoming, Chats, load, frameVars, toast, historyVars>>

Queued == {incoming[k] : k \in DOMAIN incoming}
Of(jid, S) == {w \in S : chat_jid[w] = jid}
LastTS(S) == IF S = {} THEN 0 ELSE Max({ts[w] : w \in S})
Unread(S) == Cardinality(S \cap counted)
ChatsOf(S) == {chat_jid[w] : w \in S}

\* A row as the query scans it.
ChatSummary(jid) ==
  [jid |-> jid, last |-> LastTS(Of(jid, stored)), unread |-> Unread(Of(jid, stored)),
   pinned |-> jid \in pinned, muted |-> jid \in muted]

NewerFirst(a, b) == a.last > b.last

\* LoadChats' order; rows it leaves equal come in the order of the table.
PinnedFirst(a, b) ==
  \/ a.pinned /\ ~b.pinned
  \/ a.pinned = b.pinned /\ NewerFirst(a, b)

IsOrdered(rows, Op(_, _)) ==
  \A i, j \in DOMAIN rows : i < j => ~Op(rows[j], rows[i])

LoadOrders(rows) == {s \in SetToSeqs(rows) : IsOrdered(s, PinnedFirst)}

\* sort.SliceStable by time: the one order in which rows of equal time stay as
\* they were.
StableOrders(rows) ==
  {order \in [DOMAIN rows -> DOMAIN rows] :
     \A i, j \in DOMAIN rows : i < j =>
       LET a == order[i] b == order[j] IN
       \/ NewerFirst(rows[a], rows[b])
       \/ rows[a].last = rows[b].last /\ a < b}

SortByTime(rows) == {[k \in DOMAIN rows |-> rows[order[k]]] : order \in StableOrders(rows)}

NoLoad == [on |-> FALSE, rows |-> {}, seen |-> {}, stale |-> {}]

\* run loads the chats of the last session before the window opens.
Init ==
  /\ stored = {} /\ counted = {}
  /\ \E f \in Flags : pinned = f.pinned /\ archived = f.archived /\ muted = f.muted
  /\ known = pinned \cup archived \cup muted
  /\ incoming = <<>> /\ load = NoLoad
  /\ Chats \in LoadOrders({ChatSummary(j) : j \in known \ archived})
  /\ selected = NoChat /\ at = "drain" /\ chatClicks = 0 /\ clicked = 0
  /\ panicked = FALSE /\ toast = NoChat
  /\ stale = archived /\ hidden = {} /\ torn = FALSE /\ overlap = FALSE /\ events = 0

-----------------------------------------------------------------------------
(* whatsmeow's goroutines *)

\* OnMessage: a message, new or redelivered, is stored, and sent or dropped.  A
\* new one bumps unread unless it is the account's own.
OnMessage(w) ==
  /\ events < MaxEvents /\ events' = events + 1
  /\ stored' = stored \cup {w} /\ known' = known \cup {chat_jid[w]}
  /\ counted' = counted \cup ({w} \ (stored \cup FromMe))
  /\ \/ /\ Len(incoming) < MaxQueue /\ incoming' = Append(incoming, w)
        /\ hidden' = hidden \ {w}
     \/ /\ Len(incoming) = MaxQueue /\ UNCHANGED incoming
        /\ hidden' = hidden \cup ({w} \ stored)
  /\ toast' = NoChat
  /\ UNCHANGED <<flagVars, Chats, load, frameVars, stale, torn>>

\* OnHistorySync: InsertBatch, which bumps no unread, then UpsertChat for each
\* chat with a name, until one fails; no event.
OnHistorySync(h) ==
  /\ events < MaxEvents /\ events' = events + 1
  /\ stored' = stored \cup h.messages
  /\ \E named \in SUBSET h.named : known' = known \cup ChatsOf(h.messages) \cup named
  /\ hidden' = hidden \cup (h.messages \ stored)
  /\ toast' = NoChat
  /\ UNCHANGED <<counted, flagVars, incoming, Chats, load, frameVars, stale, torn>>

\* An app-state event: ensureChatRow, then the flag of the store, and nothing
\* else, is set or cleared.
AppState(jid) ==
  /\ events < MaxEvents /\ events' = events + 1
  /\ known' = known \cup {jid}
  /\ stale' = stale \cup {jid}
  /\ load' = IF load.on THEN [load EXCEPT !.stale = @ \cup {jid}] ELSE load
  /\ toast' = NoChat
  /\ UNCHANGED <<stored, counted, incoming, Chats, frameVars, hidden, torn>>

SetFlag(S, jid) == {S \cup {jid}, S \ {jid}}

applyPin(jid) == AppState(jid) /\ pinned' \in SetFlag(pinned, jid) /\ UNCHANGED <<archived, muted>>
applyArchive(jid) == AppState(jid) /\ archived' \in SetFlag(archived, jid) /\ UNCHANGED <<pinned, muted>>
applyMute(jid) == AppState(jid) /\ muted' \in SetFlag(muted, jid) /\ UNCHANGED <<pinned, archived>>

\* applyPushName: UpsertChat may add the row of a chat.
applyPushName(jid) ==
  /\ events < MaxEvents /\ events' = events + 1
  /\ known' = known \cup {jid} /\ toast' = NoChat
  /\ UNCHANGED <<stored, counted, flagVars, incoming, Chats, load, frameVars, stale, hidden, torn>>

\* LoadChats on Connected: its query.  One that fails leaves the list as it is.
LoadQuery ==
  /\ ~load.on
  /\ load' = [on |-> TRUE, rows |-> {ChatSummary(j) : j \in known \ archived},
              seen |-> stored, stale |-> archived]
  /\ toast' = NoChat
  /\ UNCHANGED <<storeVars, incoming, Chats, frameVars, historyVars>>

\* What follows from an assignment of the loaded rows, whatever the UI goroutine
\* was doing.
Loaded ==
  /\ load.on /\ load' = NoLoad
  /\ stale' = load.stale
  /\ hidden' = (stored \ load.seen) \ Queued
  /\ toast' = NoChat

\* Its assignment.
LoadAssign ==
  /\ Loaded
  /\ Chats' \in LoadOrders(load.rows)
  /\ torn' = FALSE
  /\ overlap' = (overlap \/ at # "drain")
  /\ UNCHANGED <<storeVars, incoming, selected, at, chatClicks, clicked, panicked, events>>

-----------------------------------------------------------------------------
(* The frame loop *)

\* Mutant: the row takes the event's time, also an earlier one.
UpsertNoMax(rows, w) ==
  LET new == IF w \in FromMe THEN 0 ELSE 1 IN
  IF \E i \in DOMAIN rows : rows[i].jid = chat_jid[w]
  THEN [i \in DOMAIN rows |->
          IF rows[i].jid = chat_jid[w]
          THEN [rows[i] EXCEPT !.last = ts[w], !.unread = @ + new] ELSE rows[i]]
  ELSE Append(rows, [jid |-> chat_jid[w], last |-> ts[w], unread |-> new,
                     pinned |-> FALSE, muted |-> FALSE])

\* Mutant: the row is built anew from the event.
UpsertRebuilds(rows, w) ==
  Append(SelectSeq(rows, LAMBDA r : r.jid # chat_jid[w]),
         [jid |-> chat_jid[w], last |-> ts[w], unread |-> IF w \in FromMe THEN 0 ELSE 1,
          pinned |-> FALSE, muted |-> FALSE])

\* Mutant: only the first row is looked at.
UpsertLooksAtFirst(rows, w) ==
  LET new == IF w \in FromMe THEN 0 ELSE 1 IN
  IF rows # <<>> /\ rows[1].jid = chat_jid[w]
  THEN [rows EXCEPT ![1] = [@ EXCEPT !.last = Max({@, ts[w]}), !.unread = @ + new]]
  ELSE Append(rows, [jid |-> chat_jid[w], last |-> ts[w], unread |-> new,
                     pinned |-> FALSE, muted |-> FALSE])

\* upsertChatSummary.
Upsert(rows, w) ==
  LET new == IF w \in FromMe THEN 0 ELSE 1 IN
  IF \E i \in DOMAIN rows : rows[i].jid = chat_jid[w]
  THEN [i \in DOMAIN rows |->
          IF rows[i].jid = chat_jid[w] /\ \A k \in 1..(i - 1) : rows[k].jid # chat_jid[w]
          THEN [rows[i] EXCEPT !.last = Max({@, ts[w]}), !.unread = @ + new]
          ELSE rows[i]]
  ELSE Append(rows, [jid |-> chat_jid[w], last |-> ts[w], unread |-> new,
                     pinned |-> FALSE, muted |-> FALSE])

\* OnIncoming's part in the chat list: what the list is after it.
Fold(rows, w) == SortByTime(Upsert(rows, w))

\* The callback after the fold: a desktop notification, or none.
Notifies(rows, w) ==
  /\ w \notin FromMe /\ chat_jid[w] # selected
  /\ ~ \E i \in DOMAIN rows : rows[i].jid = chat_jid[w] /\ rows[i].muted

FoldNext ==
  /\ at = "drain" /\ incoming # <<>>
  /\ incoming' = Tail(incoming)
  /\ Chats' \in Fold(Chats, Head(incoming))
  /\ toast' = IF Notifies(Chats', Head(incoming)) THEN chat_jid[Head(incoming)] ELSE NoChat
  /\ UNCHANGED <<storeVars, load, frameVars, historyVars>>

\* The data race: LoadChats assigns while an event is folded.  The fold ends up
\* in the slice that was replaced; or its append puts the old slice back; or
\* its loop runs past the end of a shorter list.
LoadOverFold ==
  /\ at = "drain" /\ incoming # <<>>
  /\ Loaded
  /\ incoming' = Tail(incoming)
  /\ \/ Chats' \in LoadOrders(load.rows) /\ UNCHANGED panicked
     \/ Chats' \in Fold(Chats, Head(incoming)) /\ UNCHANGED panicked
     \/ /\ Cardinality(load.rows) < Len(Chats)
        /\ panicked' = TRUE /\ UNCHANGED Chats
  /\ torn' = TRUE
  /\ UNCHANGED <<storeVars, selected, at, chatClicks, clicked, overlap, events>>

\* Mutant: the Clickables are made once.
BeginLayoutOnce ==
  /\ at = "drain" /\ incoming = <<>>
  /\ at' = "clicks" /\ overlap' = FALSE
  /\ chatClicks' = IF chatClicks = 0 THEN Len(Chats) ELSE chatClicks
  /\ toast' = NoChat
  /\ UNCHANGED <<storeVars, incoming, Chats, selected, load, clicked, panicked, historyVars>>

\* The queue is empty and Event returns a frame: Layout brings the number of
\* Clickables in line, with new ones if it has changed.
BeginLayout ==
  /\ at = "drain" /\ incoming = <<>>
  /\ at' = "clicks" /\ overlap' = FALSE
  /\ chatClicks' = Len(Chats)
  /\ clicked' = IF chatClicks = Len(Chats) THEN clicked ELSE 0
  /\ toast' = NoChat
  /\ UNCHANGED <<storeVars, incoming, Chats, selected, load, panicked, historyVars>>

\* The loop over the clicks: OnSelectChat with the row of that index.
HandleClicks ==
  /\ at = "clicks"
  /\ at' = "sidebar" /\ clicked' = 0
  /\ \/ clicked = 0 /\ UNCHANGED <<selected, panicked>>
     \/ clicked \in DOMAIN Chats /\ selected' = Chats[clicked].jid /\ UNCHANGED panicked
     \/ clicked > Len(Chats) /\ panicked' = TRUE /\ UNCHANGED selected
  /\ toast' = NoChat
  /\ UNCHANGED <<storeVars, incoming, Chats, load, chatClicks, overlap, historyVars>>

\* OnBack, the header's button, is handled next to the clicks.
OnBack ==
  /\ at = "clicks" /\ selected # NoChat
  /\ selected' = NoChat /\ toast' = NoChat
  /\ UNCHANGED <<storeVars, incoming, Chats, load, at, chatClicks, clicked, panicked,
                 overlap, historyVars>>

\* layoutChatList: a row, with its Clickable, for every chat.
LayoutChatList ==
  /\ at = "sidebar"
  /\ at' = "conversation"
  /\ panicked' = (Len(Chats) > chatClicks)
  /\ toast' = NoChat
  /\ UNCHANGED <<storeVars, incoming, Chats, selected, load, chatClicks, clicked,
                 overlap, historyVars>>

\* layoutConversation, whose composer may call OnSend: the message is stored and
\* folded in the middle of the frame.
LayoutConversation ==
  /\ at = "conversation"
  /\ at' = "drain"
  /\ \/ UNCHANGED <<stored, known, Chats>>
     \/ \E w \in FromMe \ stored :
          /\ chat_jid[w] = selected
          /\ stored' = stored \cup {w} /\ known' = known \cup {selected}
          /\ Chats' \in Fold(Chats, w)
  /\ toast' = NoChat
  /\ UNCHANGED <<counted, flagVars, incoming, selected, load, chatClicks, clicked,
                 panicked, overlap, historyVars>>

\* The user clicks a row of the frame that is on the screen.
Click(i) ==
  /\ at = "drain" /\ clicked = 0 /\ i <= chatClicks
  /\ clicked' = i /\ toast' = NoChat
  /\ UNCHANGED <<storeVars, incoming, Chats, load, selected, at, chatClicks, panicked,
                 overlap, historyVars>>

Step ==
  \/ \E w \in WAIDs : OnMessage(w)
  \/ \E h \in Histories : OnHistorySync(h)
  \/ \E jid \in JIDs :
       applyPin(jid) \/ applyArchive(jid) \/ applyMute(jid) \/ applyPushName(jid)
  \/ LoadQuery \/ LoadAssign \/ LoadOverFold
  \/ FoldNext \/ BeginLayout \/ HandleClicks \/ OnBack \/ LayoutChatList \/ LayoutConversation
  \/ \E i \in 1..Cardinality(JIDs) : Click(i)

\* A panic of any goroutine ends the process.
Next == ~panicked /\ Step

Spec == Init /\ [][Next]_vars

-----------------------------------------------------------------------------
(* Properties *)

\* Folds and loads keep one row per chat; every chat with a message or a flag is
\* in the chats table, and what is queued, counted or hidden is stored.
ChatListTypeOK ==
  /\ stored \subseteq WAIDs /\ known \subseteq JIDs
  /\ ChatsOf(stored) \cup pinned \cup archived \cup muted \subseteq known
  /\ Queued \subseteq stored /\ hidden \subseteq stored /\ counted \subseteq stored \ FromMe
  /\ selected \in JIDs \cup {NoChat} /\ toast \in JIDs \cup {NoChat}
  /\ clicked \in 0..chatClicks
  /\ ~torn => \A i, j \in DOMAIN Chats : Chats[i].jid = Chats[j].jid => i = j

\* The list hides no message whose event came through: one that is stored and
\* not on its way has moved its chat's row to its time and is counted there, if
\* it is unread.  The exceptions are the model's history: chats archived at the
\* load; messages whose event was dropped, or folded between a load's query and
\* its assignment (LoadChats on whatsmeow's goroutine); and the data race
\* itself.  Messages a history sync stored are an exception too, until the next
\* LoadChats: they have no event, although history.go:171-173 has the chat list
\* refreshed.  So are those that were dropped, against handler.go:54-56.
ListHidesNothing ==
  ~torn => \A jid \in JIDs \ stale :
    LET shown == Of(jid, stored) \ (Queued \cup hidden) IN
    shown # {} => \E i \in DOMAIN Chats :
                    /\ Chats[i].jid = jid
                    /\ Chats[i].last >= LastTS(shown) /\ Chats[i].unread >= Unread(shown)

\* notify.go:5-8: a chat that was muted, and listed, when the list was loaded
\* does not notify, through any number of folds since; nor does the open chat.
MutedStaySilent ==
  toast # NoChat => toast # selected /\ (torn \/ toast \in stale \/ toast \notin muted)

\* The frame's indices stay in range: the folds between two frames, and the one
\* OnSend makes within a frame, never let Layout index a row or a Clickable that
\* is not there.  Only LoadChats, assigning during a frame or a fold, does.
IndicesInRange == panicked => overlap \/ torn

\* store/chatstate.go:8-9: "Pinned chats sort to the top of the chat list."
\* state.go:150-152: "the chat list is sorted pinned-first".
PinnedSortToTop ==
  ~torn => \A i, j \in DOMAIN Chats : i < j => ~(Chats[j].pinned /\ ~Chats[i].pinned)
=============================================================================
