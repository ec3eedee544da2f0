------------------------------- MODULE Paging -------------------------------
(***************************************************************************)
(* The open chat's window of messages: ui.State's Messages and Cursor,     *)
(* moved through the history by the store's keyset queries (PageOlder,     *)
(* PageAround) while messages are stored and events folded in.             *)
(*                                                                         *)
(* A row is named by its messages.id.  Rows are never deleted, so `rows`   *)
(* lists the wa_ids in the order of their ids.  A message's chat and time  *)
(* never change (module Store: MessagesKept), so they are constants.       *)
(*                                                                         *)
(* The way of an event from its insert to the frame loop (module Ingest)   *)
(* is one set, `inflight`, from which events leave in any order: two       *)
(* handler goroutines can send in another order than they inserted.        *)
(* SelectChat and LoadOlder make one query and run on the UI goroutine;    *)
(* JumpToMessage makes three, and handlers write between them.  A query    *)
(* that fails leaves the window alone: a stuttering step, or JumpFails.    *)
(***************************************************************************)
EXTENDS Integers, Sequences, SequencesExt, FiniteSets

CONSTANTS
  WAIDs,      \* WhatsApp message ids
  JIDs,       \* chats
  chat_jid,   \* the chat of each message
  ts,         \* the time of each message
  Live,       \* the messages dispatched as events, any number of times
  Histories,  \* the sets of messages history syncs carry
  PageSize    \* messages fetched per page

NoChat == ""

ASSUME PagingAssumption ==
  /\ chat_jid \in [WAIDs -> JIDs] /\ NoChat \notin JIDs
  /\ ts \in [WAIDs -> Nat]
  /\ Live \subseteq WAIDs /\ Histories \subseteq SUBSET WAIDs
  /\ \A h \in Histories : IsFiniteSet(h)
  /\ PageSize \in Nat \ {0}

VARIABLES
  rows,      \* messages: row id -> wa_id
  inflight,  \* messages whose event is between its insert and the frame loop
  selected,  \* State.SelectedChat
  Messages,  \* State.Messages
  Cursor,    \* State.Cursor
  jump,      \* what PageAround has read so far
  skipped,   \* history variable: what the jump's LIMIT left out above the anchor
  bypassed   \* history variable: what was stored above the cursor since the
             \* window was loaded, and will not be folded

window == <<selected, Messages, Cursor>>
vars == <<rows, inflight, window, jump, skipped, bypassed>>

RowIds == 1..Len(rows)
RowsOf(jid) == {i \in RowIds : chat_jid[rows[i]] = jid}
Stored == {rows[i] : i \in RowIds}

NoCursor == [ts |-> 0, id |-> 0]
KeyOf(i) == [ts |-> ts[rows[i]], id |-> i]

\* The tuple comparison of the WHERE clauses, (ts, id) < (ts, id).
Before(k, c) == k.ts < c.ts \/ (k.ts = c.ts /\ k.id < c.id)

\* Mutant: the tie on ts left out of the WHERE clause.
OlderThanByTime(jid, c) == {i \in RowsOf(jid) : KeyOf(i).ts < c.ts}

\* The rows of a chat older than a cursor.
OlderThan(jid, c) == {i \in RowsOf(jid) : Before(KeyOf(i), c)}

\* ORDER BY ts DESC, id DESC LIMIT limit.
NewestOf(S, limit) ==
  {p \in BoundedSeq(S, limit) :
     /\ \A i, j \in DOMAIN p : i < j => Before(KeyOf(p[j]), KeyOf(p[i]))
     /\ \A r \in S \ {p[k] : k \in DOMAIN p} :
          Len(p) = limit /\ \A k \in DOMAIN p : Before(KeyOf(r), KeyOf(p[k]))}

\* The pages PageOlder can return: always one.
PageOlder(jid, before, limit) ==
  NewestOf(IF before = NoCursor THEN RowsOf(jid) ELSE OlderThan(jid, before), limit)

\* A row as the queries scan it into State.Messages.  One that OnIncoming
\* builds from an event has no row id.
Entry(i) == [wa_id |-> rows[i], id |-> i]
Entries(page) == [k \in DOMAIN page |-> Entry(page[k])]
Folded(w) == [wa_id |-> w, id |-> 0]

\* The cursor of a page: its oldest row.
NextCursor(page) == IF page = <<>> THEN NoCursor ELSE KeyOf(page[Len(page)])

NoJump == [anchor |-> 0, newer |-> <<>>, mark |-> 0]

Loaded == {Messages[k].wa_id : k \in DOMAIN Messages}

PagingInit ==
  /\ rows = <<>> /\ inflight = {}
  /\ selected = NoChat /\ Messages = <<>> /\ Cursor = NoCursor
  /\ jump = NoJump
  /\ skipped = {} /\ bypassed = {}

-----------------------------------------------------------------------------
(* The handler's goroutines *)

\* What of `new` was stored behind the window's back: in the open chat, not
\* loaded, and not older than the cursor, so that no later page returns it.
Behind(new, table) ==
  {w \in new \ Loaded :
     \E i \in DOMAIN table :
       /\ table[i] = w /\ chat_jid[w] = selected
       /\ ~Before([ts |-> ts[w], id |-> i], Cursor)}

\* OnMessage inserts its message, new or redelivered, and then publishes it.
OnMessage(w) ==
  /\ rows' = IF w \in Stored THEN rows ELSE Append(rows, w)
  /\ inflight' = inflight \cup {w}
  /\ UNCHANGED <<window, jump, skipped, bypassed>>

\* The channel is full: OnMessage drops the event.
DropEvent(w) ==
  /\ w \in inflight
  /\ inflight' = inflight \ {w}
  /\ bypassed' = bypassed \cup Behind({w}, rows)
  /\ UNCHANGED <<rows, window, jump, skipped>>

\* OnHistorySync stores a batch, in the phone's order, and publishes nothing.
OnHistorySync(h) ==
  /\ \E new \in SetToSeqs(h \ Stored) : rows' = rows \o new
  /\ bypassed' = bypassed \cup Behind(h \ Stored, rows')
  /\ UNCHANGED <<inflight, window, jump, skipped>>

-----------------------------------------------------------------------------
(* The UI goroutine *)

UIIdle == jump = NoJump

\* Mutant: the page replaced and the cursor of the last chat kept.
SelectChatKeepsCursor(jid) ==
  /\ UIIdle /\ selected # jid
  /\ \E page \in PageOlder(jid, NoCursor, PageSize) :
       /\ selected' = jid
       /\ Messages' = Entries(page)
  /\ skipped' = {} /\ bypassed' = {}
  /\ UNCHANGED <<rows, inflight, Cursor, jump>>

SelectChat(jid) ==
  /\ UIIdle /\ selected # jid
  /\ \E page \in PageOlder(jid, NoCursor, PageSize) :
       /\ selected' = jid
       /\ Messages' = Entries(page)
       /\ Cursor' = NextCursor(page)
  /\ skipped' = {} /\ bypassed' = {}
  /\ UNCHANGED <<rows, inflight, jump>>

\* Mutant: the check for the zero cursor dropped; the walk starts over.
LoadOlderWraps ==
  /\ UIIdle /\ selected # NoChat
  /\ \E page \in PageOlder(selected, Cursor, PageSize) :
       /\ Messages' = Messages \o Entries(page)
       /\ Cursor' = NextCursor(page)
  /\ UNCHANGED <<rows, inflight, selected, jump, skipped, bypassed>>

\* OnNearEnd: the user scrolled to the oldest loaded messages.  A window that
\* has messages and no cursor has reached the end; one that has neither is
\* loaded as SelectChat would (and what its first page returns is all of it).
LoadOlder ==
  /\ UIIdle /\ selected # NoChat
  /\ Cursor = NoCursor => Messages = <<>>
  /\ \E page \in PageOlder(selected, Cursor, PageSize) :
       /\ Messages' = Messages \o Entries(page)
       /\ Cursor' = NextCursor(page)
  /\ bypassed' = IF Cursor = NoCursor THEN {} ELSE bypassed
  /\ UNCHANGED <<rows, inflight, selected, jump, skipped>>

\* The rows of the anchor's chat that are newer than it.
Above(i) == {r \in RowsOf(chat_jid[rows[i]]) : Before(KeyOf(i), KeyOf(r))}

\* PageAround up to its second query: the anchor, a search hit, and above it
\* the newest PageSize/2 rows of the chat.
JumpNewer(i) ==
  /\ UIIdle /\ i \in RowIds
  /\ \E page \in NewestOf(Above(i), PageSize \div 2) :
       jump' = [anchor |-> i, newer |-> page, mark |-> Len(rows)]
  /\ UNCHANGED <<rows, inflight, window, skipped, bypassed>>

\* Its third query, and the window it returns.
AroundPages ==
  {jump.newer \o <<jump.anchor>> \o older :
     older \in NewestOf(OlderThan(chat_jid[rows[jump.anchor]], KeyOf(jump.anchor)),
                        PageSize \div 2)}

\* JumpToMessage's assignments.
JumpOlder ==
  /\ ~UIIdle
  /\ \E page \in AroundPages :
       /\ selected' = chat_jid[rows[jump.anchor]]
       /\ Messages' = Entries(page)
       /\ Cursor' = NextCursor(page)
  /\ skipped' = {rows[i] : i \in {r \in Above(jump.anchor) : r <= jump.mark}}
                  \ {rows[jump.newer[k]] : k \in DOMAIN jump.newer}
  /\ bypassed' = {rows[i] : i \in {r \in Above(jump.anchor) : r > jump.mark}} \ inflight
  /\ jump' = NoJump
  /\ UNCHANGED <<rows, inflight>>

JumpFails ==
  /\ ~UIIdle
  /\ jump' = NoJump
  /\ UNCHANGED <<rows, inflight, window, skipped, bypassed>>

OnBack ==
  /\ UIIdle
  /\ selected' = NoChat /\ Messages' = <<>> /\ Cursor' = NoCursor
  /\ skipped' = {} /\ bypassed' = {}
  /\ UNCHANGED <<rows, inflight, jump>>

\* Where a message is in the window: the dedup loop stops at the first copy.
IsFirst(k, w) == Messages[k].wa_id = w /\ \A j \in 1..(k - 1) : Messages[j].wa_id # w

\* Mutant: a copy that is loaded is not looked for.
OnIncomingNoDedup(w) ==
  /\ UIIdle /\ w \in inflight
  /\ inflight' = inflight \ {w}
  /\ Messages' = IF chat_jid[w] = selected THEN <<Folded(w)>> \o Messages ELSE Messages
  /\ UNCHANGED <<rows, selected, Cursor, jump, skipped, bypassed>>

\* The frame loop folds an event: it replaces the copy that is loaded, or goes
\* on top, whatever its time.
OnIncoming(w) ==
  /\ UIIdle /\ w \in inflight
  /\ inflight' = inflight \ {w}
  /\ \/ chat_jid[w] # selected /\ Messages' = Messages
     \/ /\ chat_jid[w] = selected /\ w \notin Loaded
        /\ Messages' = <<Folded(w)>> \o Messages
     \/ /\ chat_jid[w] = selected
        /\ \E k \in DOMAIN Messages :
             IsFirst(k, w) /\ Messages' = [Messages EXCEPT ![k] = Folded(w)]
  /\ UNCHANGED <<rows, selected, Cursor, jump, skipped, bypassed>>

PagingNext ==
  \/ \E w \in Live : OnMessage(w) \/ DropEvent(w) \/ OnIncoming(w)
  \/ \E h \in Histories : OnHistorySync(h)
  \/ \E jid \in JIDs : SelectChat(jid)
  \/ LoadOlder
  \/ \E i \in RowIds : JumpNewer(i)
  \/ JumpOlder
  \/ JumpFails
  \/ OnBack

PagingSpec == PagingInit /\ [][PagingNext]_vars

-----------------------------------------------------------------------------
(* Properties *)

\* A loaded row belongs to the chat that is open, and the cursor is none or the
\* position of a row of that chat: a page never continues another chat's walk
\* (SelectChat, JumpToMessage and OnBack set all three together).
PagingTypeOK ==
  /\ rows \in Seq(WAIDs) /\ inflight \subseteq Stored \cap Live
  /\ selected \in JIDs \cup {NoChat}
  /\ Messages \in Seq([wa_id : WAIDs, id : Nat])
  /\ \A k \in DOMAIN Messages :
       /\ chat_jid[Messages[k].wa_id] = selected
       /\ Messages[k].id # 0 =>
            Messages[k].id \in RowIds /\ rows[Messages[k].id] = Messages[k].wa_id
  /\ Cursor = NoCursor \/ \E i \in RowsOf(selected) : Cursor = KeyOf(i)
  /\ jump \in [anchor : {0} \cup RowIds, newer : Seq(RowIds), mark : {0} \cup RowIds]
  /\ skipped \subseteq WAIDs /\ bypassed \subseteq WAIDs

\* The keyset walk is exact (paging.go's Cursor: rows sharing a millisecond are
\* not skipped): every row of the open chat down to the cursor is loaded, or
\* still on its way, or went by the window when it was stored, or was left out
\* by the jump.  Nothing is lost between two pages, or between a page and the
\* events folded around it, in whatever order they come.
WindowExact ==
  \A i \in RowsOf(selected) :
    ~Before(KeyOf(i), Cursor) => rows[i] \in Loaded \cup inflight \cup skipped \cup bypassed

\* Pages do not overlap (Cursor: nor duplicated across page boundaries): the
\* rows loaded by queries stand strictly newest first, each one once, however
\* many pages were walked, and the walk does not start over at its end.
PagesInOrder ==
  \A j, k \in DOMAIN Messages :
    j < k /\ Messages[j].id # 0 /\ Messages[k].id # 0 =>
      Before(KeyOf(Messages[k].id), KeyOf(Messages[j].id))

\* The copy of a message that can be there twice was folded in: the dedup of
\* OnIncoming keeps what is loaded single, and a message doubled by the walk is
\* one that came on top before its page did.
TwiceOnlyByWalk ==
  \A j, k \in DOMAIN Messages :
    j < k /\ Messages[j].wa_id = Messages[k].wa_id =>
      Messages[j].id = 0 /\ Messages[k].id # 0

\* paging.go:23-25: PageAround returns "a window of messages centered on
\* anchorID": no row it left out lies between two rows it returned.
JumpHasNoGap ==
  \A i \in RowsOf(selected) : rows[i] \in skipped =>
    ~ \E j, k \in DOMAIN Messages :
        /\ Messages[j].id # 0 /\ Before(KeyOf(Messages[j].id), KeyOf(i))
        /\ Messages[k].id # 0 /\ Before(KeyOf(i), KeyOf(Messages[k].id))
=============================================================================
