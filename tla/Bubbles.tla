------------------------------- MODULE Bubbles -------------------------------
(***************************************************************************)
(* What the bubbles of an open group conversation show: which text, under  *)
(* whose name, on which side, with which attachments and reactions.        *)
(*                                                                         *)
(* whatsmeow's goroutine stores messages, edits, revokes and reactions;    *)
(* the UI goroutine loads rows, folds events and draws.  The bubbles are   *)
(* copies: an edit or a revoke changes the row only, and an event carries  *)
(* what the message first said, however late it is folded.                 *)
(*                                                                         *)
(* The way of an event to the frame loop is one set, as in module Paging,  *)
(* which also has the windows' limits: here the conversation fits in one   *)
(* page (fewer than PageSize messages), and JumpToMessage, which loads     *)
(* rows as SelectChat does, is left out.  Ticks are module Outgoing's.     *)
(***************************************************************************)
EXTENDS Integers, Sequences, SequencesExt, FiniteSets

CONSTANTS
  Live,         \* messages dispatched as events, any number of times
  Sent,         \* messages the user sends from here
  Own,          \* the JID of the paired device
  People,       \* who else writes in the group
  sender_jid,   \* who wrote each live message
  ts,           \* the time of each message
  attachments,  \* of each live message: a part of {"media", "quote", "link"}
  Window,       \* GroupMessages' window
  NameFor,      \* the display name of each person, or NoName
  Amended,      \* the messages edits, revokes and reactions name
  EditBodies,   \* the texts edits bring
  Reactors,     \* who reacts, among People
  Emojis        \* what they react with

NoJID == ""
NoName == ""
NoEmoji == ""
WAIDs == Live \cup Sent

ASSUME BubblesAssumption ==
  /\ Live \cap Sent = {} /\ IsFiniteSet(WAIDs) /\ Amended \subseteq WAIDs
  /\ Reactors \subseteq People
  /\ Own \notin People /\ NoJID \notin People \cup {Own} /\ NoEmoji \notin Emojis
  /\ sender_jid \in [Live -> People \cup {Own}]
  /\ attachments \in [Live -> SUBSET {"media", "quote", "link"}]
  /\ ts \in [WAIDs -> Nat \ {0}]
  /\ \A v, w \in WAIDs : ts[v] = ts[w] => v = w   \* ties are module Paging's
  /\ Window \in Nat

VARIABLES
  messages,   \* the messages table: wa_id -> row, or NoRow
  reactions,  \* the reactions table: a set of rows
  inflight,   \* messages whose event is between its insert and the frame loop
  ownJID,     \* State.OwnJID
  selected,   \* State.SelectedChat is the group
  Messages,   \* State.Messages, newest first
  Cursor,     \* State.Cursor: its time; zero is the zero cursor
  Reactions,  \* State.Reactions, as the set of rows last read
  deleted     \* history variable, not in the code: the messages that some
              \* frame has drawn as deleted

tables == <<messages, reactions>>
window == <<selected, Messages, Cursor, Reactions>>
vars == <<tables, inflight, ownJID, window, deleted>>

NoRow == [body |-> "none"]
Bodies == {"first"} \cup EditBodies
Rows == [body : Bodies, edited : BOOLEAN, revoked : BOOLEAN]
ReactionRows == [target : Amended, sender : Reactors, emoji : Emojis]

\* A bubble knows whether it was scanned from a row (messages.id is not zero).
BubbleRecords ==
  [wa_id : WAIDs, fromRow : BOOLEAN, sender : People \cup {Own, NoJID}, body : Bodies,
   edited : BOOLEAN, revoked : BOOLEAN, attached : SUBSET {"media", "quote", "link"}]

BubblesTypeOK ==
  /\ messages \in [WAIDs -> Rows \cup {NoRow}]
  /\ reactions \subseteq ReactionRows
  /\ \A r, q \in reactions : r.target = q.target /\ r.sender = q.sender => r = q
  /\ inflight \subseteq Live
  /\ ownJID \in {NoJID, Own}
  /\ selected \in BOOLEAN
  /\ Messages \in Seq(BubbleRecords)
  /\ Cursor \in Nat
  /\ Reactions \subseteq ReactionRows
  /\ deleted \subseteq WAIDs

Init ==
  /\ messages = [w \in WAIDs |-> NoRow] /\ reactions = {} /\ inflight = {}
  /\ ownJID \in {NoJID, Own}
  /\ selected = FALSE /\ Messages = <<>> /\ Cursor = 0 /\ Reactions = {}
  /\ deleted = {}

SenderOf(w) == IF w \in Sent THEN NoJID ELSE sender_jid[w]
AttachedTo(w) == IF w \in Sent THEN {} ELSE attachments[w]
Stored == {w \in WAIDs : messages[w] # NoRow}
New == [body |-> "first", edited |-> FALSE, revoked |-> FALSE]

-----------------------------------------------------------------------------
(* The handler *)

\* Mutant: a redelivered message is written over its row.
InsertOverwrites(w) == messages' = [messages EXCEPT ![w] = New]

\* ON CONFLICT(wa_id) DO NOTHING.
Insert(w) == messages' = [messages EXCEPT ![w] = IF @ = NoRow THEN New ELSE @]

OnMessage(w) ==
  /\ Insert(w)
  /\ inflight' = inflight \cup {w}
  /\ UNCHANGED <<reactions, ownJID, window, deleted>>

\* The channel is full.
DropEvent(w) ==
  /\ w \in inflight
  /\ inflight' = inflight \ {w}
  /\ UNCHANGED <<tables, ownJID, window, deleted>>

\* handleProtocol changes the row, if there is one, and wakes the UI.
ApplyEdit(w, newBody) ==
  /\ w \in Stored
  /\ messages' = [messages EXCEPT ![w].body = newBody, ![w].edited = TRUE]
  /\ UNCHANGED <<reactions, inflight, ownJID, window, deleted>>

ApplyRevoke(w) ==
  /\ w \in Stored
  /\ messages' = [messages EXCEPT ![w].revoked = TRUE]
  /\ UNCHANGED <<reactions, inflight, ownJID, window, deleted>>

\* Mutant: a reaction taken back is kept with an empty emoji.
SetReactionKeepsEmpty(w, who, emoji) ==
  /\ reactions' = {r \in reactions : r.target # w \/ r.sender # who}
                    \cup [target : {w}, sender : {who}, emoji : {emoji}]
  /\ UNCHANGED <<messages, inflight, ownJID, window, deleted>>

\* One reaction of each person on each message, stored or not; the empty
\* emoji takes it back.
SetReaction(w, who, emoji) ==
  /\ reactions' = {r \in reactions : r.target # w \/ r.sender # who}
                    \cup [target : {w}, sender : {who}, emoji : {emoji} \ {NoEmoji}]
  /\ UNCHANGED <<messages, inflight, ownJID, window, deleted>>

\* A pairing completes: OnConnState takes the device's JID over.
SetOwnJID ==
  /\ ownJID' = Own
  /\ UNCHANGED <<tables, inflight, window, deleted>>

-----------------------------------------------------------------------------
(* The reducer *)

\* A row as the queries scan it.
Scanned(w) ==
  [wa_id |-> w, fromRow |-> TRUE, sender |-> SenderOf(w), body |-> messages[w].body,
   edited |-> messages[w].edited, revoked |-> messages[w].revoked, attached |-> AttachedTo(w)]

\* ORDER BY ts DESC: all of S, newest first.
NewestFirst(S) ==
  {q \in [1..Cardinality(S) -> S] : \A i, j \in DOMAIN q : i < j => ts[q[i]] > ts[q[j]]}

Pages(S) == {[k \in DOMAIN q |-> Scanned(q[k])] : q \in NewestFirst(S)}

CursorOf(page) == IF page = <<>> THEN 0 ELSE ts[Last(page).wa_id]

\* reloadReactions: what the table holds for the loaded messages.
ReactionsFor(bubbles) ==
  {r \in reactions : \E k \in DOMAIN bubbles : bubbles[k].wa_id = r.target}

SelectChat ==
  /\ ~selected
  /\ selected' = TRUE
  /\ Messages' \in Pages(Stored)
  /\ Cursor' = CursorOf(Messages')
  /\ Reactions' = ReactionsFor(Messages')
  /\ UNCHANGED <<tables, inflight, ownJID, deleted>>

\* A next page is asked for where there may be one.
LoadOlderPage ==
  /\ selected /\ Cursor # 0
  /\ \E page \in Pages({w \in Stored : ts[w] < Cursor}) :
       Messages' = Messages \o page /\ Cursor' = CursorOf(page)
  /\ Reactions' = ReactionsFor(Messages')
  /\ UNCHANGED <<tables, inflight, ownJID, selected, deleted>>

\* The conversation was opened before it had a message: the first page is
\* loaded, its reactions are not.
LoadFirstPage ==
  /\ selected /\ Cursor = 0 /\ Messages = <<>>
  /\ Messages' \in Pages(Stored)
  /\ Cursor' = CursorOf(Messages')
  /\ UNCHANGED <<tables, inflight, ownJID, selected, Reactions, deleted>>

\* State.Reactions is left as it is.
OnBack ==
  /\ selected' = FALSE /\ Messages' = <<>> /\ Cursor' = 0
  /\ UNCHANGED <<tables, inflight, ownJID, Reactions, deleted>>

\* The bubble OnIncoming makes of an event: sender, time and first body.
FromEvent(w) ==
  [wa_id |-> w, fromRow |-> FALSE, sender |-> SenderOf(w), body |-> "first",
   edited |-> FALSE, revoked |-> FALSE, attached |-> {}]

\* It replaces the first copy that is loaded, or goes in front.
OnIncoming(w) ==
  LET copies == {k \in DOMAIN Messages : Messages[k].wa_id = w}
  IN CASE ~selected      -> UNCHANGED Messages
       [] copies = {}    -> Messages' = <<FromEvent(w)>> \o Messages
       [] OTHER          -> LET first == CHOOSE k \in copies : \A j \in copies : k <= j
                            IN Messages' = [Messages EXCEPT ![first] = FromEvent(w)]

Fold(w) ==
  /\ w \in inflight
  /\ inflight' = inflight \ {w}
  /\ OnIncoming(w)
  /\ UNCHANGED <<tables, ownJID, selected, Cursor, Reactions, deleted>>

\* OnSend: the row, then its bubble; once per minted wa_id.
AddOptimistic(w) ==
  /\ selected /\ w \notin Stored
  /\ Insert(w)
  /\ OnIncoming(w)
  /\ UNCHANGED <<reactions, inflight, ownJID, selected, Cursor, Reactions, deleted>>

-----------------------------------------------------------------------------
(* The frame *)

\* Mutant: only the time decides.
sameGroupByTime(a, b) == ts[a.wa_id] - ts[b.wa_id] \in (-Window)..Window

\* Of one sender, and close in time, whichever is the newer.
sameGroup(a, b) ==
  /\ a.sender = b.sender
  /\ ts[a.wa_id] - ts[b.wa_id] \in (-Window)..Window

\* GroupMessages: the older neighbour is drawn above, the newer one below.
hasAbove(k) == k < Len(Messages) /\ sameGroup(Messages[k], Messages[k + 1])
hasBelow(k) == k > 1 /\ sameGroup(Messages[k], Messages[k - 1])
GroupPosition(k) ==
  CASE ~hasAbove(k) /\ ~hasBelow(k) -> "solo"
    [] ~hasAbove(k) /\ hasBelow(k)  -> "head"
    [] hasAbove(k) /\ hasBelow(k)   -> "middle"
    [] hasAbove(k) /\ ~hasBelow(k)  -> "tail"

isFromMe(b) == IF ownJID # NoJID THEN b.sender = ownJID ELSE b.sender = NoJID

LabelFor(who) == IF NameFor[who] # NoName THEN NameFor[who] ELSE who

\* The sender's label: on received messages, at the start of a run.
SenderLabel(k) ==
  IF /\ ~isFromMe(Messages[k]) /\ Messages[k].sender # NoJID
     /\ GroupPosition(k) \in {"head", "solo"}
  THEN LabelFor(Messages[k].sender)
  ELSE NoName

\* The text, with what is drawn around it or in its place; the italics tell
\* the notice of a deletion from a message with its words.
bubbleBodyText(b) ==
  IF b.revoked THEN [notice |-> "deleted", body |-> ""]
  ELSE [notice |-> IF b.edited THEN "edited" ELSE "", body |-> b.body]

\* The link card gives way to an attachment.
blocks(b) == IF "media" \in b.attached THEN b.attached \ {"link"} ELSE b.attached

\* summarizeReactions: how many people chose each emoji.
tally(b) ==
  LET on == {r \in Reactions : r.target = b.wa_id}
  IN [e \in {r.emoji : r \in on} |-> Cardinality({r \in on : r.emoji = e})]

layoutBubble(k) ==
  [side   |-> IF isFromMe(Messages[k]) THEN "right" ELSE "left",
   label  |-> SenderLabel(k),
   blocks |-> blocks(Messages[k]),
   text   |-> bubbleBodyText(Messages[k]),
   chips  |-> tally(Messages[k])]

\* A frame draws every bubble (the list leaves out those off the screen).
layoutMessages ==
  /\ selected
  /\ deleted' = deleted \cup
       {Messages[k].wa_id : k \in {j \in DOMAIN Messages : layoutBubble(j).text.notice = "deleted"}}
  /\ UNCHANGED <<tables, inflight, ownJID, window>>

-----------------------------------------------------------------------------

HandlerStep ==
  \/ \E w \in Live : OnMessage(w) \/ DropEvent(w)
  \/ \E w \in Amended :
       \/ ApplyRevoke(w)
       \/ \E newBody \in EditBodies : ApplyEdit(w, newBody)
       \/ \E who \in Reactors, emoji \in Emojis \cup {NoEmoji} : SetReaction(w, who, emoji)
  \/ SetOwnJID

UIStep ==
  \/ SelectChat \/ LoadOlderPage \/ LoadFirstPage \/ OnBack \/ layoutMessages
  \/ \E w \in Live : Fold(w)
  \/ \E w \in Sent : AddOptimistic(w)

Next == HandlerStep \/ UIStep

Spec == Init /\ [][Next]_vars

-----------------------------------------------------------------------------
(* Properties *)

\* Reading downwards, a received message stands under its own sender's label:
\* the nearest label above it, or on it, is that sender's, in whatever order
\* pages and late events put the bubbles (GroupMessages, layoutMessages).
AttributedToItsSender ==
  \A k \in DOMAIN Messages :
    ~isFromMe(Messages[k]) /\ Messages[k].sender # NoJID =>
      \E j \in k..Len(Messages) :
        /\ layoutBubble(j).label = LabelFor(Messages[k].sender)
        /\ \A i \in k..(j - 1) : layoutBubble(i).label = NoName

\* Once a frame has drawn a message as deleted, its text comes back only in a
\* bubble folded from an event: never by an edit, a redelivery's insert, a
\* reload or another page (ApplyRevoke, Insert, PageOlder, bubbleBodyText).
DeletedStaysDeleted ==
  \A k \in DOMAIN Messages :
    Messages[k].wa_id \in deleted /\ Messages[k].fromRow =>
      layoutBubble(k).text.notice = "deleted"

\* docs/design.md:147, "Sent: right-aligned", and state.go:387-388, which calls
\* the empty sender "our local convention for "from me"": what the user sends
\* from here is drawn on the right.  It is not once the device is paired.
SentOnTheRight ==
  \A k \in DOMAIN Messages :
    Messages[k].wa_id \in Sent => layoutBubble(k).side = "right"
=============================================================================
