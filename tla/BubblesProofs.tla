---------------------------- MODULE BubblesProofs ----------------------------
(***************************************************************************)
(* What module Bubbles' checks show for four messages, for any number.     *)
(*                                                                         *)
(* Attribution follows from the grouping alone, whatever the list of       *)
(* bubbles.  That a deleted message stays deleted needs an invariant: a    *)
(* bubble shows a deletion only where the row has one, and a message has   *)
(* one bubble that was scanned from its row, at most; a later copy cannot  *)
(* be older than what an earlier one has shown.                            *)
(***************************************************************************)
EXTENDS Bubbles, OrderLemmas, SequenceTheorems, FiniteSetTheorems, TLAPS

RowRevoked(w) == w \in Stored /\ messages[w].revoked

\* What is drawn as deleted has been scanned from a row that is deleted.
DeletionsStored ==
  /\ \A k \in DOMAIN Messages :
       Messages[k].revoked => Messages[k].fromRow /\ RowRevoked(Messages[k].wa_id)
  /\ \A w \in deleted : RowRevoked(w)

\* The notice of a deletion stays.
NoticesKept ==
  \A k \in DOMAIN Messages :
    Messages[k].fromRow /\ Messages[k].wa_id \in deleted => Messages[k].revoked

\* A message is scanned from its row into one bubble, no older than the cursor.
ScannedOnce(bubbles, cursor) ==
  \A k \in DOMAIN bubbles : bubbles[k].fromRow =>
    /\ cursor <= ts[bubbles[k].wa_id]
    /\ \A j \in DOMAIN bubbles :
         bubbles[j].fromRow /\ bubbles[j].wa_id = bubbles[k].wa_id => j = k

BubblesInv ==
  /\ BubblesTypeOK
  /\ DeletionsStored /\ NoticesKept
  /\ ScannedOnce(Messages, Cursor)

-----------------------------------------------------------------------------
(* Sequences and pages *)

\* A sequence put before or behind another.
LEMMA Joined ==
  ASSUME NEW R, NEW s \in Seq(R), NEW t \in Seq(R)
  PROVE  /\ s \o t \in Seq(R)
         /\ DOMAIN s = 1..Len(s) /\ DOMAIN t = 1..Len(t) /\ Len(s) \in Nat /\ Len(t) \in Nat
         /\ DOMAIN (s \o t) = 1..(Len(s) + Len(t))
         /\ \A k \in 1..Len(s) : (s \o t)[k] = s[k]
         /\ \A k \in (Len(s) + 1)..(Len(s) + Len(t)) : (s \o t)[k] = t[k - Len(s)]
BY ConcatProperties

\* A query without a limit has exactly one page.
LEMMA OnePage ==
  ASSUME NEW S \in SUBSET WAIDs
  PROVE  \E page : Pages(S) = {page}
<1> DEFINE R == {p \in S \X S : ts[p[1]] > ts[p[2]]}
<1>1. \A v, w \in S : <<v, w>> \in R <=> ts[v] > ts[w]
  OBVIOUS
<1>2. \A v, w \in S : ts[v] \in Nat /\ (ts[v] = ts[w] => v = w)
  BY BubblesAssumption
<1> HIDE DEF R
<1>3. TotalOrder(S, R)
  BY <1>1, <1>2 DEF TotalOrder, StrictOrder
<1>4. IsFiniteSet(S)
  BY BubblesAssumption, FS_Subset
<1>5. PICK q : Sorted(S, R) = {q}
  BY <1>3, <1>4, SortedOnce
<1>6. NewestFirst(S) = Sorted(S, R)
  BY <1>1 DEF NewestFirst, Sorted
<1> DEFINE page == [k \in DOMAIN q |-> Scanned(q[k])]
<1>7. Pages(S) = {[k \in DOMAIN r |-> Scanned(r[k])] : r \in {q}}
  BY <1>5, <1>6 DEF Pages
<1>8. Pages(S) = {page}
  BY <1>7
<1> QED
  BY <1>8

-----------------------------------------------------------------------------
(* Labels *)

\* A run of bubbles with an older neighbour each is of one sender, and the
\* nearest bubble without one, at or above it, carries that sender's label.
LEMMA LabelsAttribute ==
  ASSUME BubblesTypeOK
  PROVE  AttributedToItsSender
<1> SUFFICES ASSUME NEW k \in DOMAIN Messages,
                    ~isFromMe(Messages[k]), Messages[k].sender # NoJID
             PROVE  \E j \in k..Len(Messages) :
                      /\ layoutBubble(j).label = LabelFor(Messages[k].sender)
                      /\ \A i \in k..(j - 1) : layoutBubble(i).label = NoName
  BY DEF AttributedToItsSender
<1>1. /\ Messages \in Seq(BubbleRecords) /\ Len(Messages) \in Nat
      /\ DOMAIN Messages = 1..Len(Messages) /\ k \in 1..Len(Messages)
  BY DEF BubblesTypeOK
<1> DEFINE Tops == {j \in k..Len(Messages) : ~hasAbove(j)}
<1>2. Len(Messages) \in Tops
  BY <1>1 DEF hasAbove
<1>3. PICK j \in Tops : \A i \in Tops : j <= i
  <2>1. Tops \subseteq Nat /\ Tops # {}
    BY <1>1, <1>2
  <2> HIDE DEF Tops
  <2> QED
    BY <2>1, LeastNumber
<1>4. /\ j \in k..Len(Messages) /\ ~hasAbove(j)
      /\ \A i \in k..(j - 1) : hasAbove(i)
  <2>1. j \in k..Len(Messages) /\ ~hasAbove(j)
    OBVIOUS
  <2>2. ASSUME NEW i \in k..(j - 1) PROVE hasAbove(i)
    <3>1. i \in k..Len(Messages) /\ ~(j <= i)
      BY <1>1, <2>1, <2>2
    <3>2. i \notin Tops
      BY <1>3, <3>1
    <3> QED
      BY <3>1, <3>2
  <2> QED
    BY <2>1, <2>2
<1> HIDE DEF Tops
<1>5. Messages[j].sender = Messages[k].sender
  <2> DEFINE Others == {i \in k..j : Messages[i].sender # Messages[k].sender}
  <2> SUFFICES ASSUME Others # {} PROVE FALSE
    BY <1>1, <1>4
  <2>1. Others \subseteq Nat
    BY <1>1
  <2>2. PICK i \in Others : \A h \in Others : i <= h
    <3> HIDE DEF Others
    <3> QED
      BY <2>1, LeastNumber
  <2>3. i \in k..j /\ Messages[i].sender # Messages[k].sender /\ i # k
    OBVIOUS
  <2>4. i - 1 \in k..j /\ i - 1 \in k..(j - 1) /\ (i - 1) + 1 = i /\ ~(i <= i - 1)
    BY <1>1, <1>4, <2>3
  <2>5. i - 1 \notin Others
    BY <2>2, <2>4
  <2>6. Messages[i - 1].sender = Messages[k].sender
    BY <2>4, <2>5
  <2>7. Messages[i - 1].sender = Messages[i].sender
    BY <1>4, <2>4 DEF hasAbove, sameGroup
  <2> QED
    BY <2>3, <2>6, <2>7
<1>6. layoutBubble(j).label = LabelFor(Messages[k].sender)
  <2>1. ~isFromMe(Messages[j]) /\ Messages[j].sender # NoJID
    BY <1>5 DEF isFromMe
  <2>2. GroupPosition(j) \in {"head", "solo"}
    BY <1>4 DEF GroupPosition
  <2>3. SenderLabel(j) = LabelFor(Messages[j].sender)
    BY <2>1, <2>2 DEF SenderLabel
  <2> QED
    BY <1>5, <2>3 DEF layoutBubble
<1>7. ASSUME NEW i \in k..(j - 1) PROVE layoutBubble(i).label = NoName
  <2>1. hasAbove(i)
    BY <1>4
  <2>2. GroupPosition(i) \notin {"head", "solo"}
    BY <2>1 DEF GroupPosition
  <2> QED
    BY <2>2 DEF layoutBubble, SenderLabel
<1> QED
  BY <1>4, <1>6, <1>7

-----------------------------------------------------------------------------
(* Pages and cursors *)

\* Every bubble is a message's.
LEMMA BubbleIDs ==
  ASSUME BubblesTypeOK
  PROVE  \A k \in DOMAIN Messages : Messages[k].wa_id \in WAIDs
<1>1. \A k \in DOMAIN Messages : Messages[k] \in BubbleRecords
  BY DEF BubblesTypeOK
<1>2. \A b \in BubbleRecords : b.wa_id \in WAIDs
  BY DEF BubbleRecords
<1> QED
  BY <1>1, <1>2

\* A row is scanned into a bubble.
LEMMA ScannedTypes ==
  ASSUME BubblesTypeOK, NEW w \in Stored
  PROVE  /\ Scanned(w) \in BubbleRecords
         /\ Scanned(w).wa_id = w /\ Scanned(w).fromRow
         /\ Scanned(w).revoked = messages[w].revoked
<1>1. w \in WAIDs /\ messages[w] \in Rows
  BY DEF Stored, BubblesTypeOK
<1>2. SenderOf(w) \in People \cup {Own, NoJID}
  BY <1>1, BubblesAssumption DEF SenderOf, WAIDs
<1>3. AttachedTo(w) \in SUBSET {"media", "quote", "link"}
  BY <1>1, BubblesAssumption DEF AttachedTo, WAIDs
<1> QED
  BY <1>1, <1>2, <1>3 DEF Scanned, BubbleRecords, Rows

\* A page holds stored messages, each scanned from its row, once; its cursor is
\* its oldest time.
LEMMA PageFacts ==
  ASSUME BubblesTypeOK, NEW S \in SUBSET Stored, NEW page \in Pages(S)
  PROVE  /\ page \in Seq(BubbleRecords)
         /\ \A k \in DOMAIN page :
              page[k].wa_id \in S /\ page[k] = Scanned(page[k].wa_id) /\ page[k].fromRow
         /\ CursorOf(page) \in Nat
         /\ ScannedOnce(page, CursorOf(page))
         /\ \A k \in DOMAIN page : CursorOf(page) # 0
<1>1. PICK q \in NewestFirst(S) : page = [k \in DOMAIN q |-> Scanned(q[k])]
  BY DEF Pages
<1>2. S \subseteq WAIDs /\ IsFiniteSet(S) /\ Cardinality(S) \in Nat
  <2>1. S \subseteq WAIDs
    BY DEF Stored
  <2> QED
    BY <2>1, BubblesAssumption, FS_Subset, FS_CardinalityType
<1>3. /\ q \in [1..Cardinality(S) -> S]
      /\ \A i, j \in 1..Cardinality(S) : i < j => ts[q[i]] > ts[q[j]]
  BY <1>1 DEF NewestFirst
<1>4. /\ DOMAIN page = 1..Cardinality(S)
      /\ \A k \in 1..Cardinality(S) :
           q[k] \in S /\ page[k] = Scanned(q[k]) /\ page[k] \in BubbleRecords
             /\ page[k].wa_id = q[k] /\ page[k].fromRow
  BY <1>1, <1>3, ScannedTypes
<1>5. page \in Seq(BubbleRecords) /\ Len(page) = Cardinality(S)
  <2>1. page \in [1..Cardinality(S) -> BubbleRecords]
    BY <1>1, <1>3, <1>4
  <2> QED
    BY <2>1, <1>2
<1>6. \A w \in S : ts[w] \in Nat \ {0}
  BY <1>2, BubblesAssumption
<1>7. CASE page = <<>>
  BY <1>7 DEF CursorOf, ScannedOnce
<1>8. CASE page # <<>>
  <2> DEFINE n == Len(page)
  <2>1. n \in 1..Cardinality(S)
    BY <1>2, <1>4, <1>5, <1>8
  <2>2. CursorOf(page) = ts[q[n]]
    BY <1>4, <2>1, <1>8 DEF CursorOf, Last
  <2>3. CursorOf(page) \in Nat /\ CursorOf(page) # 0
    BY <1>4, <1>6, <2>1, <2>2
  <2>4. \A k \in 1..Cardinality(S) : ts[q[k]] \in Nat
    BY <1>4, <1>6
  <2>5. ASSUME NEW k \in 1..Cardinality(S) PROVE CursorOf(page) <= ts[q[k]]
    <3>1. CASE k = n
      BY <2>2, <2>4, <3>1
    <3>2. CASE k # n
      <4>1. k < n
        BY <1>2, <1>5, <2>1, <3>2
      <4> QED
        BY <4>1, <1>3, <2>1, <2>2, <2>4
    <3> QED
      BY <3>1, <3>2
  <2>6. ASSUME NEW i \in 1..Cardinality(S), NEW j \in 1..Cardinality(S), q[i] = q[j]
        PROVE  i = j
    <3>1. ~(i < j) /\ ~(j < i)
      BY <1>3, <2>4, <2>6
    <3> QED
      BY <3>1, <1>2
  <2> HIDE DEF n
  <2>7. ScannedOnce(page, CursorOf(page))
    BY <1>4, <2>5, <2>6 DEF ScannedOnce
  <2> QED
    BY <1>4, <1>5, <2>3, <2>7
<1> QED
  BY <1>7, <1>8

-----------------------------------------------------------------------------
(* The tables *)

\* An insert, an edit and a revoke keep the rows' types, every row, and every
\* row's deletion.
LEMMA TablesKeepDeletions ==
  ASSUME BubblesTypeOK, NEW w \in WAIDs,
         \/ Insert(w)
         \/ \E newBody \in EditBodies : ApplyEdit(w, newBody)
         \/ ApplyRevoke(w)
  PROVE  /\ messages' \in [WAIDs -> Rows \cup {NoRow}]
         /\ \A v \in WAIDs : RowRevoked(v) => RowRevoked(v)'
<1>0. messages \in [WAIDs -> Rows \cup {NoRow}]
  BY DEF BubblesTypeOK
<1>1. New \in Rows
  BY DEF New, Rows, Bodies
<1>2. CASE Insert(w)
  <2>1. \A v \in WAIDs : messages'[v] = messages[v] \/ messages[v] = NoRow
    BY <1>0, <1>2 DEF Insert
  <2>2. messages' \in [WAIDs -> Rows \cup {NoRow}]
    BY <1>0, <1>1, <1>2 DEF Insert
  <2> QED
    BY <2>1, <2>2 DEF RowRevoked, Stored
<1>3. ASSUME NEW r \in Rows, messages' = [messages EXCEPT ![w] = r], w \in Stored,
             messages[w].revoked => r.revoked
      PROVE  /\ messages' \in [WAIDs -> Rows \cup {NoRow}]
             /\ \A v \in WAIDs : RowRevoked(v) => RowRevoked(v)'
  <2>1. messages' \in [WAIDs -> Rows \cup {NoRow}]
    BY <1>0, <1>3
  <2>2. \A v \in WAIDs : messages'[v] = IF v = w THEN r ELSE messages[v]
    BY <1>0, <1>3
  <2>3. r # NoRow
    BY DEF Rows, NoRow
  <2> QED
    BY <1>3, <2>1, <2>2, <2>3 DEF RowRevoked, Stored
<1>4. w \in Stored => messages[w] \in Rows
  BY <1>0 DEF Stored
<1>5. CASE \E newBody \in EditBodies : ApplyEdit(w, newBody)
  <2>1. PICK newBody \in EditBodies : ApplyEdit(w, newBody)
    BY <1>5
  <2>2. w \in Stored /\ messages' = [messages EXCEPT ![w].body = newBody, ![w].edited = TRUE]
    BY <2>1 DEF ApplyEdit
  <2>3. PICK r : r = [messages[w] EXCEPT !.body = newBody, !.edited = TRUE]
    OBVIOUS
  <2>4. r \in Rows /\ r.revoked = messages[w].revoked
    BY <1>4, <2>2, <2>3 DEF Rows, Bodies
  <2>5. messages' = [messages EXCEPT ![w] = r]
    BY <1>0, <2>2, <2>3
  <2> QED
    BY <1>3, <2>2, <2>4, <2>5
<1>6. CASE ApplyRevoke(w)
  <2>2. w \in Stored /\ messages' = [messages EXCEPT ![w].revoked = TRUE]
    BY <1>6 DEF ApplyRevoke
  <2>3. PICK r : r = [messages[w] EXCEPT !.revoked = TRUE]
    OBVIOUS
  <2>4. r \in Rows /\ r.revoked
    BY <1>4, <2>2, <2>3 DEF Rows
  <2>5. messages' = [messages EXCEPT ![w] = r]
    BY <1>0, <2>2, <2>3
  <2> QED
    BY <1>3, <2>2, <2>4, <2>5
<1> QED
  BY <1>2, <1>5, <1>6

\* Bubbles that show a deletion still do so where every deletion is kept.
LEMMA DeletionsKept ==
  ASSUME BubblesInv, \A v \in WAIDs : RowRevoked(v) => RowRevoked(v)',
         UNCHANGED <<Messages, Cursor, deleted>>
  PROVE  DeletionsStored' /\ NoticesKept' /\ ScannedOnce(Messages, Cursor)'
<1>1. \A k \in DOMAIN Messages : Messages[k].wa_id \in WAIDs
  BY BubbleIDs DEF BubblesInv
<1>2. deleted \subseteq WAIDs
  BY DEF BubblesInv, BubblesTypeOK
<1>3. ASSUME NEW k \in DOMAIN Messages', Messages'[k].revoked
      PROVE  Messages'[k].fromRow /\ RowRevoked(Messages[k].wa_id)'
  <2>1. Messages[k].fromRow /\ RowRevoked(Messages[k].wa_id)
    BY <1>3 DEF BubblesInv, DeletionsStored
  <2>2. PICK v : v = Messages[k].wa_id
    OBVIOUS
  <2>3. RowRevoked(v)'
    BY <1>1, <1>3, <2>1, <2>2
  <2> QED
    BY <2>1, <2>2, <2>3 DEF RowRevoked, Stored
<1>4. DeletionsStored'
  BY <1>2, <1>3 DEF BubblesInv, DeletionsStored, RowRevoked, Stored
<1>5. NoticesKept' /\ ScannedOnce(Messages, Cursor)'
  BY DEF BubblesInv, NoticesKept, ScannedOnce
<1> QED
  BY <1>4, <1>5

\* The handler's steps.
LEMMA HandlerKeepsInv ==
  ASSUME BubblesInv, HandlerStep
  PROVE  BubblesInv'
<1>0. BubblesTypeOK
  BY DEF BubblesInv
<1>1. ASSUME NEW w \in Live, OnMessage(w) PROVE BubblesInv'
  <2>1. w \in WAIDs /\ Insert(w) /\ inflight' = inflight \cup {w}
        /\ UNCHANGED <<reactions, ownJID, window, deleted>>
    BY <1>1 DEF OnMessage, WAIDs
  <2>2. messages' \in [WAIDs -> Rows \cup {NoRow}]
        /\ \A v \in WAIDs : RowRevoked(v) => RowRevoked(v)'
    BY <1>0, <2>1, TablesKeepDeletions
  <2>3. DeletionsStored' /\ NoticesKept' /\ ScannedOnce(Messages, Cursor)'
    BY <2>1, <2>2, DeletionsKept DEF window
  <2>4. BubblesTypeOK'
    BY <1>0, <2>1, <2>2 DEF BubblesTypeOK, window
  <2> QED
    BY <2>3, <2>4 DEF BubblesInv
<1>2. ASSUME NEW w \in Amended,
             ApplyRevoke(w) \/ \E newBody \in EditBodies : ApplyEdit(w, newBody)
      PROVE  BubblesInv'
  <2>1. w \in WAIDs /\ UNCHANGED <<reactions, inflight, ownJID, window, deleted>>
    BY <1>2, BubblesAssumption DEF ApplyRevoke, ApplyEdit
  <2>2. messages' \in [WAIDs -> Rows \cup {NoRow}]
        /\ \A v \in WAIDs : RowRevoked(v) => RowRevoked(v)'
    BY <1>0, <1>2, <2>1, TablesKeepDeletions
  <2>3. DeletionsStored' /\ NoticesKept' /\ ScannedOnce(Messages, Cursor)'
    BY <2>1, <2>2, DeletionsKept DEF window
  <2>4. BubblesTypeOK'
    BY <1>0, <2>1, <2>2 DEF BubblesTypeOK, window
  <2> QED
    BY <2>3, <2>4 DEF BubblesInv
<1>3. ASSUME UNCHANGED <<messages, window, deleted>> PROVE
         DeletionsStored' /\ NoticesKept' /\ ScannedOnce(Messages, Cursor)'
  BY <1>3, DeletionsKept DEF RowRevoked, Stored, window
<1>4. ASSUME NEW w \in Live, DropEvent(w) PROVE BubblesInv'
  <2>1. BubblesTypeOK'
    BY <1>0, <1>4 DEF DropEvent, BubblesTypeOK, tables, window
  <2> QED
    BY <1>3, <1>4, <2>1 DEF DropEvent, BubblesInv, tables
<1>5. CASE SetOwnJID
  <2>1. BubblesTypeOK'
    BY <1>0, <1>5 DEF SetOwnJID, BubblesTypeOK, tables, window
  <2> QED
    BY <1>3, <1>5, <2>1 DEF SetOwnJID, BubblesInv, tables
<1>6. ASSUME NEW w \in Amended, NEW who \in Reactors, NEW emoji \in Emojis \cup {NoEmoji},
             SetReaction(w, who, emoji)
      PROVE  BubblesInv'
  <2> DEFINE new == [target : {w}, sender : {who}, emoji : {emoji} \ {NoEmoji}]
             kept == {r \in reactions : r.target # w \/ r.sender # who}
  <2>1. reactions' = kept \cup new
        /\ UNCHANGED <<messages, inflight, ownJID, window, deleted>>
    BY <1>6 DEF SetReaction
  <2>2. new \subseteq ReactionRows
    BY <1>6 DEF ReactionRows
  <2>3. reactions \subseteq ReactionRows
        /\ \A r, q \in reactions : r.target = q.target /\ r.sender = q.sender => r = q
    BY <1>0 DEF BubblesTypeOK
  <2>4. \A r, q \in new : r = q /\ r.target = w /\ r.sender = who
    OBVIOUS
  <2>5. \A r \in kept : r \in reactions /\ (r.target # w \/ r.sender # who)
    OBVIOUS
  <2> HIDE DEF new, kept
  <2>6. reactions' \subseteq ReactionRows
    BY <2>1, <2>2, <2>3, <2>5
  <2>7. \A r, q \in reactions' : r.target = q.target /\ r.sender = q.sender => r = q
    BY <2>1, <2>3, <2>4, <2>5
  <2>8. BubblesTypeOK'
    BY <1>0, <2>1, <2>6, <2>7 DEF BubblesTypeOK, window
  <2> QED
    BY <1>3, <2>1, <2>8 DEF BubblesInv
<1> QED
  BY <1>1, <1>2, <1>4, <1>5, <1>6 DEF HandlerStep

-----------------------------------------------------------------------------
(* The reducer and the frame *)

\* Loading rows behind the bubbles that are there, older than all that were
\* scanned.
LEMMA LoadKeepsInv ==
  ASSUME BubblesInv, NEW L \in Seq(BubbleRecords), NEW S \in SUBSET Stored,
         NEW page \in Pages(S),
         L = <<>> \/ (L = Messages /\ \A w \in S : ts[w] < Cursor),
         Messages' = L \o page, Cursor' = CursorOf(page),
         UNCHANGED <<tables, inflight, ownJID, deleted>>,
         selected' \in BOOLEAN, Reactions' \subseteq ReactionRows
  PROVE  BubblesInv'
<1>0. BubblesTypeOK
  BY DEF BubblesInv
<1>1. /\ page \in Seq(BubbleRecords)
      /\ \A k \in DOMAIN page :
           page[k].wa_id \in S /\ page[k] = Scanned(page[k].wa_id) /\ page[k].fromRow
      /\ CursorOf(page) \in Nat
      /\ ScannedOnce(page, CursorOf(page))
      /\ \A k \in DOMAIN page : CursorOf(page) # 0
  BY <1>0, PageFacts
<1>2. BubblesTypeOK'
  <2>1. Messages' \in Seq(BubbleRecords)
    BY <1>1, Joined
  <2> QED
    BY <1>0, <1>1, <2>1 DEF BubblesTypeOK, tables
<1>3. /\ DOMAIN L = 1..Len(L) /\ DOMAIN page = 1..Len(page)
      /\ Len(L) \in Nat /\ Len(page) \in Nat
      /\ DOMAIN Messages' = 1..(Len(L) + Len(page))
      /\ \A k \in 1..Len(L) : Messages'[k] = L[k]
      /\ \A k \in (Len(L) + 1)..(Len(L) + Len(page)) : Messages'[k] = page[k - Len(L)]
  BY <1>1, Joined
<1>4. ASSUME NEW k \in DOMAIN Messages'
      PROVE  \/ k \in DOMAIN L /\ L = Messages /\ Messages'[k] = Messages[k]
             \/ k - Len(L) \in DOMAIN page /\ Messages'[k] = page[k - Len(L)] /\ k > Len(L)
  <2>1. CASE k <= Len(L)
    <3>1. k \in 1..Len(L)
      BY <1>3, <2>1
    <3>2. L # <<>>
      BY <1>3, <3>1
    <3> QED
      BY <1>3, <3>1, <3>2
  <2>2. CASE k > Len(L)
    <3>1. k \in (Len(L) + 1)..(Len(L) + Len(page)) /\ k - Len(L) \in 1..Len(page)
      BY <1>3, <2>2
    <3> QED
      BY <1>3, <3>1, <2>2
  <2> QED
    BY <1>3, <2>1, <2>2
<1>5. \A k \in DOMAIN page :
        /\ page[k].wa_id \in Stored
        /\ page[k].revoked = messages[page[k].wa_id].revoked
  BY <1>0, <1>1, ScannedTypes
<1>6. DeletionsStored' /\ NoticesKept'
  <2>1. ASSUME NEW k \in DOMAIN Messages'
        PROVE  /\ Messages'[k].revoked =>
                    Messages'[k].fromRow /\ RowRevoked(Messages'[k].wa_id)
               /\ Messages'[k].fromRow /\ Messages'[k].wa_id \in deleted =>
                    Messages'[k].revoked
    <3>1. CASE k \in DOMAIN L /\ L = Messages /\ Messages'[k] = Messages[k]
      BY <3>1 DEF BubblesInv, DeletionsStored, NoticesKept
    <3>2. CASE k - Len(L) \in DOMAIN page /\ Messages'[k] = page[k - Len(L)]
      <4>1. \A w \in deleted : RowRevoked(w)
        BY DEF BubblesInv, DeletionsStored
      <4> QED
        BY <1>1, <1>5, <3>2, <4>1 DEF RowRevoked
    <3> QED
      BY <1>4, <3>1, <3>2
  <2>2. messages' = messages /\ deleted' = deleted
    BY DEF tables
  <2>3. \A w : RowRevoked(w)' <=> RowRevoked(w)
    BY <2>2 DEF RowRevoked, Stored
  <2>4. ASSUME NEW k \in DOMAIN Messages', Messages'[k].revoked
        PROVE  Messages'[k].fromRow /\ RowRevoked(Messages[k].wa_id)'
    <3>1. Messages'[k].fromRow /\ RowRevoked(Messages'[k].wa_id)
      BY <2>1, <2>4
    <3> QED
      BY <2>2, <3>1 DEF RowRevoked, Stored
  <2> QED
    BY <2>1, <2>2, <2>3, <2>4 DEF DeletionsStored, NoticesKept, BubblesInv
<1>7. ScannedOnce(Messages, Cursor)'
  <2>1. \A k \in DOMAIN Messages : ts[Messages[k].wa_id] \in Nat
    BY <1>0, BubbleIDs, BubblesAssumption
  <2>2. \A w \in S : ts[w] \in Nat
    BY BubblesAssumption DEF Stored
  <2>3. Cursor \in Nat
    BY <1>0 DEF BubblesTypeOK
  <2>4. ASSUME NEW k \in DOMAIN Messages', Messages'[k].fromRow
        PROVE  Cursor' <= ts[Messages'[k].wa_id]
    <3>1. CASE k \in DOMAIN L /\ L = Messages /\ Messages'[k] = Messages[k]
      <4>1. Cursor <= ts[Messages[k].wa_id]
        BY <2>4, <3>1 DEF BubblesInv, ScannedOnce
      <4>2. CASE page = <<>>
        BY <1>1, <2>1, <3>1, <4>2 DEF CursorOf
      <4>3. CASE page # <<>>
        <5>1. 1 \in DOMAIN page /\ page[1].wa_id \in S /\ page[1].fromRow
          BY <1>1, <1>3, <4>3
        <5>2. Cursor' <= ts[page[1].wa_id]
          BY <1>1, <5>1 DEF ScannedOnce
        <5>3. ts[page[1].wa_id] < Cursor
          BY <5>1, <3>1, <1>3
        <5> QED
          BY <1>1, <2>1, <2>2, <2>3, <3>1, <4>1, <5>1, <5>2, <5>3
      <4> QED
        BY <4>2, <4>3
    <3>2. CASE k - Len(L) \in DOMAIN page /\ Messages'[k] = page[k - Len(L)]
      BY <1>1, <3>2 DEF ScannedOnce
    <3> QED
      BY <1>4, <3>1, <3>2
  <2>5. ASSUME NEW k \in DOMAIN Messages', NEW j \in DOMAIN Messages',
               Messages'[k].fromRow, Messages'[j].fromRow,
               Messages'[j].wa_id = Messages'[k].wa_id
        PROVE  j = k
    <3>1. CASE /\ k \in DOMAIN L /\ L = Messages /\ Messages'[k] = Messages[k]
               /\ j \in DOMAIN L /\ Messages'[j] = Messages[j]
      BY <2>5, <3>1 DEF BubblesInv, ScannedOnce
    <3>2. CASE /\ k - Len(L) \in DOMAIN page /\ Messages'[k] = page[k - Len(L)]
               /\ j - Len(L) \in DOMAIN page /\ Messages'[j] = page[j - Len(L)]
      <4>1. j - Len(L) = k - Len(L)
        BY <1>1, <2>5, <3>2 DEF ScannedOnce
      <4> QED
        BY <4>1, <1>3
    <3>3. ASSUME NEW a \in DOMAIN Messages, NEW b \in DOMAIN page, L = Messages,
                 a \in DOMAIN L, Messages[a].fromRow, Messages[a].wa_id = page[b].wa_id
          PROVE  FALSE
      <4>1. Cursor <= ts[Messages[a].wa_id]
        BY <3>3 DEF BubblesInv, ScannedOnce
      <4>2. page[b].wa_id \in S /\ L # <<>>
        BY <1>1, <1>3, <3>3
      <4>3. ts[page[b].wa_id] < Cursor
        BY <4>2, <3>3
      <4> QED
        BY <2>1, <2>3, <3>3, <4>1, <4>3
    <3> QED
      BY <1>4, <2>5, <3>1, <3>2, <3>3
  <2> QED
    BY <2>4, <2>5 DEF ScannedOnce
<1> QED
  BY <1>2, <1>6, <1>7 DEF BubblesInv

\* A bubble made of an event, in front or in the place of another.
LEMMA EventKeepsInv ==
  ASSUME BubblesInv, NEW w \in WAIDs, OnIncoming(w),
         messages' \in [WAIDs -> Rows \cup {NoRow}],
         \A v \in WAIDs : RowRevoked(v) => RowRevoked(v)',
         inflight' \subseteq Live,
         UNCHANGED <<reactions, ownJID, selected, Cursor, Reactions, deleted>>
  PROVE  BubblesInv'
<1> DEFINE f == FromEvent(w)
<1>0. BubblesTypeOK
  BY DEF BubblesInv
<1>1. f \in BubbleRecords
  <2>1. SenderOf(w) \in People \cup {Own, NoJID}
    BY BubblesAssumption DEF SenderOf, WAIDs
  <2> QED
    BY <2>1 DEF FromEvent, BubbleRecords, Bodies
<1>2. ~f.fromRow /\ ~f.revoked
  BY DEF FromEvent
<1>3. /\ Messages \in Seq(BubbleRecords) /\ Len(Messages) \in Nat
      /\ DOMAIN Messages = 1..Len(Messages)
  BY <1>0 DEF BubblesTypeOK
<1>4. \/ Messages' = Messages
      \/ Messages' = <<f>> \o Messages
      \/ \E first \in DOMAIN Messages : Messages' = [Messages EXCEPT ![first] = f]
  <2> DEFINE copies == {k \in DOMAIN Messages : Messages[k].wa_id = w}
             first == CHOOSE k \in copies : \A j \in copies : k <= j
  <2>1. CASE ~selected
    BY <2>1 DEF OnIncoming
  <2>2. CASE selected /\ copies = {}
    BY <2>2 DEF OnIncoming
  <2>3. CASE selected /\ copies # {}
    <3>1. copies \subseteq Nat
      BY <1>3
    <3>2. \E k \in copies : \A j \in copies : k <= j
      <4> HIDE DEF copies
      <4> QED
        BY <2>3, <3>1, LeastNumber
    <3>3. first \in copies
      BY <3>2
    <3>4. Messages' = [Messages EXCEPT ![first] = f]
      BY <2>3 DEF OnIncoming
    <3> QED
      BY <3>3, <3>4
  <2> QED
    BY <2>1, <2>2, <2>3
<1> HIDE DEF f
<1>5. PICK shift \in {0, 1} :
        /\ Messages' \in Seq(BubbleRecords)
        /\ \A k \in DOMAIN Messages' :
             \/ Messages'[k] = f
             \/ k - shift \in DOMAIN Messages /\ Messages'[k] = Messages[k - shift]
        /\ DOMAIN Messages' \subseteq Nat
  <2>1. CASE Messages' = Messages
    <3>1. \A k \in DOMAIN Messages : k - 0 = k
      BY <1>3
    <3> QED
      BY <1>3, <2>1, <3>1
  <2>2. CASE Messages' = <<f>> \o Messages
    <3>1. <<f>> \in Seq(BubbleRecords) /\ Len(<<f>>) = 1 /\ <<f>>[1] = f
      BY <1>1
    <3>2. /\ Messages' \in Seq(BubbleRecords)
          /\ DOMAIN Messages' = 1..(1 + Len(Messages))
          /\ \A k \in 1..1 : Messages'[k] = <<f>>[k]
          /\ \A k \in (1 + 1)..(1 + Len(Messages)) : Messages'[k] = Messages[k - 1]
      BY <1>3, <2>2, <3>1, Joined
    <3>3. ASSUME NEW k \in DOMAIN Messages'
          PROVE  Messages'[k] = f \/ (k - 1 \in DOMAIN Messages /\ Messages'[k] = Messages[k - 1])
      <4>1. CASE k = 1
        BY <3>1, <3>2, <4>1
      <4>2. CASE k # 1
        <5>1. k \in (1 + 1)..(1 + Len(Messages)) /\ k - 1 \in 1..Len(Messages)
          BY <1>3, <3>2, <4>2
        <5> QED
          BY <1>3, <3>2, <5>1
      <4> QED
        BY <4>1, <4>2
    <3>4. DOMAIN Messages' \subseteq Nat
      BY <3>2
    <3> QED
      BY <3>2, <3>3, <3>4
  <2>3. CASE \E first \in DOMAIN Messages : Messages' = [Messages EXCEPT ![first] = f]
    <3>1. PICK first \in DOMAIN Messages : Messages' = [Messages EXCEPT ![first] = f]
      BY <2>3
    <3>2. /\ Messages' \in Seq(BubbleRecords)
          /\ Len(Messages') = Len(Messages)
          /\ \A k \in 1..Len(Messages) : Messages'[k] = IF k = first THEN f ELSE Messages[k]
      BY <1>1, <1>3, <3>1, ExceptSeq
    <3>3. DOMAIN Messages' = 1..Len(Messages)
      BY <1>3, <3>1
    <3>4. \A k \in 1..Len(Messages) : k - 0 = k
      BY <1>3
    <3> QED
      BY <1>3, <3>2, <3>3, <3>4
  <2> QED
    BY <1>4, <2>1, <2>2, <2>3
<1>6. BubblesTypeOK'
  BY <1>0, <1>5 DEF BubblesTypeOK
<1>7. DeletionsStored'
  <2>1. ASSUME NEW k \in DOMAIN Messages', Messages'[k].revoked
        PROVE  Messages'[k].fromRow /\ RowRevoked(Messages[k].wa_id)'
    <3>1. k - shift \in DOMAIN Messages /\ Messages'[k] = Messages[k - shift]
      BY <1>2, <1>5, <2>1
    <3>2. PICK v : v = Messages[k - shift].wa_id
      OBVIOUS
    <3>3. Messages[k - shift].fromRow /\ RowRevoked(v) /\ v \in WAIDs
      BY <1>0, <2>1, <3>1, <3>2, BubbleIDs DEF BubblesInv, DeletionsStored
    <3>4. RowRevoked(v)'
      BY <3>3
    <3> QED
      BY <3>1, <3>2, <3>3, <3>4 DEF RowRevoked, Stored
  <2>2. \A v \in deleted : v \in WAIDs /\ RowRevoked(v)
    BY DEF BubblesInv, BubblesTypeOK, DeletionsStored
  <2>3. \A v \in deleted' : RowRevoked(v)'
    BY <2>2
  <2> QED
    BY <2>1, <2>3 DEF DeletionsStored
<1>8. NoticesKept'
  <2>1. ASSUME NEW k \in DOMAIN Messages', Messages'[k].fromRow, Messages'[k].wa_id \in deleted
        PROVE  Messages'[k].revoked
    <3>1. k - shift \in DOMAIN Messages /\ Messages'[k] = Messages[k - shift]
      BY <1>2, <1>5, <2>1
    <3> QED
      BY <2>1, <3>1 DEF BubblesInv, NoticesKept
  <2> QED
    BY <2>1 DEF NoticesKept
<1>9. ScannedOnce(Messages, Cursor)'
  <2>1. ASSUME NEW k \in DOMAIN Messages', Messages'[k].fromRow
        PROVE  /\ Cursor <= ts[Messages'[k].wa_id]
               /\ \A j \in DOMAIN Messages' :
                    Messages'[j].fromRow /\ Messages'[j].wa_id = Messages'[k].wa_id => j = k
    <3>1. k - shift \in DOMAIN Messages /\ Messages'[k] = Messages[k - shift]
      BY <1>2, <1>5, <2>1
    <3>2. ASSUME NEW j \in DOMAIN Messages',
                 Messages'[j].fromRow, Messages'[j].wa_id = Messages'[k].wa_id
          PROVE  j = k
      <4>1. j - shift \in DOMAIN Messages /\ Messages'[j] = Messages[j - shift]
        BY <1>2, <1>5, <3>2
      <4>2. j - shift = k - shift
        BY <2>1, <3>1, <3>2, <4>1 DEF BubblesInv, ScannedOnce
      <4>3. j \in Nat /\ k \in Nat /\ shift \in Nat
        BY <1>5
      <4> QED
        BY <4>2, <4>3
    <3> QED
      BY <2>1, <3>1, <3>2 DEF BubblesInv, ScannedOnce
  <2> QED
    BY <2>1 DEF ScannedOnce
<1> QED
  BY <1>6, <1>7, <1>8, <1>9 DEF BubblesInv

\* The reducer's steps and the frame.
LEMMA UIKeepsInv ==
  ASSUME BubblesInv, UIStep
  PROVE  BubblesInv'
<1>0. BubblesTypeOK
  BY DEF BubblesInv
<1>1. <<>> \in Seq(BubbleRecords) /\ \A s \in Seq(BubbleRecords) : <<>> \o s = s
  OBVIOUS
<1>2. CASE SelectChat \/ LoadFirstPage
  <2>1. PICK page \in Pages(Stored) : Messages' = page /\ Cursor' = CursorOf(page)
    BY <1>2 DEF SelectChat, LoadFirstPage
  <2>2. /\ UNCHANGED <<tables, inflight, ownJID, deleted>> /\ selected' \in BOOLEAN
        /\ Reactions' \subseteq ReactionRows
    BY <1>0, <1>2 DEF SelectChat, LoadFirstPage, ReactionsFor, BubblesTypeOK
  <2>3. Messages' = <<>> \o page
    <3>1. page \in Seq(BubbleRecords)
      BY <1>0, PageFacts
    <3> QED
      BY <1>1, <2>1, <3>1
  <2> QED
    BY <1>1, <2>1, <2>2, <2>3, LoadKeepsInv
<1>3. CASE LoadOlderPage
  <2> DEFINE S == {w \in Stored : ts[w] < Cursor}
  <2>1. PICK page \in Pages(S) : Messages' = Messages \o page /\ Cursor' = CursorOf(page)
    BY <1>3 DEF LoadOlderPage
  <2>2. /\ UNCHANGED <<tables, inflight, ownJID, deleted>> /\ selected' \in BOOLEAN
        /\ Reactions' \subseteq ReactionRows /\ Messages \in Seq(BubbleRecords)
    BY <1>0, <1>3 DEF LoadOlderPage, ReactionsFor, BubblesTypeOK
  <2>3. S \in SUBSET Stored /\ \A w \in S : ts[w] < Cursor
    OBVIOUS
  <2> HIDE DEF S
  <2> QED
    BY <2>1, <2>2, <2>3, LoadKeepsInv
<1>4. CASE OnBack
  <2>1. BubblesTypeOK'
    <3>1. Messages' \in Seq(BubbleRecords) /\ Cursor' \in Nat /\ selected' \in BOOLEAN
      BY <1>1, <1>4 DEF OnBack
    <3>2. UNCHANGED <<messages, reactions, inflight, ownJID, Reactions, deleted>>
      BY <1>4 DEF OnBack, tables
    <3> QED
      BY <1>0, <3>1, <3>2 DEF BubblesTypeOK
  <2>2. DOMAIN Messages' = {} /\ UNCHANGED <<messages, deleted>>
    BY <1>4 DEF OnBack, tables
  <2>3. \A v \in deleted : RowRevoked(v)
    BY DEF BubblesInv, DeletionsStored
  <2> QED
    BY <2>1, <2>2, <2>3
       DEF BubblesInv, DeletionsStored, NoticesKept, ScannedOnce, RowRevoked, Stored
<1>5. CASE layoutMessages
  <2> DEFINE drawn == {k \in DOMAIN Messages : Messages[k].revoked}
  <2>1. UNCHANGED <<tables, inflight, ownJID, window>>
    BY <1>5 DEF layoutMessages
  <2>2. deleted' = deleted \cup {Messages[k].wa_id : k \in drawn}
    <3>1. \A k \in DOMAIN Messages :
            (layoutBubble(k).text.notice = "deleted") <=> Messages[k].revoked
      <4>1. \A k \in DOMAIN Messages : Messages[k] \in BubbleRecords
        BY <1>0 DEF BubblesTypeOK
      <4>2. \A b \in BubbleRecords : b.revoked \in BOOLEAN
        BY DEF BubbleRecords
      <4>3. ASSUME NEW k \in DOMAIN Messages
            PROVE  (layoutBubble(k).text.notice = "deleted") <=> Messages[k].revoked
        <5>1. layoutBubble(k).text = bubbleBodyText(Messages[k])
          BY DEF layoutBubble
        <5>2. CASE Messages[k].revoked
          <6>1. bubbleBodyText(Messages[k]).notice = "deleted"
            BY <5>2 DEF bubbleBodyText
          <6> QED
            BY <5>1, <5>2, <6>1
        <5>3. CASE ~Messages[k].revoked
          <6>1. bubbleBodyText(Messages[k]).notice \in {"edited", ""}
            BY <5>3 DEF bubbleBodyText
          <6>2. bubbleBodyText(Messages[k]).notice # "deleted"
            BY <6>1
          <6> QED
            BY <5>1, <5>3, <6>2
        <5> QED
          BY <5>2, <5>3
      <4> QED
        BY <4>3
    <3> QED
      BY <1>5, <3>1 DEF layoutMessages
  <2>3. \A k \in DOMAIN Messages : Messages[k].wa_id \in WAIDs
    BY <1>0, BubbleIDs
  <2>4. BubblesTypeOK'
    BY <1>0, <2>1, <2>2, <2>3 DEF BubblesTypeOK, tables, window
  <2>5. DeletionsStored'
    <3>1. \A v \in deleted' : RowRevoked(v)
      BY <2>2 DEF BubblesInv, DeletionsStored
    <3> QED
      BY <2>1, <3>1 DEF BubblesInv, DeletionsStored, RowRevoked, Stored, tables, window
  <2>6. NoticesKept'
    <3>1. ASSUME NEW k \in DOMAIN Messages, Messages[k].fromRow, Messages[k].wa_id \in deleted'
          PROVE  Messages[k].revoked
      <4>1. CASE Messages[k].wa_id \in deleted
        BY <3>1, <4>1 DEF BubblesInv, NoticesKept
      <4>2. CASE Messages[k].wa_id \notin deleted
        <5>1. PICK j \in DOMAIN Messages :
                Messages[j].revoked /\ Messages[j].wa_id = Messages[k].wa_id
          BY <2>2, <3>1, <4>2
        <5>2. Messages[j].fromRow
          BY <5>1 DEF BubblesInv, DeletionsStored
        <5>3. j = k
          BY <3>1, <5>1, <5>2 DEF BubblesInv, ScannedOnce
        <5> QED
          BY <5>1, <5>3
      <4> QED
        BY <4>1, <4>2
    <3> QED
      BY <2>1, <3>1 DEF NoticesKept, window
  <2>7. ScannedOnce(Messages, Cursor)'
    BY <2>1 DEF BubblesInv, ScannedOnce, window
  <2> QED
    BY <2>4, <2>5, <2>6, <2>7 DEF BubblesInv
<1>6. ASSUME NEW w \in Live, Fold(w) PROVE BubblesInv'
  <2>1. /\ w \in WAIDs /\ OnIncoming(w) /\ inflight' = inflight \ {w}
        /\ UNCHANGED <<tables, ownJID, selected, Cursor, Reactions, deleted>>
    BY <1>6 DEF Fold, WAIDs
  <2>2. /\ messages' \in [WAIDs -> Rows \cup {NoRow}] /\ inflight' \subseteq Live
        /\ UNCHANGED reactions
    BY <1>0, <2>1 DEF BubblesTypeOK, tables
  <2>3. \A v \in WAIDs : RowRevoked(v) => RowRevoked(v)'
    BY <2>1 DEF RowRevoked, Stored, tables
  <2> QED
    BY <2>1, <2>2, <2>3, EventKeepsInv
<1>7. ASSUME NEW w \in Sent, AddOptimistic(w) PROVE BubblesInv'
  <2>1. /\ w \in WAIDs /\ OnIncoming(w) /\ Insert(w)
        /\ UNCHANGED <<reactions, inflight, ownJID, selected, Cursor, Reactions, deleted>>
    BY <1>7 DEF AddOptimistic, WAIDs
  <2>2. /\ messages' \in [WAIDs -> Rows \cup {NoRow}]
        /\ \A v \in WAIDs : RowRevoked(v) => RowRevoked(v)'
    BY <1>0, <2>1, TablesKeepDeletions
  <2>3. inflight' \subseteq Live
    BY <1>0, <2>1 DEF BubblesTypeOK
  <2> QED
    BY <2>1, <2>2, <2>3, EventKeepsInv
<1> QED
  BY <1>2, <1>3, <1>4, <1>5, <1>6, <1>7 DEF UIStep

-----------------------------------------------------------------------------
(* The theorems *)

\* In every behaviour a bubble shows a deletion that its row has, and a message
\* is scanned into one bubble (SelectChat, LoadOlder, OnIncoming, OnBack).
THEOREM BubblesInvariant == Spec => []BubblesInv
<1>1. Init => BubblesInv
  <2> SUFFICES ASSUME Init PROVE BubblesInv
    OBVIOUS
  <2>1. BubblesTypeOK
    <3>1. Messages \in Seq(BubbleRecords) /\ Cursor \in Nat /\ selected \in BOOLEAN
      <4>1. Messages = <<>> /\ Cursor = 0 /\ selected = FALSE
        BY DEF Init
      <4>2. \A R : <<>> \in Seq(R)
        OBVIOUS
      <4> QED
        BY <4>1, <4>2
    <3>2. messages \in [WAIDs -> Rows \cup {NoRow}] /\ ownJID \in {NoJID, Own}
      BY DEF Init
    <3>3. reactions = {} /\ inflight = {} /\ Reactions = {} /\ deleted = {}
      BY DEF Init
    <3> QED
      BY <3>1, <3>2, <3>3 DEF BubblesTypeOK
  <2>2. DOMAIN Messages = {} /\ deleted = {}
    BY DEF Init
  <2> QED
    BY <2>1, <2>2 DEF BubblesInv, DeletionsStored, NoticesKept, ScannedOnce
<1>2. BubblesInv /\ [Next]_vars => BubblesInv'
  <2> SUFFICES ASSUME BubblesInv, [Next]_vars PROVE BubblesInv'
    OBVIOUS
  <2>1. CASE Next
    BY <2>1, HandlerKeepsInv, UIKeepsInv DEF Next
  <2>2. CASE UNCHANGED vars
    <3>1. BubblesTypeOK'
      BY <2>2 DEF vars, tables, window, BubblesInv, BubblesTypeOK
    <3>2. DeletionsStored' /\ NoticesKept' /\ ScannedOnce(Messages, Cursor)'
      BY <2>2, DeletionsKept DEF vars, tables, window, RowRevoked, Stored
    <3> QED
      BY <3>1, <3>2 DEF BubblesInv
  <2> QED
    BY <2>1, <2>2
<1> QED
  BY <1>1, <1>2, PTL DEF Spec

\* The tables and the window keep their types; a person has one reaction on a
\* message, at most.
THEOREM BubblesTypes == Spec => []BubblesTypeOK
<1>1. BubblesInv => BubblesTypeOK
  BY DEF BubblesInv
<1> QED
  BY <1>1, BubblesInvariant, PTL

\* The nearest label above a received message is its sender's.
THEOREM AttributionHolds == Spec => []AttributedToItsSender
<1>1. BubblesTypeOK => AttributedToItsSender
  BY LabelsAttribute
<1> QED
  BY <1>1, BubblesTypes, PTL

\* What a frame has drawn as deleted is drawn so from every later row.
THEOREM DeletionsStay == Spec => []DeletedStaysDeleted
<1>1. BubblesInv => DeletedStaysDeleted
  BY DEF BubblesInv, NoticesKept, DeletedStaysDeleted, layoutBubble, bubbleBodyText
<1> QED
  BY <1>1, BubblesInvariant, PTL
=============================================================================
