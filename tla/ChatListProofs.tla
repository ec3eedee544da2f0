--------------------------- MODULE ChatListProofs ---------------------------
(***************************************************************************)
(* What module ChatList's checks show for two chats and three messages,    *)
(* for any number of chats, messages, flags and queued events.             *)
(*                                                                         *)
(* The list is related to the store through everything a load and a fold   *)
(* can do to it: a load's rows, kept on whatsmeow's goroutine, cover the   *)
(* messages its query saw; the list's rows cover the messages that are     *)
(* neither queued nor hidden; and what a late assignment of LoadChats, a   *)
(* dropped event or a history sync keeps off the list is what `hidden` and *)
(* `stale` record.                                                         *)
(***************************************************************************)
EXTENDS ChatList, OrderLemmas, SequenceTheorems, FiniteSetTheorems, TLAPS

ChatRows == [jid : JIDs, last : Nat, unread : Nat, pinned : BOOLEAN, muted : BOOLEAN]

\* A row tells of some messages: its time and its count are no less than theirs.
Tells(row, S) == row.last >= LastTS(S) /\ row.unread >= Unread(S)

\* A list does: it has a row of the chat that tells of them.
ListTells(rows, jid, S) == \E i \in DOMAIN rows : rows[i].jid = jid /\ Tells(rows[i], S)

\* No chat is listed twice.
OneRowEach(rows) == \A i, j \in DOMAIN rows : rows[i].jid = rows[j].jid => i = j

\* The messages the list must tell of.
Shown(jid) == Of(jid, stored) \ (Queued \cup hidden)

Loads ==
  [on : BOOLEAN, rows : SUBSET ChatRows, seen : SUBSET WAIDs, stale : SUBSET JIDs]

Types ==
  /\ stored \subseteq WAIDs /\ counted \subseteq stored \ FromMe
  /\ known \subseteq JIDs /\ ChatsOf(stored) \subseteq known
  /\ pinned \subseteq known /\ archived \subseteq known /\ muted \subseteq known
  /\ incoming \in Seq(WAIDs) /\ Queued \subseteq stored /\ hidden \subseteq stored
  /\ Chats \in Seq(ChatRows) /\ load \in Loads
  /\ selected \in JIDs \cup {NoChat} /\ toast \in JIDs \cup {NoChat}
  /\ chatClicks \in Nat /\ clicked \in 0..chatClicks
  /\ torn \in BOOLEAN /\ overlap \in BOOLEAN /\ panicked \in BOOLEAN
  /\ at \in {"drain", "clicks", "sidebar", "conversation"}

\* What a load has read covers what its query saw, but for the chats that were
\* archived then or have changed since.
LoadCovers ==
  load.on =>
    /\ load.rows \subseteq ChatRows /\ IsFiniteSet(load.rows) /\ load.seen \subseteq stored
    /\ \A r, q \in load.rows : r.jid = q.jid => r = q
    /\ \A jid \in JIDs \ load.stale :
         /\ Of(jid, load.seen) # {} =>
              \E r \in load.rows : r.jid = jid /\ Tells(r, Of(jid, load.seen))
         /\ jid \in muted => \E r \in load.rows : r.jid = jid /\ r.muted

\* One row per chat; the rows tell of what they must, and carry the flag of every
\* muted chat that a load could have brought.
ListCovers ==
  ~torn =>
    /\ OneRowEach(Chats)
    /\ \A jid \in JIDs \ stale :
         /\ Shown(jid) # {} => ListTells(Chats, jid, Shown(jid))
         /\ jid \in muted => \E i \in DOMAIN Chats : Chats[i].jid = jid /\ Chats[i].muted

\* Within a frame no load has met, the view has a Clickable for every row.
ClicksMatch ==
  at \in {"clicks", "sidebar"} /\ ~overlap => chatClicks = Len(Chats)

ChatListInv ==
  /\ Types /\ LoadCovers /\ ListCovers /\ ClicksMatch
  /\ MutedStaySilent /\ IndicesInRange

-----------------------------------------------------------------------------
(* Times and counts *)

\* LastTS is the greatest of the times.
LEMMA LastTSFact ==
  ASSUME NEW S \in SUBSET WAIDs
  PROVE  /\ LastTS(S) \in Nat
         /\ \A w \in S : ts[w] <= LastTS(S)
         /\ S # {} => \E w \in S : LastTS(S) = ts[w]
<1> DEFINE T == {ts[w] : w \in S}
<1>1. T \subseteq Nat
  BY ChatListAssumption
<1>2. IsFiniteSet(T)
  <2>1. IsFiniteSet(S)
    BY ChatListAssumption, FS_Subset
  <2>2. [w \in S |-> ts[w]] \in Surjection(S, T)
    BY DEF Surjection
  <2> QED
    BY <2>1, <2>2, FS_Surjection
<1>3. CASE S = {}
  BY <1>3 DEF LastTS
<1>4. CASE S # {}
  <2>1. T # {}
    BY <1>4
  <2>2. \E n \in T : \A k \in T : k <= n
    <3> HIDE DEF T
    <3> QED
      BY <1>1, <1>2, <2>1, GreatestNumber
  <2>3. \E n \in T : \A k \in T : n >= k
    BY <1>1, <2>2
  <2>4. Max(T) \in T /\ \A k \in T : Max(T) >= k
    BY <2>3 DEF Max
  <2>5. LastTS(S) = Max(T)
    BY <1>4 DEF LastTS
  <2> QED
    BY <1>1, <2>4, <2>5
<1> QED
  BY <1>3, <1>4

\* The greater of two.
LEMMA MaxOfTwo ==
  ASSUME NEW a \in Nat, NEW b \in Nat
  PROVE  Max({a, b}) \in Nat /\ Max({a, b}) >= a /\ Max({a, b}) >= b
<1>1. \E x \in {a, b} : \A y \in {a, b} : x >= y
  <2>1. CASE a >= b
    BY <2>1
  <2>2. CASE ~(a >= b)
    BY <2>2
  <2> QED
    BY <2>1, <2>2
<1>2. Max({a, b}) \in {a, b} /\ \A y \in {a, b} : Max({a, b}) >= y
  BY <1>1 DEF Max
<1> QED
  BY <1>2

\* Unread counts, and grows by one at most with a message.
LEMMA UnreadFact ==
  ASSUME NEW S \in SUBSET WAIDs, counted \cap FromMe = {}
  PROVE  /\ Unread(S) \in Nat
         /\ \A T \in SUBSET S : Unread(T) <= Unread(S)
         /\ \A w \in WAIDs :
              Unread(S \cup {w}) <= Unread(S) + (IF w \in FromMe THEN 0 ELSE 1)
<1>1. IsFiniteSet(S \cap counted)
  <2>1. IsFiniteSet(S)
    BY ChatListAssumption, FS_Subset
  <2> QED
    BY <2>1, FS_Subset
<1>2. Unread(S) \in Nat
  BY <1>1, FS_CardinalityType DEF Unread
<1>3. ASSUME NEW T \in SUBSET S PROVE Unread(T) <= Unread(S)
  <2>1. T \cap counted \in SUBSET (S \cap counted)
    OBVIOUS
  <2> QED
    BY <1>1, <2>1, FS_Subset DEF Unread
<1>4. ASSUME NEW w \in WAIDs
      PROVE  Unread(S \cup {w}) <= Unread(S) + (IF w \in FromMe THEN 0 ELSE 1)
  <2>1. CASE w \notin counted
    <3>1. (S \cup {w}) \cap counted = S \cap counted
      BY <2>1
    <3> QED
      BY <1>2, <3>1 DEF Unread
  <2>2. CASE w \in counted
    <3>1. (S \cup {w}) \cap counted = (S \cap counted) \cup {w} /\ w \notin FromMe
      BY <2>2
    <3>2. Cardinality((S \cap counted) \cup {w}) <= Cardinality(S \cap counted) + 1
      <4>1. PICK C : C = S \cap counted
        OBVIOUS
      <4>2. IsFiniteSet(C) /\ Cardinality(C) \in Nat
        BY <1>1, <4>1, FS_CardinalityType
      <4>3. \/ Cardinality(C \cup {w}) = Cardinality(C)
            \/ Cardinality(C \cup {w}) = Cardinality(C) + 1
        BY <4>2, FS_AddElement
      <4> QED
        BY <4>1, <4>2, <4>3
    <3> QED
      BY <3>1, <3>2 DEF Unread
  <2> QED
    BY <2>1, <2>2
<1> QED
  BY <1>2, <1>3, <1>4

\* A row that tells of some messages tells of fewer.
LEMMA TellsLess ==
  ASSUME NEW row \in ChatRows, NEW S \in SUBSET WAIDs, NEW T \in SUBSET S, Tells(row, S),
         counted \cap FromMe = {}
  PROVE  Tells(row, T)
<1>1. row.last \in Nat /\ row.unread \in Nat
  BY DEF ChatRows
<1>2. LastTS(S) \in Nat /\ LastTS(T) \in Nat /\ LastTS(T) <= LastTS(S)
  <2>1. T \in SUBSET WAIDs /\ \A w \in S : ts[w] \in Nat
    BY ChatListAssumption
  <2>2. CASE T = {}
    BY <2>2, LastTSFact DEF LastTS
  <2>3. CASE T # {}
    BY <2>1, <2>3, LastTSFact
  <2> QED
    BY <2>2, <2>3
<1>3. Unread(S) \in Nat /\ Unread(T) \in Nat /\ Unread(T) <= Unread(S)
  <2>1. T \in SUBSET WAIDs
    OBVIOUS
  <2> QED
    BY <2>1, UnreadFact
<1> QED
  BY <1>1, <1>2, <1>3 DEF Tells

\* With its time and its count raised for one message it tells of that one too.
LEMMA TellsMore ==
  ASSUME NEW row \in ChatRows, NEW more \in ChatRows, NEW S \in SUBSET WAIDs,
         NEW w \in WAIDs, NEW T \in SUBSET (S \cup {w}),
         S = {} \/ Tells(row, S), counted \cap FromMe = {},
         more.last >= row.last, more.last >= ts[w],
         more.unread >= row.unread + (IF w \in FromMe THEN 0 ELSE 1)
  PROVE  Tells(more, T)
<1>1. /\ row.last \in Nat /\ row.unread \in Nat /\ more.last \in Nat /\ more.unread \in Nat
      /\ ts[w] \in Nat
  BY ChatListAssumption DEF ChatRows
<1>2. LastTS(S) <= row.last /\ Unread(S) <= row.unread
  <2>1. CASE S = {}
    BY <1>1, <2>1, FS_EmptySet DEF LastTS, Unread
  <2>2. CASE Tells(row, S)
    <3>1. LastTS(S) \in Nat /\ Unread(S) \in Nat
      BY LastTSFact, UnreadFact
    <3> QED
      BY <1>1, <2>2, <3>1 DEF Tells
  <2> QED
    BY <2>1, <2>2
<1> DEFINE U == S \cup {w}
<1>3. U \in SUBSET WAIDs /\ T \in SUBSET U
  OBVIOUS
<1>4. more.last >= LastTS(U)
  <2>1. LastTS(U) \in Nat /\ \E v \in U : LastTS(U) = ts[v]
    BY <1>3, LastTSFact
  <2>2. \A v \in S : ts[v] \in Nat /\ ts[v] <= LastTS(S) /\ LastTS(S) \in Nat
    BY LastTSFact, ChatListAssumption
  <2>3. \A v \in U : ts[v] <= more.last
    BY <1>1, <1>2, <2>2
  <2> QED
    BY <1>1, <2>1, <2>3
<1>5. more.unread >= Unread(U)
  <2>1. Unread(U) \in Nat /\ Unread(S) \in Nat
    BY <1>3, UnreadFact
  <2>2. Unread(U) <= Unread(S) + (IF w \in FromMe THEN 0 ELSE 1)
    BY UnreadFact
  <2> QED
    BY <1>1, <1>2, <2>1, <2>2
<1>6. Tells(more, U)
  BY <1>4, <1>5 DEF Tells
<1> HIDE DEF U
<1> QED
  BY <1>3, <1>6, TellsLess

-----------------------------------------------------------------------------
(* Loads and folds *)

\* An assignment of loaded rows lists every row, once, pinned chats first.
LEMMA LoadOrderFact ==
  ASSUME NEW rows \in SUBSET ChatRows, IsFiniteSet(rows),
         \A r, q \in rows : r.jid = q.jid => r = q,
         NEW s \in LoadOrders(rows)
  PROVE  /\ s \in Seq(ChatRows) /\ OneRowEach(s) /\ IsOrdered(s, PinnedFirst)
         /\ \A r \in rows : \E i \in DOMAIN s : s[i] = r
<1> DEFINE D == 1..Cardinality(rows)
<1>1. /\ s \in [D -> rows] /\ \A i, j \in D : i # j => s[i] # s[j]
      /\ IsOrdered(s, PinnedFirst)
  BY DEF LoadOrders, SetToSeqs
<1>2. Cardinality(rows) \in Nat
  BY FS_CardinalityType
<1>3. Cardinality(D) = Cardinality(rows)
  BY <1>2, FS_Interval
<1>4. s \in Injection(D, rows)
  BY <1>1 DEF Injection, IsInjective
<1>5. s \in Surjection(D, rows)
  <2> HIDE DEF D
  <2> QED
    BY <1>3, <1>4, FS_Injection
<1>6. s \in Seq(ChatRows)
  <2>1. s \in [D -> ChatRows]
    BY <1>1
  <2> QED
    BY <1>2, <2>1
<1> QED
  BY <1>1, <1>5, <1>6 DEF Surjection, OneRowEach

\* Sorting changes the places of the rows only.
LEMMA SortFact ==
  ASSUME NEW rows \in Seq(ChatRows), NEW s \in SortByTime(rows)
  PROVE  /\ s \in Seq(ChatRows) /\ IsOrdered(s, NewerFirst)
         /\ \A i \in DOMAIN rows : \E k \in DOMAIN s : s[k] = rows[i]
         /\ OneRowEach(rows) => OneRowEach(s)
<1> DEFINE D == DOMAIN rows
<1>1. PICK order \in StableOrders(rows) : s = [k \in D |-> rows[order[k]]]
  BY DEF SortByTime
<1>2. /\ order \in [D -> D]
      /\ \A i, j \in D : i < j =>
           \/ NewerFirst(rows[order[i]], rows[order[j]])
           \/ rows[order[i]].last = rows[order[j]].last /\ order[i] < order[j]
  BY <1>1 DEF StableOrders
<1>3. D = 1..Len(rows) /\ Len(rows) \in Nat
  OBVIOUS
<1>4. \A i \in D : rows[i] \in ChatRows
  OBVIOUS
<1>5. \A r \in ChatRows : r.last \in Nat
  BY DEF ChatRows
<1>6. IsFiniteSet(D)
  BY <1>3, FS_Interval
<1>7. ASSUME NEW i \in D, NEW j \in D, order[i] = order[j] PROVE i = j
  <2>1. order[i] \in D /\ rows[order[i]].last \in Nat /\ order[i] \in Nat
    BY <1>2, <1>3, <1>4, <1>5
  <2>2. ~(i < j)
    BY <1>2, <1>7, <2>1 DEF NewerFirst
  <2>3. ~(j < i)
    BY <1>2, <1>7, <2>1 DEF NewerFirst
  <2> QED
    BY <1>3, <2>2, <2>3
<1> HIDE DEF D
<1>8. order \in Injection(D, D)
  BY <1>2, <1>7 DEF Injection, IsInjective
<1>9. order \in Surjection(D, D)
  BY <1>6, <1>8, FS_Injection
<1>10. s \in Seq(ChatRows) /\ DOMAIN s = D
  <2>1. s \in [D -> ChatRows]
    BY <1>1, <1>2, <1>4
  <2> QED
    BY <1>3, <2>1
<1>11. IsOrdered(s, NewerFirst)
  <2>1. ASSUME NEW i \in D, NEW j \in D, i < j PROVE ~NewerFirst(s[j], s[i])
    <3>1. s[i] = rows[order[i]] /\ s[j] = rows[order[j]]
      BY <1>1
    <3>2. s[i].last \in Nat /\ s[j].last \in Nat
      BY <1>2, <1>4, <1>5, <3>1
    <3> QED
      BY <1>2, <2>1, <3>1, <3>2 DEF NewerFirst
  <2> QED
    BY <1>10, <2>1 DEF IsOrdered
<1>12. ASSUME NEW i \in D PROVE \E k \in D : s[k] = rows[i]
  <2>1. PICK k \in D : order[k] = i
    BY <1>9 DEF Surjection
  <2> QED
    BY <1>1, <2>1
<1>13. OneRowEach(rows) => OneRowEach(s)
  <2> SUFFICES ASSUME OneRowEach(rows), NEW i \in D, NEW j \in D, s[i].jid = s[j].jid
               PROVE  i = j
    BY <1>10 DEF OneRowEach
  <2>1. order[i] = order[j]
    BY <1>1, <1>2 DEF OneRowEach, D
  <2> QED
    BY <1>7, <2>1
<1> QED
  BY <1>10, <1>11, <1>12, <1>13 DEF D

\* sort.SliceStable has exactly one result.
LEMMA SortIsAFunction ==
  ASSUME NEW rows \in Seq(ChatRows)
  PROVE  \E s : SortByTime(rows) = {s}
<1> DEFINE n == Len(rows)
           R == {p \in (1..n) \X (1..n) :
                   \/ rows[p[1]].last > rows[p[2]].last
                   \/ rows[p[1]].last = rows[p[2]].last /\ p[1] < p[2]}
<1>1. DOMAIN rows = 1..n /\ n \in Nat
  OBVIOUS
<1>2. \A i \in 1..n : rows[i].last \in Nat
  <2>1. \A i \in 1..n : rows[i] \in ChatRows
    OBVIOUS
  <2> QED
    BY <2>1 DEF ChatRows
<1>3. \A a, b \in 1..n : <<a, b>> \in R <=>
        \/ rows[a].last > rows[b].last
        \/ rows[a].last = rows[b].last /\ a < b
  OBVIOUS
<1>4. IsFiniteSet(1..n) /\ Cardinality(1..n) = n
  BY <1>1, FS_Interval
<1> HIDE DEF R, n
<1>5. TotalOrder(1..n, R)
  <2>1. \A a \in 1..n : a \in Nat
    BY <1>1
  <2>2. \A a \in 1..n : <<a, a>> \notin R
    BY <1>2, <1>3, <2>1
  <2>3. \A a, b, c \in 1..n : <<a, b>> \in R /\ <<b, c>> \in R => <<a, c>> \in R
    BY <1>2, <1>3, <2>1
  <2>4. ASSUME NEW a \in 1..n, NEW b \in 1..n
        PROVE  a = b \/ <<a, b>> \in R \/ <<b, a>> \in R
    <3>1. PICK x \in Nat, y \in Nat : x = rows[a].last /\ y = rows[b].last
      BY <1>2
    <3>2. x > y \/ y > x \/ x = y
      OBVIOUS
    <3>3. a < b \/ b < a \/ a = b
      BY <2>1
    <3> QED
      BY <1>3, <3>1, <3>2, <3>3
  <2> QED
    BY <2>2, <2>3, <2>4 DEF TotalOrder, StrictOrder
<1>6. PICK order : Sorted(1..n, R) = {order}
  BY <1>4, <1>5, SortedOnce
<1>7. StableOrders(rows) = Sorted(1..n, R)
  BY <1>1, <1>3, <1>4 DEF StableOrders, Sorted, NewerFirst
<1>8. SortByTime(rows) = {[k \in DOMAIN rows |-> rows[order[k]]]}
  BY <1>6, <1>7 DEF SortByTime
<1> QED
  BY <1>8

\* Loaded rows can be listed in LoadChats' order.
LEMMA LoadOrderExists ==
  ASSUME NEW rows \in SUBSET ChatRows, IsFiniteSet(rows)
  PROVE  LoadOrders(rows) # {}
<1> DEFINE R == {p \in rows \X rows : PinnedFirst(p[1], p[2])}
<1>1. \A a, b \in rows : <<a, b>> \in R <=> PinnedFirst(a, b)
  OBVIOUS
<1>2. \A r \in rows : r.last \in Nat
  BY DEF ChatRows
<1> HIDE DEF R
<1>3. StrictOrder(rows, R)
  BY <1>1, <1>2 DEF StrictOrder, PinnedFirst, NewerFirst
<1>4. PICK s \in Orders(rows, R) : TRUE
  BY <1>3, OrderExists
<1>5. s \in SetToSeqs(rows) /\ IsOrdered(s, PinnedFirst)
  BY <1>1, <1>4 DEF Orders, SetToSeqs, IsOrdered
<1> QED
  BY <1>5 DEF LoadOrders

\* The row of the message's chat is there after it and tells of the message;
\* the other rows, and the flags, are as they were.
LEMMA UpsertFact ==
  ASSUME NEW rows \in Seq(ChatRows), NEW w \in WAIDs
  PROVE  LET more == Upsert(rows, w)
             new == IF w \in FromMe THEN 0 ELSE 1 IN
         /\ more \in Seq(ChatRows) /\ DOMAIN rows \subseteq DOMAIN more
         /\ \A i \in DOMAIN rows :
              /\ more[i].jid = rows[i].jid /\ more[i].muted = rows[i].muted
              /\ rows[i].jid # chat_jid[w] => more[i] = rows[i]
         /\ OneRowEach(rows) =>
              /\ OneRowEach(more)
              /\ \A i \in DOMAIN rows : rows[i].jid = chat_jid[w] =>
                   /\ more[i].last >= rows[i].last /\ more[i].last >= ts[w]
                   /\ more[i].unread >= rows[i].unread + new
              /\ (\A i \in DOMAIN rows : rows[i].jid # chat_jid[w]) =>
                   \E i \in DOMAIN more :
                     more[i].jid = chat_jid[w] /\ more[i].last >= ts[w] /\ more[i].unread >= new
<1> DEFINE more == Upsert(rows, w)
           new == IF w \in FromMe THEN 0 ELSE 1
           jid == chat_jid[w]
           first(i) == rows[i].jid = jid /\ \A k \in 1..(i - 1) : rows[k].jid # jid
           raised(i) == [rows[i] EXCEPT !.last = Max({@, ts[w]}), !.unread = @ + new]
           row == [jid |-> jid, last |-> ts[w], unread |-> new, pinned |-> FALSE, muted |-> FALSE]
<1>1. /\ jid \in JIDs /\ ts[w] \in Nat /\ new \in Nat
      /\ DOMAIN rows = 1..Len(rows) /\ Len(rows) \in Nat
  BY ChatListAssumption
<1>2. \A i \in DOMAIN rows : rows[i] \in ChatRows
  OBVIOUS
<1>3. row \in ChatRows
  BY <1>1 DEF ChatRows
<1>4. ASSUME NEW i \in DOMAIN rows
      PROVE  /\ raised(i) \in ChatRows
             /\ raised(i).jid = rows[i].jid /\ raised(i).muted = rows[i].muted
             /\ raised(i).last >= rows[i].last /\ raised(i).last >= ts[w]
             /\ raised(i).unread >= rows[i].unread + new
  <2>1. rows[i] \in ChatRows /\ rows[i].last \in Nat /\ rows[i].unread \in Nat
    BY <1>2 DEF ChatRows
  <2>2. /\ Max({rows[i].last, ts[w]}) \in Nat
        /\ Max({rows[i].last, ts[w]}) >= rows[i].last /\ Max({rows[i].last, ts[w]}) >= ts[w]
    BY <1>1, <2>1, MaxOfTwo
  <2>3. PICK m \in Nat : m = Max({rows[i].last, ts[w]})
    BY <2>2
  <2>4. raised(i) = [rows[i] EXCEPT !.last = m, !.unread = rows[i].unread + new]
    BY <2>3
  <2>5. rows[i].unread + new \in Nat /\ rows[i].unread + new >= rows[i].unread + new
    BY <1>1, <2>1
  <2> HIDE DEF raised, new
  <2> QED
    BY <2>1, <2>2, <2>3, <2>4, <2>5 DEF ChatRows
<1>5. CASE \E i \in DOMAIN rows : rows[i].jid = jid
  <2>1. more = [i \in DOMAIN rows |-> IF first(i) THEN raised(i) ELSE rows[i]]
    BY <1>5 DEF Upsert
  <2> HIDE DEF more, raised, new, row
  <2>2. more \in Seq(ChatRows)
    <3>1. more \in [1..Len(rows) -> ChatRows]
      BY <1>1, <1>2, <1>4, <2>1
    <3> QED
      BY <1>1, <3>1
  <2>3. ASSUME NEW i \in DOMAIN rows
        PROVE  /\ more[i].jid = rows[i].jid /\ more[i].muted = rows[i].muted
               /\ rows[i].jid # jid => more[i] = rows[i]
    BY <1>4, <2>1
  <2>4. ASSUME OneRowEach(rows), NEW i \in DOMAIN rows, rows[i].jid = jid
        PROVE  /\ more[i].last >= rows[i].last /\ more[i].last >= ts[w]
               /\ more[i].unread >= rows[i].unread + new
    <3>1. first(i)
      <4>1. ASSUME NEW k \in 1..(i - 1), rows[k].jid = jid PROVE FALSE
        <5>1. k \in DOMAIN rows /\ k # i
          BY <1>1
        <5> QED
          BY <2>4, <4>1, <5>1 DEF OneRowEach
      <4> QED
        BY <2>4, <4>1
    <3>2. more[i] = raised(i)
      BY <2>1, <3>1
    <3> QED
      BY <1>4, <3>2
  <2>5. DOMAIN more = DOMAIN rows
    BY <2>1
  <2>6. OneRowEach(rows) => OneRowEach(more)
    BY <2>3, <2>5 DEF OneRowEach
  <2> QED
    BY <1>5, <2>2, <2>3, <2>4, <2>5, <2>6 DEF more, new
<1>6. CASE ~ \E i \in DOMAIN rows : rows[i].jid = jid
  <2>1. more = Append(rows, row)
    BY <1>6 DEF Upsert
  <2> DEFINE n == Len(rows) + 1
  <2> HIDE DEF more, raised, row
  <2>2. /\ more \in Seq(ChatRows) /\ DOMAIN more = 1..n
        /\ \A i \in DOMAIN rows : more[i] = rows[i]
        /\ more[n] = row /\ n \in 1..n
    BY <1>1, <1>3, <2>1, AppendProperties
  <2>3. row.jid = jid /\ row.last >= ts[w] /\ row.unread >= new
    BY <1>1 DEF row
  <2>4. DOMAIN rows \subseteq DOMAIN more
    BY <1>1, <2>2
  <2>5. ASSUME OneRowEach(rows) PROVE OneRowEach(more)
    <3>1. \A i \in DOMAIN more : i \in DOMAIN rows \/ i = n
      BY <1>1, <2>2
    <3> HIDE DEF n
    <3> QED
      BY <1>6, <2>2, <2>3, <2>5, <3>1 DEF OneRowEach
  <2>6. \E i \in DOMAIN more : more[i].jid = jid /\ more[i].last >= ts[w] /\ more[i].unread >= new
    BY <2>2, <2>3
  <2> HIDE DEF n
  <2> QED
    BY <1>6, <2>2, <2>4, <2>5, <2>6 DEF more
<1> QED
  BY <1>5, <1>6

\* What a fold does to the list.
LEMMA FoldFact ==
  ASSUME NEW rows \in Seq(ChatRows), NEW w \in WAIDs, NEW s \in Fold(rows, w)
  PROVE  /\ s \in Seq(ChatRows) /\ IsOrdered(s, NewerFirst)
         /\ \A i \in DOMAIN rows : \E k \in DOMAIN s :
              /\ s[k].jid = rows[i].jid /\ s[k].muted = rows[i].muted
              /\ rows[i].jid # chat_jid[w] => s[k] = rows[i]
         /\ OneRowEach(rows) => OneRowEach(s)
<1>1. PICK more : more = Upsert(rows, w)
  OBVIOUS
<1>2. /\ more \in Seq(ChatRows) /\ DOMAIN rows \subseteq DOMAIN more
      /\ \A i \in DOMAIN rows :
           /\ more[i].jid = rows[i].jid /\ more[i].muted = rows[i].muted
           /\ rows[i].jid # chat_jid[w] => more[i] = rows[i]
  BY <1>1, UpsertFact
<1>3. /\ OneRowEach(rows) => OneRowEach(more)
      /\ s \in Seq(ChatRows) /\ IsOrdered(s, NewerFirst)
      /\ \A i \in DOMAIN more : \E k \in DOMAIN s : s[k] = more[i]
      /\ OneRowEach(more) => OneRowEach(s)
  <2>1. OneRowEach(rows) => OneRowEach(more)
    BY <1>1, UpsertFact
  <2> QED
    BY <1>1, <1>2, <2>1, SortFact DEF Fold
<1>4. ASSUME NEW i \in DOMAIN rows
      PROVE  \E k \in DOMAIN s :
              /\ s[k].jid = rows[i].jid /\ s[k].muted = rows[i].muted
              /\ rows[i].jid # chat_jid[w] => s[k] = rows[i]
  <2>1. PICK k \in DOMAIN s : s[k] = more[i]
    BY <1>2, <1>3
  <2> QED
    BY <1>2, <2>1
<1> QED
  BY <1>3, <1>4

\* After a fold the chat's row tells of what it told and of the message.
LEMMA FoldTells ==
  ASSUME NEW rows \in Seq(ChatRows), NEW w \in WAIDs, NEW s \in Fold(rows, w),
         OneRowEach(rows), counted \cap FromMe = {},
         NEW S \in SUBSET WAIDs, NEW T \in SUBSET WAIDs, T \subseteq S \cup {w},
         S # {} => ListTells(rows, chat_jid[w], S)
  PROVE  ListTells(s, chat_jid[w], T)
<1> DEFINE new == IF w \in FromMe THEN 0 ELSE 1
<1>1. PICK more : more = Upsert(rows, w)
  OBVIOUS
<1>2. /\ more \in Seq(ChatRows) /\ DOMAIN rows \subseteq DOMAIN more
      /\ \A i \in DOMAIN rows : more[i].jid = rows[i].jid
  BY <1>1, UpsertFact
<1>3. /\ \A i \in DOMAIN rows : rows[i].jid = chat_jid[w] =>
           /\ more[i].last >= rows[i].last /\ more[i].last >= ts[w]
           /\ more[i].unread >= rows[i].unread + new
      /\ (\A i \in DOMAIN rows : rows[i].jid # chat_jid[w]) =>
           \E i \in DOMAIN more :
             more[i].jid = chat_jid[w] /\ more[i].last >= ts[w] /\ more[i].unread >= new
  BY <1>1, UpsertFact
<1>4. \A i \in DOMAIN more : \E k \in DOMAIN s : s[k] = more[i]
  BY <1>1, <1>2, SortFact DEF Fold
<1>5. \A i \in DOMAIN rows : rows[i] \in ChatRows
  OBVIOUS
<1>6. \A i \in DOMAIN more : more[i] \in ChatRows
  BY <1>2
<1>7. ts[w] \in Nat /\ new \in Nat
  BY ChatListAssumption
<1>8. ListTells(more, chat_jid[w], T)
  <2>1. CASE \E i \in DOMAIN rows : rows[i].jid = chat_jid[w]
    <3>1. PICK i \in DOMAIN rows : rows[i].jid = chat_jid[w] /\ (S # {} => Tells(rows[i], S))
      BY <2>1 DEF ListTells
    <3>2. /\ i \in DOMAIN more /\ more[i].jid = chat_jid[w]
          /\ more[i].last >= rows[i].last /\ more[i].last >= ts[w]
          /\ more[i].unread >= rows[i].unread + new
      BY <1>2, <1>3, <3>1
    <3>3. rows[i] \in ChatRows /\ more[i] \in ChatRows
      BY <1>5, <1>6, <3>2
    <3>4. Tells(more[i], T)
      BY <3>1, <3>2, <3>3, TellsMore
    <3> QED
      BY <3>2, <3>4 DEF ListTells
  <2>2. CASE \A i \in DOMAIN rows : rows[i].jid # chat_jid[w]
    <3>1. PICK i \in DOMAIN more :
            more[i].jid = chat_jid[w] /\ more[i].last >= ts[w] /\ more[i].unread >= new
      BY <1>3, <2>2
    <3>2. S = {}
      BY <2>2 DEF ListTells
    <3>3. PICK none : none = [jid |-> chat_jid[w], last |-> 0, unread |-> 0,
                              pinned |-> FALSE, muted |-> FALSE]
      OBVIOUS
    <3>4. none \in ChatRows /\ none.last = 0 /\ none.unread = 0
      BY <3>3, ChatListAssumption DEF ChatRows
    <3>5. more[i] \in ChatRows /\ more[i].last \in Nat
      BY <1>6 DEF ChatRows
    <3>6. more[i].last >= none.last /\ more[i].unread >= none.unread + new
      BY <1>7, <3>1, <3>4, <3>5
    <3>7. Tells(more[i], T)
      BY <3>1, <3>2, <3>4, <3>5, <3>6, TellsMore
    <3> QED
      BY <3>1, <3>7 DEF ListTells
  <2> QED
    BY <2>1, <2>2
<1>9. PICK i \in DOMAIN more : more[i].jid = chat_jid[w] /\ Tells(more[i], T)
  BY <1>8 DEF ListTells
<1>10. PICK k \in DOMAIN s : s[k] = more[i]
  BY <1>4
<1> QED
  BY <1>9, <1>10 DEF ListTells

-----------------------------------------------------------------------------
(* What the steps keep *)

\* A query reads one row of each chat it finds, and each tells of the chat's
\* messages.
LEMMA QueryFact ==
  ASSUME stored \subseteq WAIDs, counted \cap FromMe = {}, known \subseteq JIDs,
         ChatsOf(stored) \subseteq known, muted \subseteq known
  PROVE  LET rows == {ChatSummary(j) : j \in known \ archived} IN
         /\ rows \subseteq ChatRows /\ IsFiniteSet(rows)
         /\ \A r, q \in rows : r.jid = q.jid => r = q
         /\ \A jid \in JIDs \ archived :
              /\ Of(jid, stored) # {} => \E r \in rows : r.jid = jid /\ Tells(r, Of(jid, stored))
              /\ jid \in muted => \E r \in rows : r.jid = jid /\ r.muted
<1> DEFINE J == known \ archived
           rows == {ChatSummary(j) : j \in J}
<1>1. known \subseteq JIDs
  OBVIOUS
<1>2. ASSUME NEW jid \in JIDs
      PROVE  /\ ChatSummary(jid) \in ChatRows /\ ChatSummary(jid).jid = jid
             /\ Tells(ChatSummary(jid), Of(jid, stored))
             /\ jid \in muted => ChatSummary(jid).muted
  <2>1. Of(jid, stored) \in SUBSET WAIDs
    BY DEF Of
  <2>2. LastTS(Of(jid, stored)) \in Nat /\ Unread(Of(jid, stored)) \in Nat
    BY <2>1, LastTSFact, UnreadFact
  <2>3. /\ ChatSummary(jid).jid = jid
        /\ ChatSummary(jid).last = LastTS(Of(jid, stored))
        /\ ChatSummary(jid).unread = Unread(Of(jid, stored))
        /\ jid \in muted => ChatSummary(jid).muted
    BY DEF ChatSummary
  <2>4. Tells(ChatSummary(jid), Of(jid, stored))
    BY <2>2, <2>3 DEF Tells
  <2>5. ChatSummary(jid) \in ChatRows
    BY <2>2 DEF ChatSummary, ChatRows
  <2> QED
    BY <2>3, <2>4, <2>5
<1>3. rows \subseteq ChatRows
  BY <1>1, <1>2
<1>4. IsFiniteSet(rows)
  <2>1. IsFiniteSet(J)
    BY <1>1, ChatListAssumption, FS_Subset
  <2>2. [j \in J |-> ChatSummary(j)] \in Surjection(J, rows)
    BY DEF Surjection
  <2> HIDE DEF J, rows
  <2> QED
    BY <2>1, <2>2, FS_Surjection
<1>5. \A r, q \in rows : r.jid = q.jid => r = q
  BY <1>1, <1>2
<1>6. ASSUME NEW jid \in JIDs \ archived, Of(jid, stored) # {} \/ jid \in muted
      PROVE  ChatSummary(jid) \in rows
  BY <1>6 DEF ChatsOf, Of
<1> HIDE DEF rows, J
<1>7. \A jid \in JIDs \ archived :
        /\ Of(jid, stored) # {} => \E r \in rows : r.jid = jid /\ Tells(r, Of(jid, stored))
        /\ jid \in muted => \E r \in rows : r.jid = jid /\ r.muted
  BY <1>2, <1>6
<1> QED
  BY <1>3, <1>4, <1>5, <1>7 DEF rows, J

\* What is shown is stored.
LEMMA ShownIsStored ==
  ASSUME Types, NEW jid
  PROVE  /\ Shown(jid) \in SUBSET WAIDs /\ Shown(jid) \in SUBSET stored
         /\ counted \cap FromMe = {}
BY DEF Types, Shown, Of

\* Messages that were stored before count as they did.
CountsStay == \A S \in SUBSET stored : S \cap counted' = S \cap counted

\* The list still covers what it must where that has not grown.
LEMMA LessKeepsCover ==
  ASSUME Types, ListCovers, UNCHANGED <<Chats, torn>>, stale \subseteq stale', CountsStay,
         \A jid \in JIDs : Shown(jid)' \subseteq Shown(jid),
         \A jid \in JIDs \ stale' : jid \in muted' => jid \in muted
  PROVE  ListCovers'
<1> SUFFICES ASSUME ~torn PROVE ListCovers'
  BY DEF ListCovers
<1>1. OneRowEach(Chats)
  BY DEF ListCovers
<1>2. OneRowEach(Chats)'
  BY <1>1 DEF OneRowEach
<1>3. ASSUME NEW jid \in JIDs \ stale', Shown(jid)' # {}
      PROVE  ListTells(Chats, jid, Shown(jid))'
  <2>1. PICK T : T = Shown(jid)'
    OBVIOUS
  <2>2. /\ T \in SUBSET Shown(jid) /\ Shown(jid) \in SUBSET WAIDs /\ Shown(jid) # {}
        /\ T \in SUBSET stored /\ counted \cap FromMe = {}
    BY <1>3, <2>1, ShownIsStored
  <2>3. PICK i \in DOMAIN Chats : Chats[i].jid = jid /\ Tells(Chats[i], Shown(jid))
    BY <1>3, <2>2 DEF ListCovers, ListTells
  <2>4. Chats[i] \in ChatRows
    BY DEF Types
  <2>5. Tells(Chats[i], T)
    BY <2>2, <2>3, <2>4, TellsLess
  <2>6. T \cap counted' = T \cap counted
    BY <2>2 DEF CountsStay
  <2>7. Chats'[i].last >= LastTS(T) /\ Chats'[i].unread >= Cardinality(T \cap counted')
    BY <2>5, <2>6 DEF Tells, Unread
  <2> QED
    BY <2>1, <2>3, <2>7 DEF ListTells, Tells, LastTS, Unread
<1>4. ASSUME NEW jid \in JIDs \ stale', jid \in muted'
      PROVE  \E i \in DOMAIN Chats' : Chats'[i].jid = jid /\ Chats'[i].muted
  BY <1>4 DEF ListCovers
<1> QED
  BY <1>2, <1>3, <1>4 DEF ListCovers

\* It covers the message a fold brings, too.
LEMMA FoldKeepsCover ==
  ASSUME Types, ListCovers, NEW w \in WAIDs, Chats' \in Fold(Chats, w),
         UNCHANGED <<torn, stale, muted, counted>>,
         \A jid \in JIDs :
           Shown(jid)' \subseteq Shown(jid) \cup (IF jid = chat_jid[w] THEN {w} ELSE {})
  PROVE  Chats' \in Seq(ChatRows) /\ ListCovers'
<1>1. PICK s \in Fold(Chats, w) : s = Chats'
  OBVIOUS
<1>2. /\ s \in Seq(ChatRows)
      /\ \A i \in DOMAIN Chats : \E k \in DOMAIN s :
           /\ s[k].jid = Chats[i].jid /\ s[k].muted = Chats[i].muted
           /\ Chats[i].jid # chat_jid[w] => s[k] = Chats[i]
  BY FoldFact DEF Types
<1>3. OneRowEach(Chats) => OneRowEach(s)
  BY FoldFact DEF Types
<1>4. ASSUME ~torn PROVE ListCovers'
  <2>1. OneRowEach(Chats)
    BY <1>4 DEF ListCovers
  <2>2. ASSUME NEW jid \in JIDs \ stale, Shown(jid)' # {}
        PROVE  ListTells(s, jid, Shown(jid)')
    <3>1. PICK T : T = Shown(jid)'
      OBVIOUS
    <3>2. Shown(jid) \in SUBSET WAIDs /\ counted \cap FromMe = {}
      BY ShownIsStored
    <3>3. Shown(jid) # {} => ListTells(Chats, jid, Shown(jid))
      BY <1>4 DEF ListCovers
    <3>4. CASE jid = chat_jid[w]
      <4>1. T \in SUBSET (Shown(jid) \cup {w})
        BY <3>1, <3>4
      <4>2. Chats \in Seq(ChatRows)
        BY DEF Types
      <4>3. PICK S \in SUBSET WAIDs : S = Shown(jid)
        BY <3>2
      <4>4. S # {} => ListTells(Chats, chat_jid[w], S)
        BY <3>3, <3>4, <4>3
      <4>5. PICK rows \in Seq(ChatRows) : rows = Chats
        BY <4>2
      <4>6. /\ s \in Fold(rows, w) /\ OneRowEach(rows)
            /\ T \in SUBSET WAIDs /\ T \subseteq S \cup {w}
            /\ S # {} => ListTells(rows, chat_jid[w], S)
        BY <2>1, <4>1, <4>3, <4>4, <4>5
      <4>7. ListTells(s, chat_jid[w], T)
        BY <3>2, <4>6, FoldTells
      <4> QED
        BY <3>1, <3>4, <4>7
    <3>5. CASE jid # chat_jid[w]
      <4>1. T \in SUBSET Shown(jid) /\ Shown(jid) # {}
        BY <2>2, <3>1, <3>5
      <4>2. PICK i \in DOMAIN Chats : Chats[i].jid = jid /\ Tells(Chats[i], Shown(jid))
        BY <3>3, <4>1 DEF ListTells
      <4>3. Chats[i] \in ChatRows
        BY DEF Types
      <4>4. Tells(Chats[i], T)
        BY <3>2, <4>1, <4>2, <4>3, TellsLess
      <4>5. PICK k \in DOMAIN s : s[k] = Chats[i]
        BY <1>2, <3>5, <4>2
      <4> QED
        BY <3>1, <4>2, <4>4, <4>5 DEF ListTells
    <3> QED
      BY <3>4, <3>5
  <2>3. ASSUME NEW jid \in JIDs \ stale, jid \in muted
        PROVE  \E k \in DOMAIN s : s[k].jid = jid /\ s[k].muted
    <3>1. PICK i \in DOMAIN Chats : Chats[i].jid = jid /\ Chats[i].muted
      BY <1>4, <2>3 DEF ListCovers
    <3> QED
      BY <1>2, <3>1
  <2>4. OneRowEach(Chats)'
    BY <1>1, <1>3, <2>1 DEF OneRowEach
  <2>5. \A jid \in JIDs \ stale' :
          /\ Shown(jid)' # {} => ListTells(Chats', jid, Shown(jid)')
          /\ jid \in muted' => \E i \in DOMAIN Chats' : Chats'[i].jid = jid /\ Chats'[i].muted
    BY <1>1, <2>2, <2>3
  <2> QED
    BY <2>4, <2>5 DEF ListCovers, ListTells, Tells, LastTS, Unread
<1>5. ~torn \/ ListCovers'
  BY DEF Types, ListCovers
<1> QED
  BY <1>1, <1>2, <1>4, <1>5

\* Where the store grows and the flags stay, a load covers what it did.
LEMMA LoadStays ==
  ASSUME LoadCovers, stored \subseteq stored', CountsStay, UNCHANGED <<load, muted>>
  PROVE  LoadCovers'
<1> SUFFICES ASSUME load.on PROVE LoadCovers'
  BY DEF LoadCovers
<1>1. /\ load.rows \subseteq ChatRows /\ IsFiniteSet(load.rows) /\ load.seen \subseteq stored'
      /\ \A r, q \in load.rows : r.jid = q.jid => r = q
  BY DEF LoadCovers
<1>2. \A jid \in JIDs \ load.stale :
         /\ Of(jid, load.seen) # {} =>
              \E r \in load.rows : r.jid = jid /\ Tells(r, Of(jid, load.seen))
         /\ jid \in muted => \E r \in load.rows : r.jid = jid /\ r.muted
  BY DEF LoadCovers
<1>3. ASSUME NEW jid \in JIDs, NEW r, Tells(r, Of(jid, load.seen)) PROVE Tells(r, Of(jid, load.seen))'
  <2>1. PICK S : S = Of(jid, load.seen)
    OBVIOUS
  <2>2. S \in SUBSET stored /\ S = Of(jid, load.seen)'
    BY <2>1 DEF LoadCovers, Of
  <2>3. S \cap counted' = S \cap counted
    BY <2>2 DEF CountsStay
  <2> QED
    BY <1>3, <2>1, <2>2, <2>3 DEF Tells, LastTS, Unread
<1>4. \A jid \in JIDs : Of(jid, load.seen)' = Of(jid, load.seen)
  BY DEF Of
<1>5. \A jid \in JIDs \ load.stale :
         /\ Of(jid, load.seen)' # {} =>
              \E r \in load.rows : r.jid = jid /\ Tells(r, Of(jid, load.seen))'
         /\ jid \in muted' => \E r \in load.rows : r.jid = jid /\ r.muted
  BY <1>2, <1>3, <1>4
<1> QED
  BY <1>1, <1>5 DEF LoadCovers

\* The events in a queue.
Held(s) == {s[k] : k \in DOMAIN s}

\* What a queue holds once an event has joined it, or left it.
LEMMA QueueFact ==
  ASSUME NEW q \in Seq(WAIDs), NEW w \in WAIDs
  PROVE  /\ Append(q, w) \in Seq(WAIDs) /\ Held(Append(q, w)) = Held(q) \cup {w}
         /\ q # <<>> =>
              /\ Head(q) \in Held(q) /\ Tail(q) \in Seq(WAIDs)
              /\ Held(Tail(q)) \subseteq Held(q) /\ Held(q) \subseteq Held(Tail(q)) \cup {Head(q)}
<1>1. DOMAIN q = 1..Len(q) /\ Len(q) \in Nat
  OBVIOUS
<1>2. /\ Append(q, w) \in Seq(WAIDs) /\ DOMAIN Append(q, w) = 1..(Len(q) + 1)
      /\ \A k \in 1..Len(q) : Append(q, w)[k] = q[k]
      /\ Append(q, w)[Len(q) + 1] = w
  BY AppendProperties
<1>3. Held(Append(q, w)) = Held(q) \cup {w}
  <2>1. PICK s : s = Append(q, w)
    OBVIOUS
  <2>2. \A k \in DOMAIN s : k \in DOMAIN q \/ k = Len(q) + 1
    BY <1>1, <1>2, <2>1
  <2>3. Len(q) + 1 \in DOMAIN s /\ DOMAIN q \subseteq DOMAIN s
    BY <1>1, <1>2, <2>1
  <2>4. (\A k \in DOMAIN q : s[k] = q[k]) /\ s[Len(q) + 1] = w
    BY <1>1, <1>2, <2>1
  <2> QED
    BY <2>1, <2>2, <2>3, <2>4 DEF Held
<1>4. ASSUME q # <<>>
      PROVE  /\ Head(q) \in Held(q) /\ Tail(q) \in Seq(WAIDs)
             /\ Held(Tail(q)) \subseteq Held(q)
             /\ Held(q) \subseteq Held(Tail(q)) \cup {Head(q)}
  <2>1. Len(q) > 0 /\ Head(q) = q[1]
    BY <1>4
  <2>2. PICK s \in Seq(WAIDs) : s = Tail(q)
    BY <1>4, HeadTailProperties
  <2>3. Len(s) = Len(q) - 1 /\ \A k \in 1..Len(s) : s[k] = q[k + 1]
    BY <1>4, <2>2, HeadTailProperties
  <2>4. DOMAIN s = 1..(Len(q) - 1)
    BY <2>2, <2>3
  <2>5. ASSUME NEW k \in DOMAIN s PROVE k + 1 \in DOMAIN q /\ s[k] = q[k + 1]
    BY <1>1, <2>3, <2>4
  <2>6. ASSUME NEW k \in DOMAIN q, k # 1 PROVE k - 1 \in DOMAIN s /\ s[k - 1] = q[k]
    <3>1. k - 1 \in DOMAIN s /\ (k - 1) + 1 = k
      BY <1>1, <2>4, <2>6
    <3> QED
      BY <2>5, <3>1
  <2>7. 1 \in DOMAIN q
    BY <1>1, <2>1
  <2>8. Head(q) \in Held(q)
    BY <2>1, <2>7 DEF Held
  <2>9. Held(s) \subseteq Held(q)
    BY <2>5 DEF Held
  <2>10. Held(q) \subseteq Held(s) \cup {Head(q)}
    BY <2>1, <2>6 DEF Held
  <2> QED
    BY <2>2, <2>8, <2>9, <2>10
<1> QED
  BY <1>2, <1>3, <1>4

-----------------------------------------------------------------------------
(* The steps *)

\* A step of the frame that folds nothing keeps what a load and the list cover.
LEMMA FrameKeepsTheRest ==
  ASSUME ChatListInv, UNCHANGED <<storeVars, incoming, Chats, load, stale, hidden, torn>>
  PROVE  LoadCovers' /\ ListCovers'
<1>1. Types /\ LoadCovers /\ ListCovers
  BY DEF ChatListInv
<1>2. UNCHANGED <<stored, counted, muted, load, incoming, Chats, stale, hidden, torn>> /\ CountsStay
  BY DEF storeVars, flagVars, CountsStay
<1>3. LoadCovers'
  BY <1>1, <1>2, LoadStays
<1>4. \A jid \in JIDs : Shown(jid)' \subseteq Shown(jid)
  BY <1>2 DEF Shown, Of, Queued
<1> QED
  BY <1>1, <1>2, <1>3, <1>4, LessKeepsCover

\* Init.
LEMMA InitHolds ==
  ASSUME Init
  PROVE  ChatListInv
<1>1. PICK rows : rows = {ChatSummary(j) : j \in known \ archived}
  OBVIOUS
<1>2. /\ stored = {} /\ counted = {} /\ known \subseteq JIDs /\ ChatsOf(stored) = {}
      /\ pinned \subseteq known /\ archived \subseteq known /\ muted \subseteq known
  BY ChatListAssumption DEF Init, ChatsOf
<1>3. /\ rows \subseteq ChatRows /\ IsFiniteSet(rows)
      /\ \A r, q \in rows : r.jid = q.jid => r = q
      /\ \A jid \in JIDs \ archived : jid \in muted => \E r \in rows : r.jid = jid /\ r.muted
  BY <1>1, <1>2, QueryFact
<1>4. PICK s \in LoadOrders(rows) : s = Chats
  BY <1>1 DEF Init
<1>5. /\ Chats \in Seq(ChatRows) /\ OneRowEach(Chats)
      /\ \A r \in rows : \E i \in DOMAIN Chats : Chats[i] = r
  BY <1>3, <1>4, LoadOrderFact
<1>6. Queued = {} /\ \A jid \in JIDs : Shown(jid) = {}
  BY <1>2 DEF Init, Queued, Shown, Of
<1>7. Types
  <2>1. <<>> \in Seq(WAIDs)
    OBVIOUS
  <2> QED
    <3>1. /\ incoming = <<>> /\ load = NoLoad /\ hidden = {} /\ selected = NoChat /\ toast = NoChat
          /\ at = "drain" /\ chatClicks = 0 /\ clicked = 0
          /\ panicked = FALSE /\ torn = FALSE /\ overlap = FALSE
      BY DEF Init
    <3>2. load \in Loads
      BY <3>1 DEF Loads, NoLoad
    <3>3. /\ stored \subseteq WAIDs /\ counted \subseteq stored \ FromMe /\ incoming \in Seq(WAIDs)
          /\ Queued \subseteq stored /\ hidden \subseteq stored
      BY <1>2, <1>6, <2>1, <3>1
    <3>4. chatClicks \in Nat /\ clicked \in 0..chatClicks
      BY <3>1
    <3> QED
      BY <1>2, <1>5, <3>1, <3>2, <3>3, <3>4 DEF Types
<1>8. LoadCovers
  BY DEF Init, LoadCovers, NoLoad
<1>9. ListCovers
  <2>1. ASSUME NEW jid \in JIDs \ stale, jid \in muted
        PROVE  \E i \in DOMAIN Chats : Chats[i].jid = jid /\ Chats[i].muted
    <3>1. PICK r \in rows : r.jid = jid /\ r.muted
      BY <1>3, <2>1 DEF Init
    <3> QED
      BY <1>5, <3>1
  <2> QED
    BY <1>5, <1>6, <2>1 DEF ListCovers
<1>10. ClicksMatch /\ MutedStaySilent /\ IndicesInRange
  BY DEF Init, ClicksMatch, MutedStaySilent, IndicesInRange
<1> QED
  BY <1>7, <1>8, <1>9, <1>10 DEF ChatListInv

\* OnMessage: what it stores is queued, or hidden.
LEMMA OnMessageStep ==
  ASSUME ChatListInv, ~panicked, NEW w \in WAIDs, OnMessage(w)
  PROVE  ChatListInv'
<1>1. Types /\ LoadCovers /\ ListCovers /\ ClicksMatch
  BY DEF ChatListInv
<1>2. /\ stored' = stored \cup {w} /\ known' = known \cup {chat_jid[w]} /\ toast' = NoChat
      /\ counted' = counted \cup ({w} \ (stored \cup FromMe))
      /\ UNCHANGED <<pinned, archived, muted, Chats, load, selected, at, chatClicks, clicked,
                     panicked, overlap, stale, torn>>
  BY DEF OnMessage, frameVars, flagVars
<1>3. /\ incoming' \in Seq(WAIDs) /\ Queued' \subseteq stored' /\ hidden' \subseteq stored'
      /\ \A jid \in JIDs : Shown(jid)' \subseteq Shown(jid)
  <2>1. CASE incoming' = Append(incoming, w) /\ hidden' = hidden \ {w}
    <3>1. incoming' \in Seq(WAIDs) /\ Held(incoming') = Held(incoming) \cup {w}
      BY <1>1, <2>1, QueueFact DEF Types
    <3> QED
      BY <1>1, <1>2, <2>1, <3>1 DEF Types, Shown, Of, Queued, Held
  <2>2. CASE UNCHANGED incoming /\ hidden' = hidden \cup ({w} \ stored)
    <3>1. Queued' = Queued
      BY <2>2 DEF Queued
    <3> QED
      BY <1>1, <1>2, <2>2, <3>1 DEF Types, Shown, Of
  <2> QED
    BY <2>1, <2>2 DEF OnMessage
<1>4. CountsStay
  BY <1>2 DEF CountsStay
<1>5. Types'
  <2>1. counted' \subseteq stored' \ FromMe
    BY <1>1, <1>2 DEF Types
  <2>2. known' \subseteq JIDs /\ ChatsOf(stored') \subseteq known'
    BY <1>1, <1>2, ChatListAssumption DEF Types, ChatsOf
  <2> QED
    BY <1>1, <1>2, <1>3, <2>1, <2>2 DEF Types, ChatsOf
<1>6. LoadCovers'
  BY <1>1, <1>2, <1>4, LoadStays
<1>7. ListCovers'
  BY <1>1, <1>2, <1>3, <1>4, LessKeepsCover
<1>8. ClicksMatch' /\ MutedStaySilent' /\ IndicesInRange'
  BY <1>1, <1>2 DEF ClicksMatch, MutedStaySilent, IndicesInRange
<1> QED
  BY <1>5, <1>6, <1>7, <1>8 DEF ChatListInv

\* OnHistorySync and applyPushName: what they store is hidden, or no message.
LEMMA NoEventStep ==
  ASSUME ChatListInv, ~panicked,
         (\E h \in Histories : OnHistorySync(h)) \/ (\E jid \in JIDs : applyPushName(jid))
  PROVE  ChatListInv'
<1>1. Types /\ LoadCovers /\ ListCovers /\ ClicksMatch
  BY DEF ChatListInv
<1>2. PICK new \in SUBSET WAIDs, named \in SUBSET JIDs :
        /\ stored' = stored \cup new /\ known' = known \cup ChatsOf(new) \cup named
        /\ hidden' = hidden \cup (new \ stored)
  <2>1. ASSUME NEW h \in Histories, OnHistorySync(h)
        PROVE  \E new \in SUBSET WAIDs, named \in SUBSET JIDs :
                 /\ stored' = stored \cup new /\ known' = known \cup ChatsOf(new) \cup named
                 /\ hidden' = hidden \cup (new \ stored)
    <3>1. PICK new : new = h.messages
      OBVIOUS
    <3>2. PICK named \in SUBSET h.named : known' = known \cup ChatsOf(new) \cup named
      BY <2>1, <3>1 DEF OnHistorySync
    <3>3. new \in SUBSET WAIDs /\ named \in SUBSET JIDs
      BY <3>1, <3>2, ChatListAssumption
    <3>4. stored' = stored \cup new /\ hidden' = hidden \cup (new \ stored)
      BY <2>1, <3>1 DEF OnHistorySync
    <3> QED
      BY <3>2, <3>3, <3>4
  <2>2. ASSUME NEW jid \in JIDs, applyPushName(jid)
        PROVE  \E new \in SUBSET WAIDs, named \in SUBSET JIDs :
                 /\ stored' = stored \cup new /\ known' = known \cup ChatsOf(new) \cup named
                 /\ hidden' = hidden \cup (new \ stored)
    <3>1. PICK new \in SUBSET WAIDs, named \in SUBSET JIDs : new = {} /\ named = {jid}
      OBVIOUS
    <3>2. /\ stored' = stored \cup new /\ known' = known \cup ChatsOf(new) \cup named
          /\ hidden' = hidden \cup (new \ stored)
      BY <2>2, <3>1 DEF applyPushName, ChatsOf
    <3> QED
      BY <3>2
  <2> QED
    BY <2>1, <2>2
<1>3. /\ toast' = NoChat
      /\ UNCHANGED <<counted, pinned, archived, muted, incoming, Chats, load, selected, at,
                     chatClicks, clicked, panicked, overlap, stale, torn>>
  BY DEF OnHistorySync, applyPushName, frameVars, flagVars
<1>4. CountsStay /\ Queued' = Queued
  BY <1>3 DEF CountsStay, Queued
<1>5. \A jid \in JIDs : Shown(jid)' \subseteq Shown(jid)
  BY <1>2, <1>4 DEF Shown, Of
<1>6. Types'
  <2>1. /\ stored' \subseteq WAIDs /\ counted' \subseteq stored' \ FromMe
        /\ Queued' \subseteq stored' /\ hidden' \subseteq stored'
    BY <1>1, <1>2, <1>3, <1>4 DEF Types
  <2>2. known' \subseteq JIDs /\ ChatsOf(stored') \subseteq known' /\ known \subseteq known'
    BY <1>1, <1>2, ChatListAssumption DEF Types, ChatsOf
  <2> QED
    BY <1>1, <1>3, <2>1, <2>2 DEF Types, ChatsOf
<1>7. LoadCovers'
  BY <1>1, <1>2, <1>3, <1>4, LoadStays
<1>8. ListCovers'
  BY <1>1, <1>3, <1>4, <1>5, LessKeepsCover
<1>9. ClicksMatch' /\ MutedStaySilent' /\ IndicesInRange'
  BY <1>1, <1>3 DEF ClicksMatch, MutedStaySilent, IndicesInRange
<1> QED
  BY <1>6, <1>7, <1>8, <1>9 DEF ChatListInv

\* An app-state event: the chat counts as changed for the list and for a load.
LEMMA AppStateStep ==
  ASSUME ChatListInv, ~panicked, NEW jid \in JIDs,
         applyPin(jid) \/ applyArchive(jid) \/ applyMute(jid)
  PROVE  ChatListInv'
<1>1. Types /\ LoadCovers /\ ListCovers /\ ClicksMatch
  BY DEF ChatListInv
<1>2. /\ stale' = stale \cup {jid} /\ toast' = NoChat
      /\ load' = IF load.on THEN [load EXCEPT !.stale = @ \cup {jid}] ELSE load
      /\ known' = known \cup {jid}
      /\ UNCHANGED <<stored, counted, incoming, Chats, selected, at, chatClicks, clicked, panicked,
                     overlap, hidden, torn>>
  BY DEF applyPin, applyArchive, applyMute, AppState, frameVars
<1>3. /\ pinned' \subseteq known' /\ archived' \subseteq known' /\ muted' \subseteq known'
      /\ \A j \in JIDs \ {jid} : j \in muted' => j \in muted
  BY <1>1, <1>2 DEF applyPin, applyArchive, applyMute, SetFlag, Types
<1>4. CountsStay /\ Queued' = Queued /\ \A j \in JIDs : Shown(j)' = Shown(j)
  BY <1>2 DEF CountsStay, Queued, Shown, Of
<1>5. Types'
  <2>1. load' \in Loads
    BY <1>1, <1>2 DEF Types, Loads
  <2>2. known' \subseteq JIDs /\ ChatsOf(stored') \subseteq known'
    BY <1>1, <1>2 DEF Types, ChatsOf
  <2> QED
    BY <1>1, <1>2, <1>3, <1>4, <2>1, <2>2 DEF Types, ChatsOf
<1>6. LoadCovers'
  <2> SUFFICES ASSUME load'.on PROVE LoadCovers'
    BY DEF LoadCovers
  <2>1. load.on
    BY <1>2
  <2>2. /\ load'.rows = load.rows /\ load'.seen = load.seen
        /\ load'.stale = load.stale \cup {jid}
    BY <1>1, <1>2, <2>1 DEF Types, Loads
  <2>3. /\ load.rows \subseteq ChatRows /\ IsFiniteSet(load.rows) /\ load.seen \subseteq stored
        /\ \A r, q \in load.rows : r.jid = q.jid => r = q
        /\ \A j \in JIDs \ load.stale :
             /\ Of(j, load.seen) # {} =>
                  \E r \in load.rows : r.jid = j /\ Tells(r, Of(j, load.seen))
             /\ j \in muted => \E r \in load.rows : r.jid = j /\ r.muted
    BY <1>1, <2>1 DEF LoadCovers
  <2>4. JIDs \ load'.stale \subseteq (JIDs \ load.stale) \ {jid}
    BY <2>2
  <2>5. \A j \in JIDs \ load'.stale :
          /\ Of(j, load'.seen) # {} =>
               \E r \in load'.rows : r.jid = j /\ Tells(r, Of(j, load'.seen))
          /\ j \in muted' => \E r \in load'.rows : r.jid = j /\ r.muted
    BY <1>3, <2>2, <2>3, <2>4
  <2>6. /\ load'.rows \subseteq ChatRows /\ IsFiniteSet(load'.rows) /\ load'.seen \subseteq stored'
        /\ \A r, q \in load'.rows : r.jid = q.jid => r = q
    BY <1>2, <2>2, <2>3
  <2> QED
    BY <1>2, <2>5, <2>6 DEF LoadCovers, Tells, LastTS, Unread, Of
<1>7. ListCovers'
  BY <1>1, <1>2, <1>3, <1>4, LessKeepsCover
<1>8. ClicksMatch' /\ MutedStaySilent' /\ IndicesInRange'
  BY <1>1, <1>2 DEF ClicksMatch, MutedStaySilent, IndicesInRange
<1> QED
  BY <1>5, <1>6, <1>7, <1>8 DEF ChatListInv

\* LoadChats' query: its rows cover the store as it is then.
LEMMA LoadQueryStep ==
  ASSUME ChatListInv, ~panicked, LoadQuery
  PROVE  ChatListInv'
<1>1. Types /\ ListCovers /\ ClicksMatch
  BY DEF ChatListInv
<1>2. /\ toast' = NoChat
      /\ UNCHANGED <<stored, counted, known, pinned, archived, muted, incoming, Chats, selected, at, chatClicks,
                     clicked, panicked, overlap, stale, hidden, torn>>
  BY DEF LoadQuery, storeVars, flagVars, frameVars, historyVars
<1>3. PICK rows : rows = {ChatSummary(j) : j \in known \ archived}
  OBVIOUS
<1>4. load' = [on |-> TRUE, rows |-> rows, seen |-> stored, stale |-> archived]
  BY <1>3 DEF LoadQuery
<1>5. /\ rows \subseteq ChatRows /\ IsFiniteSet(rows)
      /\ \A r, q \in rows : r.jid = q.jid => r = q
      /\ \A jid \in JIDs \ archived :
           /\ Of(jid, stored) # {} => \E r \in rows : r.jid = jid /\ Tells(r, Of(jid, stored))
           /\ jid \in muted => \E r \in rows : r.jid = jid /\ r.muted
  <2>1. counted \cap FromMe = {}
    BY <1>1 DEF Types
  <2> QED
    BY <1>1, <1>3, <2>1, QueryFact DEF Types
<1>6. Types'
  <2>1. load' \in Loads
    BY <1>1, <1>4, <1>5 DEF Types, Loads
  <2>2. Queued' = Queued
    BY <1>2 DEF Queued
  <2> QED
    BY <1>1, <1>2, <2>1, <2>2 DEF Types
<1>7. LoadCovers'
  <2>1. load'.rows = rows /\ load'.seen = stored /\ load'.stale = archived
    BY <1>4
  <2> QED
    BY <1>2, <1>5, <2>1 DEF LoadCovers, Tells, LastTS, Unread, Of
<1>8. ListCovers'
  <2>1. \A jid \in JIDs : Shown(jid)' \subseteq Shown(jid)
    BY <1>2 DEF Shown, Of, Queued
  <2>2. CountsStay
    BY <1>2 DEF CountsStay
  <2> QED
    BY <1>1, <1>2, <2>1, <2>2, LessKeepsCover
<1>9. ClicksMatch' /\ MutedStaySilent' /\ IndicesInRange'
  BY <1>1, <1>2 DEF ClicksMatch, MutedStaySilent, IndicesInRange
<1> QED
  BY <1>6, <1>7, <1>8, <1>9 DEF ChatListInv

\* Its assignment: the list covers what the load did.
LEMMA LoadAssignStep ==
  ASSUME ChatListInv, ~panicked, LoadAssign
  PROVE  ChatListInv'
<1>1. Types /\ LoadCovers
  BY DEF ChatListInv
<1>2. /\ load.on /\ load' = NoLoad /\ stale' = load.stale
      /\ hidden' = (stored \ load.seen) \ Queued /\ toast' = NoChat
      /\ torn' = FALSE /\ overlap' = (overlap \/ at # "drain")
      /\ UNCHANGED <<stored, counted, known, pinned, archived, muted, incoming, selected, at, chatClicks,
                     clicked, panicked>>
  BY DEF LoadAssign, Loaded, storeVars, flagVars
<1>3. PICK rows : rows = load.rows
  OBVIOUS
<1>4. /\ rows \in SUBSET ChatRows /\ IsFiniteSet(rows) /\ load.seen \subseteq stored
      /\ \A r, q \in rows : r.jid = q.jid => r = q
      /\ \A jid \in JIDs \ load.stale :
           /\ Of(jid, load.seen) # {} =>
                \E r \in rows : r.jid = jid /\ Tells(r, Of(jid, load.seen))
           /\ jid \in muted => \E r \in rows : r.jid = jid /\ r.muted
  BY <1>1, <1>2, <1>3 DEF LoadCovers
<1>5. PICK s \in LoadOrders(rows) : s = Chats'
  BY <1>3 DEF LoadAssign
<1>6. /\ s \in Seq(ChatRows) /\ OneRowEach(s)
      /\ \A r \in rows : \E i \in DOMAIN s : s[i] = r
  BY <1>4, LoadOrderFact
<1>7. Types'
  <2>1. load' \in Loads
    BY <1>2 DEF NoLoad, Loads
  <2>2. Queued' = Queued /\ hidden' \subseteq stored'
    BY <1>2 DEF Queued
  <2>3. overlap' \in BOOLEAN /\ torn' \in BOOLEAN
    BY <1>2
  <2> QED
    BY <1>1, <1>2, <1>5, <1>6, <2>1, <2>2, <2>3 DEF Types
<1>8. LoadCovers'
  BY <1>2 DEF LoadCovers, NoLoad
<1>9. ListCovers'
  <2>1. ASSUME NEW jid \in JIDs \ stale', Shown(jid)' # {}
        PROVE  ListTells(s, jid, Shown(jid)')
    <3>1. PICK T : T = Shown(jid)'
      OBVIOUS
    <3>2. Queued' = Queued
      BY <1>2 DEF Queued
    <3>3. T \subseteq Of(jid, load.seen)
      BY <1>2, <3>1, <3>2 DEF Shown, Of
    <3>4. PICK S : S = Of(jid, load.seen)
      OBVIOUS
    <3>5. S \in SUBSET WAIDs /\ T \in SUBSET S /\ S # {}
      BY <1>1, <1>4, <2>1, <3>1, <3>3, <3>4 DEF Types, Of
    <3>6. PICK r \in rows : r.jid = jid /\ Tells(r, S)
      BY <1>2, <1>4, <3>4, <3>5
    <3>7. Tells(r, T)
      <4>1. counted \cap FromMe = {}
        BY <1>1 DEF Types
      <4> QED
        BY <1>4, <3>5, <3>6, <4>1, TellsLess
    <3> QED
      BY <1>6, <3>1, <3>6, <3>7 DEF ListTells
  <2>2. ASSUME NEW jid \in JIDs \ stale', jid \in muted
        PROVE  \E i \in DOMAIN s : s[i].jid = jid /\ s[i].muted
    <3>1. PICK r \in rows : r.jid = jid /\ r.muted
      BY <1>2, <1>4, <2>2
    <3> QED
      BY <1>6, <3>1
  <2>3. OneRowEach(Chats)'
    BY <1>5, <1>6 DEF OneRowEach
  <2>4. \A jid \in JIDs \ stale' :
          /\ Shown(jid)' # {} => ListTells(Chats', jid, Shown(jid)')
          /\ jid \in muted' => \E i \in DOMAIN Chats' : Chats'[i].jid = jid /\ Chats'[i].muted
    BY <1>2, <1>5, <2>1, <2>2
  <2> QED
    BY <1>2, <2>3, <2>4 DEF ListCovers, ListTells, Tells, LastTS, Unread
<1>10. ClicksMatch' /\ MutedStaySilent' /\ IndicesInRange'
  BY <1>1, <1>2 DEF ClicksMatch, MutedStaySilent, IndicesInRange, Types
<1> QED
  BY <1>7, <1>8, <1>9, <1>10 DEF ChatListInv

\* Where a load and a fold meet, nothing is left to claim of the rows.
LEMMA LoadOverFoldStep ==
  ASSUME ChatListInv, ~panicked, LoadOverFold
  PROVE  ChatListInv'
<1>1. Types /\ LoadCovers
  BY DEF ChatListInv
<1>2. /\ load.on /\ load' = NoLoad /\ hidden' = (stored \ load.seen) \ Queued
      /\ toast' = NoChat /\ torn' = TRUE /\ at = "drain"
      /\ incoming # <<>> /\ incoming' = Tail(incoming)
      /\ panicked' \in BOOLEAN
      /\ UNCHANGED <<stored, counted, known, pinned, archived, muted, selected, at, chatClicks, clicked, overlap>>
  BY <1>1 DEF LoadOverFold, Loaded, storeVars, flagVars, Types
<1>3. /\ Head(incoming) \in WAIDs /\ incoming' \in Seq(WAIDs)
      /\ Held(incoming') \subseteq Held(incoming)
  <2>1. incoming \in Seq(WAIDs)
    BY <1>1 DEF Types
  <2>2. Head(incoming) \in WAIDs
    BY <1>2, <2>1
  <2> QED
    BY <1>2, <2>1, <2>2, QueueFact
<1>4. Chats' \in Seq(ChatRows)
  <2>1. CASE Chats' \in LoadOrders(load.rows)
    <3>1. PICK rows : rows = load.rows
      OBVIOUS
    <3>2. /\ rows \in SUBSET ChatRows /\ IsFiniteSet(rows)
          /\ \A r, q \in rows : r.jid = q.jid => r = q
      BY <1>1, <1>2, <3>1 DEF LoadCovers
    <3>3. PICK s \in LoadOrders(rows) : s = Chats'
      BY <2>1, <3>1
    <3> QED
      BY <3>2, <3>3, LoadOrderFact
  <2>2. CASE Chats' \in Fold(Chats, Head(incoming))
    <3>1. PICK rows \in Seq(ChatRows), w \in WAIDs : rows = Chats /\ w = Head(incoming)
      BY <1>1, <1>3 DEF Types
    <3>2. PICK s \in Fold(rows, w) : s = Chats'
      BY <2>2, <3>1
    <3> QED
      BY <3>1, <3>2, FoldFact
  <2>3. CASE UNCHANGED Chats
    BY <1>1, <2>3 DEF Types
  <2> QED
    BY <2>1, <2>2, <2>3 DEF LoadOverFold
<1>5. Types'
  <2>1. load' \in Loads
    BY <1>2 DEF NoLoad, Loads
  <2>2. Queued' \subseteq stored' /\ hidden' \subseteq stored'
    BY <1>1, <1>2, <1>3 DEF Types, Queued, Held
  <2>3. torn' \in BOOLEAN /\ toast' \in JIDs \cup {NoChat}
    BY <1>2
  <2> QED
    BY <1>1, <1>2, <1>3, <1>4, <2>1, <2>2, <2>3 DEF Types
<1>6. LoadCovers' /\ ListCovers'
  BY <1>2 DEF LoadCovers, NoLoad, ListCovers
<1>7. ClicksMatch' /\ MutedStaySilent' /\ IndicesInRange'
  BY <1>2 DEF ClicksMatch, MutedStaySilent, IndicesInRange
<1> QED
  BY <1>5, <1>6, <1>7 DEF ChatListInv

\* A fold of the next event.
LEMMA FoldNextStep ==
  ASSUME ChatListInv, ~panicked, FoldNext
  PROVE  ChatListInv'
<1>1. Types /\ LoadCovers /\ ListCovers
  BY DEF ChatListInv
<1>2. PICK w : w = Head(incoming)
  OBVIOUS
<1>3. /\ at = "drain" /\ incoming # <<>> /\ incoming' = Tail(incoming)
      /\ Chats' \in Fold(Chats, w)
      /\ toast' = IF Notifies(Chats', w) THEN chat_jid[w] ELSE NoChat
      /\ UNCHANGED <<stored, counted, known, pinned, archived, muted, load, selected, at, chatClicks, clicked,
                     panicked, overlap, stale, hidden, torn>>
  BY <1>2 DEF FoldNext, storeVars, flagVars, frameVars, historyVars
<1>4. /\ w \in WAIDs /\ incoming' \in Seq(WAIDs)
      /\ Held(incoming') \subseteq Held(incoming) /\ Held(incoming) \subseteq Held(incoming') \cup {w}
  <2>1. incoming \in Seq(WAIDs)
    BY <1>1 DEF Types
  <2>2. w \in WAIDs
    BY <1>2, <1>3, <2>1
  <2> QED
    BY <1>2, <1>3, <2>1, <2>2, QueueFact
<1>5. Queued' \subseteq Queued /\ Queued \subseteq Queued' \cup {w}
  BY <1>4 DEF Queued, Held
<1>6. \A jid \in JIDs :
        Shown(jid)' \subseteq Shown(jid) \cup (IF jid = chat_jid[w] THEN {w} ELSE {})
  BY <1>3, <1>5 DEF Shown, Of
<1>7. Chats' \in Seq(ChatRows) /\ ListCovers'
  BY <1>1, <1>3, <1>4, <1>6, FoldKeepsCover
<1>8. LoadCovers'
  <2>1. CountsStay
    BY <1>3 DEF CountsStay
  <2> QED
    BY <1>1, <1>3, <2>1, LoadStays
<1>9. Types'
  <2>1. toast' \in JIDs \cup {NoChat}
    BY <1>3, <1>4, ChatListAssumption
  <2> QED
    BY <1>1, <1>3, <1>4, <1>5, <1>7, <2>1 DEF Types
<1>10. MutedStaySilent'
  <2> SUFFICES ASSUME toast' # NoChat
               PROVE  toast' # selected' /\ (torn' \/ toast' \in stale' \/ toast' \notin muted')
    BY DEF MutedStaySilent
  <2>1. Notifies(Chats', w) /\ toast' = chat_jid[w] /\ chat_jid[w] \in JIDs
    BY <1>3, <1>4, ChatListAssumption
  <2>2. /\ chat_jid[w] # selected'
        /\ ~ \E i \in DOMAIN Chats' : Chats'[i].jid = chat_jid[w] /\ Chats'[i].muted
    BY <1>3, <2>1 DEF Notifies
  <2> QED
    BY <1>7, <2>1, <2>2 DEF ListCovers
<1>11. ClicksMatch' /\ IndicesInRange'
  BY <1>3 DEF ClicksMatch, IndicesInRange
<1> QED
  BY <1>7, <1>8, <1>9, <1>10, <1>11 DEF ChatListInv

\* OnSend within a frame folds the message it stores.
LEMMA LayoutConversationStep ==
  ASSUME ChatListInv, ~panicked, LayoutConversation
  PROVE  ChatListInv'
<1>1. Types /\ LoadCovers /\ ListCovers
  BY DEF ChatListInv
<1>2. /\ at' = "drain" /\ toast' = NoChat
      /\ UNCHANGED <<counted, pinned, archived, muted, incoming, selected, load, chatClicks, clicked,
                     panicked, overlap, stale, hidden, torn>>
  BY DEF LayoutConversation, historyVars, flagVars
<1>3. Queued' = Queued /\ CountsStay
  BY <1>2 DEF Queued, CountsStay
<1>4. /\ stored \subseteq stored' /\ stored' \subseteq WAIDs
      /\ known' \subseteq JIDs /\ known \subseteq known' /\ ChatsOf(stored') \subseteq known'
      /\ Chats' \in Seq(ChatRows) /\ ListCovers'
  <2>1. CASE UNCHANGED <<stored, known, Chats>>
    <3>1. \A jid \in JIDs : Shown(jid)' \subseteq Shown(jid)
      BY <1>2, <1>3, <2>1 DEF Shown, Of
    <3>2. ListCovers'
      BY <1>1, <1>2, <1>3, <2>1, <3>1, LessKeepsCover
    <3> QED
      BY <1>1, <2>1, <3>2 DEF Types, ChatsOf
  <2>2. ASSUME NEW w \in FromMe \ stored, stored' = stored \cup {w}, chat_jid[w] = selected,
               known' = known \cup {selected}, Chats' \in Fold(Chats, w)
        PROVE  /\ stored \subseteq stored' /\ stored' \subseteq WAIDs
               /\ known' \subseteq JIDs /\ known \subseteq known' /\ ChatsOf(stored') \subseteq known'
               /\ Chats' \in Seq(ChatRows) /\ ListCovers'
    <3>1. w \in WAIDs /\ chat_jid[w] \in JIDs
      BY ChatListAssumption
    <3>2. \A jid \in JIDs :
            Shown(jid)' \subseteq Shown(jid) \cup (IF jid = chat_jid[w] THEN {w} ELSE {})
      BY <1>2, <1>3, <2>2 DEF Shown, Of
    <3>3. Chats' \in Seq(ChatRows) /\ ListCovers'
      BY <1>1, <1>2, <2>2, <3>1, <3>2, FoldKeepsCover
    <3>4. known' \subseteq JIDs /\ known \subseteq known' /\ ChatsOf(stored') \subseteq known'
      BY <1>1, <2>2, <3>1 DEF Types, ChatsOf
    <3> QED
      BY <1>1, <2>2, <3>1, <3>3, <3>4 DEF Types
  <2> QED
    BY <2>1, <2>2 DEF LayoutConversation
<1>5. LoadCovers'
  BY <1>1, <1>2, <1>3, <1>4, LoadStays
<1>6. Types'
  BY <1>1, <1>2, <1>3, <1>4 DEF Types, ChatsOf
<1>7. ClicksMatch' /\ MutedStaySilent' /\ IndicesInRange'
  BY <1>2 DEF ClicksMatch, MutedStaySilent, IndicesInRange
<1> QED
  BY <1>4, <1>5, <1>6, <1>7 DEF ChatListInv

\* The other steps of a frame, and a click: the indices they use are those of the
\* list, unless a load assigned within the frame.
LEMMA FrameStep ==
  ASSUME ChatListInv, ~panicked,
         \/ BeginLayout \/ HandleClicks \/ OnBack \/ LayoutChatList
         \/ \E i \in 1..Cardinality(JIDs) : Click(i)
  PROVE  ChatListInv'
<1>1. Types /\ ClicksMatch
  BY DEF ChatListInv
<1>2. /\ toast' = NoChat
      /\ UNCHANGED <<storeVars, incoming, Chats, load, stale, hidden, torn>>
  BY DEF BeginLayout, HandleClicks, OnBack, LayoutChatList, Click, historyVars
<1>3. LoadCovers' /\ ListCovers'
  BY <1>2, FrameKeepsTheRest
<1>4. Len(Chats) \in Nat /\ DOMAIN Chats = 1..Len(Chats) /\ \A i \in DOMAIN Chats : Chats[i].jid \in JIDs
  <2>1. Chats \in Seq(ChatRows)
    BY <1>1 DEF Types
  <2>2. \A i \in DOMAIN Chats : Chats[i] \in ChatRows
    BY <2>1
  <2> QED
    BY <2>1, <2>2 DEF ChatRows
<1>5. chatClicks \in Nat /\ clicked \in 0..chatClicks
  BY <1>1 DEF Types
<1>6. /\ selected' \in JIDs \cup {NoChat} /\ chatClicks' \in Nat /\ clicked' \in 0..chatClicks'
      /\ overlap' \in BOOLEAN /\ panicked' \in BOOLEAN
      /\ at' \in {"drain", "clicks", "sidebar", "conversation"}
      /\ ClicksMatch' /\ IndicesInRange'
  <2> PICK n \in Nat : n = Len(Chats)
    BY <1>4
  <2>1. CASE BeginLayout
    <3>1. /\ at' = "clicks" /\ overlap' = FALSE /\ chatClicks' = n
          /\ clicked' = IF chatClicks = n THEN clicked ELSE 0
          /\ UNCHANGED <<Chats, selected, panicked, torn>>
      BY <1>2, <2>1 DEF BeginLayout
    <3>2. chatClicks' \in Nat /\ clicked' \in 0..chatClicks'
      BY <1>5, <3>1
    <3> QED
      BY <1>1, <3>1, <3>2 DEF Types, ClicksMatch, IndicesInRange
  <2>2. CASE HandleClicks
    <3>1. /\ at = "clicks" /\ at' = "sidebar" /\ clicked' = 0
          /\ UNCHANGED <<Chats, chatClicks, overlap, torn>>
          /\ \/ UNCHANGED <<selected, panicked>>
             \/ clicked \in DOMAIN Chats /\ selected' = Chats[clicked].jid /\ UNCHANGED panicked
             \/ clicked > n /\ panicked' = TRUE /\ UNCHANGED selected
      BY <1>2, <2>2 DEF HandleClicks
    <3>2. overlap \/ chatClicks = n
      BY <1>1, <3>1 DEF ClicksMatch
    <3>3. selected' \in JIDs \cup {NoChat}
      BY <1>1, <1>4, <3>1 DEF Types
    <3>4. clicked' \in 0..chatClicks'
      BY <1>5, <3>1
    <3>5. clicked > n => overlap
      BY <1>5, <3>2
    <3>6. panicked' \in BOOLEAN
      BY <1>1, <3>1 DEF Types
    <3>7. IndicesInRange'
      BY <3>1, <3>5 DEF IndicesInRange
    <3> QED
      BY <1>1, <3>1, <3>3, <3>4, <3>6, <3>7 DEF Types, ClicksMatch
  <2>3. CASE OnBack
    <3>1. /\ selected' = NoChat
          /\ UNCHANGED <<Chats, at, chatClicks, clicked, panicked, overlap, torn>>
      BY <1>2, <2>3 DEF OnBack
    <3> QED
      BY <1>1, <3>1 DEF Types, ClicksMatch, IndicesInRange
  <2>4. CASE LayoutChatList
    <3>1. /\ at = "sidebar" /\ at' = "conversation" /\ panicked' = (n > chatClicks)
          /\ UNCHANGED <<Chats, selected, chatClicks, clicked, overlap, torn>>
      BY <1>2, <2>4 DEF LayoutChatList
    <3>2. overlap \/ chatClicks = n
      BY <1>1, <3>1 DEF ClicksMatch
    <3>3. n > chatClicks => overlap
      BY <1>5, <3>2
    <3>4. panicked' \in BOOLEAN
      BY <3>1
    <3>5. IndicesInRange'
      BY <3>1, <3>3 DEF IndicesInRange
    <3> QED
      BY <1>1, <3>1, <3>4, <3>5 DEF Types, ClicksMatch
  <2>5. ASSUME NEW i \in 1..Cardinality(JIDs), Click(i)
        PROVE  /\ UNCHANGED <<selected, at, chatClicks, panicked, overlap>>
               /\ clicked' \in 0..chatClicks /\ at = "drain"
    BY <1>5, <2>5 DEF Click
  <2>6. CASE \E i \in 1..Cardinality(JIDs) : Click(i)
    BY <1>1, <1>5, <2>5, <2>6 DEF Types, ClicksMatch, IndicesInRange
  <2> QED
    BY <2>1, <2>2, <2>3, <2>4, <2>6
<1>7. Types'
  <2>1. UNCHANGED <<stored, counted, known, pinned, archived, muted>> /\ Queued' = Queued
    BY <1>2 DEF storeVars, flagVars, Queued
  <2> QED
    BY <1>1, <1>2, <1>6, <2>1 DEF Types
<1>8. MutedStaySilent'
  BY <1>2 DEF MutedStaySilent
<1> QED
  BY <1>3, <1>6, <1>7, <1>8 DEF ChatListInv

-----------------------------------------------------------------------------
(* The theorems *)

\* The invariant is inductive: every step of whatsmeow's goroutines, of LoadChats
\* and of the frame loop keeps it, in any order.
THEOREM ChatListInvariant == Spec => []ChatListInv
<1>1. Init => ChatListInv
  BY InitHolds
<1>2. ChatListInv /\ [Next]_vars => ChatListInv'
  <2> SUFFICES ASSUME ChatListInv, [Next]_vars PROVE ChatListInv'
    OBVIOUS
  <2>1. CASE Next
    <3>1. ~panicked /\ Step
      BY <2>1 DEF Next
    <3>2. \A w \in WAIDs : OnMessage(w) => ChatListInv'
      BY <3>1, OnMessageStep
    <3>3. (\E h \in Histories : OnHistorySync(h)) \/ (\E jid \in JIDs : applyPushName(jid))
            => ChatListInv'
      BY <3>1, NoEventStep
    <3>4. \A jid \in JIDs : applyPin(jid) \/ applyArchive(jid) \/ applyMute(jid) => ChatListInv'
      BY <3>1, AppStateStep
    <3>5. LoadQuery \/ LoadAssign \/ LoadOverFold => ChatListInv'
      BY <3>1, LoadQueryStep, LoadAssignStep, LoadOverFoldStep
    <3>6. FoldNext \/ LayoutConversation => ChatListInv'
      BY <3>1, FoldNextStep, LayoutConversationStep
    <3>7. \/ BeginLayout \/ HandleClicks \/ OnBack \/ LayoutChatList
          \/ \E i \in 1..Cardinality(JIDs) : Click(i)
          => ChatListInv'
      BY <3>1, FrameStep
    <3> QED
      BY <3>1, <3>2, <3>3, <3>4, <3>5, <3>6, <3>7 DEF Step
  <2>2. CASE UNCHANGED vars
    <3>1. /\ UNCHANGED <<storeVars, incoming, Chats, load, stale, hidden, torn>>
          /\ UNCHANGED <<selected, at, chatClicks, clicked, panicked, overlap, toast>>
      BY <2>2 DEF vars, frameVars, historyVars
    <3>2. LoadCovers' /\ ListCovers'
      BY <3>1, FrameKeepsTheRest
    <3>3. Types'
      BY <3>1 DEF ChatListInv, Types, Queued, ChatsOf, storeVars, flagVars
    <3>4. ClicksMatch' /\ MutedStaySilent' /\ IndicesInRange'
      BY <3>1 DEF ChatListInv, ClicksMatch, MutedStaySilent, IndicesInRange, storeVars, flagVars
    <3> QED
      BY <3>2, <3>3, <3>4 DEF ChatListInv
  <2> QED
    BY <2>1, <2>2
<1> QED
  BY <1>1, <1>2, PTL DEF Spec

\* The list has one row per chat, through folds of any events and loads at any
\* moment, and the store's sets fit together.
THEOREM ChatListTypes == Spec => []ChatListTypeOK
<1>1. ChatListInv => ChatListTypeOK
  BY DEF ChatListInv, Types, ListCovers, OneRowEach, ChatListTypeOK
<1> QED
  BY <1>1, ChatListInvariant, PTL

\* The chat list misses no message whose event has been folded since the load's
\* query: those it misses are queued or are in `hidden` (dropped, folded around a
\* load, stored by a history sync) or in chats that are in `stale`.
THEOREM ListIsComplete == Spec => []ListHidesNothing
<1>1. ChatListInv => ListHidesNothing
  BY DEF ChatListInv, ListCovers, ListTells, Tells, Shown, ListHidesNothing
<1> QED
  BY <1>1, ChatListInvariant, PTL

\* notify.go:5-8: a chat muted and listed at the load never notifies, nor does the
\* open one.
THEOREM MutedIsSilent == Spec => []MutedStaySilent
<1>1. ChatListInv => MutedStaySilent
  BY DEF ChatListInv
<1> QED
  BY <1>1, ChatListInvariant, PTL

\* Layout indexes no row and no Clickable that is not there, but where LoadChats
\* assigned in the middle of a frame or of a fold.
THEOREM IndicesStayInRange == Spec => []IndicesInRange
<1>1. ChatListInv => IndicesInRange
  BY DEF ChatListInv
<1> QED
  BY <1>1, ChatListInvariant, PTL

\* Every fold has one result and every load an order to be assigned in: no step
\* that sorts is missing from the behaviours the other theorems speak of.
SortsAreDefined ==
  /\ \A w \in WAIDs : \E s : Fold(Chats, w) = {s}
  /\ load.on => LoadOrders(load.rows) # {}

\* It holds of every state.
THEOREM SortsAlwaysEnd == Spec => []SortsAreDefined
<1>1. ASSUME ChatListInv PROVE SortsAreDefined
  <2>1. ASSUME NEW w \in WAIDs PROVE \E s : Fold(Chats, w) = {s}
    <3>1. PICK rows \in Seq(ChatRows) : rows = Chats
      BY <1>1 DEF ChatListInv, Types
    <3>2. PICK more \in Seq(ChatRows) : more = Upsert(rows, w)
      BY UpsertFact
    <3> QED
      BY <3>1, <3>2, SortIsAFunction DEF Fold
  <2>2. ASSUME load.on PROVE LoadOrders(load.rows) # {}
    <3>1. PICK rows : rows = load.rows
      OBVIOUS
    <3>2. rows \in SUBSET ChatRows /\ IsFiniteSet(rows)
      BY <1>1, <2>2, <3>1 DEF ChatListInv, LoadCovers
    <3> QED
      BY <3>1, <3>2, LoadOrderExists
  <2> QED
    BY <2>1, <2>2 DEF SortsAreDefined
<1> QED
  BY <1>1, ChatListInvariant, PTL

=============================================================================
