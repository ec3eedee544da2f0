---------------------------- MODULE PagingProofs ----------------------------
(***************************************************************************)
(* What the window of the open chat always satisfies, proved for every set *)
(* of chats, messages, times and histories, and every page size.           *)
(*                                                                         *)
(* The inductive invariant adds three facts to the properties: rows are    *)
(* distinct, no row loaded by a query is older than the cursor, and what a *)
(* jump has read so far stands in order above its anchor.  The last        *)
(* theorem says that each query the steps make has exactly one page.       *)
(***************************************************************************)
EXTENDS Paging, OrderLemmas, FiniteSetTheorems, TLAPS

Key == [ts : Nat, id : Nat]

RowsDistinct == \A i, j \in RowIds : rows[i] = rows[j] => i = j

CursorBound ==
  \A k \in DOMAIN Messages : Messages[k].id # 0 => ~Before(KeyOf(Messages[k].id), Cursor)

JumpInOrder ==
  jump # NoJump =>
    /\ jump.anchor \in RowIds
    /\ jump.newer \in Seq(RowsOf(chat_jid[rows[jump.anchor]]))
    /\ \A k \in DOMAIN jump.newer : Before(KeyOf(jump.anchor), KeyOf(jump.newer[k]))
    /\ \A i, j \in DOMAIN jump.newer :
         i < j => Before(KeyOf(jump.newer[j]), KeyOf(jump.newer[i]))

PagingInv ==
  PagingTypeOK /\ RowsDistinct /\ CursorBound /\ JumpInOrder /\ WindowExact
    /\ PagesInOrder /\ TwiceOnlyByWalk

-----------------------------------------------------------------------------
(* Keys are strictly and totally ordered *)

\* No key is before itself, and of two keys in a row the first is before the
\* last.
LEMMA BeforeIsStrict ==
  ASSUME NEW a \in Key, NEW b \in Key, NEW c \in Key
  PROVE  /\ ~Before(a, a)
         /\ Before(a, b) /\ Before(b, c) => Before(a, c)
         /\ Before(a, b) /\ ~Before(c, b) => Before(a, c)
         /\ ~Before(b, a) /\ ~Before(c, b) => ~Before(c, a)
         /\ Before(a, b) => ~Before(b, a)
  BY DEF Key, Before

\* Two keys neither of which is before the other are the same.
LEMMA BeforeIsTotal ==
  ASSUME NEW a \in Key, NEW b \in Key, ~Before(a, b), ~Before(b, a)
  PROVE  a.ts = b.ts /\ a.id = b.id
  BY DEF Key, Before

\* The key of a row; the zero cursor is before each of them.
LEMMA RowKey ==
  ASSUME PagingTypeOK, NEW i \in RowIds
  PROVE  /\ KeyOf(i) \in Key /\ KeyOf(i).id = i /\ KeyOf(i) # NoCursor
         /\ ~Before(KeyOf(i), NoCursor)
<1>1. rows[i] \in WAIDs /\ i \in Nat /\ i >= 1
  BY DEF PagingTypeOK, RowIds
<1>2. ts[rows[i]] \in Nat
  BY <1>1, PagingAssumption
<1> QED
  BY <1>1, <1>2 DEF KeyOf, Key, NoCursor, Before

\* The cursor is a key.
LEMMA CursorKey ==
  ASSUME PagingTypeOK
  PROVE  Cursor \in Key
<1>1. CASE Cursor = NoCursor
  BY <1>1 DEF NoCursor, Key
<1>2. ASSUME NEW i \in RowsOf(selected), Cursor = KeyOf(i) PROVE Cursor \in Key
  BY <1>2, RowKey DEF RowsOf
<1> QED
  BY <1>1, <1>2 DEF PagingTypeOK

-----------------------------------------------------------------------------
(* Pages *)

\* What a page of a set of rows holds.
LEMMA PageRows ==
  ASSUME NEW S, NEW limit \in Nat, NEW page \in NewestOf(S, limit)
  PROVE  /\ page \in Seq(S) /\ DOMAIN page = 1..Len(page) /\ Len(page) \in Nat
         /\ \A i, j \in DOMAIN page : i < j => Before(KeyOf(page[j]), KeyOf(page[i]))
         /\ \A r \in S : (\E k \in DOMAIN page : page[k] = r)
              \/ (Len(page) = limit /\ \A k \in DOMAIN page : Before(KeyOf(r), KeyOf(page[k])))
<1>1. PICK m \in 0..limit : page \in [1..m -> S]
  BY DEF NewestOf, BoundedSeq, SeqOf
<1>2. page \in Seq(S) /\ DOMAIN page = 1..Len(page) /\ Len(page) \in Nat
  BY <1>1
<1>3. \A i, j \in DOMAIN page : i < j => Before(KeyOf(page[j]), KeyOf(page[i]))
  BY DEF NewestOf
<1>4. \A r \in S \ {page[k] : k \in DOMAIN page} :
        Len(page) = limit /\ \A k \in DOMAIN page : Before(KeyOf(r), KeyOf(page[k]))
  BY DEF NewestOf
<1> QED
  BY <1>2, <1>3, <1>4

\* The cursor of a page that is not empty is its lowest key.
LEMMA PageCursor ==
  ASSUME PagingTypeOK, NEW page \in Seq(RowIds), page # <<>>,
         \A i, j \in DOMAIN page : i < j => Before(KeyOf(page[j]), KeyOf(page[i]))
  PROVE  /\ Len(page) \in DOMAIN page
         /\ NextCursor(page) = KeyOf(page[Len(page)])
         /\ \A k \in DOMAIN page : ~Before(KeyOf(page[k]), NextCursor(page))
<1>1. /\ Len(page) \in DOMAIN page /\ DOMAIN page = 1..Len(page) /\ Len(page) \in Nat
      /\ \A k \in DOMAIN page : page[k] \in RowIds
  OBVIOUS
<1>2. NextCursor(page) = KeyOf(page[Len(page)])
  BY DEF NextCursor
<1>3. ASSUME NEW k \in DOMAIN page PROVE ~Before(KeyOf(page[k]), KeyOf(page[Len(page)]))
  <2>1. KeyOf(page[k]) \in Key /\ KeyOf(page[Len(page)]) \in Key
    BY <1>1, RowKey
  <2>2. CASE k = Len(page)
    BY <2>1, <2>2, BeforeIsStrict
  <2>3. CASE k # Len(page)
    <3>1. k < Len(page)
      BY <1>1, <2>3
    <3>2. Before(KeyOf(page[Len(page)]), KeyOf(page[k]))
      BY <1>1, <3>1
    <3> QED
      BY <2>1, <3>2, BeforeIsStrict
  <2> QED
    BY <2>2, <2>3
<1> QED
  BY <1>1, <1>2, <1>3

\* The entries of a page are its rows.
LEMMA PageEntries ==
  ASSUME PagingTypeOK, NEW page \in Seq(RowIds)
  PROVE  /\ Entries(page) \in Seq([wa_id : WAIDs, id : Nat])
         /\ Len(Entries(page)) = Len(page) /\ DOMAIN Entries(page) = DOMAIN page
         /\ \A k \in DOMAIN page : /\ Entries(page)[k].id = page[k] /\ page[k] # 0
                                   /\ page[k] \in RowIds
                                   /\ Entries(page)[k].wa_id = rows[page[k]]
<1>1. /\ DOMAIN page = 1..Len(page) /\ Len(page) \in Nat
      /\ \A k \in DOMAIN page : page[k] \in RowIds
  OBVIOUS
<1>2. \A i \in RowIds : /\ Entry(i) \in [wa_id : WAIDs, id : Nat] /\ i # 0
                        /\ Entry(i).id = i /\ Entry(i).wa_id = rows[i]
  BY DEF PagingTypeOK, RowIds, Entry
<1>3. Entries(page) = [k \in 1..Len(page) |-> Entry(page[k])]
  BY <1>1 DEF Entries
<1> QED
  BY <1>1, <1>2, <1>3

\* A page misses no row of its query that is not older than its cursor.
LEMMA PageIsComplete ==
  ASSUME PagingTypeOK, NEW S \in SUBSET RowIds, NEW limit \in Nat \ {0},
         NEW page \in NewestOf(S, limit),
         NEW r \in S, ~Before(KeyOf(r), NextCursor(page))
  PROVE  \E k \in DOMAIN page : page[k] = r
<1> SUFFICES ASSUME ~ \E k \in DOMAIN page : page[k] = r
             PROVE  FALSE
  OBVIOUS
<1>1. /\ page \in Seq(S) /\ Len(page) = limit
      /\ \A k \in DOMAIN page : Before(KeyOf(r), KeyOf(page[k]))
      /\ \A i, j \in DOMAIN page : i < j => Before(KeyOf(page[j]), KeyOf(page[i]))
  BY PageRows
<1>2. page # <<>> /\ page \in Seq(RowIds)
  BY <1>1
<1> QED
  BY <1>1, <1>2, PageCursor

\* Of two pages of one query, the one that is not longer is the other.
LEMMA PagesAgree ==
  ASSUME PagingTypeOK, NEW S \in SUBSET RowIds, NEW limit \in Nat,
         NEW a \in NewestOf(S, limit), NEW b \in NewestOf(S, limit), Len(a) <= Len(b)
  PROVE  a = b
<1>1. /\ a \in Seq(S) /\ DOMAIN a = 1..Len(a) /\ Len(a) \in Nat
      /\ b \in Seq(S) /\ DOMAIN b = 1..Len(b) /\ Len(b) \in Nat
      /\ \A i, j \in DOMAIN a : i < j => Before(KeyOf(a[j]), KeyOf(a[i]))
      /\ \A i, j \in DOMAIN b : i < j => Before(KeyOf(b[j]), KeyOf(b[i]))
  BY PageRows
<1>2. Len(b) <= limit
  <2>1. PICK m \in 0..limit : b \in [1..m -> S]
    BY DEF NewestOf, BoundedSeq, SeqOf
  <2>2. Len(b) = m
    BY <2>1
  <2> QED
    BY <2>2
<1> DEFINE Off == {k \in 1..Len(b) : k <= Len(a) => a[k] # b[k]}
<1>3. SUFFICES ASSUME Off # {} PROVE FALSE
  <2>1. ASSUME Off = {} PROVE a = b
    <3>1. \A k \in 1..Len(b) : k <= Len(a) /\ a[k] = b[k]
      BY <2>1
    <3>2. Len(a) = Len(b)
      <4>1. PICK m \in Nat, n \in Nat : m = Len(a) /\ n = Len(b)
        BY <1>1
      <4>2. m <= n /\ \A k \in 1..n : k <= m
        BY <3>1, <4>1
      <4>3. m = n
        BY <4>2
      <4> QED
        BY <4>1, <4>3
    <3> QED
      BY <1>1, <3>1, <3>2
  <2> QED
    BY <1>3, <2>1
<1>4. PICK k \in Off : \A i \in Off : k <= i
  <2>1. Off \subseteq Nat
    OBVIOUS
  <2> HIDE DEF Off
  <2> QED
    BY <1>3, <2>1, LeastNumber
<1>5. /\ k \in 1..Len(b) /\ (k <= Len(a) => a[k] # b[k])
      /\ \A i \in 1..Len(b) : i < k => i <= Len(a) /\ a[i] = b[i]
  BY <1>4
<1> HIDE DEF Off
<1>6. \A i, j \in 1..Len(b) : b[i] = b[j] => i = j
  <2> SUFFICES ASSUME NEW i \in 1..Len(b), NEW j \in 1..Len(b), b[i] = b[j], i < j PROVE FALSE
    BY <1>1
  <2>1. Before(KeyOf(b[j]), KeyOf(b[i]))
    BY <1>1
  <2>2. b[i] \in RowIds
    BY <1>1
  <2> QED
    BY <2>1, <2>2, RowKey, BeforeIsStrict
<1>7. \A i, j \in 1..Len(a) : a[i] = a[j] => i = j
  <2> SUFFICES ASSUME NEW i \in 1..Len(a), NEW j \in 1..Len(a), a[i] = a[j], i < j PROVE FALSE
    BY <1>1
  <2>1. Before(KeyOf(a[j]), KeyOf(a[i]))
    BY <1>1
  <2>2. a[i] \in RowIds
    BY <1>1
  <2> QED
    BY <2>1, <2>2, RowKey, BeforeIsStrict
<1>8. CASE k <= Len(a)
  <2>1. k \in DOMAIN a /\ k \in DOMAIN b /\ a[k] \in S /\ b[k] \in S /\ a[k] # b[k]
    BY <1>1, <1>5, <1>8
  <2>2. Before(KeyOf(a[k]), KeyOf(b[k]))
    <3>1. CASE \E j \in DOMAIN b : b[j] = a[k]
      <4>1. PICK j \in DOMAIN b : b[j] = a[k]
        BY <3>1
      <4>2. ~(j < k) /\ j # k
        <5>1. ASSUME j < k PROVE FALSE
          <6>1. a[j] = b[j] /\ j \in 1..Len(a) /\ k \in 1..Len(a)
            BY <1>1, <1>5, <1>8, <4>1, <5>1
          <6> QED
            BY <1>7, <4>1, <5>1, <6>1
        <5> QED
          BY <2>1, <4>1, <5>1
      <4>3. k < j
        BY <1>1, <1>5, <4>1, <4>2
      <4> QED
        BY <2>1, <4>1, <4>3, PageRows
    <3>2. CASE ~ \E j \in DOMAIN b : b[j] = a[k]
      BY <2>1, <3>2, PageRows
    <3> QED
      BY <3>1, <3>2
  <2>3. Before(KeyOf(b[k]), KeyOf(a[k]))
    <3>1. CASE \E j \in DOMAIN a : a[j] = b[k]
      <4>1. PICK j \in DOMAIN a : a[j] = b[k]
        BY <3>1
      <4>2. ~(j < k) /\ j # k
        <5>1. ASSUME j < k PROVE FALSE
          <6>1. a[j] = b[j] /\ j \in 1..Len(b)
            BY <1>1, <1>5, <4>1, <5>1
          <6> QED
            BY <1>5, <1>6, <4>1, <5>1, <6>1
        <5> QED
          BY <2>1, <4>1, <5>1
      <4>3. k < j
        BY <1>1, <1>5, <4>1, <4>2
      <4> QED
        BY <2>1, <4>1, <4>3, PageRows
    <3>2. CASE ~ \E j \in DOMAIN a : a[j] = b[k]
      BY <2>1, <3>2, PageRows
    <3> QED
      BY <3>1, <3>2
  <2> QED
    BY <2>1, <2>2, <2>3, RowKey, BeforeIsStrict
<1>9. CASE Len(a) < k
  <2>1. k \in DOMAIN b /\ b[k] \in S
    BY <1>1, <1>5
  <2>2. Len(a) # limit
    <3>1. k \in Nat /\ k <= Len(b)
      BY <1>1, <1>5
    <3>2. PICK m \in Nat, n \in Nat : m = Len(a) /\ n = Len(b)
      BY <1>1
    <3>3. m < k /\ k <= n /\ n <= limit
      BY <1>2, <1>9, <3>1, <3>2
    <3>4. m # limit
      BY <3>1, <3>3
    <3> QED
      BY <3>2, <3>4
  <2>3. PICK j \in DOMAIN a : a[j] = b[k]
    BY <2>2, <2>1, PageRows
  <2>4. j < k /\ j \in 1..Len(b)
    BY <1>1, <1>5, <1>9, <2>3
  <2>5. b[j] = b[k]
    BY <1>5, <2>3, <2>4
  <2> QED
    BY <1>5, <1>6, <2>4, <2>5
<1> QED
  BY <1>1, <1>5, <1>8, <1>9

\* Every query has a page.
LEMMA PageExists ==
  ASSUME PagingTypeOK, NEW S \in SUBSET RowIds, NEW limit \in Nat
  PROVE  NewestOf(S, limit) # {}
<1> DEFINE R == {p \in S \X S : Before(KeyOf(p[2]), KeyOf(p[1]))}
<1>1. \A x, y \in S : <<x, y>> \in R <=> Before(KeyOf(y), KeyOf(x))
  OBVIOUS
<1>2. \A x \in S : KeyOf(x) \in Key /\ KeyOf(x).id = x
  BY RowKey
<1>3. IsFiniteSet(S)
  <2>1. IsFiniteSet(RowIds)
    BY FS_Interval DEF RowIds, PagingTypeOK
  <2> QED
    BY <2>1, FS_Subset
<1> HIDE DEF R
<1>4. TotalOrder(S, R)
  <2>1. \A x \in S : <<x, x>> \notin R
    BY <1>1, <1>2, BeforeIsStrict
  <2>2. \A x, y, z \in S : <<x, y>> \in R /\ <<y, z>> \in R => <<x, z>> \in R
    BY <1>1, <1>2, BeforeIsStrict
  <2>3. \A x, y \in S : x = y \/ <<x, y>> \in R \/ <<y, x>> \in R
    <3> SUFFICES ASSUME NEW x \in S, NEW y \in S, <<x, y>> \notin R, <<y, x>> \notin R
                 PROVE  x = y
      OBVIOUS
    <3>1. ~Before(KeyOf(x), KeyOf(y)) /\ ~Before(KeyOf(y), KeyOf(x))
      BY <1>1
    <3>2. KeyOf(x).id = KeyOf(y).id
      BY <1>2, <3>1, BeforeIsTotal
    <3> QED
      BY <1>2, <3>2
  <2> QED
    BY <2>1, <2>2, <2>3 DEF TotalOrder, StrictOrder
<1>5. PICK n \in Nat : n = Cardinality(S)
  BY <1>3, FS_CardinalityType
<1>6. PICK q : Sorted(S, R) = {q}
  BY <1>3, <1>4, SortedOnce
<1>7. q \in [1..n -> S] /\ \A i, j \in 1..n : i < j => Before(KeyOf(q[j]), KeyOf(q[i]))
  <2>1. q \in [1..n -> S] /\ \A i, j \in 1..n : i < j => <<q[i], q[j]>> \in R
    BY <1>5, <1>6 DEF Sorted
  <2> QED
    BY <1>1, <2>1
<1>8. \A x \in S : \E i \in 1..n : q[i] = x
  <2>1. \A i, j \in 1..n : i # j => q[i] # q[j]
    <3> SUFFICES ASSUME NEW i \in 1..n, NEW j \in 1..n, i < j, q[i] = q[j] PROVE FALSE
      OBVIOUS
    <3>1. Before(KeyOf(q[j]), KeyOf(q[i])) /\ q[i] \in S
      BY <1>7
    <3> QED
      BY <1>2, <3>1, BeforeIsStrict
  <2> QED
    BY <1>3, <1>5, <1>7, <2>1, OrderIsOnto
<1>9. PICK m \in 0..limit : m <= n /\ (m < n => m = limit)
  <2>1. CASE limit <= n
    BY <2>1
  <2>2. CASE n < limit
    BY <2>2
  <2> QED
    BY <2>1, <2>2
<1> DEFINE page == [k \in 1..m |-> q[k]]
<1>10. \A k \in 1..m : k \in 1..n /\ page[k] = q[k]
  BY <1>9
<1>11. page \in [1..m -> S] /\ DOMAIN page = 1..m
  BY <1>7, <1>10
<1> HIDE DEF page
<1>12. page \in BoundedSeq(S, limit) /\ Len(page) = m
  BY <1>9, <1>11 DEF BoundedSeq, SeqOf
<1>13. \A i, j \in DOMAIN page : i < j => Before(KeyOf(page[j]), KeyOf(page[i]))
  BY <1>7, <1>10, <1>11
<1>14. ASSUME NEW r \in S \ {page[k] : k \in DOMAIN page}
       PROVE  Len(page) = limit /\ \A k \in DOMAIN page : Before(KeyOf(r), KeyOf(page[k]))
  <2>1. PICK i \in 1..n : q[i] = r
    BY <1>8
  <2>2. i \notin 1..m
    BY <1>10, <1>11, <1>14, <2>1
  <2>3. m < i /\ m = limit
    BY <1>9, <2>2
  <2>4. \A k \in 1..m : k < i
    BY <2>3
  <2> QED
    BY <1>7, <1>10, <1>11, <1>12, <2>1, <2>3, <2>4
<1>15. page \in NewestOf(S, limit)
  BY <1>12, <1>13, <1>14 DEF NewestOf
<1> QED
  BY <1>15

-----------------------------------------------------------------------------
(* The steps *)

\* Rows that are only added keep their ids and their keys.
LEMMA RowsGrow ==
  ASSUME PagingTypeOK, rows' \in Seq(WAIDs), Len(rows) <= Len(rows'),
         \A i \in RowIds : rows'[i] = rows[i],
         UNCHANGED <<window, jump>>
  PROVE  /\ RowIds \subseteq RowIds' /\ Stored \subseteq Stored'
         /\ \A i \in RowIds : KeyOf(i)' = KeyOf(i)
         /\ \A i \in RowIds' : i \in RowIds \/ i > Len(rows)
         /\ \A jid : RowsOf(jid) \subseteq RowsOf(jid)'
         /\ \A jid : \A i \in RowsOf(jid)' : i \in RowIds => i \in RowsOf(jid)
<1>1. RowIds \subseteq RowIds' /\ \A i \in RowIds' : i \in RowIds \/ i > Len(rows)
  BY DEF RowIds, PagingTypeOK
<1>2. \A i \in RowIds : KeyOf(i)' = KeyOf(i)
  BY DEF KeyOf
<1>3. Stored \subseteq Stored'
  BY <1>1 DEF Stored
<1>4. /\ \A jid : RowsOf(jid) \subseteq RowsOf(jid)'
      /\ \A jid : \A i \in RowsOf(jid)' : i \in RowIds => i \in RowsOf(jid)
  BY <1>1 DEF RowsOf
<1> QED
  BY <1>1, <1>2, <1>3, <1>4

\* Storing rows leaves alone what was said of the window and of a jump.
LEMMA WindowKept ==
  ASSUME PagingInv, rows' \in Seq(WAIDs), Len(rows) <= Len(rows'),
         \A i \in RowIds : rows'[i] = rows[i],
         UNCHANGED <<window, jump>>
  PROVE  /\ CursorBound' /\ JumpInOrder' /\ PagesInOrder' /\ TwiceOnlyByWalk'
         /\ \A k \in DOMAIN Messages' :
              /\ chat_jid[Messages'[k].wa_id] = selected'
              /\ Messages'[k].id # 0 =>
                   Messages'[k].id \in RowIds' /\ rows'[Messages'[k].id] = Messages'[k].wa_id
         /\ Cursor' = NoCursor \/ \E i \in RowsOf(selected)' : Cursor' = KeyOf(i)'
         /\ jump' \in [anchor : {0} \cup RowIds', newer : Seq(RowIds'), mark : {0} \cup RowIds']
<1>1. /\ RowIds \subseteq RowIds'
      /\ \A i \in RowIds : KeyOf(i)' = KeyOf(i)
      /\ \A jid : RowsOf(jid) \subseteq RowsOf(jid)'
  BY RowsGrow DEF PagingInv
<1>2. UNCHANGED <<selected, Messages, Cursor, jump>>
  BY DEF window
<1>3. \A k \in DOMAIN Messages : Messages[k].id # 0 => Messages[k].id \in RowIds
  BY DEF PagingInv, PagingTypeOK
<1>4. CursorBound'
  BY <1>1, <1>2, <1>3 DEF PagingInv, CursorBound, Before
<1>5. PagesInOrder'
  BY <1>1, <1>2, <1>3 DEF PagingInv, PagesInOrder, Before
<1>6. TwiceOnlyByWalk'
  BY <1>2 DEF PagingInv, TwiceOnlyByWalk
<1>7. ASSUME jump # NoJump PROVE JumpInOrder'
  <2>1. /\ jump.anchor \in RowIds
        /\ jump.newer \in Seq(RowsOf(chat_jid[rows[jump.anchor]]))
        /\ \A k \in DOMAIN jump.newer : Before(KeyOf(jump.anchor), KeyOf(jump.newer[k]))
        /\ \A i, j \in DOMAIN jump.newer :
             i < j => Before(KeyOf(jump.newer[j]), KeyOf(jump.newer[i]))
    BY <1>7 DEF PagingInv, JumpInOrder
  <2>2. \A k \in DOMAIN jump.newer : jump.newer[k] \in RowIds
    BY <2>1 DEF RowsOf
  <2>3. rows'[jump.anchor] = rows[jump.anchor]
    BY <2>1
  <2>4. jump.newer \in Seq(RowsOf(chat_jid[rows[jump.anchor]])')
    <3>1. RowsOf(chat_jid[rows[jump.anchor]]) \subseteq RowsOf(chat_jid[rows[jump.anchor]])'
      BY <2>3, <1>1 DEF RowsOf
    <3> QED
      BY <2>1, <3>1
  <2>5. /\ \A k \in DOMAIN jump.newer :
             KeyOf(jump.newer[k])' = KeyOf(jump.newer[k])
        /\ KeyOf(jump.anchor)' = KeyOf(jump.anchor)
    BY <2>1, <2>2, <1>1, <1>2 DEF KeyOf
  <2> QED
    BY <1>1, <1>2, <2>1, <2>3, <2>4, <2>5 DEF JumpInOrder, Before
<1>8. JumpInOrder'
  BY <1>2, <1>7 DEF JumpInOrder, NoJump
<1>9. \A k \in DOMAIN Messages' :
              /\ chat_jid[Messages'[k].wa_id] = selected'
              /\ Messages'[k].id # 0 =>
                   Messages'[k].id \in RowIds' /\ rows'[Messages'[k].id] = Messages'[k].wa_id
  BY <1>1, <1>2 DEF PagingInv, PagingTypeOK
<1>10. Cursor' = NoCursor \/ \E i \in RowsOf(selected)' : Cursor' = KeyOf(i)'
  <2>1. ASSUME NEW i \in RowsOf(selected), Cursor = KeyOf(i)
        PROVE  i \in RowsOf(selected)' /\ Cursor' = KeyOf(i)'
    BY <1>1, <1>2, <2>1 DEF RowsOf
  <2> QED
    BY <1>2, <2>1 DEF PagingInv, PagingTypeOK
<1>11. jump' \in [anchor : {0} \cup RowIds', newer : Seq(RowIds'), mark : {0} \cup RowIds']
  BY <1>1, <1>2 DEF PagingInv, PagingTypeOK
<1> QED
  BY <1>4, <1>5, <1>6, <1>8, <1>9, <1>10, <1>11

\* OnMessage: the new row, if it is one, is in flight.
LEMMA OnMessageStep ==
  ASSUME PagingInv, NEW w \in Live, OnMessage(w)
  PROVE  PagingInv'
<1>1. UNCHANGED <<window, jump>> /\ w \in WAIDs /\ rows \in Seq(WAIDs)
      /\ skipped' = skipped /\ bypassed' = bypassed /\ inflight' = inflight \cup {w}
  BY PagingAssumption DEF OnMessage, PagingInv, PagingTypeOK
<1>2. /\ rows' \in Seq(WAIDs) /\ Len(rows) <= Len(rows')
      /\ \A i \in RowIds : rows'[i] = rows[i]
      /\ \A i \in RowIds' : i \in RowIds \/ (w \notin Stored /\ i = Len(rows) + 1 /\ rows'[i] = w)
      /\ w \in Stored'
  <2>1. CASE w \in Stored
    <3>1. rows' = rows
      BY <2>1 DEF OnMessage
    <3> QED
      BY <3>1, <2>1, <1>1 DEF RowIds, Stored
  <2>2. CASE w \notin Stored
    <3>1. rows' = Append(rows, w)
      BY <2>2 DEF OnMessage
    <3>2. /\ rows' \in Seq(WAIDs) /\ Len(rows') = Len(rows) + 1 /\ Len(rows) \in Nat
          /\ \A i \in 1..Len(rows) : rows'[i] = rows[i]
          /\ rows'[Len(rows) + 1] = w
      BY <3>1, <1>1
    <3> QED
      BY <3>2, <2>2 DEF RowIds, Stored
  <2> QED
    BY <2>1, <2>2
<1>3. /\ RowIds \subseteq RowIds' /\ Stored \subseteq Stored'
      /\ \A i \in RowIds : KeyOf(i)' = KeyOf(i)
      /\ \A jid : \A i \in RowsOf(jid)' : i \in RowIds => i \in RowsOf(jid)
  BY <1>1, <1>2, RowsGrow DEF PagingInv
<1>4. PagingTypeOK'
  <2>1. inflight' \subseteq (Stored \cap Live)'
    BY <1>1, <1>2, <1>3 DEF PagingInv, PagingTypeOK
  <2> QED
    BY <1>1, <1>2, <2>1, WindowKept DEF PagingInv, PagingTypeOK, window
<1>5. RowsDistinct'
  BY <1>2 DEF PagingInv, RowsDistinct, Stored
<1>6. WindowExact'
  <2> SUFFICES ASSUME NEW i \in RowsOf(selected)', ~Before(KeyOf(i), Cursor)'
               PROVE  rows'[i] \in (Loaded \cup inflight \cup skipped \cup bypassed)'
    BY DEF WindowExact
  <2>1. CASE i \in RowIds
    <3>1. i \in RowsOf(selected) /\ ~Before(KeyOf(i), Cursor)
      BY <2>1, <1>1, <1>3 DEF window, Before
    <3>2. rows[i] \in Loaded \cup inflight \cup skipped \cup bypassed
      BY <3>1 DEF PagingInv, WindowExact
    <3> QED
      BY <3>2, <2>1, <1>1, <1>2 DEF Loaded, window
  <2>2. CASE i \notin RowIds
    <3>1. i \in RowIds'
      BY DEF RowsOf
    <3> QED
      BY <3>1, <2>2, <1>1, <1>2
  <2> QED
    BY <2>1, <2>2
<1> QED
  BY <1>1, <1>2, <1>4, <1>5, <1>6, WindowKept DEF PagingInv

\* OnHistorySync: a new row is loaded, or older than the cursor, or bypassed.
LEMMA OnHistorySyncStep ==
  ASSUME PagingInv, NEW h \in Histories, OnHistorySync(h)
  PROVE  PagingInv'
<1>1. PICK new \in SetToSeqs(h \ Stored) : rows' = rows \o new
  BY DEF OnHistorySync
<1>2. UNCHANGED <<window, jump>> /\ h \subseteq WAIDs /\ rows \in Seq(WAIDs)
      /\ skipped' = skipped /\ inflight' = inflight
      /\ bypassed' = bypassed \cup Behind(h \ Stored, rows')
  BY PagingAssumption DEF OnHistorySync, PagingInv, PagingTypeOK
<1>3. /\ new \in Seq(h \ Stored) /\ Len(new) \in Nat /\ DOMAIN new = 1..Len(new)
      /\ \A i, j \in 1..Len(new) : new[i] = new[j] => i = j
      /\ \A i \in 1..Len(new) : new[i] \in h \ Stored
  <2>1. IsFiniteSet(h \ Stored)
    BY PagingAssumption, FS_Difference
  <2>2. PICK n : n = Cardinality(h \ Stored)
    OBVIOUS
  <2>3. n \in Nat
    BY <2>1, <2>2, FS_CardinalityType
  <2>4. new \in [1..n -> h \ Stored] /\ \A i, j \in 1..n : i # j => new[i] # new[j]
    BY <2>2 DEF SetToSeqs
  <2>5. new \in Seq(h \ Stored) /\ Len(new) = n
    BY <2>3, <2>4
  <2> QED
    BY <2>3, <2>4, <2>5
<1>4. /\ rows' \in Seq(WAIDs) /\ Len(rows') = Len(rows) + Len(new) /\ Len(rows) \in Nat
      /\ \A i \in 1..Len(rows) : rows'[i] = rows[i]
      /\ \A i \in 1..Len(new) : rows'[Len(rows) + i] = new[i]
      /\ DOMAIN rows' = 1..Len(rows')
  BY <1>1, <1>2, <1>3
<1>5. /\ Len(rows) <= Len(rows') /\ \A i \in RowIds : rows'[i] = rows[i]
      /\ \A i \in RowIds' : i \in RowIds
           \/ (i - Len(rows) \in 1..Len(new) /\ rows'[i] = new[i - Len(rows)])
  BY <1>3, <1>4 DEF RowIds
<1>6. /\ RowIds \subseteq RowIds' /\ Stored \subseteq Stored'
      /\ \A i \in RowIds : KeyOf(i)' = KeyOf(i)
      /\ \A jid : \A i \in RowsOf(jid)' : i \in RowIds => i \in RowsOf(jid)
  BY <1>2, <1>4, <1>5, RowsGrow DEF PagingInv
<1>7. PagingTypeOK'
  <2>1. Behind(h \ Stored, rows') \subseteq WAIDs
    BY <1>2 DEF Behind
  <2>2. inflight' \subseteq (Stored \cap Live)'
    BY <1>2, <1>6 DEF PagingInv, PagingTypeOK
  <2> QED
    BY <1>2, <1>4, <1>5, <2>1, <2>2, WindowKept DEF PagingInv, PagingTypeOK, window
<1>8. RowsDistinct'
  <2> SUFFICES ASSUME NEW i \in RowIds', NEW j \in RowIds', rows'[i] = rows'[j]
               PROVE  i = j
    BY DEF RowsDistinct
  <2>1. CASE i \in RowIds /\ j \in RowIds
    BY <2>1, <1>5 DEF PagingInv, RowsDistinct
  <2>2. CASE i \in RowIds /\ j \notin RowIds
    BY <2>2, <1>3, <1>5 DEF Stored
  <2>3. CASE i \notin RowIds /\ j \in RowIds
    BY <2>3, <1>3, <1>5 DEF Stored
  <2>4. CASE i \notin RowIds /\ j \notin RowIds
    <3>1. i - Len(rows) = j - Len(rows)
      BY <2>4, <1>3, <1>5
    <3> QED
      BY <3>1, <1>4 DEF RowIds
  <2> QED
    BY <2>1, <2>2, <2>3, <2>4
<1>9. WindowExact'
  <2> SUFFICES ASSUME NEW i \in RowsOf(selected)', ~Before(KeyOf(i), Cursor)'
               PROVE  rows'[i] \in (Loaded \cup inflight \cup skipped \cup bypassed)'
    BY DEF WindowExact
  <2>1. CASE i \in RowIds
    <3>1. i \in RowsOf(selected) /\ ~Before(KeyOf(i), Cursor)
      BY <2>1, <1>2, <1>6 DEF window, Before
    <3>2. rows[i] \in Loaded \cup inflight \cup skipped \cup bypassed
      BY <3>1 DEF PagingInv, WindowExact
    <3> QED
      BY <3>2, <2>1, <1>2, <1>5 DEF Loaded, window
  <2>2. CASE i \notin RowIds
    <3>1. i \in RowIds' /\ chat_jid[rows'[i]] = selected
      BY <1>2 DEF RowsOf, window
    <3>2. rows'[i] \in h \ Stored
      BY <3>1, <2>2, <1>3, <1>5
    <3>3. ~Before([ts |-> ts[rows'[i]], id |-> i], Cursor) /\ i \in DOMAIN rows'
      BY <3>1, <1>2, <1>4 DEF KeyOf, Before, window, RowIds
    <3>4. CASE rows'[i] \in Loaded
      BY <3>4, <1>2 DEF Loaded, window
    <3>5. CASE rows'[i] \notin Loaded
      <4>1. rows'[i] \in Behind(h \ Stored, rows')
        BY <3>1, <3>2, <3>3, <3>5 DEF Behind
      <4> QED
        BY <4>1, <1>2
    <3> QED
      BY <3>4, <3>5
  <2> QED
    BY <2>1, <2>2
<1> QED
  BY <1>2, <1>4, <1>5, <1>7, <1>8, <1>9, WindowKept DEF PagingInv

\* DropEvent: what the channel had no room for is loaded, or older than the
\* cursor, or bypassed.
LEMMA DropEventStep ==
  ASSUME PagingInv, NEW w \in Live, DropEvent(w)
  PROVE  PagingInv'
<1>1. UNCHANGED <<rows, selected, Messages, Cursor, jump, skipped>>
      /\ UNCHANGED <<window, jump>>
      /\ inflight' = inflight \ {w} /\ bypassed' = bypassed \cup Behind({w}, rows)
  BY DEF DropEvent, window
<1>2. PagingTypeOK'
  <2>1. Behind({w}, rows) \subseteq WAIDs
    BY PagingAssumption DEF Behind
  <2> QED
    BY <1>1, <2>1 DEF PagingInv, PagingTypeOK, Stored, RowsOf, RowIds, KeyOf
<1>3. RowsDistinct' /\ CursorBound' /\ JumpInOrder' /\ PagesInOrder' /\ TwiceOnlyByWalk'
  BY <1>1 DEF PagingInv, RowsDistinct, CursorBound, JumpInOrder, PagesInOrder,
              TwiceOnlyByWalk, RowsOf, RowIds, KeyOf
<1>4. WindowExact'
  <2> SUFFICES ASSUME NEW i \in RowsOf(selected), ~Before(KeyOf(i), Cursor)
               PROVE  rows[i] \in Loaded \cup (inflight \ {w}) \cup skipped
                                     \cup bypassed \cup Behind({w}, rows)
    BY <1>1 DEF WindowExact, RowsOf, RowIds, KeyOf, Loaded
  <2>1. rows[i] \in Loaded \cup inflight \cup skipped \cup bypassed
    BY DEF PagingInv, WindowExact
  <2>2. ASSUME rows[i] = w, w \notin Loaded PROVE w \in Behind({w}, rows)
    <3>1. i \in DOMAIN rows /\ chat_jid[rows[i]] = selected
      BY DEF RowsOf, RowIds, PagingInv, PagingTypeOK
    <3> QED
      BY <2>2, <3>1 DEF Behind, KeyOf
  <2> QED
    BY <2>1, <2>2
<1> QED
  BY <1>2, <1>3, <1>4 DEF PagingInv

\* A window that is one run of rows, strictly newest first, and whose cursor is
\* its oldest row.
LEMMA FreshWindow ==
  ASSUME PagingTypeOK, RowsDistinct, NEW jid \in JIDs, NEW page \in Seq(RowsOf(jid)),
         \A i, j \in DOMAIN page : i < j => Before(KeyOf(page[j]), KeyOf(page[i])),
         rows' = rows, selected' = jid, Messages' = Entries(page), Cursor' = NextCursor(page)
  PROVE  /\ CursorBound' /\ PagesInOrder' /\ TwiceOnlyByWalk'
         /\ Messages' \in Seq([wa_id : WAIDs, id : Nat])
         /\ \A k \in DOMAIN Messages' :
              /\ chat_jid[Messages'[k].wa_id] = selected'
              /\ Messages'[k].id # 0 =>
                   Messages'[k].id \in RowIds' /\ rows'[Messages'[k].id] = Messages'[k].wa_id
         /\ Cursor' = NoCursor \/ \E i \in RowsOf(selected)' : Cursor' = KeyOf(i)'
         /\ Loaded' = {rows[page[k]] : k \in DOMAIN page}
<1>1. /\ page \in Seq(RowIds) /\ \A k \in DOMAIN page : page[k] \in RowsOf(jid)
      /\ DOMAIN page = 1..Len(page) /\ Len(page) \in Nat
  BY DEF RowsOf
<1>2. /\ Messages' \in Seq([wa_id : WAIDs, id : Nat]) /\ DOMAIN Messages' = DOMAIN page
      /\ \A k \in DOMAIN page : /\ Messages'[k].id = page[k] /\ page[k] # 0
                                /\ page[k] \in RowIds
                                /\ Messages'[k].wa_id = rows[page[k]]
  BY <1>1, PageEntries
<1>3. RowIds' = RowIds /\ (\A i : KeyOf(i)' = KeyOf(i)) /\ RowsOf(selected)' = RowsOf(jid)
  BY DEF RowIds, KeyOf, RowsOf
<1>4. CursorBound'
  <2> SUFFICES ASSUME NEW k \in DOMAIN page
               PROVE  ~Before(KeyOf(page[k]), NextCursor(page))
    BY <1>2, <1>3 DEF CursorBound, Before
  <2>1. page # <<>>
    BY <1>1
  <2> QED
    BY <2>1, <1>1, PageCursor
<1>5. PagesInOrder'
  BY <1>2, <1>3 DEF PagesInOrder, Before
<1>6. TwiceOnlyByWalk'
  <2> SUFFICES ASSUME NEW j \in DOMAIN page, NEW k \in DOMAIN page,
                      j < k, rows[page[j]] = rows[page[k]]
               PROVE  FALSE
    BY <1>2 DEF TwiceOnlyByWalk
  <2>1. page[j] = page[k]
    BY <1>2 DEF RowsDistinct
  <2>2. Before(KeyOf(page[j]), KeyOf(page[j]))
    BY <2>1
  <2> QED
    BY <2>2, <1>2, RowKey, BeforeIsStrict
<1>7. \A k \in DOMAIN Messages' :
        /\ chat_jid[Messages'[k].wa_id] = selected'
        /\ Messages'[k].id # 0 =>
             Messages'[k].id \in RowIds' /\ rows'[Messages'[k].id] = Messages'[k].wa_id
  BY <1>1, <1>2, <1>3 DEF RowsOf
<1>8. Cursor' = NoCursor \/ \E i \in RowsOf(selected)' : Cursor' = KeyOf(i)'
  BY <1>1, <1>3 DEF NextCursor
<1>9. Loaded' = {rows[page[k]] : k \in DOMAIN page}
  <2>1. \A k \in DOMAIN page : Messages'[k].wa_id = rows[page[k]]
    BY <1>2
  <2> QED
    BY <2>1, <1>2 DEF Loaded
<1> QED
  BY <1>2, <1>4, <1>5, <1>6, <1>7, <1>8, <1>9

\* The first page of a chat holds every row down to its cursor.
LEMMA FirstPage ==
  ASSUME PagingInv, NEW jid \in JIDs, NEW page \in PageOlder(jid, NoCursor, PageSize),
         rows' = rows, inflight' = inflight, selected' = jid, jump' = jump,
         Messages' = Entries(page), Cursor' = NextCursor(page),
         skipped' \subseteq WAIDs, bypassed' \subseteq WAIDs, jump = NoJump
  PROVE  PagingInv'
<1>1. page \in NewestOf(RowsOf(jid), PageSize) /\ PageSize \in Nat \ {0}
  BY PagingAssumption DEF PageOlder
<1>2. page \in Seq(RowsOf(jid))
      /\ \A i, j \in DOMAIN page : i < j => Before(KeyOf(page[j]), KeyOf(page[i]))
  BY <1>1, PageRows
<1>3. /\ CursorBound' /\ PagesInOrder' /\ TwiceOnlyByWalk'
      /\ Messages' \in Seq([wa_id : WAIDs, id : Nat])
      /\ \A k \in DOMAIN Messages' :
           /\ chat_jid[Messages'[k].wa_id] = selected'
           /\ Messages'[k].id # 0 =>
                Messages'[k].id \in RowIds' /\ rows'[Messages'[k].id] = Messages'[k].wa_id
      /\ Cursor' = NoCursor \/ \E i \in RowsOf(selected)' : Cursor' = KeyOf(i)'
      /\ Loaded' = {rows[page[k]] : k \in DOMAIN page}
  BY <1>2, FreshWindow DEF PagingInv
<1>4. RowIds' = RowIds /\ Stored' = Stored /\ RowsOf(selected)' = RowsOf(jid)
  BY DEF RowIds, Stored, RowsOf
<1>5. PagingTypeOK'
  BY <1>3, <1>4 DEF PagingInv, PagingTypeOK
<1>6. RowsDistinct' /\ JumpInOrder'
  BY <1>4 DEF PagingInv, RowsDistinct, JumpInOrder
<1>7. WindowExact'
  <2> SUFFICES ASSUME NEW i \in RowsOf(jid), ~Before(KeyOf(i), NextCursor(page))
               PROVE  rows[i] \in Loaded'
    BY <1>4 DEF WindowExact, KeyOf, Before
  <2>1. RowsOf(jid) \in SUBSET RowIds
    BY DEF RowsOf
  <2>2. \E k \in DOMAIN page : page[k] = i
    BY <1>1, <2>1, PageIsComplete DEF PagingInv
  <2> QED
    BY <2>2, <1>3
<1> QED
  BY <1>3, <1>5, <1>6, <1>7 DEF PagingInv

\* SelectChat.
LEMMA SelectChatStep ==
  ASSUME PagingInv, NEW jid \in JIDs, SelectChat(jid)
  PROVE  PagingInv'
<1>1. PICK page \in PageOlder(jid, NoCursor, PageSize) :
        selected' = jid /\ Messages' = Entries(page) /\ Cursor' = NextCursor(page)
  BY DEF SelectChat
<1> QED
  BY <1>1, FirstPage DEF SelectChat, UIIdle

\* OnBack: nothing is open.
LEMMA OnBackStep ==
  ASSUME PagingInv, OnBack
  PROVE  PagingInv'
<1>1. /\ rows' = rows /\ inflight' = inflight /\ jump' = jump /\ jump = NoJump
      /\ selected' = NoChat /\ Messages' = <<>> /\ Cursor' = NoCursor
      /\ skipped' = {} /\ bypassed' = {}
  BY DEF OnBack, UIIdle
<1>2. RowIds' = RowIds /\ Stored' = Stored /\ Messages' \in Seq([wa_id : WAIDs, id : Nat])
      /\ DOMAIN Messages' = {}
  BY <1>1 DEF RowIds, Stored
<1>3. PagingTypeOK'
  BY <1>1, <1>2 DEF PagingInv, PagingTypeOK
<1>4. RowsDistinct' /\ JumpInOrder' /\ CursorBound' /\ PagesInOrder' /\ TwiceOnlyByWalk'
  BY <1>1, <1>2 DEF PagingInv, RowsDistinct, JumpInOrder, CursorBound, PagesInOrder,
                    TwiceOnlyByWalk
<1>5. RowsOf(selected)' = {}
  <2>1. \A i \in RowIds : chat_jid[rows[i]] \in JIDs
    BY PagingAssumption DEF PagingInv, PagingTypeOK, RowIds
  <2> QED
    BY <1>1, <1>2, <2>1, PagingAssumption DEF RowsOf
<1> QED
  BY <1>3, <1>4, <1>5 DEF PagingInv, WindowExact

\* JumpFails: the window stays as it was.
LEMMA JumpFailsStep ==
  ASSUME PagingInv, JumpFails
  PROVE  PagingInv'
<1>1. UNCHANGED <<rows, inflight, selected, Messages, Cursor, skipped, bypassed>> /\ jump' = NoJump
  BY DEF JumpFails, window
<1>2. NoJump \in [anchor : {0} \cup RowIds, newer : Seq(RowIds), mark : {0} \cup RowIds]
  BY DEF NoJump
<1> QED
  BY <1>1, <1>2 DEF PagingInv, PagingTypeOK, RowsDistinct, CursorBound, JumpInOrder, WindowExact,
                    PagesInOrder, TwiceOnlyByWalk, RowIds, RowsOf, Stored, Loaded, KeyOf

\* JumpNewer reads rows of the anchor's chat above the anchor, in order.
LEMMA JumpNewerStep ==
  ASSUME PagingInv, NEW i \in RowIds, JumpNewer(i)
  PROVE  PagingInv'
<1> DEFINE above == {r \in RowsOf(chat_jid[rows[i]]) : Before(KeyOf(i), KeyOf(r))}
<1>1. PICK page \in NewestOf(above, PageSize \div 2) :
        jump' = [anchor |-> i, newer |-> page, mark |-> Len(rows)]
  BY DEF JumpNewer, Above
<1>2. UNCHANGED <<rows, inflight, selected, Messages, Cursor, skipped, bypassed>>
  BY DEF JumpNewer, window
<1>3. PageSize \div 2 \in Nat
  BY PagingAssumption
<1>4. /\ page \in Seq(above) /\ DOMAIN page = 1..Len(page)
      /\ \A j, k \in DOMAIN page : j < k => Before(KeyOf(page[k]), KeyOf(page[j]))
  BY <1>3, PageRows
<1>5. /\ page \in Seq(RowsOf(chat_jid[rows[i]])) /\ page \in Seq(RowIds)
      /\ \A k \in DOMAIN page : Before(KeyOf(i), KeyOf(page[k]))
  BY <1>4 DEF RowsOf
<1>6. Len(rows) \in {0} \cup RowIds
  BY DEF RowIds, PagingInv, PagingTypeOK
<1> HIDE DEF above
<1>7. JumpInOrder'
  <2>1. RowIds' = RowIds /\ (\A jid : RowsOf(jid)' = RowsOf(jid)) /\ (\A r : KeyOf(r)' = KeyOf(r))
    BY <1>2 DEF RowIds, RowsOf, KeyOf
  <2>2. jump'.anchor = i /\ jump'.newer = page
    BY <1>1
  <2>3. RowsOf(chat_jid[rows[jump.anchor]])' = RowsOf(chat_jid[rows[i]])
    BY <1>2, <2>2 DEF RowsOf, RowIds
  <2> QED
    BY <1>2, <1>4, <1>5, <2>1, <2>2, <2>3 DEF JumpInOrder, Before
<1>8. PagingTypeOK'
  BY <1>1, <1>2, <1>5, <1>6 DEF PagingInv, PagingTypeOK, Stored, RowsOf, RowIds, KeyOf
<1>9. RowsDistinct' /\ CursorBound' /\ WindowExact' /\ PagesInOrder' /\ TwiceOnlyByWalk'
  BY <1>2 DEF PagingInv, RowsDistinct, CursorBound, WindowExact, PagesInOrder, TwiceOnlyByWalk,
              RowIds, RowsOf, Loaded, KeyOf
<1> QED
  BY <1>7, <1>8, <1>9 DEF PagingInv

\* The three parts of a jump's window, one after the other.
LEMMA ThreeParts ==
  ASSUME NEW S, NEW s \in Seq(S), NEW a \in S, NEW t \in Seq(S), NEW page, page = s \o <<a>> \o t
  PROVE  /\ page \in Seq(S) /\ page # <<>> /\ DOMAIN page = 1..(Len(s) + 1 + Len(t))
         /\ Len(page) = Len(s) + 1 + Len(t) /\ Len(s) \in Nat /\ Len(t) \in Nat
         /\ DOMAIN s = 1..Len(s) /\ DOMAIN t = 1..Len(t)
         /\ \A k \in 1..Len(s) : page[k] = s[k]
         /\ page[Len(s) + 1] = a
         /\ \A k \in 1..Len(t) : page[Len(s) + 1 + k] = t[k]
         /\ \A k \in DOMAIN page : k \in 1..Len(s) \/ k = Len(s) + 1 \/ k - (Len(s) + 1) \in 1..Len(t)
<1>1. PICK u : u = s \o <<a>>
  OBVIOUS
<1>2. /\ u \in Seq(S) /\ Len(u) = Len(s) + 1 /\ Len(s) \in Nat
      /\ \A k \in 1..Len(s) : u[k] = s[k]
      /\ u[Len(s) + 1] = a
  BY <1>1
<1>3. /\ page \in Seq(S) /\ Len(page) = Len(u) + Len(t) /\ Len(t) \in Nat
      /\ \A k \in 1..Len(u) : page[k] = u[k]
      /\ \A k \in 1..Len(t) : page[Len(u) + k] = t[k]
      /\ DOMAIN page = 1..Len(page)
  BY <1>1, <1>2
<1>4. Len(page) = Len(s) + 1 + Len(t) /\ DOMAIN page = 1..(Len(s) + 1 + Len(t)) /\ page # <<>>
  BY <1>2, <1>3
<1>5. \A k \in 1..Len(s) : page[k] = s[k]
  BY <1>2, <1>3
<1>6. page[Len(s) + 1] = a
  BY <1>2, <1>3
<1>7. \A k \in 1..Len(t) : page[Len(s) + 1 + k] = t[k]
  BY <1>2, <1>3
<1>8. \A k \in DOMAIN page : k \in 1..Len(s) \/ k = Len(s) + 1 \/ k - (Len(s) + 1) \in 1..Len(t)
  BY <1>2, <1>3, <1>4
<1> QED
  BY <1>2, <1>3, <1>4, <1>5, <1>6, <1>7, <1>8

\* An anchor between the rows above it and the rows below it is in order.
LEMMA JumpPageInOrder ==
  ASSUME PagingTypeOK, NEW s \in Seq(RowIds), NEW a \in RowIds, NEW t \in Seq(RowIds),
         \A j, k \in DOMAIN s : j < k => Before(KeyOf(s[k]), KeyOf(s[j])),
         \A j, k \in DOMAIN t : j < k => Before(KeyOf(t[k]), KeyOf(t[j])),
         \A k \in DOMAIN s : Before(KeyOf(a), KeyOf(s[k])),
         \A k \in DOMAIN t : Before(KeyOf(t[k]), KeyOf(a)),
         NEW page, page = s \o <<a>> \o t
  PROVE  \A j, k \in DOMAIN page : j < k => Before(KeyOf(page[k]), KeyOf(page[j]))
<1> SUFFICES ASSUME NEW j \in DOMAIN page, NEW k \in DOMAIN page, j < k
             PROVE  Before(KeyOf(page[k]), KeyOf(page[j]))
  OBVIOUS
<1>1. /\ page \in Seq(RowIds) /\ DOMAIN page = 1..(Len(s) + 1 + Len(t))
      /\ Len(s) \in Nat /\ Len(t) \in Nat
      /\ DOMAIN s = 1..Len(s) /\ DOMAIN t = 1..Len(t)
      /\ \A i \in 1..Len(s) : page[i] = s[i]
      /\ page[Len(s) + 1] = a
      /\ \A i \in 1..Len(t) : page[Len(s) + 1 + i] = t[i]
      /\ \A i \in DOMAIN page : i \in 1..Len(s) \/ i = Len(s) + 1 \/ i - (Len(s) + 1) \in 1..Len(t)
  BY ThreeParts
<1>2. \A i \in DOMAIN page : page[i] \in RowIds /\ KeyOf(page[i]) \in Key
  BY <1>1, RowKey
<1>3. ASSUME j \in 1..Len(s) PROVE Before(KeyOf(a), KeyOf(page[j]))
  BY <1>1, <1>3
<1>4. ASSUME NEW i \in DOMAIN page, i - (Len(s) + 1) \in 1..Len(t)
      PROVE  page[i] = t[i - (Len(s) + 1)] /\ Before(KeyOf(page[i]), KeyOf(a))
  <2>1. Len(s) + 1 + (i - (Len(s) + 1)) = i
    BY <1>1
  <2>2. page[i] = t[i - (Len(s) + 1)]
    BY <1>1, <1>4, <2>1
  <2> QED
    BY <1>1, <1>4, <2>2
<1>5. CASE k \in 1..Len(s)
  <2>1. j \in 1..Len(s)
    BY <1>1, <1>5
  <2> QED
    BY <1>1, <1>5, <2>1
<1>6. CASE k = Len(s) + 1
  <2>1. j \in 1..Len(s)
    BY <1>1, <1>6
  <2> QED
    BY <1>1, <1>3, <1>6, <2>1
<1>7. CASE k - (Len(s) + 1) \in 1..Len(t)
  <2>1. Before(KeyOf(page[k]), KeyOf(a)) /\ page[k] = t[k - (Len(s) + 1)]
    BY <1>4, <1>7
  <2>2. CASE j \in 1..Len(s)
    <3>1. KeyOf(a) \in Key
      BY RowKey
    <3> QED
      BY <1>2, <1>3, <2>1, <2>2, <3>1, BeforeIsStrict
  <2>3. CASE j = Len(s) + 1
    BY <1>1, <2>1, <2>3
  <2>4. CASE j - (Len(s) + 1) \in 1..Len(t)
    <3>1. page[j] = t[j - (Len(s) + 1)]
      BY <1>4, <2>4
    <3>2. j - (Len(s) + 1) < k - (Len(s) + 1)
      BY <1>1
    <3> QED
      BY <1>1, <1>7, <2>1, <2>4, <3>1, <3>2
  <2> QED
    BY <1>1, <2>2, <2>3, <2>4
<1> QED
  BY <1>1, <1>5, <1>6, <1>7

\* What a jump loads, leaves out and misses is all of the chat down to its
\* cursor.
LEMMA JumpOlderStep ==
  ASSUME PagingInv, JumpOlder
  PROVE  PagingInv'
<1> DEFINE a == jump.anchor
           s == jump.newer
           jid == chat_jid[rows[jump.anchor]]
           above == {i \in RowsOf(jid) : Before(KeyOf(a), KeyOf(i))}
           below == OlderThan(jid, KeyOf(a))
<1>1. PICK page \in AroundPages :
        selected' = jid /\ Messages' = Entries(page) /\ Cursor' = NextCursor(page)
  BY DEF JumpOlder
<1>2. /\ skipped' = {rows[i] : i \in {r \in above : r <= jump.mark}}
                      \ {rows[s[k]] : k \in DOMAIN s}
      /\ bypassed' = {rows[i] : i \in {r \in above : r > jump.mark}} \ inflight
  BY DEF JumpOlder, Above
<1>3. PICK t \in NewestOf(below, PageSize \div 2) : page = s \o <<a>> \o t
  BY DEF AroundPages
<1>4. rows' = rows /\ inflight' = inflight /\ jump' = NoJump /\ jump # NoJump
  BY DEF JumpOlder, UIIdle
<1>5. /\ a \in RowIds /\ s \in Seq(RowsOf(jid))
      /\ \A k \in DOMAIN s : Before(KeyOf(a), KeyOf(s[k]))
      /\ \A i, j \in DOMAIN s : i < j => Before(KeyOf(s[j]), KeyOf(s[i]))
  BY <1>4 DEF PagingInv, JumpInOrder
<1>6. a \in RowsOf(jid) /\ jid \in JIDs /\ RowsOf(jid) \subseteq RowIds
  BY <1>5, PagingAssumption DEF RowsOf, RowIds, PagingInv, PagingTypeOK
<1>7. /\ t \in Seq(below)
      /\ \A i, j \in DOMAIN t : i < j => Before(KeyOf(t[j]), KeyOf(t[i]))
      /\ \A r \in below : (\E k \in DOMAIN t : t[k] = r)
           \/ \A k \in DOMAIN t : Before(KeyOf(r), KeyOf(t[k]))
  <2>1. PageSize \div 2 \in Nat
    BY PagingAssumption
  <2> QED
    BY <2>1, <1>3, PageRows
<1>8. /\ t \in Seq(RowsOf(jid)) /\ t \in Seq(RowIds) /\ s \in Seq(RowIds)
      /\ \A k \in DOMAIN t : Before(KeyOf(t[k]), KeyOf(a))
  BY <1>5, <1>6, <1>7 DEF OlderThan
<1>9. /\ page \in Seq(RowsOf(jid)) /\ page \in Seq(RowIds) /\ page # <<>>
      /\ DOMAIN page = 1..(Len(s) + 1 + Len(t)) /\ Len(page) = Len(s) + 1 + Len(t)
      /\ Len(s) \in Nat /\ Len(t) \in Nat /\ DOMAIN s = 1..Len(s) /\ DOMAIN t = 1..Len(t)
      /\ \A k \in 1..Len(s) : page[k] = s[k]
      /\ page[Len(s) + 1] = a
      /\ \A k \in 1..Len(t) : page[Len(s) + 1 + k] = t[k]
  BY <1>5, <1>6, <1>8, <1>3, ThreeParts
<1>10. \A i, j \in DOMAIN page : i < j => Before(KeyOf(page[j]), KeyOf(page[i]))
  <2>1. PagingTypeOK
    BY DEF PagingInv
  <2> QED
    BY <2>1, <1>5, <1>7, <1>8, <1>3, JumpPageInOrder
<1>11. /\ CursorBound' /\ PagesInOrder' /\ TwiceOnlyByWalk'
       /\ Messages' \in Seq([wa_id : WAIDs, id : Nat])
       /\ \A k \in DOMAIN Messages' :
            /\ chat_jid[Messages'[k].wa_id] = selected'
            /\ Messages'[k].id # 0 =>
                 Messages'[k].id \in RowIds' /\ rows'[Messages'[k].id] = Messages'[k].wa_id
       /\ Cursor' = NoCursor \/ \E i \in RowsOf(selected)' : Cursor' = KeyOf(i)'
       /\ Loaded' = {rows[page[k]] : k \in DOMAIN page}
  BY <1>4, <1>6, <1>9, <1>10, <1>1, FreshWindow DEF PagingInv
<1>12. RowIds' = RowIds /\ Stored' = Stored /\ RowsOf(selected)' = RowsOf(jid)
       /\ \A i : KeyOf(i)' = KeyOf(i)
  BY <1>4, <1>1 DEF RowIds, Stored, RowsOf, KeyOf
<1>13. \A i \in RowIds : rows[i] \in WAIDs
  BY DEF PagingInv, PagingTypeOK, RowIds
<1>14. skipped' \subseteq WAIDs /\ bypassed' \subseteq WAIDs
  BY <1>2, <1>6, <1>13
<1>15. NoJump \in [anchor : {0} \cup RowIds, newer : Seq(RowIds), mark : {0} \cup RowIds]
  BY DEF NoJump
<1>16. PagingTypeOK'
  BY <1>4, <1>6, <1>1, <1>11, <1>12, <1>14, <1>15 DEF PagingInv, PagingTypeOK
<1>17. RowsDistinct' /\ JumpInOrder'
  BY <1>4, <1>12 DEF PagingInv, RowsDistinct, JumpInOrder
<1>18. \A k \in DOMAIN page : rows[page[k]] \in Loaded'
  BY <1>11
<1>19. WindowExact'
  <2> SUFFICES ASSUME NEW i \in RowsOf(jid), ~Before(KeyOf(i), NextCursor(page))
               PROVE  rows[i] \in Loaded' \cup inflight \cup skipped' \cup bypassed'
    BY <1>4, <1>1, <1>12 DEF WindowExact, Before
  <2>1. NextCursor(page) = KeyOf(page[Len(page)])
    BY <1>9 DEF NextCursor
  <2>2. CASE i \in below
    <3>1. CASE \E k \in DOMAIN t : t[k] = i
      <4>1. PICK k \in 1..Len(t) : page[Len(s) + 1 + k] = i
        BY <3>1, <1>9
      <4>2. Len(s) + 1 + k \in DOMAIN page
        BY <1>9
      <4> QED
        BY <4>1, <4>2, <1>18
    <3>2. CASE \A k \in DOMAIN t : Before(KeyOf(i), KeyOf(t[k]))
      <4>1. CASE Len(t) = 0
        <5>1. page[Len(page)] = a
          BY <4>1, <1>9
        <5> QED
          BY <5>1, <2>1, <2>2 DEF OlderThan
      <4>2. CASE Len(t) # 0
        <5>1. Len(t) \in DOMAIN t /\ page[Len(page)] = t[Len(t)]
          BY <4>2, <1>9
        <5> QED
          BY <5>1, <3>2, <2>1
      <4> QED
        BY <4>1, <4>2
    <3> QED
      BY <2>2, <3>1, <3>2, <1>7
  <2>3. CASE i \in above
    <3>1. i \in Nat /\ jump.mark \in Nat
      BY <1>6 DEF RowIds, PagingInv, PagingTypeOK
    <3>2. CASE i <= jump.mark
      <4>1. CASE \E k \in DOMAIN s : rows[s[k]] = rows[i]
        <5>1. PICK k \in 1..Len(s) : rows[page[k]] = rows[i]
          BY <4>1, <1>9
        <5>2. k \in DOMAIN page
          BY <1>9
        <5> QED
          BY <5>1, <5>2, <1>18
      <4>2. CASE ~ \E k \in DOMAIN s : rows[s[k]] = rows[i]
        <5>1. rows[i] \notin {rows[s[k]] : k \in DOMAIN s}
          BY <4>2
        <5> QED
          BY <5>1, <2>3, <3>2, <1>2
      <4> QED
        BY <4>1, <4>2
    <3>3. CASE i > jump.mark
      BY <2>3, <3>3, <1>2
    <3> QED
      BY <3>1, <3>2, <3>3
  <2>4. CASE i \notin below /\ i \notin above
    <3>1. ~Before(KeyOf(i), KeyOf(a)) /\ ~Before(KeyOf(a), KeyOf(i))
      BY <2>4 DEF OlderThan
    <3>2. PagingTypeOK /\ i \in RowIds
      BY <1>6 DEF PagingInv
    <3>3. i = a
      <4>1. KeyOf(i) \in Key /\ KeyOf(i).id = i /\ KeyOf(a) \in Key /\ KeyOf(a).id = a
        BY <1>5, <3>2, RowKey
      <4> QED
        BY <3>1, <4>1, BeforeIsTotal
    <3>4. Len(s) + 1 \in DOMAIN page
      BY <1>9
    <3> QED
      BY <3>3, <3>4, <1>9, <1>18
  <2> QED
    BY <2>2, <2>3, <2>4
<1> QED
  BY <1>11, <1>16, <1>17, <1>19 DEF PagingInv

\* A page goes below what is loaded.
LEMMA TwoParts ==
  ASSUME NEW S, NEW s \in Seq(S), NEW t \in Seq(S), NEW both, both = s \o t
  PROVE  /\ both \in Seq(S) /\ DOMAIN both = 1..(Len(s) + Len(t))
         /\ Len(s) \in Nat /\ Len(t) \in Nat
         /\ DOMAIN s = 1..Len(s) /\ DOMAIN t = 1..Len(t)
         /\ \A k \in 1..Len(s) : both[k] = s[k] /\ k \in DOMAIN both
         /\ \A k \in 1..Len(t) : both[Len(s) + k] = t[k] /\ Len(s) + k \in DOMAIN both
         /\ \A k \in DOMAIN both : \/ k \in 1..Len(s)
                                   \/ k - Len(s) \in 1..Len(t) /\ both[k] = t[k - Len(s)]
<1>1. /\ both \in Seq(S) /\ DOMAIN both = 1..(Len(s) + Len(t))
      /\ Len(s) \in Nat /\ Len(t) \in Nat
      /\ DOMAIN s = 1..Len(s) /\ DOMAIN t = 1..Len(t)
      /\ \A k \in 1..Len(s) : both[k] = s[k]
      /\ \A k \in 1..Len(t) : both[Len(s) + k] = t[k]
  OBVIOUS
<1>2. \A k \in DOMAIN both : k \in 1..Len(s) \/ k - Len(s) \in 1..Len(t)
  BY <1>1
<1>3. \A k \in DOMAIN both : Len(s) + (k - Len(s)) = k
  BY <1>1
<1>4. \A k \in 1..Len(s) : k \in DOMAIN both
  BY <1>1
<1>5. \A k \in 1..Len(t) : Len(s) + k \in DOMAIN both
  BY <1>1
<1>6. \A k \in DOMAIN both : k - Len(s) \in 1..Len(t) => both[k] = t[k - Len(s)]
  BY <1>1, <1>3
<1> QED
  BY <1>1, <1>2, <1>4, <1>5, <1>6

\* LoadOlder past the first page: the next page continues the walk.
LEMMA NextPage ==
  ASSUME PagingInv, NEW page \in PageOlder(selected, Cursor, PageSize), Cursor # NoCursor,
         UNCHANGED <<rows, inflight, selected, jump, skipped, bypassed>>,
         Messages' = Messages \o Entries(page), Cursor' = NextCursor(page)
  PROVE  PagingInv'
<1> DEFINE older == OlderThan(selected, Cursor)
           n == Len(Messages)
<1>1. page \in NewestOf(older, PageSize) /\ PageSize \in Nat \ {0} /\ PagingTypeOK
  BY PagingAssumption DEF PageOlder, PagingInv
<1>2. /\ older \subseteq RowsOf(selected) /\ older \subseteq RowIds
      /\ \A i \in older : Before(KeyOf(i), Cursor)
      /\ \A i \in RowsOf(selected) : Before(KeyOf(i), Cursor) => i \in older
  BY DEF OlderThan, RowsOf
<1>3. page \in Seq(older)
      /\ \A i, j \in DOMAIN page : i < j => Before(KeyOf(page[j]), KeyOf(page[i]))
  BY <1>1, PageRows
<1> HIDE DEF older
<1>4. /\ page \in Seq(RowIds) /\ DOMAIN page = 1..Len(page) /\ Len(page) \in Nat
      /\ \A k \in DOMAIN page : page[k] \in older
  BY <1>2, <1>3
<1>5. /\ Entries(page) \in Seq([wa_id : WAIDs, id : Nat])
      /\ Len(Entries(page)) = Len(page)
      /\ \A k \in 1..Len(page) : /\ Entries(page)[k].id = page[k] /\ page[k] # 0
                                 /\ page[k] \in RowIds
                                 /\ Entries(page)[k].wa_id = rows[page[k]]
  BY <1>1, <1>4, PageEntries
<1>6. Messages \in Seq([wa_id : WAIDs, id : Nat])
  BY <1>1 DEF PagingTypeOK
<1>7. /\ Messages' \in Seq([wa_id : WAIDs, id : Nat]) /\ n \in Nat
      /\ DOMAIN Messages = 1..n /\ DOMAIN Messages' = 1..(n + Len(page))
      /\ \A k \in 1..n : Messages'[k] = Messages[k] /\ k \in DOMAIN Messages'
      /\ \A k \in 1..Len(page) : Messages'[n + k] = Entries(page)[k] /\ n + k \in DOMAIN Messages'
      /\ \A k \in DOMAIN Messages' :
           k \in 1..n \/ (k - n \in 1..Len(page) /\ Messages'[k] = Entries(page)[k - n])
  <2>1. PICK e : e = Entries(page)
    OBVIOUS
  <2>2. PICK all : all = Messages'
    OBVIOUS
  <2>3. /\ e \in Seq([wa_id : WAIDs, id : Nat]) /\ Len(e) = Len(page) /\ all = Messages \o e
    BY <2>1, <2>2, <1>5
  <2>4. /\ all \in Seq([wa_id : WAIDs, id : Nat]) /\ DOMAIN all = 1..(Len(Messages) + Len(e))
        /\ Len(Messages) \in Nat /\ DOMAIN Messages = 1..Len(Messages)
        /\ \A k \in 1..Len(Messages) : all[k] = Messages[k] /\ k \in DOMAIN all
        /\ \A k \in 1..Len(e) : all[Len(Messages) + k] = e[k] /\ Len(Messages) + k \in DOMAIN all
        /\ \A k \in DOMAIN all :
             \/ k \in 1..Len(Messages)
             \/ k - Len(Messages) \in 1..Len(e) /\ all[k] = e[k - Len(Messages)]
    <3>1. PICK S : S = [wa_id : WAIDs, id : Nat]
      OBVIOUS
    <3>2. Messages \in Seq(S) /\ e \in Seq(S)
      BY <2>3, <3>1, <1>6
    <3>3. PICK m : m = Messages
      OBVIOUS
    <3>4. m \in Seq(S) /\ e \in Seq(S) /\ all = m \o e
      BY <2>3, <3>2, <3>3
    <3>5. all \in Seq(S) /\ DOMAIN all = 1..(Len(m) + Len(e))
      BY <3>4, TwoParts
    <3>6. Len(m) \in Nat /\ DOMAIN m = 1..Len(m)
      BY <3>4, TwoParts
    <3>7. \A k \in 1..Len(m) : all[k] = m[k] /\ k \in DOMAIN all
      BY <3>4, TwoParts
    <3>8. \A k \in 1..Len(e) : all[Len(m) + k] = e[k] /\ Len(m) + k \in DOMAIN all
      BY <3>4, TwoParts
    <3>9. \A k \in DOMAIN all :
               \/ k \in 1..Len(m)
               \/ k - Len(m) \in 1..Len(e) /\ all[k] = e[k - Len(m)]
      BY <3>4, TwoParts
    <3> QED
      BY <3>1, <3>3, <3>5, <3>6, <3>7, <3>8, <3>9
  <2> QED
    BY <2>1, <2>2, <2>3, <2>4
<1> HIDE DEF n
<1>8. \A k \in DOMAIN Messages' :
         \/ /\ k \in 1..n /\ Messages'[k] = Messages[k]
         \/ /\ k - n \in 1..Len(page) /\ Messages'[k].id = page[k - n]
            /\ page[k - n] \in older /\ page[k - n] # 0
            /\ Messages'[k].wa_id = rows[page[k - n]]
  BY <1>4, <1>5, <1>7
<1>9. /\ RowIds' = RowIds /\ Stored' = Stored /\ RowsOf(selected)' = RowsOf(selected)
      /\ \A i : KeyOf(i)' = KeyOf(i)
  BY DEF RowIds, Stored, RowsOf, KeyOf
<1>10. \A k \in 1..n : Messages[k].id # 0 =>
         /\ Messages[k].id \in RowIds /\ rows[Messages[k].id] = Messages[k].wa_id
         /\ ~Before(KeyOf(Messages[k].id), Cursor)
  BY <1>7 DEF PagingInv, PagingTypeOK, CursorBound
<1>11. Cursor \in Key /\ \A i \in RowIds : KeyOf(i) \in Key /\ KeyOf(i) # NoCursor
         /\ ~Before(KeyOf(i), NoCursor)
  BY <1>1, CursorKey, RowKey
<1>12. \A j \in 1..n : \A i \in older : Messages[j].id # 0 =>
         Before(KeyOf(i), KeyOf(Messages[j].id))
  BY <1>2, <1>10, <1>11, BeforeIsStrict
<1>13. PagesInOrder'
  <2> SUFFICES ASSUME NEW j \in DOMAIN Messages', NEW k \in DOMAIN Messages', j < k,
                      Messages'[j].id # 0, Messages'[k].id # 0
               PROVE  Before(KeyOf(Messages'[k].id), KeyOf(Messages'[j].id))
    BY <1>9 DEF PagesInOrder, Before
  <2>1. CASE k \in 1..n
    <3>1. j \in 1..n
      BY <2>1, <1>7
    <3> QED
      BY <2>1, <3>1, <1>7 DEF PagingInv, PagesInOrder
  <2>2. CASE k \notin 1..n
    <3>1. k - n \in 1..Len(page) /\ Messages'[k].id = page[k - n] /\ page[k - n] \in older
      BY <2>2, <1>8
    <3>2. CASE j \in 1..n
      BY <3>1, <3>2, <1>7, <1>12
    <3>3. CASE j \notin 1..n
      <4>1. j - n \in 1..Len(page) /\ Messages'[j].id = page[j - n]
        BY <3>3, <1>8
      <4>2. j - n < k - n
        BY <1>7
      <4> QED
        BY <3>1, <4>1, <4>2, <1>3, <1>4
    <3> QED
      BY <3>2, <3>3
  <2> QED
    BY <2>1, <2>2
<1>14. CursorBound'
  <2> SUFFICES ASSUME NEW k \in DOMAIN Messages', Messages'[k].id # 0
               PROVE  ~Before(KeyOf(Messages'[k].id), NextCursor(page))
    BY <1>9 DEF CursorBound, Before
  <2>1. Messages'[k].id \in RowIds
    BY <1>2, <1>8, <1>10
  <2>2. CASE page = <<>>
    BY <2>1, <2>2, <1>11 DEF NextCursor
  <2>3. CASE page # <<>>
    <3>1. /\ Len(page) \in DOMAIN page
          /\ NextCursor(page) = KeyOf(page[Len(page)])
          /\ \A i \in DOMAIN page : ~Before(KeyOf(page[i]), NextCursor(page))
      BY <2>3, <1>1, <1>3, <1>4, PageCursor
    <3>2. CASE k \in 1..n
      <4>1. Before(KeyOf(page[Len(page)]), KeyOf(Messages[k].id))
        BY <3>1, <3>2, <1>4, <1>7, <1>12
      <4>2. KeyOf(page[Len(page)]) \in Key /\ KeyOf(Messages[k].id) \in Key
        BY <2>1, <3>1, <3>2, <1>2, <1>4, <1>7, <1>11
      <4>3. ~Before(KeyOf(Messages[k].id), KeyOf(page[Len(page)]))
        BY <4>1, <4>2, BeforeIsStrict
      <4> QED
        BY <4>3, <3>1, <3>2, <1>7
    <3>3. CASE k \notin 1..n
      BY <3>1, <3>3, <1>4, <1>8
    <3> QED
      BY <3>2, <3>3
  <2> QED
    BY <2>2, <2>3
<1>15. TwiceOnlyByWalk'
  <2> SUFFICES ASSUME NEW j \in DOMAIN Messages', NEW k \in DOMAIN Messages', j < k,
                      Messages'[j].wa_id = Messages'[k].wa_id
               PROVE  Messages'[j].id = 0 /\ Messages'[k].id # 0
    BY DEF TwiceOnlyByWalk
  <2>1. CASE k \in 1..n
    <3>1. j \in 1..n
      BY <2>1, <1>7
    <3> QED
      BY <2>1, <3>1, <1>7 DEF PagingInv, TwiceOnlyByWalk
  <2>2. CASE k \notin 1..n
    <3>1. /\ Messages'[k].id # 0 /\ Messages'[k].id \in RowIds
          /\ rows[Messages'[k].id] = Messages'[k].wa_id
      BY <2>2, <1>2, <1>8
    <3>2. ASSUME Messages'[j].id # 0 PROVE FALSE
      <4>1. Messages'[j].id \in RowIds /\ rows[Messages'[j].id] = Messages'[j].wa_id
        BY <3>2, <1>2, <1>8, <1>10
      <4>2. Messages'[j].id = Messages'[k].id
        BY <3>1, <4>1 DEF PagingInv, RowsDistinct
      <4>3. Before(KeyOf(Messages'[k].id), KeyOf(Messages'[j].id))
        BY <1>13, <1>9, <3>1, <3>2 DEF PagesInOrder, Before
      <4> QED
        BY <4>1, <4>2, <4>3, <1>11, BeforeIsStrict
    <3> QED
      BY <3>1, <3>2
  <2> QED
    BY <2>1, <2>2
<1>16. PagingTypeOK'
  <2>1. \A k \in DOMAIN Messages' :
          /\ chat_jid[Messages'[k].wa_id] = selected
          /\ Messages'[k].id # 0 =>
               Messages'[k].id \in RowIds /\ rows[Messages'[k].id] = Messages'[k].wa_id
    <3> TAKE k \in DOMAIN Messages'
    <3>1. CASE k \in 1..n
      BY <3>1, <1>7 DEF PagingInv, PagingTypeOK
    <3>2. CASE k \notin 1..n
      BY <3>2, <1>2, <1>8 DEF RowsOf
    <3> QED
      BY <3>1, <3>2
  <2>2. Cursor' = NoCursor \/ \E i \in RowsOf(selected) : Cursor' = KeyOf(i)
    <3>1. CASE page = <<>>
      BY <3>1 DEF NextCursor
    <3>2. CASE page # <<>>
      <4>1. Len(page) \in DOMAIN page
        BY <3>2, <1>4
      <4> QED
        BY <3>2, <4>1, <1>2, <1>4 DEF NextCursor
    <3> QED
      BY <3>1, <3>2
  <2> QED
    BY <1>1, <1>7, <1>9, <2>1, <2>2 DEF PagingTypeOK
<1>17. RowsDistinct' /\ JumpInOrder'
  BY <1>9 DEF PagingInv, RowsDistinct, JumpInOrder, RowsOf, RowIds
<1>18. Loaded \subseteq Loaded' /\ \A k \in DOMAIN page : rows[page[k]] \in Loaded'
  <2>1. \A k \in 1..n : Messages[k].wa_id \in Loaded'
    BY <1>7 DEF Loaded
  <2>2. ASSUME NEW k \in 1..Len(page) PROVE rows[page[k]] \in Loaded'
    <3>1. n + k \in DOMAIN Messages' /\ Messages'[n + k].wa_id = rows[page[k]]
      BY <1>5, <1>7
    <3> QED
      BY <3>1 DEF Loaded
  <2> QED
    BY <2>1, <2>2, <1>4, <1>7 DEF Loaded
<1>19. WindowExact'
  <2> SUFFICES ASSUME NEW i \in RowsOf(selected), ~Before(KeyOf(i), NextCursor(page))
               PROVE  rows[i] \in Loaded' \cup inflight \cup skipped \cup bypassed
    BY <1>9 DEF WindowExact, Before
  <2>1. CASE Before(KeyOf(i), Cursor)
    <3>1. \E k \in DOMAIN page : page[k] = i
      BY <2>1, <1>1, <1>2, PageIsComplete
    <3> QED
      BY <3>1, <1>18
  <2>2. CASE ~Before(KeyOf(i), Cursor)
    BY <2>2, <1>18 DEF PagingInv, WindowExact
  <2> QED
    BY <2>1, <2>2
<1> QED
  BY <1>13, <1>14, <1>15, <1>16, <1>17, <1>19 DEF PagingInv

\* LoadOlder.
LEMMA LoadOlderStep ==
  ASSUME PagingInv, LoadOlder
  PROVE  PagingInv'
<1>1. PICK page \in PageOlder(selected, Cursor, PageSize) :
        Messages' = Messages \o Entries(page) /\ Cursor' = NextCursor(page)
  BY DEF LoadOlder
<1>2. UNCHANGED <<rows, inflight, selected, jump, skipped>> /\ jump = NoJump
      /\ selected \in JIDs /\ bypassed' \subseteq WAIDs /\ skipped' \subseteq WAIDs
  BY DEF LoadOlder, UIIdle, PagingInv, PagingTypeOK
<1>3. CASE Cursor = NoCursor
  <2>1. Messages = <<>>
    BY <1>3 DEF LoadOlder
  <2>2. page \in NewestOf(RowsOf(selected), PageSize)
    BY <1>1, <1>3 DEF PageOlder
  <2>3. page \in Seq(RowIds)
    <3>1. page \in Seq(RowsOf(selected))
      BY <2>2, PagingAssumption, PageRows
    <3> QED
      BY <3>1 DEF RowsOf
  <2>4. Entries(page) \in Seq([wa_id : WAIDs, id : Nat])
    BY <2>3, PageEntries DEF PagingInv
  <2>5. Messages' = Entries(page)
    BY <1>1, <2>1, <2>4
  <2> QED
    BY <1>1, <1>2, <1>3, <2>5, FirstPage
<1>4. CASE Cursor # NoCursor
  <2>1. bypassed' = bypassed
    BY <1>4 DEF LoadOlder
  <2> QED
    BY <1>1, <1>2, <1>4, <2>1, NextPage
<1> QED
  BY <1>3, <1>4

\* An entry goes on top of what is loaded.
LEMMA OnTop ==
  ASSUME NEW S, NEW s \in Seq(S), NEW e \in S, NEW both, both = <<e>> \o s
  PROVE  /\ both \in Seq(S) /\ DOMAIN both = 1..(Len(s) + 1) /\ Len(s) \in Nat
         /\ DOMAIN s = 1..Len(s) /\ both[1] = e
         /\ \A k \in 1..Len(s) : both[k + 1] = s[k] /\ k + 1 \in DOMAIN both
         /\ \A k \in DOMAIN both : k = 1 \/ (k - 1 \in 1..Len(s) /\ both[k] = s[k - 1])
<1>1. /\ both \in Seq(S) /\ DOMAIN both = 1..(Len(s) + 1) /\ Len(s) \in Nat
      /\ DOMAIN s = 1..Len(s) /\ both[1] = e
      /\ \A k \in 1..Len(s) : both[k + 1] = s[k]
  OBVIOUS
<1>2. \A k \in 1..Len(s) : k + 1 \in DOMAIN both
  BY <1>1
<1>3. \A k \in DOMAIN both : k = 1 \/ (k - 1 \in 1..Len(s) /\ (k - 1) + 1 = k)
  BY <1>1
<1>4. \A k \in DOMAIN both : k = 1 \/ (k - 1 \in 1..Len(s) /\ both[k] = s[k - 1])
  BY <1>1, <1>3
<1> QED
  BY <1>1, <1>2, <1>4

\* OnIncoming on a message that is not loaded.
LEMMA PrependStep ==
  ASSUME PagingInv, NEW w \in Live, w \notin Loaded, chat_jid[w] = selected,
         UNCHANGED <<rows, selected, Cursor, jump, skipped, bypassed>>,
         inflight' = inflight \ {w}, Messages' = <<Folded(w)>> \o Messages
  PROVE  PagingInv'
<1>1. PICK S : S = [wa_id : WAIDs, id : Nat]
  OBVIOUS
<1>2. PICK m : m = Messages
  OBVIOUS
<1>3. PICK all : all = Messages'
  OBVIOUS
<1>4. PICK e : e = Folded(w)
  OBVIOUS
<1>5. m \in Seq(S) /\ e \in S /\ all = <<e>> \o m
  BY <1>1, <1>2, <1>3, <1>4, PagingAssumption DEF PagingInv, PagingTypeOK, Folded
<1>6. /\ all \in Seq(S) /\ DOMAIN all = 1..(Len(m) + 1) /\ Len(m) \in Nat
      /\ DOMAIN m = 1..Len(m) /\ all[1] = e
  BY <1>5, OnTop
<1>7. \A k \in 1..Len(m) : all[k + 1] = m[k] /\ k + 1 \in DOMAIN all
  BY <1>5, OnTop
<1>8. \A k \in DOMAIN all : k = 1 \/ (k - 1 \in 1..Len(m) /\ all[k] = m[k - 1])
  BY <1>5, OnTop
<1>9. e.id = 0 /\ e.wa_id = w
  BY <1>4 DEF Folded
<1>10. /\ RowIds' = RowIds /\ Stored' = Stored /\ RowsOf(selected)' = RowsOf(selected)
       /\ \A i : KeyOf(i)' = KeyOf(i)
  BY DEF RowIds, Stored, RowsOf, KeyOf
<1>11. CursorBound'
  <2> SUFFICES ASSUME NEW k \in DOMAIN all, all[k].id # 0
               PROVE  ~Before(KeyOf(all[k].id), Cursor)
    BY <1>3, <1>10 DEF CursorBound, Before
  <2>1. k - 1 \in DOMAIN m /\ all[k] = m[k - 1]
    BY <1>6, <1>8, <1>9
  <2> QED
    BY <2>1, <1>2 DEF PagingInv, CursorBound
<1>12. PagesInOrder'
  <2> SUFFICES ASSUME NEW j \in DOMAIN all, NEW k \in DOMAIN all, j < k,
                      all[j].id # 0, all[k].id # 0
               PROVE  Before(KeyOf(all[k].id), KeyOf(all[j].id))
    BY <1>3, <1>10 DEF PagesInOrder, Before
  <2>1. /\ j - 1 \in DOMAIN m /\ all[j] = m[j - 1] /\ k - 1 \in DOMAIN m /\ all[k] = m[k - 1]
        /\ j - 1 < k - 1
    BY <1>6, <1>8, <1>9
  <2> QED
    BY <2>1, <1>2 DEF PagingInv, PagesInOrder
<1>13. TwiceOnlyByWalk'
  <2> SUFFICES ASSUME NEW j \in DOMAIN all, NEW k \in DOMAIN all, j < k,
                      all[j].wa_id = all[k].wa_id
               PROVE  all[j].id = 0 /\ all[k].id # 0
    BY <1>3 DEF TwiceOnlyByWalk
  <2>1. k - 1 \in DOMAIN m /\ all[k] = m[k - 1]
    BY <1>6, <1>8
  <2>2. all[k].wa_id \in Loaded
    BY <2>1, <1>2 DEF Loaded
  <2>3. j - 1 \in DOMAIN m /\ all[j] = m[j - 1] /\ j - 1 < k - 1
    BY <2>2, <1>6, <1>8, <1>9
  <2> QED
    BY <2>1, <2>3, <1>2 DEF PagingInv, TwiceOnlyByWalk
<1>14. PagingTypeOK'
  <2>1. \A k \in DOMAIN all :
          /\ chat_jid[all[k].wa_id] = selected
          /\ all[k].id # 0 => all[k].id \in RowIds /\ rows[all[k].id] = all[k].wa_id
    <3> TAKE k \in DOMAIN all
    <3>1. \A i \in DOMAIN m :
            /\ chat_jid[m[i].wa_id] = selected
            /\ m[i].id # 0 => m[i].id \in RowIds /\ rows[m[i].id] = m[i].wa_id
      BY <1>2 DEF PagingInv, PagingTypeOK
    <3>2. CASE k = 1
      BY <3>2, <1>6, <1>9
    <3>3. CASE k # 1
      BY <3>1, <3>3, <1>6, <1>8
    <3> QED
      BY <3>2, <3>3
  <2> QED
    BY <2>1, <1>1, <1>3, <1>6, <1>10 DEF PagingInv, PagingTypeOK
<1>15. RowsDistinct' /\ JumpInOrder'
  BY <1>10 DEF PagingInv, RowsDistinct, JumpInOrder, RowsOf, RowIds
<1>16. WindowExact'
  <2>1. w \in Loaded'
    <3>1. 1 \in DOMAIN all
      BY <1>6
    <3> QED
      BY <3>1, <1>3, <1>6, <1>9 DEF Loaded
  <2>2. ASSUME NEW k \in DOMAIN m PROVE m[k].wa_id \in Loaded'
    BY <1>3, <1>6, <1>7 DEF Loaded
  <2>3. Loaded \subseteq Loaded'
    BY <2>2, <1>2 DEF Loaded
  <2> QED
    BY <2>1, <2>3, <1>10 DEF PagingInv, WindowExact, Before
<1> QED
  BY <1>11, <1>12, <1>13, <1>14, <1>15, <1>16 DEF PagingInv

\* OnIncoming on a message that is loaded: it loses its row id, not its place.
LEMMA ReplaceStep ==
  ASSUME PagingInv, NEW w \in Live, NEW at \in DOMAIN Messages, IsFirst(at, w),
         chat_jid[w] = selected,
         UNCHANGED <<rows, selected, Cursor, jump, skipped, bypassed>>,
         inflight' = inflight \ {w}, Messages' = [Messages EXCEPT ![at] = Folded(w)]
  PROVE  PagingInv'
<1>1. Messages \in Seq([wa_id : WAIDs, id : Nat]) /\ Folded(w) \in [wa_id : WAIDs, id : Nat]
  BY PagingAssumption DEF PagingInv, PagingTypeOK, Folded
<1>2. /\ Messages' \in Seq([wa_id : WAIDs, id : Nat]) /\ DOMAIN Messages' = DOMAIN Messages
      /\ Messages'[at] = Folded(w)
      /\ \A k \in DOMAIN Messages : k # at => Messages'[k] = Messages[k]
  BY <1>1
<1>3. Messages'[at].id = 0 /\ Messages'[at].wa_id = w /\ Messages[at].wa_id = w
      /\ \A j \in 1..(at - 1) : Messages[j].wa_id # w
  BY <1>2 DEF Folded, IsFirst
<1>4. \A k \in DOMAIN Messages : Messages'[k].wa_id = Messages[k].wa_id
  BY <1>2, <1>3
<1>5. \A k \in DOMAIN Messages : Messages'[k].id # 0 => Messages'[k] = Messages[k]
  BY <1>2, <1>3
<1>6. /\ RowIds' = RowIds /\ Stored' = Stored /\ RowsOf(selected)' = RowsOf(selected)
      /\ \A i : KeyOf(i)' = KeyOf(i)
  BY DEF RowIds, Stored, RowsOf, KeyOf
<1>7. CursorBound'
  BY <1>2, <1>5, <1>6 DEF PagingInv, CursorBound, Before
<1>8. PagesInOrder'
  BY <1>2, <1>5, <1>6 DEF PagingInv, PagesInOrder, Before
<1>9. TwiceOnlyByWalk'
  <2> SUFFICES ASSUME NEW j \in DOMAIN Messages, NEW k \in DOMAIN Messages, j < k,
                      Messages[j].wa_id = Messages[k].wa_id
               PROVE  Messages'[j].id = 0 /\ Messages'[k].id # 0
    BY <1>2, <1>4 DEF TwiceOnlyByWalk
  <2>1. Messages[j].id = 0 /\ Messages[k].id # 0
    BY DEF PagingInv, TwiceOnlyByWalk
  <2>2. Messages'[j].id = 0
    BY <2>1, <1>5
  <2>3. k # at
    <3>1. ASSUME k = at PROVE FALSE
      <4>1. j \in 1..(at - 1)
        BY <3>1, <1>1
      <4> QED
        BY <3>1, <4>1, <1>3
    <3> QED
      BY <3>1
  <2> QED
    BY <2>1, <2>2, <2>3, <1>2
<1>10. PagingTypeOK'
  <2>1. \A k \in DOMAIN Messages' :
          /\ chat_jid[Messages'[k].wa_id] = selected
          /\ Messages'[k].id # 0 =>
               Messages'[k].id \in RowIds /\ rows[Messages'[k].id] = Messages'[k].wa_id
    BY <1>2, <1>4, <1>5 DEF PagingInv, PagingTypeOK
  <2> QED
    BY <2>1, <1>2, <1>6 DEF PagingInv, PagingTypeOK
<1>11. RowsDistinct' /\ JumpInOrder'
  BY <1>6 DEF PagingInv, RowsDistinct, JumpInOrder, RowsOf, RowIds
<1>12. WindowExact'
  <2>1. Loaded' = Loaded
    BY <1>2, <1>4 DEF Loaded
  <2>2. w \in Loaded
    BY <1>3 DEF Loaded
  <2> QED
    BY <2>1, <2>2, <1>6 DEF PagingInv, WindowExact, Before
<1> QED
  BY <1>7, <1>8, <1>9, <1>10, <1>11, <1>12 DEF PagingInv

\* OnIncoming.
LEMMA OnIncomingStep ==
  ASSUME PagingInv, NEW w \in Live, OnIncoming(w)
  PROVE  PagingInv'
<1>1. UNCHANGED <<rows, selected, Cursor, jump, skipped, bypassed>> /\ inflight' = inflight \ {w}
  BY DEF OnIncoming
<1>2. CASE chat_jid[w] # selected /\ Messages' = Messages
  <2>1. WindowExact'
    <3> SUFFICES ASSUME NEW i \in RowsOf(selected), ~Before(KeyOf(i), Cursor)
                 PROVE  rows[i] \in Loaded \cup (inflight \ {w}) \cup skipped \cup bypassed
      BY <1>1, <1>2 DEF WindowExact, RowsOf, RowIds, KeyOf, Loaded
    <3>1. rows[i] # w
      BY <1>2 DEF RowsOf
    <3> QED
      BY <3>1 DEF PagingInv, WindowExact
  <2>2. PagingTypeOK'
    BY <1>1, <1>2 DEF PagingInv, PagingTypeOK, RowIds, RowsOf, Stored, KeyOf
  <2>3. RowsDistinct' /\ JumpInOrder'
    <3>1. RowIds' = RowIds /\ \A i : KeyOf(i)' = KeyOf(i)
      BY <1>1 DEF RowIds, KeyOf
    <3> QED
      BY <3>1, <1>1 DEF PagingInv, RowsDistinct, JumpInOrder, RowsOf, RowIds
  <2>4. CursorBound' /\ PagesInOrder' /\ TwiceOnlyByWalk'
    BY <1>1, <1>2 DEF PagingInv, CursorBound, PagesInOrder, TwiceOnlyByWalk, KeyOf
  <2> QED
    BY <2>1, <2>2, <2>3, <2>4 DEF PagingInv
<1>3. CASE chat_jid[w] = selected /\ w \notin Loaded /\ Messages' = <<Folded(w)>> \o Messages
  BY <1>1, <1>3, PrependStep
<1>4. ASSUME NEW k \in DOMAIN Messages, chat_jid[w] = selected, IsFirst(k, w),
             Messages' = [Messages EXCEPT ![k] = Folded(w)]
      PROVE  PagingInv'
  BY <1>1, <1>4, ReplaceStep
<1> QED
  BY <1>2, <1>3, <1>4 DEF OnIncoming

-----------------------------------------------------------------------------
(* The theorems *)

\* The invariant holds of an application that has opened nothing.
LEMMA InitPaging ==
  ASSUME PagingInit
  PROVE  PagingInv
<1>1. /\ rows = <<>> /\ inflight = {} /\ selected = NoChat /\ Messages = <<>>
      /\ Cursor = NoCursor /\ jump = NoJump /\ skipped = {} /\ bypassed = {}
  BY DEF PagingInit
<1>2. RowIds = {} /\ RowsOf(selected) = {} /\ DOMAIN Messages = {}
      /\ rows \in Seq(WAIDs) /\ Messages \in Seq([wa_id : WAIDs, id : Nat])
  BY <1>1 DEF RowIds, RowsOf
<1>3. PagingTypeOK
  BY <1>1, <1>2 DEF PagingTypeOK, NoJump
<1> QED
  BY <1>1, <1>2, <1>3 DEF PagingInv, RowsDistinct, CursorBound, JumpInOrder, WindowExact,
                          PagesInOrder, TwiceOnlyByWalk

\* Every step preserves the invariant: one case for each action.
LEMMA NextPaging ==
  ASSUME PagingInv, [PagingNext]_vars
  PROVE  PagingInv'
<1>1. ASSUME NEW w \in Live, OnMessage(w) \/ DropEvent(w) \/ OnIncoming(w) PROVE PagingInv'
  BY <1>1, OnMessageStep, DropEventStep, OnIncomingStep
<1>2. ASSUME NEW h \in Histories, OnHistorySync(h) PROVE PagingInv'
  BY <1>2, OnHistorySyncStep
<1>3. ASSUME NEW jid \in JIDs, SelectChat(jid) PROVE PagingInv'
  BY <1>3, SelectChatStep
<1>4. CASE LoadOlder
  BY <1>4, LoadOlderStep
<1>5. ASSUME NEW i \in RowIds, JumpNewer(i) PROVE PagingInv'
  BY <1>5, JumpNewerStep
<1>6. CASE JumpOlder
  BY <1>6, JumpOlderStep
<1>7. CASE JumpFails
  BY <1>7, JumpFailsStep
<1>8. CASE OnBack
  BY <1>8, OnBackStep
<1>9. CASE UNCHANGED vars
  <2>1. UNCHANGED <<rows, inflight, selected, Messages, Cursor, jump, skipped, bypassed>>
    BY <1>9 DEF vars, window
  <2>2. PagingTypeOK'
    BY <2>1 DEF PagingInv, PagingTypeOK, RowIds, RowsOf, Stored, KeyOf
  <2>3. RowsDistinct' /\ JumpInOrder'
    <3>1. RowIds' = RowIds /\ \A i : KeyOf(i)' = KeyOf(i)
      BY <2>1 DEF RowIds, KeyOf
    <3> QED
      BY <3>1, <2>1 DEF PagingInv, RowsDistinct, JumpInOrder, RowsOf, RowIds
  <2>4. CursorBound' /\ PagesInOrder' /\ TwiceOnlyByWalk'
    BY <2>1 DEF PagingInv, CursorBound, PagesInOrder, TwiceOnlyByWalk, KeyOf
  <2>5. WindowExact'
    BY <2>1 DEF PagingInv, WindowExact, RowIds, RowsOf, Loaded, KeyOf
  <2> QED
    BY <2>2, <2>3, <2>4, <2>5 DEF PagingInv
<1> QED
  BY <1>1, <1>2, <1>3, <1>4, <1>5, <1>6, <1>7, <1>8, <1>9 DEF PagingNext

\* The strengthened invariant holds of every reachable state.
THEOREM PagingInvariant == PagingSpec => []PagingInv
<1>1. PagingInit => PagingInv
  BY InitPaging
<1>2. PagingInv /\ [PagingNext]_vars => PagingInv'
  BY NextPaging
<1> QED
  BY <1>1, <1>2, PTL DEF PagingSpec

\* Type correctness; the cursor is always a place in the chat that is open.
THEOREM PagingTypes == PagingSpec => []PagingTypeOK
<1>1. PagingInv => PagingTypeOK
  BY DEF PagingInv
<1> QED
  BY <1>1, PagingInvariant, PTL

\* No row is lost between two pages, or between pages and events, for every
\* page size and however many rows share a millisecond (PageOlder, LoadOlder,
\* JumpToMessage, OnIncoming).
THEOREM WalkLosesNothing == PagingSpec => []WindowExact
<1>1. PagingInv => WindowExact
  BY DEF PagingInv
<1> QED
  BY <1>1, PagingInvariant, PTL

\* Pages never overlap and the walk never starts over (LoadOlder's checks of
\* the zero cursor).
THEOREM PagesNeverOverlap == PagingSpec => []PagesInOrder
<1>1. PagingInv => PagesInOrder
  BY DEF PagingInv
<1> QED
  BY <1>1, PagingInvariant, PTL

\* The only way to a doubled bubble is an event folded on top of a window whose
\* walk then reaches its row (OnIncoming's dedup).
THEOREM DoubledOnlyByWalk == PagingSpec => []TwiceOnlyByWalk
<1>1. PagingInv => TwiceOnlyByWalk
  BY DEF PagingInv
<1> QED
  BY <1>1, PagingInvariant, PTL

\* Every query of a page has exactly one result, whatever the rows, the cursor
\* and the limit: ORDER BY ts, id leaves SQLite no choice (PageOlder, and the two
\* halves of PageAround).
PagesAreDefined ==
  \A S \in SUBSET RowIds : \A limit \in Nat : \E page : NewestOf(S, limit) = {page}

\* It holds of every state.
THEOREM EveryQueryHasOnePage == PagingSpec => []PagesAreDefined
<1>1. ASSUME PagingTypeOK PROVE PagesAreDefined
  <2> SUFFICES ASSUME NEW S \in SUBSET RowIds, NEW limit \in Nat
               PROVE  \E page : NewestOf(S, limit) = {page}
    BY DEF PagesAreDefined
  <2>1. PICK page : page \in NewestOf(S, limit)
    BY <1>1, PageExists
  <2>2. ASSUME NEW other \in NewestOf(S, limit) PROVE other = page
    <3>1. Len(page) \in Nat /\ Len(other) \in Nat
      BY <2>1, <2>2, PageRows
    <3>2. Len(page) <= Len(other) \/ Len(other) <= Len(page)
      BY <3>1
    <3> QED
      BY <1>1, <2>1, <2>2, <3>2, PagesAgree
  <2> QED
    BY <2>1, <2>2
<1> QED
  BY <1>1, PagingTypes, PTL

=============================================================================
