---------------------------- MODULE SchemaProofs ----------------------------
(***************************************************************************)
(* What module Schema's checks show for two processes and two rows, for    *)
(* any number of them.                                                     *)
(*                                                                         *)
(* The invariant says of a process inside Open what the statements behind  *)
(* it have left in the file, whoever ran them: nothing is ever dropped, so *)
(* it stays there.  Of the index it says that its postings are those of    *)
(* the rows' present texts, and that its totals are theirs.                *)
(***************************************************************************)
EXTENDS Schema, OrderLemmas, SequenceTheorems, FiniteSetTheorems, TLAPS

Places == {"down", "schema", "scan", "alter", "backfill", "ready", "failed"}

\* Where a process may be in a file with these objects and columns: what its
\* statements so far have created is there.
Fits(q, objs, cs) ==
  /\ q.at \in Places /\ q.have \subseteq cs
  /\ q.at = "schema" =>
       q.n \in DOMAIN Objects /\ \A k \in 1..(q.n - 1) : Objects[k] \in objs
  /\ q.at \in {"scan", "alter", "backfill", "ready"} => ToSet(Objects) \subseteq objs
  /\ q.at \in {"scan", "alter"} =>
       /\ q.n \in DOMAIN Migrations
       /\ \A m \in 1..(q.n - 1) : ToSet(Migrations[m]) \subseteq cs
  /\ q.at = "alter" => missing(q.n, q.have) # {}
  /\ q.at \in {"backfill", "ready"} => Columns \subseteq cs

\* The postings are those of the rows as they are; only rows older than the
\* index may lack theirs.
PostingsCurrent ==
  /\ \A x \in postings : x[2] = body[x[1]]
  /\ \A i \in RowIds \ legacy : <<i, body[i]>> \in postings

\* With every row indexed, the totals are those of the rows.
TotalsCurrent ==
  legacy = {} => ftsRows = Len(body) /\ ftsTokens = SumTokens(body, RowIds)

SchemaInv ==
  /\ SchemaTypeOK
  /\ DOMAIN pc = Procs /\ \A p \in Procs : Fits(pc[p], objects, cols)
  /\ PostingsCurrent /\ TotalsCurrent

-----------------------------------------------------------------------------
(* Lists *)

\* The lists Open works through have seven statements and five migrations.
LEMMA Lists ==
  /\ Len(Objects) = 7 /\ DOMAIN Objects = 1..7
  /\ Len(Migrations) = 5 /\ DOMAIN Migrations = 1..5
  /\ \A m \in 1..5 : DOMAIN Migrations[m] \subseteq Nat
<1>1. Len(Objects) = 7 /\ DOMAIN Objects = 1..7
  BY DEF Objects
<1>2. Len(Migrations) = 5 /\ DOMAIN Migrations = 1..5
  BY DEF Migrations
<1>3. ASSUME NEW m \in 1..5 PROVE DOMAIN Migrations[m] \subseteq Nat
  <2>1. m \in {1, 2, 3, 4, 5}
    OBVIOUS
  <2>2. \/ Migrations[m] = MessageMigrations \/ Migrations[m] = ReplyMigrations
        \/ Migrations[m] = ChatMigrations \/ Migrations[m] = LinkMigrations
        \/ Migrations[m] = StarMigrations
    BY <2>1 DEF Migrations
  <2> QED
    BY <2>2 DEF MessageMigrations, ReplyMigrations, ChatMigrations, LinkMigrations, StarMigrations
<1> QED
  BY <1>1, <1>2, <1>3

\* Where a migration's columns are missing there is a first one.
LEMMA FirstMissing ==
  ASSUME NEW m \in DOMAIN Migrations, NEW have, missing(m, have) # {}
  PROVE  /\ Min(missing(m, have)) \in missing(m, have)
         /\ Migrations[m][Min(missing(m, have))] \in ToSet(Migrations[m])
<1> DEFINE S == missing(m, have)
<1>1. S \subseteq Nat
  BY Lists DEF missing
<1>2. \E n \in S : \A k \in S : n <= k
  BY <1>1, LeastNumber
<1>3. Min(S) \in S
  BY <1>2 DEF Min
<1> QED
  BY <1>3 DEF missing, ToSet

-----------------------------------------------------------------------------
(* Sums of tokens *)

\* The running sum that SumTokens is defined by.
RunningSum(f, b, rows) ==
  /\ f \in [0..Len(b) -> Nat] /\ f[0] = 0
  /\ \A n \in 1..Len(b) : f[n] = f[n - 1] + (IF n \in rows THEN Tokens[b[n]] ELSE 0)

\* The running sum exists, and SumTokens is its last value.
LEMMA SumsRun ==
  ASSUME NEW b \in Seq(Bodies), NEW rows
  PROVE  \E f : RunningSum(f, b, rows) /\ SumTokens(b, rows) = f[Len(b)]
<1> DEFINE add(n) == IF n \in rows THEN Tokens[b[n]] ELSE 0
           body_(f, n) == IF n = 0 THEN 0 ELSE f[n - 1] + add(n)
           Runs(n) == \E f \in [0..n -> Nat] :
                        f[0] = 0 /\ \A k \in 1..n : f[k] = f[k - 1] + add(k)
           Upto == {n \in Nat : Runs(n)}
<1>1. Len(b) \in Nat /\ \A n \in 1..Len(b) : add(n) \in Nat
  BY SchemaAssumption
<1> HIDE DEF add
<1>2. 0 \in Upto
  <2>1. \A k \in 1..0 : FALSE
    OBVIOUS
  <2>2. \E f \in [0..0 -> Nat] : f[0] = 0 /\ \A k \in 1..0 : f[k] = f[k - 1] + add(k)
    <3> WITNESS [n \in 0..0 |-> 0] \in [0..0 -> Nat]
    <3> QED
      BY <2>1
  <2> QED
    BY <2>2
<1>3. ASSUME NEW n \in 0..Len(b), n \in Upto, n < Len(b) PROVE n + 1 \in Upto
  <2>1. PICK f \in [0..n -> Nat] : f[0] = 0 /\ \A k \in 1..n : f[k] = f[k - 1] + add(k)
    BY <1>3
  <2> DEFINE g == [k \in 0..(n + 1) |-> IF k = n + 1 THEN f[n] + add(n + 1) ELSE f[k]]
  <2>2. g \in [0..(n + 1) -> Nat]
    <3>1. add(n + 1) \in Nat
      BY <1>1, <1>3
    <3>2. \A k \in 0..(n + 1) : k = n + 1 \/ k \in 0..n
      OBVIOUS
    <3> QED
      BY <3>1, <3>2
  <2>3. g[0] = 0
    BY <2>1
  <2>4. ASSUME NEW k \in 1..(n + 1) PROVE g[k] = g[k - 1] + add(k)
    <3>1. CASE k = n + 1
      BY <3>1
    <3>2. CASE k # n + 1
      <4>1. k \in 1..n /\ k - 1 \in 0..(n + 1) /\ k - 1 # n + 1 /\ k \in 0..(n + 1)
        BY <3>2
      <4> QED
        BY <4>1, <2>1
    <3> QED
      BY <3>1, <3>2
  <2> HIDE DEF g
  <2>5. Runs(n + 1)
    <3> WITNESS g \in [0..(n + 1) -> Nat]
    <3> QED
      BY <2>3, <2>4
  <2>6. n + 1 \in Nat
    BY <1>1, <1>3
  <2> HIDE DEF Runs
  <2> QED
    BY <2>5, <2>6
<1>4. Len(b) \in Upto
  <2> HIDE DEF Upto
  <2>1. \A n \in 0..Len(b) : n \in Upto
    BY <1>1, <1>2, <1>3, CountUp
  <2> QED
    BY <2>1, <1>1
<1>5. PICK f \in [0..Len(b) -> Nat] :
        f[0] = 0 /\ \A k \in 1..Len(b) : f[k] = f[k - 1] + add(k)
  BY <1>4
<1> DEFINE upTo == CHOOSE h : h = [n \in 0..Len(b) |-> body_(h, n)]
<1>6. f = [n \in 0..Len(b) |-> body_(f, n)]
  <2>1. ASSUME NEW n \in 0..Len(b) PROVE f[n] = body_(f, n)
    BY <1>1, <1>5
  <2> QED
    BY <2>1, <1>5
<1>7. upTo = [n \in 0..Len(b) |-> body_(upTo, n)]
  BY <1>6
<1>8. SumTokens(b, rows) = upTo[Len(b)]
  BY DEF SumTokens, add
<1> HIDE DEF upTo
<1>9. \A n \in 0..Len(b) : upTo[n] = f[n]
  <2> DEFINE Same == {n \in 0..Len(b) : upTo[n] = f[n]}
  <2>1. 0 \in Same
    BY <1>1, <1>5, <1>7
  <2>2. ASSUME NEW n \in 0..Len(b), n \in Same, n < Len(b) PROVE n + 1 \in Same
    <3>1. n + 1 \in 1..Len(b) /\ n + 1 \in 0..Len(b) /\ n + 1 # 0 /\ (n + 1) - 1 = n
      BY <2>2, <1>1
    <3>2. upTo[n + 1] = upTo[n] + add(n + 1)
      BY <3>1, <1>7
    <3>3. f[n + 1] = f[n] + add(n + 1)
      BY <3>1, <1>5
    <3> QED
      BY <3>1, <3>2, <3>3, <2>2
  <2>3. \A n \in 0..Len(b) : n \in Same
    <3> HIDE DEF Same
    <3> QED
      BY <2>1, <2>2, <1>1, CountUp
  <2> QED
    BY <2>3
<1> QED
  BY <1>1, <1>5, <1>8, <1>9 DEF RunningSum, add

\* A sum of tokens is a number; that of no rows is zero.
LEMMA SumIsNat ==
  ASSUME NEW b \in Seq(Bodies), NEW rows
  PROVE  /\ SumTokens(b, rows) \in Nat
         /\ rows = {} => SumTokens(b, rows) = 0
<1>1. PICK f : RunningSum(f, b, rows) /\ SumTokens(b, rows) = f[Len(b)]
  BY SumsRun
<1>2. Len(b) \in Nat /\ f[Len(b)] \in Nat
  BY <1>1 DEF RunningSum
<1>3. ASSUME rows = {} PROVE f[Len(b)] = 0
  <2> DEFINE Zero == {n \in 0..Len(b) : f[n] = 0}
  <2>1. 0 \in Zero
    BY <1>1, <1>2 DEF RunningSum
  <2>2. ASSUME NEW n \in 0..Len(b), n \in Zero, n < Len(b) PROVE n + 1 \in Zero
    <3>1. n + 1 \in 1..Len(b) /\ (n + 1) - 1 = n
      BY <2>2, <1>2
    <3>2. f[n + 1] = f[n] + 0
      BY <3>1, <1>1, <1>3 DEF RunningSum
    <3> QED
      BY <3>1, <3>2, <2>2
  <2>3. \A n \in 0..Len(b) : n \in Zero
    <3> HIDE DEF Zero
    <3> QED
      BY <2>1, <2>2, <1>2, CountUp
  <2> QED
    BY <2>3, <1>2
<1> QED
  BY <1>1, <1>2, <1>3

\* One more row adds its own tokens.
LEMMA SumAppend ==
  ASSUME NEW b \in Seq(Bodies), NEW x \in Bodies
  PROVE  SumTokens(Append(b, x), DOMAIN Append(b, x)) = SumTokens(b, DOMAIN b) + Tokens[x]
<1> DEFINE c == Append(b, x)
<1>1. /\ c \in Seq(Bodies) /\ Len(b) \in Nat /\ Len(c) = Len(b) + 1
      /\ DOMAIN b = 1..Len(b) /\ DOMAIN c = 1..Len(c)
      /\ \A n \in 1..Len(b) : c[n] = b[n]
      /\ c[Len(b) + 1] = x
  BY AppendProperties
<1> HIDE DEF c
<1>2. PICK f : RunningSum(f, b, DOMAIN b) /\ SumTokens(b, DOMAIN b) = f[Len(b)]
  BY SumsRun
<1>3. PICK g : RunningSum(g, c, DOMAIN c) /\ SumTokens(c, DOMAIN c) = g[Len(c)]
  BY <1>1, SumsRun
<1> DEFINE Same == {n \in 0..Len(b) : g[n] = f[n]}
<1>4. 0 \in Same
  BY <1>1, <1>2, <1>3 DEF RunningSum
<1>5. ASSUME NEW n \in 0..Len(b), n \in Same, n < Len(b) PROVE n + 1 \in Same
  <2>1. n + 1 \in 1..Len(b) /\ n + 1 \in 1..Len(c) /\ (n + 1) - 1 = n
    BY <1>1, <1>5
  <2>2. f[n + 1] = f[n] + Tokens[b[n + 1]]
    BY <1>1, <1>2, <2>1 DEF RunningSum
  <2>3. g[n + 1] = g[n] + Tokens[c[n + 1]]
    BY <1>1, <1>3, <2>1 DEF RunningSum
  <2> QED
    BY <1>1, <1>5, <2>1, <2>2, <2>3
<1>6. \A n \in 0..Len(b) : n \in Same
  <2> HIDE DEF Same
  <2> QED
    BY <1>1, <1>4, <1>5, CountUp
<1>7. g[Len(b)] = f[Len(b)]
  BY <1>6, <1>1
<1>8. g[Len(c)] = g[Len(b)] + Tokens[x]
  <2>1. Len(c) \in 1..Len(c) /\ Len(c) - 1 = Len(b) /\ Len(c) \in DOMAIN c
    BY <1>1
  <2>2. g[Len(c)] = g[Len(c) - 1] + Tokens[c[Len(c)]]
    BY <2>1, <1>3 DEF RunningSum
  <2> QED
    BY <2>1, <2>2, <1>1
<1> QED
  BY <1>2, <1>3, <1>7, <1>8 DEF c

\* A row's tokens are part of the sum; another text takes them out and brings
\* its own.
LEMMA SumChange ==
  ASSUME NEW b \in Seq(Bodies), NEW i \in DOMAIN b, NEW x \in Bodies
  PROVE  LET c == [b EXCEPT ![i] = x] IN
         /\ SumTokens(b, DOMAIN b) >= Tokens[b[i]]
         /\ SumTokens(c, DOMAIN c) = SumTokens(b, DOMAIN b) - Tokens[b[i]] + Tokens[x]
<1> DEFINE c == [b EXCEPT ![i] = x]
<1>0. DOMAIN b = 1..Len(b) /\ i \in 1..Len(b) /\ Len(b) \in Nat
  OBVIOUS
<1>1. /\ c \in Seq(Bodies) /\ Len(c) = Len(b)
      /\ DOMAIN c = 1..Len(b)
      /\ \A n \in 1..Len(b) : c[n] = IF n = i THEN x ELSE b[n]
  BY <1>0, ExceptSeq
<1> HIDE DEF c
<1>2. PICK f : RunningSum(f, b, DOMAIN b) /\ SumTokens(b, DOMAIN b) = f[Len(b)]
  BY SumsRun
<1>3. PICK g : RunningSum(g, c, DOMAIN c) /\ SumTokens(c, DOMAIN c) = g[Len(c)]
  BY <1>1, SumsRun
<1>4. \A n \in 1..Len(b) : Tokens[b[n]] \in Nat /\ Tokens[x] \in Nat
  BY <1>0, SchemaAssumption
<1> DEFINE Apart == {n \in 0..Len(b) :
              /\ n < i => g[n] = f[n]
              /\ ~(n < i) => f[n] >= Tokens[b[i]] /\ g[n] = f[n] - Tokens[b[i]] + Tokens[x]}
<1>5. 0 \in Apart
  BY <1>0, <1>1, <1>2, <1>3 DEF RunningSum
<1>6. ASSUME NEW n \in 0..Len(b), n \in Apart, n < Len(b) PROVE n + 1 \in Apart
  <2>1. n + 1 \in 1..Len(b) /\ n + 1 \in 0..Len(b) /\ (n + 1) - 1 = n
    BY <1>0, <1>6
  <2>2. f[n + 1] = f[n] + Tokens[b[n + 1]] /\ f[n] \in Nat
    BY <1>0, <1>2, <2>1 DEF RunningSum
  <2>3. g[n + 1] = g[n] + Tokens[c[n + 1]] /\ g[n] \in Nat
    BY <1>1, <1>3, <2>1 DEF RunningSum
  <2>4. Tokens[b[n + 1]] \in Nat /\ Tokens[b[i]] \in Nat /\ Tokens[x] \in Nat
    BY <1>0, <1>4, <2>1
  <2>5. CASE n + 1 < i
    <3>1. c[n + 1] = b[n + 1] /\ n < i
      BY <1>0, <1>1, <2>1, <2>5
    <3> QED
      BY <1>6, <2>1, <2>2, <2>3, <2>5, <3>1
  <2>6. CASE n + 1 = i
    <3>1. c[n + 1] = x /\ n < i
      BY <1>0, <1>1, <2>1, <2>6
    <3> QED
      BY <1>6, <2>1, <2>2, <2>3, <2>4, <2>6, <3>1
  <2>7. CASE n + 1 > i
    <3>1. c[n + 1] = b[n + 1] /\ ~(n < i)
      BY <1>0, <1>1, <2>1, <2>7
    <3> QED
      BY <1>6, <2>1, <2>2, <2>3, <2>4, <2>7, <3>1
  <2> QED
    BY <1>0, <2>1, <2>5, <2>6, <2>7
<1>7. \A n \in 0..Len(b) : n \in Apart
  <2> HIDE DEF Apart
  <2> QED
    BY <1>0, <1>5, <1>6, CountUp
<1>8. Len(b) \in Apart
  BY <1>7, <1>0
<1> QED
  BY <1>0, <1>1, <1>2, <1>3, <1>8 DEF c

-----------------------------------------------------------------------------
(* Processes inside Open *)

\* A process fits a file that has grown.
LEMMA FitsMore ==
  ASSUME NEW q, NEW objs, NEW cs, NEW moreObjs, NEW moreCs,
         Fits(q, objs, cs), objs \subseteq moreObjs, cs \subseteq moreCs
  PROVE  Fits(q, moreObjs, moreCs)
BY DEF Fits

\* After a scan or an ALTER TABLE a process fits where it goes on.
LEMMA ContinueFits ==
  ASSUME NEW m \in DOMAIN Migrations, NEW have, NEW objs, NEW cs, have \subseteq cs,
         ToSet(Objects) \subseteq objs,
         \A k \in 1..(m - 1) : ToSet(Migrations[k]) \subseteq cs
  PROVE  Fits(Continue(m, have), objs, cs)
<1>0. m \in 1..5
  BY Lists
<1>1. CASE missing(m, have) # {}
  <2>1. Continue(m, have) = At("alter", m, have)
    BY <1>1 DEF Continue
  <2> QED
    BY <1>1, <2>1 DEF Fits, At, Places
<1>2. CASE missing(m, have) = {}
  <2>1. ToSet(Migrations[m]) \subseteq cs
    BY <1>2 DEF missing, ToSet
  <2>2. \A k \in 1..m : ToSet(Migrations[k]) \subseteq cs
    BY <1>0, <2>1
  <2>3. CASE m < Len(Migrations)
    <3>1. Continue(m, have) = At("scan", m + 1, {})
      BY <1>2, <2>3 DEF Continue
    <3>2. m + 1 \in DOMAIN Migrations /\ (m + 1) - 1 = m
      BY <1>0, <2>3, Lists
    <3> QED
      BY <3>1, <3>2, <2>2 DEF Fits, At, Places
  <2>4. CASE ~(m < Len(Migrations))
    <3>1. Continue(m, have) = At("backfill", 0, {})
      BY <1>2, <2>4 DEF Continue
    <3>2. Columns \subseteq cs
      <4>1. m = 5
        BY <1>0, <2>4, Lists
      <4> QED
        BY <2>2, <4>1, Lists DEF Columns
    <3> QED
      BY <3>1, <3>2 DEF Fits, At, Places
  <2> QED
    BY <2>3, <2>4
<1> QED
  BY <1>1, <1>2

\* A step that moves one process to where it fits, in a file that keeps its
\* rows and its index, preserves the invariant.
LEMMA OpenStepKeepsInv ==
  ASSUME SchemaInv, NEW p \in Procs, NEW q, pc' = [pc EXCEPT ![p] = q],
         Fits(q, objects', cols'),
         objects \subseteq objects', objects' \subseteq ToSet(Objects),
         cols \subseteq cols', cols' \subseteq Columns,
         UNCHANGED <<body, postings, ftsRows, ftsTokens, legacy>>
  PROVE  SchemaInv'
<1>1. DOMAIN pc' = Procs
  BY DEF SchemaInv
<1>2. ASSUME NEW r \in Procs PROVE Fits(pc'[r], objects', cols')
  <2>1. CASE r = p
    BY <2>1 DEF SchemaInv
  <2>2. CASE r # p
    <3>1. pc'[r] = pc[r]
      BY <2>2 DEF SchemaInv
    <3>2. PICK at : at = pc[r]
      OBVIOUS
    <3>3. PICK objs, cs : objs = objects' /\ cs = cols'
      OBVIOUS
    <3>4. Fits(at, objects, cols) /\ objects \subseteq objs /\ cols \subseteq cs
      BY <3>2, <3>3 DEF SchemaInv
    <3>5. Fits(at, objs, cs)
      BY <3>4, FitsMore
    <3> QED
      BY <3>1, <3>2, <3>3, <3>5
  <2> QED
    BY <2>1, <2>2
<1>3. \A r \in Procs : pc'[r].have \subseteq cols'
  BY <1>2 DEF Fits
<1>4. SchemaTypeOK'
  BY <1>3 DEF SchemaInv, SchemaTypeOK, RowIds
<1>5. PostingsCurrent' /\ TotalsCurrent'
  BY DEF SchemaInv, PostingsCurrent, TotalsCurrent, RowIds
<1> QED
  BY <1>1, <1>2, <1>4, <1>5 DEF SchemaInv

\* A process that starts, ends or fails.
LEMMA StartAndEndKeepInv ==
  ASSUME SchemaInv, NEW p \in Procs,
         StartOpen(p) \/ AddColumnFails(p) \/ Crash(p) \/ Close(p)
  PROVE  SchemaInv'
<1>1. PICK q : q \in {At("schema", 1, {}), At("failed", 0, {}), Down}
               /\ pc' = [pc EXCEPT ![p] = q]
  BY DEF StartOpen, AddColumnFails, Crash, Close
<1>2. UNCHANGED <<file, legacy>>
  BY DEF StartOpen, AddColumnFails, Crash, Close
<1>3. Fits(q, objects, cols)
  BY <1>1, Lists DEF Fits, At, Down, Places
<1>4. Fits(q, objects', cols')
  BY <1>2, <1>3 DEF file
<1> QED
  BY <1>1, <1>2, <1>4, OpenStepKeepsInv DEF file, SchemaInv, SchemaTypeOK

\* A statement of schema.sql.
LEMMA ApplySchemaKeepsInv ==
  ASSUME SchemaInv, NEW p \in Procs, ApplySchema(p)
  PROVE  SchemaInv'
<1> DEFINE n == pc[p].n
           q == IF n < Len(Objects) THEN At("schema", n + 1, {}) ELSE At("scan", 1, {})
<1>1. /\ pc[p].at = "schema" /\ objects' = objects \cup {Objects[n]}
      /\ cols' = IF Objects[n] \in objects THEN cols ELSE cols \cup ColumnsOf(Objects[n])
      /\ pc' = [pc EXCEPT ![p] = q]
      /\ UNCHANGED <<body, postings, ftsRows, ftsTokens, legacy>>
  BY DEF ApplySchema
<1>2. n \in 1..7 /\ \A k \in 1..(n - 1) : Objects[k] \in objects
  BY <1>1, Lists DEF SchemaInv, Fits
<1>3. \A k \in 1..n : Objects[k] \in objects'
  BY <1>1, <1>2
<1>4. objects' \subseteq ToSet(Objects)
  BY <1>1, <1>2, Lists DEF ToSet, SchemaInv, SchemaTypeOK
<1>5. cols' \subseteq Columns /\ cols \subseteq cols'
  <2>1. ColumnsOf(Objects[n]) \subseteq Columns
    <3>1. ToSet(ChatMigrations) \subseteq Columns
      <4>1. 3 \in DOMAIN Migrations /\ Migrations[3] = ChatMigrations
        BY DEF Migrations
      <4> QED
        BY <4>1 DEF Columns
    <3> QED
      BY <3>1 DEF ColumnsOf
  <2> QED
    BY <1>1, <2>1 DEF SchemaInv, SchemaTypeOK
<1>6. Fits(q, objects', cols')
  <2>1. CASE n < Len(Objects)
    <3>1. q = At("schema", n + 1, {}) /\ n + 1 \in DOMAIN Objects /\ (n + 1) - 1 = n
      BY <2>1, <1>2, Lists
    <3> HIDE DEF q, n
    <3> QED
      BY <3>1, <1>3 DEF Fits, At, Places
  <2>2. CASE ~(n < Len(Objects))
    <3>1. q = At("scan", 1, {}) /\ n = 7
      BY <2>2, <1>2, Lists
    <3>2. ToSet(Objects) \subseteq objects'
      BY <3>1, <1>3, Lists DEF ToSet
    <3> HIDE DEF q, n
    <3> QED
      BY <3>1, <3>2, Lists DEF Fits, At, Places
  <2> QED
    BY <2>1, <2>2
<1>7. objects \subseteq objects'
  BY <1>1
<1> HIDE DEF q, n
<1> QED
  BY <1>1, <1>4, <1>5, <1>6, <1>7, OpenStepKeepsInv

\* PRAGMA table_info, and ALTER TABLE.
LEMMA MigrationKeepsInv ==
  ASSUME SchemaInv, NEW p \in Procs, ScanColumns(p) \/ AddColumn(p)
  PROVE  SchemaInv'
<1>0. /\ pc[p].at \in {"scan", "alter"} => 
           /\ pc[p].n \in DOMAIN Migrations /\ ToSet(Objects) \subseteq objects
           /\ \A k \in 1..(pc[p].n - 1) : ToSet(Migrations[k]) \subseteq cols
      /\ pc[p].at = "alter" => missing(pc[p].n, pc[p].have) # {}
      /\ pc[p].have \subseteq cols
      /\ objects \subseteq ToSet(Objects) /\ cols \subseteq Columns
  BY DEF SchemaInv, SchemaTypeOK, Fits
<1>1. CASE ScanColumns(p)
  <2>1. PICK q : q = Continue(pc[p].n, cols)
    OBVIOUS
  <2>2. /\ pc[p].at = "scan" /\ pc' = [pc EXCEPT ![p] = q]
        /\ UNCHANGED <<file, legacy>>
    BY <1>1, <2>1 DEF ScanColumns
  <2>3. Fits(q, objects, cols)
    BY <1>0, <2>1, <2>2, ContinueFits
  <2>4. Fits(q, objects', cols')
    BY <2>2, <2>3 DEF file
  <2> QED
    BY <1>0, <2>2, <2>4, OpenStepKeepsInv DEF file
<1>2. CASE AddColumn(p)
  <2> DEFINE more == cols \cup {NextColumn(p)}
  <2>1. PICK q : q = Continue(pc[p].n, pc[p].have \cup {NextColumn(p)})
    OBVIOUS
  <2>2. /\ pc[p].at = "alter" /\ pc' = [pc EXCEPT ![p] = q] /\ cols' = more
        /\ UNCHANGED <<objects, body, postings, ftsRows, ftsTokens, legacy>>
    BY <1>2, <2>1 DEF AddColumn
  <2>3. NextColumn(p) \in ToSet(Migrations[pc[p].n])
    BY <1>0, <2>2, FirstMissing DEF NextColumn
  <2>4. more \subseteq Columns
    BY <1>0, <2>2, <2>3 DEF Columns
  <2>5. Fits(q, objects, more)
    <3>1. /\ pc[p].have \cup {NextColumn(p)} \subseteq more
          /\ \A k \in 1..(pc[p].n - 1) : ToSet(Migrations[k]) \subseteq more
      BY <1>0, <2>2
    <3> HIDE DEF more
    <3> QED
      BY <1>0, <2>1, <2>2, <3>1, ContinueFits
  <2>6. Fits(q, objects', cols')
    BY <2>2, <2>5
  <2> QED
    BY <1>0, <2>2, <2>4, <2>6, OpenStepKeepsInv
<1> QED
  BY <1>1, <1>2

\* The backfill, which finds nothing to do.
LEMMA BackfillKeepsInv ==
  ASSUME SchemaInv, NEW p \in Procs, Backfill(p)
  PROVE  SchemaInv'
<1>1. {i \in RowIds : ~InFts(i)} = {}
  BY DEF InFts
<1>2. body \in Seq(Bodies) /\ ftsRows \in Nat /\ ftsTokens \in Nat
  BY DEF SchemaInv, SchemaTypeOK
<1>3. SumTokens(body, {}) = 0 /\ Cardinality({}) = 0
  BY <1>2, SumIsNat, FS_EmptySet
<1>4. /\ pc[p].at = "backfill" /\ pc' = [pc EXCEPT ![p] = At("ready", 0, {})]
      /\ postings' = postings \cup {<<i, body[i]>> : i \in {}}
      /\ ftsRows' = ftsRows + Cardinality({})
      /\ ftsTokens' = ftsTokens + SumTokens(body, {})
      /\ UNCHANGED <<objects, cols, body, legacy>>
  BY <1>1 DEF Backfill
<1>5. UNCHANGED <<body, postings, ftsRows, ftsTokens, legacy>>
  BY <1>2, <1>3, <1>4
<1>6. Fits(At("ready", 0, {}), objects', cols')
  BY <1>4 DEF SchemaInv, Fits, At, Places
<1> QED
  BY <1>4, <1>5, <1>6, OpenStepKeepsInv DEF SchemaInv, SchemaTypeOK

-----------------------------------------------------------------------------
(* Writes to messages *)

\* A new row comes with its posting.
LEMMA InsertRowKeepsInv ==
  ASSUME SchemaInv, NEW b \in Bodies, InsertRow(b)
  PROVE  SchemaInv'
<1>0. /\ body \in Seq(Bodies) /\ RowIds = 1..Len(body) /\ Len(body) \in Nat
      /\ ftsRows \in Nat /\ ftsTokens \in Nat /\ Tokens[b] \in Nat
      /\ postings \subseteq RowIds \X Bodies /\ legacy \subseteq RowIds
  BY SchemaAssumption DEF SchemaInv, SchemaTypeOK, RowIds
<1>1. /\ body' = Append(body, b)
      /\ postings' = postings \cup {<<Len(body) + 1, b>>}
      /\ ftsRows' = ftsRows + 1 /\ ftsTokens' = ftsTokens + Tokens[b]
      /\ UNCHANGED <<objects, cols, pc, legacy>>
  BY DEF InsertRow
<1>2. /\ body' \in Seq(Bodies) /\ Len(body') = Len(body) + 1
      /\ RowIds' = 1..(Len(body) + 1)
      /\ \A i \in RowIds : body'[i] = body[i]
      /\ body'[Len(body) + 1] = b
  BY <1>0, <1>1, AppendProperties DEF RowIds
<1>3. SchemaTypeOK'
  <2>1. legacy' \subseteq RowIds' /\ postings' \subseteq RowIds' \X Bodies
    BY <1>0, <1>1, <1>2
  <2>2. ftsRows' \in Nat /\ ftsTokens' \in Nat
    BY <1>0, <1>1
  <2> QED
    BY <1>1, <1>2, <2>1, <2>2 DEF SchemaInv, SchemaTypeOK
<1>4. PostingsCurrent'
  <2>1. ASSUME NEW x \in postings' PROVE x[2] = body'[x[1]]
    <3>1. CASE x \in postings
      BY <1>0, <1>2, <3>1 DEF SchemaInv, PostingsCurrent
    <3>2. CASE x = <<Len(body) + 1, b>>
      BY <1>2, <3>2
    <3> QED
      BY <1>1, <3>1, <3>2
  <2>2. ASSUME NEW i \in RowIds' \ legacy' PROVE <<i, body'[i]>> \in postings'
    <3>1. CASE i \in RowIds
      BY <1>1, <1>2, <3>1 DEF SchemaInv, PostingsCurrent
    <3>2. CASE i = Len(body) + 1
      BY <1>1, <1>2, <3>2
    <3> QED
      BY <1>0, <1>2, <3>1, <3>2
  <2> QED
    BY <2>1, <2>2 DEF PostingsCurrent
<1>5. TotalsCurrent'
  <2>1. SumTokens(Append(body, b), DOMAIN Append(body, b))
          = SumTokens(body, DOMAIN body) + Tokens[b]
    BY <1>0, SumAppend
  <2> QED
    BY <1>0, <1>1, <1>2, <2>1 DEF SchemaInv, TotalsCurrent, RowIds
<1>6. \A p \in Procs : Fits(pc'[p], objects', cols')
  BY <1>1 DEF SchemaInv
<1> QED
  BY <1>1, <1>3, <1>4, <1>5, <1>6 DEF SchemaInv

\* A changed row changes its posting.
LEMMA UpdateRowKeepsInv ==
  ASSUME SchemaInv, NEW b \in Bodies, NEW i \in RowIds, UpdateRow(i, b)
  PROVE  SchemaInv'
<1>0. /\ body \in Seq(Bodies) /\ RowIds = 1..Len(body) /\ Len(body) \in Nat
      /\ ftsRows \in Nat /\ ftsTokens \in Nat
      /\ Tokens[b] \in Nat /\ Tokens[body[i]] \in Nat
      /\ postings \subseteq RowIds \X Bodies /\ legacy \subseteq RowIds
  BY SchemaAssumption DEF SchemaInv, SchemaTypeOK, RowIds
<1>1. /\ body' = [body EXCEPT ![i] = b]
      /\ postings' = (postings \ {<<i, body[i]>>}) \cup {<<i, b>>}
      /\ ftsTokens' = ftsTokens - Tokens[body[i]] + Tokens[b]
      /\ ftsTokens >= Tokens[body[i]]
      /\ UNCHANGED <<objects, cols, ftsRows, pc, legacy>>
  BY DEF UpdateRow, CanUpdate
<1>2. /\ body' \in Seq(Bodies) /\ Len(body') = Len(body) /\ RowIds' = RowIds
      /\ \A j \in RowIds : body'[j] = IF j = i THEN b ELSE body[j]
  BY <1>0, <1>1, ExceptSeq DEF RowIds
<1>3. SchemaTypeOK'
  <2>1. legacy' \subseteq RowIds' /\ postings' \subseteq RowIds' \X Bodies
    BY <1>0, <1>1, <1>2
  <2>2. ftsRows' \in Nat /\ ftsTokens' \in Nat
    BY <1>0, <1>1
  <2> QED
    BY <1>1, <1>2, <2>1, <2>2 DEF SchemaInv, SchemaTypeOK
<1>4. PostingsCurrent'
  <2>1. ASSUME NEW x \in postings' PROVE x[2] = body'[x[1]]
    <3>1. CASE x = <<i, b>>
      BY <1>2, <3>1
    <3>2. CASE x # <<i, b>>
      <4>1. /\ x \in postings /\ x # <<i, body[i]>> /\ x[1] \in RowIds
            /\ x[2] = body[x[1]] /\ x = <<x[1], x[2]>>
        BY <1>0, <1>1, <3>2 DEF SchemaInv, PostingsCurrent
      <4>2. x[1] # i
        BY <4>1
      <4> QED
        BY <1>2, <4>1, <4>2
    <3> QED
      BY <3>1, <3>2
  <2>2. ASSUME NEW j \in RowIds' \ legacy' PROVE <<j, body'[j]>> \in postings'
    <3>1. CASE j # i
      BY <1>1, <1>2, <3>1 DEF SchemaInv, PostingsCurrent
    <3>2. CASE j = i
      BY <1>1, <1>2, <3>2
    <3> QED
      BY <3>1, <3>2
  <2> QED
    BY <2>1, <2>2 DEF PostingsCurrent
<1>5. TotalsCurrent'
  <2>1. SumTokens([body EXCEPT ![i] = b], DOMAIN [body EXCEPT ![i] = b])
          = SumTokens(body, DOMAIN body) - Tokens[body[i]] + Tokens[b]
    BY <1>0, SumChange DEF RowIds
  <2> QED
    BY <1>0, <1>1, <1>2, <2>1 DEF SchemaInv, TotalsCurrent, RowIds
<1>6. \A p \in Procs : Fits(pc'[p], objects', cols')
  BY <1>1 DEF SchemaInv
<1> QED
  BY <1>1, <1>3, <1>4, <1>5, <1>6 DEF SchemaInv

-----------------------------------------------------------------------------
(* The theorems *)

\* Every file an earlier version may have left satisfies the invariant.
LEMMA InitHolds == Init => SchemaInv
<1> SUFFICES ASSUME Init PROVE SchemaInv
  OBVIOUS
<1>1. objects \subseteq ToSet(Objects)
  <2>1. ToSet(SubSeq(Objects, 1, 5)) \subseteq ToSet(Objects)
    BY DEF ToSet, Objects
  <2>2. ToSet(SubSeq(Objects, 1, 2)) \subseteq ToSet(Objects)
    BY DEF ToSet, Objects
  <2> QED
    BY <2>1, <2>2 DEF Init
<1>2. cols \subseteq Columns
  <2>1. ASSUME NEW m \in 0..Len(Migrations)
        PROVE  UNION {ToSet(Migrations[k]) : k \in 1..m} \subseteq Columns
    BY Lists DEF Columns
  <2> QED
    BY <2>1 DEF Init
<1>3. body \in Seq(Bodies)
  <2>1. <<>> \in Seq(Bodies)
    OBVIOUS
  <2>2. BoundedSeq(Bodies, MaxRows) \subseteq Seq(Bodies)
    <3>1. ASSUME NEW m \in 0..MaxRows, NEW f \in [1..m -> Bodies] PROVE f \in Seq(Bodies)
      BY SchemaAssumption
    <3> QED
      BY <3>1 DEF BoundedSeq, SeqOf
  <2> QED
    BY <2>1, <2>2 DEF Init
<1>4. legacy = {} \/ legacy = RowIds
  BY DEF Init
<1>5. RowIds = 1..Len(body) /\ Len(body) \in Nat
  BY <1>3 DEF RowIds
<1>6. postings = {<<i, body[i]>> : i \in RowIds \ legacy}
  BY DEF Init
<1>7. postings \subseteq RowIds \X Bodies
  <2>1. \A i \in RowIds : body[i] \in Bodies
    BY <1>3 DEF RowIds
  <2> QED
    BY <1>6, <2>1
<1>8. ftsRows \in Nat /\ (legacy = {} => ftsRows = Len(body))
  <2>1. IsFiniteSet(RowIds) /\ Cardinality(RowIds) = Len(body)
    BY <1>5, FS_Interval
  <2>2. IsFiniteSet(RowIds \ legacy)
    BY <2>1, FS_Subset
  <2>3. Cardinality(RowIds \ legacy) \in Nat
    BY <2>2, FS_CardinalityType
  <2>4. ftsRows = Cardinality(RowIds \ legacy)
    BY DEF Init
  <2>5. legacy = {} => RowIds \ legacy = RowIds
    OBVIOUS
  <2> QED
    BY <2>1, <2>3, <2>4, <2>5
<1>9. ftsTokens \in Nat /\ (legacy = {} => ftsTokens = SumTokens(body, RowIds))
  <2>1. ftsTokens = SumTokens(body, RowIds \ legacy)
    BY DEF Init
  <2>2. legacy = {} => RowIds \ legacy = RowIds
    OBVIOUS
  <2> QED
    BY <1>3, <2>1, <2>2, SumIsNat
<1>10. PostingsCurrent /\ TotalsCurrent
  BY <1>6, <1>8, <1>9 DEF PostingsCurrent, TotalsCurrent
<1>11. pc = [p \in Procs |-> Down]
  BY DEF Init
<1>12. DOMAIN pc = Procs /\ \A p \in Procs : Fits(pc[p], objects, cols) /\ pc[p].have \subseteq cols
  BY <1>11 DEF Fits, Down, At, Places
<1>13. SchemaTypeOK
  BY <1>1, <1>2, <1>3, <1>4, <1>7, <1>8, <1>9, <1>12 DEF SchemaTypeOK
<1> QED
  BY <1>10, <1>12, <1>13 DEF SchemaInv

\* Every step of any process preserves it.
LEMMA StepKeepsInv == SchemaInv /\ [Next]_vars => SchemaInv'
<1> SUFFICES ASSUME SchemaInv, [Next]_vars PROVE SchemaInv'
  OBVIOUS
<1>1. ASSUME NEW p \in Procs, OpenStep(p) \/ Crash(p) \/ Close(p) PROVE SchemaInv'
  BY <1>1, StartAndEndKeepInv, ApplySchemaKeepsInv, MigrationKeepsInv, BackfillKeepsInv
     DEF OpenStep
<1>2. ASSUME NEW b \in Bodies, InsertRow(b) PROVE SchemaInv'
  BY <1>2, InsertRowKeepsInv
<1>3. ASSUME NEW b \in Bodies, NEW i \in RowIds, UpdateRow(i, b) PROVE SchemaInv'
  BY <1>3, UpdateRowKeepsInv
<1>4. CASE UNCHANGED vars
  BY <1>4 DEF vars, file, SchemaInv, SchemaTypeOK, PostingsCurrent, TotalsCurrent, RowIds
<1> QED
  BY <1>1, <1>2, <1>3, <1>4 DEF Next

\* In every behaviour, what lies behind each process is in the file, and the
\* index is that of the rows.
THEOREM SchemaInvariant == Spec => []SchemaInv
<1> QED
  BY InitHolds, StepKeepsInv, PTL DEF Spec

\* The file, its index and the processes keep their types, the columns a process
\* has read among those that are there.
THEOREM SchemaTypes == Spec => []SchemaTypeOK
<1>1. SchemaInv => SchemaTypeOK
  BY DEF SchemaInv
<1> QED
  BY <1>1, SchemaInvariant, PTL

\* An Open that returns has every table, trigger and column in place.
THEOREM OpenCompletes == Spec => []ReadyMeansComplete
<1>1. SchemaInv => ReadyMeansComplete
  BY DEF SchemaInv, SchemaTypeOK, Fits, ReadyMeansComplete
<1> QED
  BY <1>1, SchemaInvariant, PTL

\* The rows that match a phrase are those whose present texts hold it, but for
\* rows older than the index.
LEMMA MatchesCurrent ==
  ASSUME SchemaInv, NEW q \in Phrases
  PROVE  LET said == {i \in RowIds : q \in Holds[body[i]]} IN
         Matches(q) \subseteq said /\ said \ legacy \subseteq Matches(q)
<1>1. ASSUME NEW i \in Matches(q) PROVE i \in RowIds /\ q \in Holds[body[i]]
  BY <1>1 DEF Matches, SchemaInv, PostingsCurrent
<1>2. ASSUME NEW i \in RowIds \ legacy, q \in Holds[body[i]] PROVE i \in Matches(q)
  <2>1. <<i, body[i]>> \in postings /\ body[i] \in Bodies
    BY DEF SchemaInv, SchemaTypeOK, PostingsCurrent, RowIds
  <2> QED
    BY <1>2, <2>1 DEF Matches
<1> QED
  BY <1>1, <1>2

\* What an answer to a search is: matches only, no more than the limit, and all
\* of them when it has not reached the limit.
LEMMA AnswersToSearch ==
  ASSUME SchemaInv, NEW q \in Phrases, NEW hits \in Search(q)
  PROVE  /\ hits \subseteq Matches(q) /\ Cardinality(hits) <= SearchLimit
         /\ Cardinality(hits) < SearchLimit => hits = Matches(q)
<1>1. IsFiniteSet(Matches(q))
  <2>1. IsFiniteSet(1..Len(body)) /\ RowIds = 1..Len(body)
    BY FS_Interval DEF SchemaInv, SchemaTypeOK, RowIds
  <2> QED
    BY <2>1, FS_Subset DEF Matches
<1>2. PICK n \in Nat : n = Cardinality(Matches(q))
  BY <1>1, FS_CardinalityType
<1>3. SearchLimit \in Nat
  BY SchemaAssumption
<1>4. Min({SearchLimit, n}) \in {SearchLimit, n}
      /\ Min({SearchLimit, n}) <= SearchLimit /\ Min({SearchLimit, n}) <= n
  <2>1. \E k \in {SearchLimit, n} : \A l \in {SearchLimit, n} : k <= l
    BY <1>3
  <2> QED
    BY <2>1 DEF Min
<1>5. hits \subseteq Matches(q) /\ Cardinality(hits) = Min({SearchLimit, n})
  BY <1>2 DEF Search
<1>6. ASSUME Cardinality(hits) < SearchLimit PROVE hits = Matches(q)
  <2>1. Cardinality(hits) = Cardinality(Matches(q))
    BY <1>2, <1>3, <1>4, <1>5, <1>6
  <2> QED
    BY <1>1, <1>5, <2>1, FS_Subset
<1> QED
  BY <1>3, <1>4, <1>5, <1>6

\* Search gives messages whose present texts hold the phrase, at most as many
\* as the limit, and short of the limit all that the index knows of.
THEOREM SearchIsExact == Spec => []SearchExact
<1>1. SchemaInv => SearchExact
  <2> SUFFICES ASSUME SchemaInv, NEW q \in Phrases, NEW hits \in Search(q)
               PROVE  LET said == {i \in RowIds : q \in Holds[body[i]]} IN
                      /\ hits \subseteq said /\ Cardinality(hits) <= SearchLimit
                      /\ Cardinality(hits) < SearchLimit => said \ legacy \subseteq hits
    BY DEF SearchExact
  <2> QED
    BY MatchesCurrent, AnswersToSearch
<1> QED
  BY <1>1, SchemaInvariant, PTL

\* Where every row was indexed when it was stored, FTS5 refuses no UPDATE.
THEOREM NoUpdateIsRefused == Spec => []UpdatesAccepted
<1>1. SchemaInv => UpdatesAccepted
  <2> SUFFICES ASSUME SchemaInv, legacy = {}, NEW i \in RowIds PROVE CanUpdate(i)
    BY DEF UpdatesAccepted
  <2>1. body \in Seq(Bodies) /\ i \in DOMAIN body /\ body[i] \in Bodies /\ Len(body) >= 1
    BY DEF SchemaInv, SchemaTypeOK, RowIds
  <2>2. SumTokens(body, DOMAIN body) >= Tokens[body[i]]
    BY <2>1, SumChange
  <2> QED
    BY <2>1, <2>2 DEF SchemaInv, TotalsCurrent, CanUpdate, RowIds
<1> QED
  BY <1>1, SchemaInvariant, PTL
=============================================================================
