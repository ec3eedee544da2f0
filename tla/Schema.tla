-------------------------------- MODULE Schema --------------------------------
(***************************************************************************)
(* The database file itself: what store.Open makes of the file it finds,   *)
(* statement by statement, and the full-text index the triggers keep.      *)
(*                                                                         *)
(* Every statement of Open commits on its own.  The process can end        *)
(* between any two, and another process (the app a second time, cmd/seed,  *)
(* cmd/bench) can open the same file; SQLite runs their statements one     *)
(* after the other.  A file starts as an earlier version left it.          *)
(*                                                                         *)
(* FTS5 is SQLite's: a set of postings, and the two totals (rows, tokens)  *)
(* its 'delete' command subtracts from.  messages_fts holds no text of its *)
(* own: a lookup by rowid reads the content table.  Which phrases a text   *)
(* holds is the tokenizer's answer, a constant; which of too many matches  *)
(* rank first is FTS5's, and left open.                                    *)
(***************************************************************************)
EXTENDS Integers, Sequences, SequencesExt, FiniteSetsExt

CONSTANTS
  Procs,      \* processes that may have the file open
  Bodies,     \* message texts
  Tokens,     \* the number of tokens the tokenizer finds in each
  Phrases,    \* what a user may search for
  Holds,      \* of each text, the phrases whose tokens occur in it in a row
  SearchLimit,  \* the hits a search asks for at most
  MaxRows,    \* bound: messages stored
  MaxCrashes  \* bound: processes that end before Open returns

ASSUME SchemaAssumption ==
  /\ Tokens \in [Bodies -> Nat] /\ Holds \in [Bodies -> SUBSET Phrases]
  /\ SearchLimit \in Nat \ {0}
  /\ MaxRows \in Nat /\ MaxCrashes \in Nat

VARIABLES
  objects,   \* the tables and triggers that exist
  cols,      \* the columns of messages and chats, of those added by migrations
  body,      \* messages: row id -> body
  postings,  \* messages_fts: <<row id, body it was indexed under>>
  ftsRows, ftsTokens,  \* the totals of the index
  pc,        \* where each process is in Open
  legacy,    \* history variable: the rows older than the index
  crashes    \* counts to MaxCrashes

file == <<objects, cols, body, postings, ftsRows, ftsTokens>>
vars == <<file, pc, legacy, crashes>>

RowIds == DOMAIN body

-----------------------------------------------------------------------------
(* What Open works through *)

\* The statements of schema.sql that create something this model looks at.
\* (Nothing deletes messages, so messages_ad never fires.)
Objects == <<"messages", "chats", "messages_fts", "messages_ai", "messages_au",
             "settings", "reactions">>

MessageMigrations == <<"status">>
ReplyMigrations == <<"quoted_waid", "quoted_body", "quoted_sender", "edited", "revoked">>
ChatMigrations == <<"pinned", "archived", "mute_until">>
LinkMigrations == <<"link_url", "link_title", "link_desc">>
StarMigrations == <<"starred">>

Migrations ==
  <<MessageMigrations, ReplyMigrations, ChatMigrations, LinkMigrations, StarMigrations>>

Columns == UNION {ToSet(Migrations[m]) : m \in DOMAIN Migrations}

\* The columns a table is created with: all of them.
ColumnsOf(object) ==
  CASE object = "messages" -> Columns \ ToSet(ChatMigrations)
    [] object = "chats"    -> ToSet(ChatMigrations)
    [] OTHER               -> {}

\* Where a process is: at the n-th statement or migration, with the columns it
\* has read.
At(where, n, have) == [at |-> where, n |-> n, have |-> have]
Down == At("down", 0, {})

\* Mutant: one column stands for its group, as in migrateAddStatusColumn.
missingByFirst(m, have) == IF Migrations[m][1] \in have THEN {} ELSE DOMAIN Migrations[m]

\* Mutant: no look at what is there.
missingUnchecked(m, have) == DOMAIN Migrations[m]

\* The columns of a migration that are not there, by their place in its list.
missing(m, have) == {i \in DOMAIN Migrations[m] : Migrations[m][i] \notin have}

\* A migration after it has read `have`: its next ALTER TABLE, or the next one.
Continue(m, have) ==
  IF missing(m, have) # {} THEN At("alter", m, have)
  ELSE IF m < Len(Migrations) THEN At("scan", m + 1, {})
  ELSE At("backfill", 0, {})

\* The tokens of some rows of a table.
SumTokens(b, rows) ==
  LET upTo[n \in 0..Len(b)] ==
        IF n = 0 THEN 0 ELSE upTo[n - 1] + (IF n \in rows THEN Tokens[b[n]] ELSE 0)
  IN upTo[Len(b)]

\* A new file, or one of an earlier version: the last m migrations are missing,
\* and with all of them perhaps the index too.
Init ==
  /\ pc = [p \in Procs |-> Down] /\ crashes = 0
  /\ \/ objects = {} /\ cols = {} /\ body = <<>> /\ legacy = {}
     \/ \E m \in 0..Len(Migrations) :
          /\ objects = ToSet(SubSeq(Objects, 1, 5))
          /\ cols = UNION {ToSet(Migrations[k]) : k \in 1..m}
          /\ body \in BoundedSeq(Bodies, MaxRows) /\ legacy = {}
     \/ /\ objects = ToSet(SubSeq(Objects, 1, 2)) /\ cols = {}
        /\ body \in BoundedSeq(Bodies, MaxRows) /\ legacy = RowIds
  /\ postings = {<<i, body[i]>> : i \in RowIds \ legacy}
  /\ ftsRows = Cardinality(RowIds \ legacy)
  /\ ftsTokens = SumTokens(body, RowIds \ legacy)

-----------------------------------------------------------------------------
(* Open *)

StartOpen(p) ==
  /\ pc[p].at \in {"down", "failed"}
  /\ pc' = [pc EXCEPT ![p] = At("schema", 1, {})]
  /\ UNCHANGED <<file, legacy, crashes>>

\* The next CREATE ... IF NOT EXISTS of schema.sql.
ApplySchema(p) ==
  /\ pc[p].at = "schema"
  /\ LET n == pc[p].n IN
       /\ objects' = objects \cup {Objects[n]}
       /\ cols' = IF Objects[n] \in objects THEN cols ELSE cols \cup ColumnsOf(Objects[n])
       /\ pc' = [pc EXCEPT ![p] = IF n < Len(Objects) THEN At("schema", n + 1, {})
                                  ELSE At("scan", 1, {})]
  /\ UNCHANGED <<body, postings, ftsRows, ftsTokens, legacy, crashes>>

\* PRAGMA table_info.
ScanColumns(p) ==
  /\ pc[p].at = "scan"
  /\ pc' = [pc EXCEPT ![p] = Continue(pc[p].n, cols)]
  /\ UNCHANGED <<file, legacy, crashes>>

NextColumn(p) == Migrations[pc[p].n][Min(missing(pc[p].n, pc[p].have))]

\* ALTER TABLE ... ADD COLUMN.
AddColumn(p) ==
  /\ pc[p].at = "alter" /\ NextColumn(p) \notin cols
  /\ cols' = cols \cup {NextColumn(p)}
  /\ pc' = [pc EXCEPT ![p] = Continue(pc[p].n, pc[p].have \cup {NextColumn(p)})]
  /\ UNCHANGED <<objects, body, postings, ftsRows, ftsTokens, legacy, crashes>>

\* "duplicate column name": another process has added it since the scan.
AddColumnFails(p) ==
  /\ pc[p].at = "alter" /\ NextColumn(p) \in cols
  /\ pc' = [pc EXCEPT ![p] = At("failed", 0, {})]
  /\ UNCHANGED <<file, legacy, crashes>>

\* EXISTS (SELECT 1 FROM messages_fts WHERE rowid = i).  By FTS5's rule the
\* lookup reads the content table, messages itself.
InFts(i) == i \in RowIds

\* backfillFTSIfNeeded, which indexes the rows it finds missing: none, though
\* store.go:268-269 says it "re-indexes any messages that exist in the messages
\* table but not in messages_fts".
Backfill(p) ==
  /\ pc[p].at = "backfill"
  /\ LET pending == {i \in RowIds : ~InFts(i)} IN
       /\ postings' = postings \cup {<<i, body[i]>> : i \in pending}
       /\ ftsRows' = ftsRows + Cardinality(pending)
       /\ ftsTokens' = ftsTokens + SumTokens(body, pending)
  /\ pc' = [pc EXCEPT ![p] = At("ready", 0, {})]
  /\ UNCHANGED <<objects, cols, body, legacy, crashes>>

\* The process ends inside Open, or a statement of it fails.
Crash(p) ==
  /\ pc[p].at \notin {"down", "failed", "ready"} /\ crashes < MaxCrashes
  /\ crashes' = crashes + 1
  /\ pc' = [pc EXCEPT ![p] = Down]
  /\ UNCHANGED <<file, legacy>>

\* The process ends, in whatever way, with the store open.
Close(p) ==
  /\ pc[p].at = "ready"
  /\ pc' = [pc EXCEPT ![p] = Down]
  /\ UNCHANGED <<file, legacy, crashes>>

-----------------------------------------------------------------------------
(* Writes to messages, with their triggers *)

InUse == \E p \in Procs : pc[p].at = "ready"

\* Mutant: the trigger takes the id of the next row.
InsertRowMisnumbered(b) ==
  /\ InUse /\ Len(body) < MaxRows
  /\ body' = Append(body, b)
  /\ postings' = postings \cup {<<Len(body) + 2, b>>}
  /\ ftsRows' = ftsRows + 1 /\ ftsTokens' = ftsTokens + Tokens[b]
  /\ UNCHANGED <<objects, cols, pc, legacy, crashes>>

\* INSERT INTO messages, and messages_ai.
InsertRow(b) ==
  /\ InUse /\ Len(body) < MaxRows
  /\ body' = Append(body, b)
  /\ postings' = postings \cup {<<Len(body) + 1, b>>}
  /\ ftsRows' = ftsRows + 1 /\ ftsTokens' = ftsTokens + Tokens[b]
  /\ UNCHANGED <<objects, cols, pc, legacy, crashes>>

\* FTS5 refuses a 'delete' its totals do not cover ("database disk image is
\* malformed"), and with it the UPDATE that asked for it.
CanUpdate(i) == ftsRows >= 1 /\ ftsTokens >= Tokens[body[i]]

\* Mutant: the 'delete' left out of the trigger.
UpdateRowKeepsPosting(i, b) ==
  /\ InUse /\ CanUpdate(i)
  /\ body' = [body EXCEPT ![i] = b]
  /\ postings' = postings \cup {<<i, b>>}
  /\ ftsTokens' = ftsTokens + Tokens[b] - Tokens[body[i]]
  /\ UNCHANGED <<objects, cols, ftsRows, pc, legacy, crashes>>

\* Mutant: the 'delete' is given the new text.
UpdateRowDeletesNew(i, b) ==
  /\ InUse /\ CanUpdate(i)
  /\ body' = [body EXCEPT ![i] = b]
  /\ postings' = (postings \ {<<i, b>>}) \cup {<<i, b>>}
  /\ UNCHANGED <<objects, cols, ftsRows, ftsTokens, pc, legacy, crashes>>

\* UPDATE messages, of whatever column, and messages_au.
UpdateRow(i, b) ==
  /\ InUse /\ CanUpdate(i)
  /\ body' = [body EXCEPT ![i] = b]
  /\ postings' = (postings \ {<<i, body[i]>>}) \cup {<<i, b>>}
  /\ ftsTokens' = ftsTokens - Tokens[body[i]] + Tokens[b]
  /\ UNCHANGED <<objects, cols, ftsRows, pc, legacy, crashes>>

\* messages_fts MATCH q, joined to messages.  A phrase without a token is held
\* by no text.
Matches(q) == {i \in RowIds : \E b \in Bodies : <<i, b>> \in postings /\ q \in Holds[b]}

\* The answers Store.Search may give: all matches, or as many as the LIMIT lets
\* through, whichever rank first.
Search(q) ==
  {hits \in SUBSET Matches(q) :
     Cardinality(hits) = Min({SearchLimit, Cardinality(Matches(q))})}

-----------------------------------------------------------------------------

OpenStep(p) ==
  \/ StartOpen(p) \/ ApplySchema(p) \/ ScanColumns(p)
  \/ AddColumn(p) \/ AddColumnFails(p) \/ Backfill(p)

Next ==
  \/ \E p \in Procs : OpenStep(p) \/ Crash(p) \/ Close(p)
  \/ \E b \in Bodies : InsertRow(b) \/ \E i \in RowIds : UpdateRow(i, b)

Spec == Init /\ [][Next]_vars

\* Open runs to its end unless the process ends, and the user starts a program
\* again that is not running.
FairSpec == Spec /\ \A p \in Procs : WF_vars(OpenStep(p))

-----------------------------------------------------------------------------
(* Properties *)

SchemaTypeOK ==
  /\ objects \subseteq ToSet(Objects) /\ cols \subseteq Columns
  /\ body \in Seq(Bodies) /\ legacy \subseteq RowIds
  /\ postings \subseteq RowIds \X Bodies
  /\ ftsRows \in Nat /\ ftsTokens \in Nat
  /\ \A p \in Procs : pc[p].have \subseteq cols

\* An Open that returns has everything in place, whatever version the file was
\* of, wherever earlier attempts were cut off and whoever else is opening it
\* (Open: idempotent, safe to call repeatedly).
ReadyMeansComplete ==
  \A p \in Procs : pc[p].at = "ready" => objects = ToSet(Objects) /\ cols = Columns

\* A hit is a message whose present text holds the phrase, edits and status
\* changes included, and there are never more than the limit; fewer than the
\* limit are all there are.  Only rows older than the index may be missing
\* then (messages_ai, messages_au; Store.Search).
SearchExact ==
  \A q \in Phrases : \A hits \in Search(q) :
    LET said == {i \in RowIds : q \in Holds[body[i]]} IN
    /\ hits \subseteq said /\ Cardinality(hits) <= SearchLimit
    /\ Cardinality(hits) < SearchLimit => said \ legacy \subseteq hits

\* In a file whose rows were all indexed when they were stored, no UPDATE of a
\* message is refused: the index's totals never fall short of a row.
UpdatesAccepted == legacy = {} => \A i \in RowIds : CanUpdate(i)

\* However often Open is cut off, or loses the race for a column, the program
\* ends up running.
OpenConverges == \A p \in Procs : (pc[p].at # "ready") ~> (pc[p].at = "ready")
=============================================================================
