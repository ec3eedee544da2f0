# Formal models of wachat

wachat is a WhatsApp desktop client: whatsmeow (the protocol library) delivers
events on its own goroutines, wachat persists them in SQLite, hands them over a
bounded channel to the one goroutine that owns the window, and that goroutine
keeps an in-memory view-model which it draws with Gio. This directory holds
TLA+ models of that program, TLC configurations that check them, and TLAPS
proofs of what they promise. `PROJECT.json` is the index: components, runs,
mutants, the source lines each definition models, findings, hazards, theorems.

    tlc -workers 2 -config MCStore.cfg MCStore      # a run
    tlapm PipelineProofs.tla                        # a proof module

## 1. Inventory

| Component | State | Operations | Hard because | Right when |
|---|---|---|---|---|
| Message store (`internal/store`: messages, batch, chatstate, reactions) | tables `messages` (key `wa_id`), `chats` (key `jid`), `reactions` | Insert, InsertBatch, UpsertChat, UpdateStatus, ApplyEdit, ApplyRevoke, SetStarred, MarkRead, SetPinned, SetArchived, SetMuteUntil, SetReaction | called from many goroutines; redeliveries, out-of-order times, partial failure, crashes | counters exact, nothing lost or overwritten, chat list complete, chat times never go back |
| Database file (`store/store.go`, `search.go`, `schema.sql`) | tables and columns present, full-text index and its totals | Open: schema, five migrations, backfill; the triggers; Search | every statement commits alone: crashes and a second process in between; an index with no text of its own | an Open that returns found or made everything; Search agrees with the table up to its limit |
| Ingest (`internal/wa/handler.go`, `history.go`) | position of each handler goroutine; the channel `incoming` | OnMessage (persist, send, notify), OnHistorySync | several goroutines, full channel, store errors, crash between any two steps | persist before publish, a slow UI never blocks whatsmeow, no wake-up lost |
| Frame loop (`main.go`) | position in drain / wait / frame, Gio's frame request | drain, Event, layout callbacks, Render | drains before it blocks; callbacks change state in mid-frame | what is stored or folded gets to the screen |
| Outgoing (`main.go` OnSend, `send.go`, `receipts.go`, `State.AddOptimistic`) | status column, bubble ticks, one goroutine per send | OnSend, SendText, UpdateStatus, OnReceipt | three writers of one column, lost acknowledgements, crash while pending | ticks never claim more than was reported, pending means unsettled |
| Paging (`store/paging.go`, `State.LoadOlder`, `JumpToMessage`) | loaded window, keyset cursor | PageOlder, PageAround, LoadOlder | rows stored while a user pages; equal timestamps; zero cursor | no row skipped between pages, no page overlaps another, a jump shows the hit's surroundings |
| Chat list (`State.Chats`, `View.Layout`, `wa/chatstate.go`, the notification's condition) | the rows, the Clickables, the selection | LoadChats, OnIncoming's summary and sort, pin / archive / mute, clicks | LoadChats assigns on whatsmeow's goroutine, in mid-frame or mid-fold; two orders; indices | hides no message whose event came through, indices in range, muted chats silent, pinned chats on top |
| Bubbles (`protocol.go`, `reactions.go`, `ui/grouping.go`, `ui/bubble.go`, `view.go`) | loaded bubbles, reactions, own JID | edit, revoke, react, group, lay out | bubbles are copies that go stale; late events break the order grouping relies on | each message under its sender's name, on its side; a deletion stays |
| Pairing and connection (`client.go`, `ui/pairing.go`, `ui/banner.go`, `main.go`) | QR channels, phase, code, connState, needsPairing | QRChannel, fan-out, HandleQR, OnConnState, renderRoot | written by three goroutines without a lock; lossy fan-out | the screen settles on what the variables say; linking leads to the chats |
| Thumbnails (`internal/media`, `ui/images.go`, `View.layoutMessages`) | entries, reference counts, idle line, visible set | Decode, Release, eviction, SetVisible, Clear | decodes that fail in between, files rewritten under a decode, a budget | counts equal the holders, memory bounded, the longest idle goes first |
| Settings, typing line, read marks, drawing, notification text, media download, bench and seed | | | | see section 5 |

How they interact: whatsmeow's goroutines call `wa.Handler`, which calls the
store and sends on `incoming`; the frame loop receives from it, folds events
into `ui.State` and draws; clicks in the layout call `ui.State`, which reads
and writes the store directly; `OnSend` starts a goroutine that calls
`wa.Client.SendText` and then the store. The store is the meeting point and the
only thing that survives a crash.

## 2. Modules

| Module | Models | Checked by | Proved in |
|---|---|---|---|
| `Store` | the two tables, one action per write method | `MCStore` | `PipelineProofs`, part 1 |
| `Ingest` (EXTENDS Store) | handler goroutines, channel, frame loop, restart | `MCIngest` | `PipelineProofs`, part 2 |
| `Outgoing` (EXTENDS Ingest) | sends, receipts and ticks, composed with the pipeline | `MCOutgoing` | `PipelineProofs`, part 3 |
| `Paging` | the open chat's window: keyset pages, jumps, folded events | `MCPaging` (2 configurations) | `PagingProofs` |
| `ChatList` | the chat list, its loads, folds, syncs, flags, clicks and frames | `MCChatList` (2 configurations) | `ChatListProofs` |
| `Bubbles` | what the bubbles of an open group show | `MCBubbles` (2 configurations) | `BubblesProofs` |
| `Schema` | Open, statement by statement, and the full-text index | `MCSchema` | `SchemaProofs` |
| `Pairing` | QR items, connection events and the two screens, word by word | `MCPairing` | `PairingProofs` |
| `ThumbnailPool` | what the image cache promises | as a property of `MCThumbnails` | |
| `Thumbnails` | cache, tracker, the frame that drives them, the files | `MCThumbnails` | `ThumbnailProofs` |

`Store` is the abstract specification of persistence. `Ingest` uses its actions
as its own store calls, and `IngestSpec => StoreSpec` (run `ingest`, theorem
`IngestImplementsStore`) says the pipeline never touches the tables in any
other way, so every theorem about `Store` holds of it too; `OutgoingImplementsStore`
says the same of `Outgoing`, with its goroutines and receipts. The modules about the
window (`Paging`, `ChatList`, `Bubbles`) do not repeat the pipeline: what is on
its way to the frame loop is a set (`inflight`) or a short queue, which may lose
an event as `Ingest` shows it can, and the store's columns are what the theorems
about `Store` say they are. `ThumbnailPool` is an abstract specification, and
`Thumbnails` implements it (`ImplementsPool`, theorem `ThumbnailsImplementPool`).

### Store

A table is a function over the keys it holds. `Open` sets `MaxOpenConns(1)`
(store.go:50) and every method is one transaction or one statement, so each is
one atomic step; a method that fails rolls back and is a stutter. The
exceptions are `SetPinned`, `SetArchived` and `SetMuteUntil`, whose first
statement commits alone: `EnsureChatRow` is that half as a step of its own.
Columns nothing distinguishes (sender, media, quote, link) travel with `body`;
rowids matter only to paging. `unseen` is a history variable: what `unread`
should count, kept apart from how the code counts it. In `InsertBatch` the
loop is abstracted to what it computes: the first entry of an id wins, the
greatest time of a chat wins.

### Ingest

`pc[w]` is the step of worker `w` in OnMessage (insert, send, notify) or
OnHistorySync (batch, names, notify); `job[w]` its argument. A store call may
fail at each step. `incoming` is the channel, `ui` the step of the frame loop,
`invalidated` Gio's latched frame request. Of the view-model the module keeps
`selected` and `pane` (the ids in `State.Messages`), and `screen`, what the last
frame drew. `bypassed` is a history variable: ids stored without an event on
the channel. `Restart` may happen in any state and keeps only the tables.
A chat's history fits in one page, so `SelectChat` loads all of it (paging is a
module of its own); jumping to a search hit is part of that module.

### Outgoing

Adds to Ingest the tick of each loaded message (`bubble`), the goroutine of each
send (`sender`), the goroutines that handle receipts, and what the server has
accepted. OnSend runs on the UI goroutine, so it is one step; a crash right
after it covers a crash inside. The composer is laid out after the messages, so
its bubble is drawn by the frame OnSend asks for; no property depends on which.
Copies of our own messages may come back once the server has them, as an event
or in a history sync (`Brings`). Live events and batch entries carry no status:
OnMessage and OnHistorySync leave it to the store. Sends in
`-no-connect` mode start no goroutine and are not modelled.

### Paging

What `Ingest` leaves out of the view-model: a chat with more rows than a page.
`rows` lists the wa_ids in the order of their row ids (rows are never deleted),
a message's chat and time are constants (`MessagesKept` of `Store`), and
`Messages` and `Cursor` are State's. A query is a set of pages: the sequences
that are strictly newest first and leave out only older rows (`NewestOf`); there
is always exactly one. SelectChat and LoadOlder run one query on the UI
goroutine and are one step each; JumpToMessage runs three, and since the anchor
row never changes the first joins the second (`JumpNewer`), so a jump is two
steps with stores between them. `inflight` abstracts the pipeline: an event is
in it from its insert until it is folded or dropped, and events leave in any
order. Two history variables name what the window is known not to hold:
`skipped`, what the LIMIT of a jump left out above the hit, and `bypassed`, what
was stored above the cursor by a history sync or a dropped event. A row older
than the cursor is never `bypassed`: the walk must still load it. OnSend's
optimistic insert and fold are OnMessage and OnIncoming in one step. Messages
with no wa_id and failing queries (the window stays as it is) are left out;
`JumpFails` is the failure of a jump that has already read.

### ChatList

`Chats` is State's slice, in its order; a row carries time, unread counter and
two flags. LoadChats is two steps (`LoadQuery`, `LoadAssign`) of whatsmeow's
goroutine, which may come between any two steps of the UI goroutine, among them
the steps of one frame: clicks, sidebar, conversation. An assignment in the
middle of a fold is the data race, `LoadOverFold`, with the three outcomes the
build can produce. `Clickable`s are the view's, one per row, matched by index;
an index out of range ends the process (`panicked`). What stores a message
without an event is in the module too: `OnHistorySync` (InsertBatch and
UpsertChat, then a bare Notify), and OnMessage when the channel is full. Own
messages come as events, in syncs and from OnSend. `counted` holds the messages
whose insert bumped `unread` (a sync's do not), `known` the rows of the chats
table, which a message, a flag set or cleared, a push name or a sync adds and
nothing removes. A mute is a flag; that it may expire is left out. A
LoadChats that fails leaves the list alone.

History variables say what
the list is known not to tell: `stale` (archived at the load, or flags
changed since), `hidden` (stored, not seen by the last load's query, and no event on
its way: it was dropped, or folded before the load's assignment, or there was
none), `torn`, `overlap`. So `ListHidesNothing` is not what history.go:171-173 and
handler.go:54-56 say: what a sync stored, or an event dropped at the full channel
told of, is missing from the list until the next LoadChats, and the property has
both as exceptions. Run `chatlist_pinned` shows that the first fold
after a load drops the pinned-first order (OnIncoming sorts by time only). A
click may open the chat that has moved under it between two frames.
A sort is the set of the orders it may leave (`SortByTime`: one, since it is
stable; `LoadOrders`: any order of the rows that compare equal), which is how the
proofs speak of it.

### Bubbles

A group conversation of less than a page; as in Paging, what a query returns is
a set of pages (`Pages`), of which there is one. A bubble remembers whether it was
scanned from a row or folded from an event, because the two differ: an event
carries the first text and no attachments. Edits, revokes and reactions change
tables only; a bubble changes when pages are loaded again. `layoutBubble` is
what a frame draws: side, label, blocks, text, reaction chips. `deleted` is a
history variable. In prose, because the code promises nothing else: a revoke
that comes before its message is lost, and an event folded late brings a
deleted text back until the chat is opened anew.

### Schema

A file is the objects and columns it has, the rows and the postings of the
index. `Init` is every version an earlier build may have left. `missing` are the
places, in a migration's list, of the columns that were not there when it
looked. Each CREATE, each PRAGMA table_info and each ALTER is a step of a
process; a process may end at any of them, and two processes may run them
interleaved, so an ALTER may find its column already there and fail. FTS5 is
external: postings and two totals, which `delete` subtracts from and refuses to
drive below zero. A lookup by rowid in an external-content table reads the
content table (`InFts`), which is why the backfill never finds anything to do,
although store.go:268-269 says it "re-indexes any messages that exist in the
messages table but not in messages_fts". Rows older than the index are `legacy`:
`SearchExact` has them as its exception, and updates of them may be refused as
well, which is why `UpdatesAccepted` speaks of files without them. Which phrases
a text holds is the tokenizer's answer (`Holds`). `Search` is the set of the
answers a query may give: all matches, or as many as LIMIT lets through; which
those are is FTS5's ranking, and left open. So a search that hits its limit
(`SearchLimit` is 100 in state.go:355) may leave matches out, as
search_test.go:98 expects, and `SearchExact` promises all of them only below it.

### Pairing

Every read and write of a variable that goroutines share without a lock is a
step, and a code is two words. `out`, `windowQR` and `terminalQR` are the
channels; offering to a full one drops the newest item. The terminal's reader
may stop for ever, as the code's may. `handler[h]` walks through OnConnState;
`frame` through renderRoot. `populated` stands for the own JID and the loaded
chats, on which only the main screen depends. A LoadChats that fails is logged and
passed over (main.go:138-140): `failed` remembers it, and `MainIsPopulated` has it as
its exception, for the main screen then comes up without the chats.

### Thumbnails

The frame is a state machine (draw, release, decode, end) in which each row,
each path of a map loop and each iteration of the eviction is a step, in any
order the map may give; two rows may have one path. `held` is a history
variable: the paths for which the tracker has a reference. The files change at
any moment, so a decode that fails may be followed by one of the same path that
succeeds. Everything but the files runs on one goroutine, and the mutex covers
the whole of Decode and of Release, so each is one step (the eviction loop
apart). `Clear` has no caller and is modelled all the same.

## 3. Runs

| Run | Shows | Distinct states |
|---|---|---|
| `store` | exactness of `unread`, completeness of the chat list, no loss, no time going back, over every sequence of calls | 688,546 |
| `ingest` | persist before publish, no lost wake-up, the open chat complete but for what is in flight or bypassed, refinement of the store; handlers return even if the UI stalls, and a running UI catches up | 155,500 |
| `outgoing` | ticks are honest, pending rows are tracked or lost, never pending again | 1,426,194 |
| `paging` | every row of the open chat down to the cursor is loaded, in flight, or named as missed; pages are strictly ordered and never start over; a message is doubled only by a fold the walk later reaches | 162,557 |
| `paging_jump` | **violated**: paging.go:23-25 says the window is centered on the anchor; the newer half takes the newest rows of the chat, so the rows between are missing | |
| `thumbnails` | counts equal the holders, the budget is exceeded only by images in use, and the cache implements the pool | 33,992 |
| `schema` | an Open that returns is complete, from every version, with crashes and a second process; a hit's present text holds the phrase, and below the limit no indexed match is left out; updates are accepted; Open succeeds in the end | 313,023 |
| `pairing` | the screen settles on what the variables say, no half-written code stays on it, the main screen has its data unless loading it failed, and linking leads to it for good | 480,488 |
| `chatlist` | one row per chat; no message whose event came through is hidden, muted chats stay silent, indices are in range but for LoadChats in mid-frame | about 4.0 million |
| `chatlist_pinned` | **violated**: chatstate.go:9 and state.go:151 say pinned chats come first; the first message after a load sorts by time alone | |
| `bubbles` | every received message stands under its sender's label; no reload, edit or redelivery brings a deleted text back | 398,984 |
| `bubbles_side` | **violated**: design.md:147 says sent messages are right-aligned; on a paired device they are drawn on the left | |

Bounds, and why they are enough. `store`: two ids and two chats, where each id
has two payloads that disagree (another time, another chat), a batch that
repeats an id and lists a chat newest first, and one with a missing id: every
branch of the two inserts is taken, and the sequences of calls are unbounded
(the state is finite: `unread` is bounded by the ids). `ingest`: two workers and
a channel of one event are the least with a full channel and two racing sends;
redeliveries, failures and restarts are unbounded; the history sync overlaps
with a live message. `outgoing`: one message of ours, a redelivered copy of it,
a history sync with that message and another's, delivered and read receipts (one
with an empty id, one that names an unknown message, one of an ignored type),
one worker of each kind. `paging`: pages of two, a chat of four rows (two full
pages and the empty one that ends the walk) of which two share a millisecond and
can fall on a page boundary, and a second chat to switch and jump to; the
history arrives in every order of its rows, one message of it is also delivered
live, any number of times, and one live message is newer than it. A jump loads
one row on each side, so its limit is reached. `thumbnails`: costs of one, two
and four against a budget of three, so that two images fit together, one never
does, and an eviction takes one or two iterations. `schema`: two processes,
texts of one and of two tokens (one total must not hide the other) that share a
phrase and differ in another, three rows against a limit of two (a search finds
fewer than its limit, as many, or more), and one crash inside Open; closing and
reopening are unbounded. `pairing`: channels of one and two items (a code and
the end of the stream), so that a stalled consumer makes one be dropped; two
goroutines, so that two connection events overlap, one beside the link. (With
two codes the run has 1.1 million states and the same result.) `chatlist`: two
chats, two messages received and one of our own, a history sync of two of them,
a queue of one and three events; a load and a fold, or two folds and a click,
fit in. `bubbles`: two people and the user, three live messages and a sent one,
a window that joins two of them and not the third; one message is amended, by
one edit, one revoke, one person's reaction, each any number of times. The
violation runs use the same.

Deadlock is checked in every run but two. In `chatlist` a panic ends the process,
and there as in `pairing` the events are bounded and run out; then the frame loop
sleeps for good.

Fairness. The Go scheduler runs every goroutine that can run, hence weak
fairness of each handler's next step (`HandlersRun`) and, where the claim is
about the UI, of the frame loop's (`FrameLoopRuns`, a hypothesis of
`OpenChatCatchesUp`). `HandlerReturns` assumes nothing of the frame loop.
Nothing obliges whatsmeow to deliver, the user to act, the store to fail or the
process to restart, so `Dispatch`, `SelectChat`, `PersistFails` and `Restart`
are never fair. `Schema`: an Open that runs goes on, and a program that is not
running is started again; crashes are bounded, not unfair. `Pairing`: the
fan-out, the window's goroutine, the handlers and the frames go on; the
terminal's reader need not, nor whatsmeow, the phone or the user.

Every property of a passing run has a mutant in `PROJECT.json`: a bug of the
kind the code could have (`Mutant:` in the modules), under which TLC finds that
property violated.

What the code does beside these claims, and a reader of them should know. A
payload dropped at the full channel is not painted while its chat stays open,
although handler.go:54-56 says the next frame does. The frame an event causes is
drawn before the drain (main.go:306), so it shows the event only one frame
later. `UpdateStatus(sent)` may overwrite "delivered". The tick of a loaded
bubble stays pending after its row is sent. None of these is a run of its own.

## 4. Proofs

Every safety property the runs check, invariants and action properties, and both
refinements are proved for every value of the constants. What is assumed of the
constants is the named assumption of each module, no more: `StoreAssumption` and
`IngestAssumption` (ids, chats and names are not "", payloads and batches are
typed, live events carry an id and a chat, the capacity is a natural number -
zero included), `OutgoingAssumption` (what OnSend builds is pending and has an
id and a chat; what comes in carries no status), `PagingAssumption`,
`ThumbnailAssumption`, `SchemaAssumption` (a text has a natural number of
tokens, and a search asks for a hit or more), `PairingAssumption` (channels hold
an item or more), `BubblesAssumption` (own, empty and other people's JIDs
differ, times are positive and distinct) and `ChatListAssumption` (finitely many
chats and messages, natural times, any history syncs). Bounds on events, crashes
and codes are any natural numbers, so the theorems hold of behaviours of every
length.

`PipelineProofs`, the store. `StoreTypeOK` is inductive by itself. `UnreadExact` is not: a
step that adds an id to `unseen` must know it was not there, which is true
because unseen ids are stored ids (`UnseenStored`) and `Insert` counts only what
it creates. `StoreInv` is their conjunction with `ChatListCovers`. `StepOK`
bundles what one call guarantees: the invariant afterwards, `MessagesKeptStep`
and `LastTSStep`. There is one lemma per shape of step (`ChatOnlyStep`,
`MessageOnlyStep`, `MarkReadStep`, `InsertStep`, `InsertBatchStep`), and the
theorems follow.

`PipelineProofs`, the pipeline. `IngestStepsStore` maps each step to a store
step or a stutter; with `StoreNextInv` it gives `MessagesKeptStep` for the
pipeline: a stored message stays, in its chat. `Published` (on the channel, or
past the insert in a worker) is what the argument is about: one lemma per action
says how it changes. `PersistBeforePublish` and `PaneComplete` are then
preserved because a message enters `Published` as it is stored and leaves it
only into the pane, into `bypassed`, or because its chat is not open.
`NoLostWakeup` is inductive with the types alone: only Send fills the channel,
and its worker still has to notify.

`PagingProofs`, from `PagingAssumption` (each message has a chat and a time that
is not negative, histories are finite, the page size is not zero).
`WindowExact` is preserved by a page because of what a page is: a row the query
left out is older than every row it returned (`PageIsComplete`), hence older than
the new cursor. `PagesInOrder` needs that no row loaded by a query is older than
the cursor (`CursorBound`), and, for a jump, that what it has read stands above
its anchor (`JumpInOrder`); `TwiceOnlyByWalk` needs that rows are distinct
(`RowsDistinct`, the UNIQUE of wa_id). Keys are a strict total order
(`BeforeIsStrict`, `BeforeIsTotal`): that is where the tie on the millisecond is
used. One lemma per action, and `PagingInv` is the conjunction. `EveryQueryHasOnePage`
says besides that the queries the steps choose from are never empty and leave
no choice.

`ThumbnailProofs`, from `ThumbnailAssumption` (costs and the budget are natural
numbers, "" is no path). Every step does one of seven things to the cache
(`NextIsCacheStep`), and three of the invariant's parts follow from that alone:
the line holds the unused entries, each once (`Line`: RemoveFirst takes out the
only copy, `RemoveFirstCuts`, `RemoveFromLine`), `EvictsByBudget` and
`WithinBudget`. `CountsMatchHolders` is not inductive: a Release must find that
nobody else's reference is at stake, and a Decode that the path is not held
already. Both depend on where the frame is, which is `Bookkeeping`: what is held
lies, in each phase, in the paths that are visible, still to release, or already
decoded. `PoolStep` maps each of the seven to a step of the pool or a stutter
(a hit on an image in use, a release that leaves another holder); it needs
`Line` to know which place in the line a path has.

`PipelineProofs`, messages sent from here. Three goroutines write one column, so
what has been written is honest only because what is about to be written is.
`OutgoingInv` says of each writer what it holds: a sender past the
acknowledgement has it (`AckedIsAccepted`), a receipt worker's ids were reported
with its status (`ReceiptsReported`), a copy on its way to an insert is of an
accepted message (`CopiesAccepted`, which is why a redelivered row that arrives
first may say "sent"). It takes `StoreInv` along, and `OutgoingImplementsStore`
is its second use: OnSend's Insert and the status updates are store calls with
typed arguments. `PendingNeverReturns` then rests on two facts about rows: no
call but an insert of a new id and UpdateStatus writes a status, and no
UpdateStatus writes "pending".

`PairingProofs`. `PairingInv` has three parts that do not need one another. The
types need that the codes between the server and the window are in the order of
their issue, through both channels (`InOrder`). `MainIsPopulated` needs every
place from which the main screen can still be reached (`DataFirst`): a goroutine
past the load, the phase, the flag, and a frame that has read the flag before it
changed. `ScreenCurrent` needs, while nobody is between a write and its
Invalidate (`Quiet`), that a frame in progress has read what is still true
(`FrameCurrent`); a step that disturbs this ends by asking for a frame.

`SchemaProofs`. `Fits` says of a process at a statement of Open what the
statements before it have left in the file, whoever ran them. It survives the
steps of the others because nothing is ever dropped, and a crash because a
process that is down claims nothing. `ReadyMeansComplete` is `Fits` at the last
statement. `SearchExact` is `PostingsCurrent` (what matches is what holds the phrase,
`MatchesCurrent`), with an answer being all matches unless it is full
(`AnswersToSearch`), and `UpdatesAccepted` follows from
`TotalsCurrent`: the totals are the sums over the rows, and a sum is no less than
one of its terms. Those facts about sums (`SumsRun`, `SumAppend`, `SumChange`) are
inductions over the length of the table, done by the least counterexample
(`CountUp` of `OrderLemmas`).

`BubblesProofs`. `AttributedToItsSender` holds of any list of bubbles, in any
order: from a bubble, the labels above it are empty as long as its group goes on,
and the one that ends the search is its sender's (`LabelsAttribute`). Typing is
the only invariant behind it. `DeletedStaysDeleted` needs that what has been drawn as
deleted is revoked in its row (`DeletionsStored`; rows are never un-revoked), and
that a message is scanned from its row into one bubble at most (`ScannedOnce`):
otherwise an older copy of it could stand beside the notice. That is where the
cursor comes in, since another page has only rows before it.

`ChatListProofs`. The list is related to the store by what a load and a fold do.
`LoadCovers`: the rows a load keeps on whatsmeow's goroutine tell of every
message its query saw, but in chats archived then or changed since.
`ListCovers`: unless torn, the rows tell of the messages that are neither queued
nor hidden, stand once per chat, and carry the flag of every muted chat. A fold
moves one message from the queue to the list (`FoldKeepsCover`, from what
upsertChatSummary and the stable sort do to any list: `UpsertFact`, `SortFact`);
an assignment replaces what the list covers by what the load does
(`LoadAssignStep`); a history sync stores only what is then hidden
(`NoEventStep`). `MutedStaySilent` is a fold's use of `ListCovers`.
`IndicesInRange` needs `ClicksMatch` only: the Clickables counted at the top of
a frame are the rows until its sidebar is drawn.

`OrderLemmas` is shared: the least number and the least counterexample, the
greatest number of a finite set, and that a finite set can be put in any strict
order (`OrderExists`), by a total one in exactly one way (`SortedOnce`). Queries
with ORDER BY and Go's sorts are modelled as the set of the lists they may
return; `EveryQueryHasOnePage` (Paging), `OnePage` (Bubbles) and
`SortsAlwaysEnd` (ChatList) say that those sets have one member, or at least one
where the order of a load's ties is SQLite's, so no theorem holds because a step
has no outcome.

Only model-checked: liveness (`HandlerReturns`, `OpenChatCatchesUp`,
`OpenConverges`, `LinkedLeadsToMain`), which needs fairness and ENABLED and is
out of TLAPS's reach here.

## 5. Not modelled

- Settings (a key/value table read at start, written by the theme and density
  buttons), and those two buttons.
- The typing line: SetTyping writes a Go map on whatsmeow's goroutine while the
  UI reads it. Go leaves any outcome open, so there is nothing to state short of
  the race's absence.
- `MarkSelectedRead`, `PairPhone`, `SendReaction` and `DownloadImage`, which
  nothing calls (the store's side of read marks is in `Store`); sends in
  `-no-connect` mode, which start no goroutine.
- Gio's widgets: composer, search field and its result list, header, and the
  exact edge at which scrolling asks for the next page (`Paging` lets it ask at
  any frame).
- Drawing, fonts, colours, sizes, the QR image, the text of notifications, how a
  JPEG is decoded and scaled, what a receipt or a media type is called.
- Bench and seed tools, but for what they do to the file (the second process of
  `Schema`).
- Power loss (`synchronous=NORMAL` may lose the last transactions; a process
  crash does not).

whatsmeow, the server, Gio, FTS5 and SQLite are external and modelled by how the
code uses them.

## 6. What is left

The components that carry state are modelled, and what the runs check of their
safety is proved. What a next step could add: that `Paging`, `ChatList` and
`Bubbles`, which abstract the pipeline to a set or a queue, are implemented by
`Ingest` in that respect (a refinement of `inflight` and of the queue by
`Published`); and the converse of `SearchExact` for rows older than the index
after they are edited.
