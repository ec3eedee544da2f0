------------------------------- MODULE Ingest -------------------------------
(***************************************************************************)
(* The persist -> channel -> notify pipeline of wachat: wa.Handler's       *)
(* OnMessage and OnHistorySync on whatsmeow's goroutines, the bounded      *)
(* channel `incoming`, and main.go's frame loop on the other side.         *)
(*                                                                         *)
(* A worker is one goroutine on which whatsmeow dispatches an event.  Each *)
(* store call, the channel send and the wake-up are separate steps, so     *)
(* workers interleave with one another and with the frame loop.  The       *)
(* window is Gio's: Invalidate latches a request for one frame, Event      *)
(* blocks until a frame is due and consumes the request.                   *)
(*                                                                         *)
(* Of the view-model, State, this module keeps which chat is open and      *)
(* which messages are loaded for it.  Histories fit in one page            *)
(* (PageSize), so opening a chat loads all its rows.                       *)
(***************************************************************************)
EXTENDS Store

CONSTANTS
  Workers,         \* goroutines whatsmeow dispatches events on
  incomingBuffer,  \* capacity of the channel
  LiveEvents,      \* the wa.MessageEvents that can be dispatched, any number of times
  Histories        \* the history syncs that can be dispatched

NoChat == ""

\* A MessageEvent: the message as OnMessage hands it to Insert, and FromMe.
Event == [msg : Payloads, from_me : BOOLEAN]

\* A history sync: its messages, and the named conversations it mentions.
History == [batch : Batches, names : SUBSET (JIDs \X Names)]

ASSUME IngestAssumption ==
  /\ incomingBuffer \in Nat
  /\ LiveEvents \subseteq Event
  /\ \A e \in LiveEvents : e.msg.wa_id # "" /\ e.msg.chat_jid # ""
  /\ Histories \subseteq History

VARIABLES
  pc,           \* per worker, the step it is at
  job,          \* per worker, the event or history it handles
  incoming,     \* the channel
  invalidated,  \* a frame has been requested and not yet begun (external: Gio)
  ui,           \* the step the frame loop is at
  selected,     \* State.SelectedChat
  pane,         \* the ids in State.Messages
  screen,       \* the ids drawn by the last frame
  bypassed      \* history variable, not in the code: ids stored since the start
                \* of the process by a step that put no event on the channel

ingestVars == <<pc, job, incoming, invalidated, ui, selected, pane, screen, bypassed>>
vars == <<storeVars, ingestVars>>

NoJob == [msg |-> ""]

InsertBatchIds(batch) == {batch[i].wa_id : i \in Usable(batch)}
ChatMessages(jid) == {w \in DOMAIN messages : messages[w].chat_jid = jid}

IngestTypeOK ==
  /\ pc \in [Workers -> {"idle", "insert", "send", "batch", "names", "notify"}]
  /\ job \in [Workers -> LiveEvents \cup History \cup {NoJob}]
  /\ \A w \in Workers : /\ pc[w] \in {"insert", "send"} => job[w] \in LiveEvents
                        /\ pc[w] \in {"batch", "names"} => job[w] \in History
  /\ incoming \in Seq(LiveEvents) /\ Len(incoming) <= incomingBuffer
  /\ invalidated \in BOOLEAN
  /\ ui \in {"drain", "wait", "frame"}
  /\ selected \in JIDs \cup {NoChat}
  /\ pane \subseteq WAIDs /\ screen \subseteq WAIDs /\ bypassed \subseteq WAIDs

\* A process that has just started on an empty database: run has opened the
\* store and made the channel, and the first frame is on its way.
IngestInit ==
  /\ StoreInit
  /\ pc = [w \in Workers |-> "idle"]
  /\ job = [w \in Workers |-> NoJob]
  /\ incoming = <<>>
  /\ invalidated = TRUE
  /\ ui = "drain"
  /\ selected = NoChat
  /\ pane = {} /\ screen = {} /\ bypassed = {}

-----------------------------------------------------------------------------
(* The handler's goroutines *)

uiVars == <<ui, selected, pane, screen>>

\* whatsmeow dispatches an event; one it has delivered before may come again.
Dispatch(w) ==
  /\ pc[w] = "idle"
  /\ \/ \E e \in LiveEvents :
          job' = [job EXCEPT ![w] = e] /\ pc' = [pc EXCEPT ![w] = "insert"]
     \/ \E h \in Histories :
          job' = [job EXCEPT ![w] = h] /\ pc' = [pc EXCEPT ![w] = "batch"]
  /\ UNCHANGED <<storeVars, incoming, invalidated, uiVars, bypassed>>

\* Mutant: a failed insert is logged and the event published all the same.
PersistFailsPublishes(w) ==
  /\ pc[w] = "insert"
  /\ pc' = [pc EXCEPT ![w] = "send"]
  /\ UNCHANGED <<storeVars, job, incoming, invalidated, uiVars, bypassed>>

\* The return to whatsmeow of a worker whose store call failed: nothing is
\* written, sent or notified.
PersistFails(w) ==
  /\ pc[w] \in {"insert", "batch", "names"}
  /\ pc' = [pc EXCEPT ![w] = "idle"]
  /\ job' = [job EXCEPT ![w] = NoJob]
  /\ UNCHANGED <<storeVars, incoming, invalidated, uiVars, bypassed>>

\* Mutant: the message row committed without the chat upsert of its transaction.
PersistNoTx(w) ==
  /\ pc[w] = "insert"
  /\ messages' = InsertIgnore(job[w].msg)
  /\ pc' = [pc EXCEPT ![w] = "send"]
  /\ UNCHANGED <<chats, unseen, job, incoming, invalidated, uiVars, bypassed>>

\* OnMessage, step 1.
Persist(w) ==
  /\ pc[w] = "insert"
  /\ Insert(job[w].msg, ~job[w].from_me)
  /\ pc' = [pc EXCEPT ![w] = "send"]
  /\ UNCHANGED <<job, incoming, invalidated, uiVars, bypassed>>

\* Mutant: a plain send, which waits for room.
SendBlocking(w) ==
  /\ pc[w] = "send"
  /\ Len(incoming) < incomingBuffer
  /\ incoming' = Append(incoming, job[w])
  /\ pc' = [pc EXCEPT ![w] = "notify"]
  /\ UNCHANGED <<storeVars, job, invalidated, uiVars, bypassed>>

\* Mutant: a channel without a capacity.
SendUnbounded(w) ==
  /\ pc[w] = "send"
  /\ Len(incoming) <= incomingBuffer
  /\ incoming' = Append(incoming, job[w])
  /\ pc' = [pc EXCEPT ![w] = "notify"]
  /\ UNCHANGED <<storeVars, job, invalidated, uiVars, bypassed>>

\* Mutant: a full channel makes room by dropping its oldest event.
SendDropOldest(w) ==
  /\ pc[w] = "send"
  /\ incoming' = IF Len(incoming) < incomingBuffer
                 THEN Append(incoming, job[w])
                 ELSE Append(Tail(incoming), job[w])
  /\ pc' = [pc EXCEPT ![w] = "notify"]
  /\ UNCHANGED <<storeVars, job, invalidated, uiVars, bypassed>>

\* OnMessage, step 2: a full channel drops the payload.
Send(w) ==
  /\ pc[w] = "send"
  /\ IF Len(incoming) < incomingBuffer
     THEN incoming' = Append(incoming, job[w]) /\ UNCHANGED bypassed
     ELSE bypassed' = bypassed \cup {job[w].msg.wa_id} /\ UNCHANGED incoming
  /\ pc' = [pc EXCEPT ![w] = "notify"]
  /\ UNCHANGED <<storeVars, job, invalidated, uiVars>>

\* Mutant: the worker is done, and no frame was requested.
NotifyNothing(w) ==
  /\ pc[w] = "notify"
  /\ pc' = [pc EXCEPT ![w] = "idle"]
  /\ job' = [job EXCEPT ![w] = NoJob]
  /\ UNCHANGED <<storeVars, incoming, invalidated, uiVars, bypassed>>

\* OnMessage, step 3, and the last line of OnHistorySync.
Notify(w) ==
  /\ pc[w] = "notify"
  /\ invalidated' = TRUE
  /\ pc' = [pc EXCEPT ![w] = "idle"]
  /\ job' = [job EXCEPT ![w] = NoJob]
  /\ UNCHANGED <<storeVars, incoming, uiVars, bypassed>>

\* OnHistorySync: one transaction for the messages ...
PersistBatch(w) ==
  /\ pc[w] = "batch"
  /\ InsertBatch(job[w].batch)
  /\ bypassed' = bypassed \cup (InsertBatchIds(job[w].batch) \ DOMAIN messages)
  /\ pc' = [pc EXCEPT ![w] = "names"]
  /\ UNCHANGED <<job, incoming, invalidated, uiVars>>

\* ... then one statement per named conversation ...
UpsertName(w) ==
  /\ pc[w] = "names"
  /\ \E p \in job[w].names :
       /\ UpsertChat(p[1], p[2])
       /\ job' = [job EXCEPT ![w].names = @ \ {p}]
  /\ UNCHANGED <<pc, incoming, invalidated, uiVars, bypassed>>

\* ... until none is left.
NamesDone(w) ==
  /\ pc[w] = "names" /\ job[w].names = {}
  /\ pc' = [pc EXCEPT ![w] = "notify"]
  /\ UNCHANGED <<storeVars, job, incoming, invalidated, uiVars, bypassed>>

Handle(w) ==
  \/ PersistFails(w) \/ Persist(w) \/ Send(w) \/ Notify(w)
  \/ PersistBatch(w) \/ UpsertName(w) \/ NamesDone(w)

-----------------------------------------------------------------------------
(* The frame loop *)

workerVars == <<pc, job>>

\* One turn of drainIncomingNotify: OnIncoming folds an event into the view.
FoldNext ==
  /\ ui = "drain" /\ incoming # <<>>
  /\ incoming' = Tail(incoming)
  /\ LET m == Head(incoming).msg IN
     pane' = IF m.chat_jid = selected THEN pane \cup {m.wa_id} ELSE pane
  /\ UNCHANGED <<storeVars, workerVars, invalidated, ui, selected, screen, bypassed>>

\* The channel is empty: drainIncomingNotify returns and Event blocks.
DrainDone ==
  /\ ui = "drain" /\ incoming = <<>>
  /\ ui' = "wait"
  /\ UNCHANGED <<storeVars, workerVars, incoming, invalidated, selected, pane, screen, bypassed>>

\* Event returns a FrameEvent.
NextFrame ==
  /\ ui = "wait" /\ invalidated
  /\ invalidated' = FALSE
  /\ ui' = "frame"
  /\ UNCHANGED <<storeVars, workerVars, incoming, selected, pane, screen, bypassed>>

\* The layout handles a click on a chat: State.SelectChat, a no-op on the open
\* chat (Messages is nil only while no chat is open).
SelectChat(jid) ==
  /\ ui = "frame" /\ selected # jid
  /\ selected' = jid
  /\ pane' = ChatMessages(jid)
  /\ UNCHANGED <<storeVars, workerVars, incoming, invalidated, ui, screen, bypassed>>

\* The back arrow of the narrow layout, drawn while a chat is open.
OnBack ==
  /\ ui = "frame" /\ selected # NoChat
  /\ selected' = NoChat /\ pane' = {}
  /\ invalidated' = TRUE
  /\ UNCHANGED <<storeVars, workerVars, incoming, ui, screen, bypassed>>

\* renderRoot and Frame.
Render ==
  /\ ui = "frame"
  /\ screen' = pane
  /\ ui' = "drain"
  /\ UNCHANGED <<storeVars, workerVars, incoming, invalidated, selected, pane, bypassed>>

FrameLoop == FoldNext \/ DrainDone \/ NextFrame \/ Render

\* Pointer, keyboard and window events also make Gio draw a frame.
UserInput ==
  /\ ~invalidated
  /\ invalidated' = TRUE
  /\ UNCHANGED <<storeVars, workerVars, incoming, uiVars, bypassed>>

\* The process ends and is started again.  Committed transactions survive.
Restart ==
  /\ pc' = [w \in Workers |-> "idle"]
  /\ job' = [w \in Workers |-> NoJob]
  /\ incoming' = <<>>
  /\ invalidated' = TRUE
  /\ ui' = "drain"
  /\ selected' = NoChat
  /\ pane' = {} /\ screen' = {} /\ bypassed' = {}
  /\ UNCHANGED storeVars

IngestNext ==
  \/ \E w \in Workers : Dispatch(w) \/ Handle(w)
  \/ FrameLoop
  \/ \E jid \in JIDs : SelectChat(jid)
  \/ OnBack
  \/ UserInput
  \/ Restart

-----------------------------------------------------------------------------
(* Fairness.  The Go scheduler runs every goroutine that can run; nothing    *)
(* obliges whatsmeow to deliver, the user to act or the store to fail.       *)

HandlersRun ==
  \A w \in Workers :
    WF_vars(Persist(w) \/ Send(w) \/ Notify(w) \/ PersistBatch(w) \/ UpsertName(w) \/ NamesDone(w))

FrameLoopRuns == WF_vars(FoldNext) /\ WF_vars(DrainDone) /\ WF_vars(NextFrame) /\ WF_vars(Render)

\* The handler's goroutines are scheduled; the frame loop may stall for ever.
IngestSpec == IngestInit /\ [][IngestNext]_vars /\ HandlersRun

-----------------------------------------------------------------------------
(* Properties *)

InChannel == {incoming[i] : i \in DOMAIN incoming}
Sending == {job[w] : w \in {v \in Workers : pc[v] = "send"}}

\* Persist before publish: an event on the channel, or past the insert in its
\* worker, is of a stored message, so whatever the pane or the screen shows
\* can be read back from the store -- across crashes between any two steps.
PersistBeforePublish ==
  /\ \A e \in InChannel \cup Sending : e.msg.wa_id \in DOMAIN messages
  /\ pane \cup screen \subseteq DOMAIN messages

\* No lost wake-up: the frame loop never blocks on an undrained channel unless
\* a frame has been requested or a worker is about to request one (why OnMessage
\* notifies after the send and not before).
NoLostWakeup ==
  ui = "wait" /\ incoming # <<>> =>
    invalidated \/ \E w \in Workers : pc[w] = "notify"

\* The only ways the open chat can lack one of its stored messages: the event
\* is still in a worker or on the channel, or it never had a place there (the
\* buffer was full, or history sync stored it).  In particular a message
\* stored while SelectChat reads the page is never missed.
InFlight(waID) ==
  \E e \in InChannel \cup Sending :
    e.msg.wa_id = waID /\ e.msg.chat_jid = messages[waID].chat_jid

PaneComplete ==
  \A waID \in ChatMessages(selected) :
    waID \in pane \/ waID \in bypassed \/ InFlight(waID)

\* A slow or stalled UI never holds up the protocol layer: every event a worker
\* takes is finished although the frame loop may never take another step.
HandlerReturns == \A w \in Workers : pc[w] # "idle" ~> pc[w] = "idle"

\* If the frame loop is scheduled too, a stored message of the open chat
\* reaches the view-model, unless the chat is left or the message never had a
\* place on the channel.
OpenChatCatchesUp ==
  FrameLoopRuns =>
    \A waID \in WAIDs :
      waID \in ChatMessages(selected) ~>
        waID \notin ChatMessages(selected) \/ waID \in pane \cup bypassed
=============================================================================
