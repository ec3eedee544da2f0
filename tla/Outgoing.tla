------------------------------ MODULE Outgoing ------------------------------
(***************************************************************************)
(* The life of a sent message, composed with the ingest pipeline: OnSend   *)
(* on the UI goroutine (the optimistic row and bubble), one goroutine per  *)
(* send that waits for the server and then writes "sent", and receipts     *)
(* handled on whatsmeow's goroutines.  The three write the same status     *)
(* column in whatever order they are scheduled.                            *)
(*                                                                         *)
(* The module refines the pane of Ingest: bubble is the Status of each     *)
(* loaded message, the tick the user sees.  The server is external: it     *)
(* accepts a message at most once, may do so without the acknowledgement   *)
(* getting back, and reports receipts only of what it accepted.            *)
(***************************************************************************)
EXTENDS Ingest

CONSTANTS
  Composed,        \* the optimistic messages OnSend can build
  ReceiptWorkers,  \* goroutines that handle receipts
  Receipts         \* the receipts that can arrive, any number of times

\* whatsmeow's receipt types: "" is delivered.
ReceiptTypes == {"", "read", "read-self", "played", "played-self", "retry"}

Receipt == [ids : Seq(WAIDs \cup {""}), type : ReceiptTypes]

ASSUME OutgoingAssumption ==
  /\ Composed \subseteq Payloads
  /\ \A m \in Composed : m.wa_id # "" /\ m.chat_jid # "" /\ m.status = StatusPending
  \* OnMessage and OnHistorySync leave the status to the store.
  /\ \A e \in LiveEvents : e.msg.status = ""
  /\ \A h \in Histories : \A i \in DOMAIN h.batch : h.batch[i].status = ""
  /\ Receipts \subseteq Receipt
  /\ Statuses \ {StatusPending} \subseteq NewStatuses

VARIABLES
  bubble,    \* id -> Status of the message in State.Messages, over pane
  sender,    \* per id, the step of the goroutine OnSend started for it
  receipts,  \* per receipt worker, the ids it has yet to update, and to what
  accepted,  \* external: the ids the server has accepted
  minted,    \* external: the ids GenerateID has returned
  reported,  \* history variable, not in the code: <<id, status>> of every
             \* receipt that has arrived
  lost       \* history variable, not in the code: ids whose goroutine ended
             \* without having written "sent"

outVars == <<sender, receipts, accepted, minted, reported, lost>>
allVars == <<vars, bubble, outVars>>

Idle == [ids |-> <<>>, status |-> ""]

receiptStatus(type) ==
  CASE type = "" -> StatusDelivered
    [] type \in {"read", "read-self"} -> StatusRead
    [] type \in {"played", "played-self"} -> StatusPlayed
    [] OTHER -> ""

OwnIDs == {m.wa_id : m \in Composed}

OutgoingTypeOK ==
  /\ StoreTypeOK /\ IngestTypeOK
  /\ bubble \in [pane -> Statuses \cup {""}]
  /\ sender \in [OwnIDs -> {"none", "sending", "update", "redraw"}]
  /\ receipts \in [ReceiptWorkers -> [ids : Seq(WAIDs \cup {""}), status : Statuses \cup {""}]]
  /\ accepted \subseteq OwnIDs /\ minted \subseteq OwnIDs /\ lost \subseteq OwnIDs
  /\ reported \subseteq WAIDs \X Statuses

OutgoingInit ==
  /\ IngestInit
  /\ bubble = [w \in {} |-> ""]
  /\ sender = [w \in OwnIDs |-> "none"]
  /\ receipts = [r \in ReceiptWorkers |-> Idle]
  /\ accepted = {} /\ minted = {} /\ reported = {} /\ lost = {}

-----------------------------------------------------------------------------
(* OnSend and the goroutine it starts *)

\* The part of the state OnSend shares with no one but the sender goroutine.
Launch(waID) ==
  /\ minted' = minted \cup {waID}
  /\ sender' = [sender EXCEPT ![waID] = "sending"]
  /\ invalidated' = TRUE

sendUnchanged == <<workerVars, incoming, ui, selected, screen, bypassed,
                   receipts, accepted, reported, lost>>

\* The composer submits: State.AddOptimistic stores the pending row, folds it
\* into the pane with OnIncoming and tags the bubble, and OnSend starts the
\* sender and asks for a frame.
OnSend(m) ==
  /\ ui = "frame" /\ m.chat_jid = selected /\ m.wa_id \notin minted
  /\ Insert(m, FALSE)
  /\ pane' = pane \cup {m.wa_id}
  /\ bubble' = Put(bubble, m.wa_id, StatusPending)
  /\ Launch(m.wa_id)
  /\ UNCHANGED sendUnchanged

\* AddOptimistic fails: it is logged, and the message is sent all the same.
OnSendUnstored(m) ==
  /\ ui = "frame" /\ m.chat_jid = selected /\ m.wa_id \notin minted
  /\ Launch(m.wa_id)
  /\ UNCHANGED <<storeVars, pane, bubble, sendUnchanged>>

senderUnchanged == <<workerVars, incoming, uiVars, bypassed, bubble, receipts, minted, reported>>

\* The server takes the message (external).
ServerAccepts(waID) ==
  /\ sender[waID] = "sending"
  /\ accepted' = accepted \cup {waID}
  /\ UNCHANGED <<storeVars, invalidated, senderUnchanged, sender, lost>>

\* Mutant: SendText returns before the server has answered.
SendReturnsEarly(waID) ==
  /\ sender[waID] = "sending"
  /\ sender' = [sender EXCEPT ![waID] = "update"]
  /\ UNCHANGED <<storeVars, invalidated, senderUnchanged, accepted, lost>>

\* SendText returns nil: the acknowledgement has arrived.
SendReturns(waID) ==
  /\ sender[waID] = "sending" /\ waID \in accepted
  /\ sender' = [sender EXCEPT ![waID] = "update"]
  /\ UNCHANGED <<storeVars, invalidated, senderUnchanged, accepted, lost>>

\* Mutant: a failed send marks the row pending again, for a retry.
SendFailsPending(waID) ==
  /\ sender[waID] = "sending"
  /\ UpdateStatus(waID, StatusPending)
  /\ sender' = [sender EXCEPT ![waID] = "none"]
  /\ lost' = lost \cup {waID}
  /\ UNCHANGED <<invalidated, senderUnchanged, accepted>>

\* SendText returns an error, whether or not the server has the message.
SendFails(waID) ==
  /\ sender[waID] = "sending"
  /\ sender' = [sender EXCEPT ![waID] = "none"]
  /\ lost' = lost \cup {waID}
  /\ UNCHANGED <<storeVars, invalidated, senderUnchanged, accepted>>

\* Mutant: the goroutine asks for a frame and forgets the row.
FlipForgotten(waID) ==
  /\ sender[waID] = "update"
  /\ sender' = [sender EXCEPT ![waID] = "redraw"]
  /\ UNCHANGED <<storeVars, invalidated, senderUnchanged, accepted, lost>>

\* The row becomes "sent" ...
FlipSent(waID) ==
  /\ sender[waID] = "update"
  /\ UpdateStatus(waID, StatusSent)
  /\ sender' = [sender EXCEPT ![waID] = "redraw"]
  /\ UNCHANGED <<invalidated, senderUnchanged, accepted, lost>>

\* ... or the update fails, which is logged ...
FlipFails(waID) ==
  /\ sender[waID] = "update"
  /\ sender' = [sender EXCEPT ![waID] = "redraw"]
  /\ lost' = lost \cup {waID}
  /\ UNCHANGED <<storeVars, invalidated, senderUnchanged, accepted>>

\* ... and a frame is requested.
Redraw(waID) ==
  /\ sender[waID] = "redraw"
  /\ sender' = [sender EXCEPT ![waID] = "none"]
  /\ invalidated' = TRUE
  /\ UNCHANGED <<storeVars, senderUnchanged, accepted, lost>>

-----------------------------------------------------------------------------
(* Receipts *)

receiptUnchanged == <<workerVars, incoming, uiVars, bypassed, bubble, sender, accepted, minted, lost>>

\* Mutant: a type that maps to no status is not filtered out.
OnReceiptUnfiltered(r, receipt) ==
  /\ receipts[r] = Idle /\ receipt.ids # <<>>
  /\ {receipt.ids[i] : i \in DOMAIN receipt.ids} \cap OwnIDs \subseteq accepted
  /\ receipts' = [receipts EXCEPT ![r] = [ids |-> receipt.ids, status |-> receiptStatus(receipt.type)]]
  /\ UNCHANGED <<storeVars, invalidated, reported, receiptUnchanged>>

\* A receipt arrives: of messages of ours the server has accepted, or, from
\* another device of ours, of messages of others we have read there.
OnReceipt(r, receipt) ==
  LET status == receiptStatus(receipt.type)
      ids    == {receipt.ids[i] : i \in DOMAIN receipt.ids}
  IN  /\ receipts[r] = Idle
      /\ ids \cap OwnIDs \subseteq accepted
      /\ receipt.ids # <<>> /\ status # ""
      /\ receipts' = [receipts EXCEPT ![r] = [ids |-> receipt.ids, status |-> status]]
      /\ reported' = reported \cup {<<id, status>> : id \in ids \ {""}}
      /\ UNCHANGED <<storeVars, invalidated, receiptUnchanged>>

\* One turn of its loop: the next id is updated, or is empty and skipped.
ApplyReceipt(r) ==
  /\ receipts[r].ids # <<>>
  /\ IF Head(receipts[r].ids) = ""
     THEN UNCHANGED storeVars
     ELSE UpdateStatus(Head(receipts[r].ids), receipts[r].status)
  /\ receipts' = [receipts EXCEPT ![r].ids = Tail(@)]
  /\ UNCHANGED <<invalidated, reported, receiptUnchanged>>

\* The update fails: it is logged, and the loop goes on.
ApplyReceiptFails(r) ==
  /\ receipts[r].ids # <<>>
  /\ receipts' = [receipts EXCEPT ![r].ids = Tail(@)]
  /\ UNCHANGED <<storeVars, invalidated, reported, receiptUnchanged>>

\* After the last id, Notify.
ReceiptDone(r) ==
  /\ receipts[r].status # "" /\ receipts[r].ids = <<>>
  /\ receipts' = [receipts EXCEPT ![r] = Idle]
  /\ invalidated' = TRUE
  /\ UNCHANGED <<storeVars, reported, receiptUnchanged>>

-----------------------------------------------------------------------------
(* The steps of Ingest, with what they do to the ticks *)

\* The ids an event or a history sync brings.
Brings(j) == IF j \in LiveEvents THEN {j.msg.wa_id} ELSE InsertBatchIds(j.batch)

\* A message of ours comes back, live or in a history sync, only as a copy of
\* one the server has accepted.
DispatchAny(w) ==
  /\ Dispatch(w)
  /\ Brings(job'[w]) \cap OwnIDs \subseteq accepted
  /\ UNCHANGED <<bubble, outVars>>

\* OnIncoming puts a copy without a status in the place of a loaded message.
FoldIncoming ==
  /\ FoldNext
  /\ LET m == Head(incoming).msg IN
     bubble' = IF m.chat_jid = selected THEN Put(bubble, m.wa_id, "") ELSE bubble
  /\ UNCHANGED outVars

\* SelectChat loads the rows, statuses included.
OpenChat(jid) ==
  /\ SelectChat(jid)
  /\ bubble' = [w \in ChatMessages(jid) |-> messages[w].status]
  /\ UNCHANGED outVars

CloseChat == OnBack /\ bubble' = [w \in {} |-> ""] /\ UNCHANGED outVars

\* The server's memory and the ids survive the process.
RestartAll ==
  /\ Restart
  /\ bubble' = [w \in {} |-> ""]
  /\ sender' = [w \in OwnIDs |-> "none"]
  /\ receipts' = [r \in ReceiptWorkers |-> Idle]
  /\ lost' = lost \cup {w \in OwnIDs : sender[w] \in {"sending", "update"}}
  /\ UNCHANGED <<accepted, minted, reported>>

OtherSteps ==
  /\ (\E w \in Workers : Handle(w)) \/ DrainDone \/ NextFrame \/ Render \/ UserInput
  /\ UNCHANGED <<bubble, outVars>>

SenderSteps(waID) ==
  \/ ServerAccepts(waID) \/ SendReturns(waID) \/ SendFails(waID)
  \/ FlipSent(waID) \/ FlipFails(waID) \/ Redraw(waID)

OutgoingNext ==
  \/ \E m \in Composed : OnSend(m) \/ OnSendUnstored(m)
  \/ \E waID \in OwnIDs : SenderSteps(waID)
  \/ \E r \in ReceiptWorkers, receipt \in Receipts : OnReceipt(r, receipt)
  \/ \E r \in ReceiptWorkers : ApplyReceipt(r) \/ ApplyReceiptFails(r) \/ ReceiptDone(r)
  \/ \E w \in Workers : DispatchAny(w)
  \/ FoldIncoming
  \/ \E jid \in JIDs : OpenChat(jid)
  \/ CloseChat
  \/ RestartAll
  \/ OtherSteps

OutgoingSpec == OutgoingInit /\ [][OutgoingNext]_allVars

-----------------------------------------------------------------------------
(* Properties *)

\* What the outside world has said about a message of ours.
Earned(waID, status) ==
  CASE status = StatusSent -> waID \in accepted
    [] status \in {StatusDelivered, StatusRead, StatusPlayed} -> <<waID, status>> \in reported
    [] OTHER -> TRUE

\* The tick never lies: neither the row nor the bubble of a message of ours
\* says "sent" before the server has it, nor "delivered", "read" or "played"
\* without a receipt that said so -- across failed sends and restarts.
TickHonest ==
  \A waID \in OwnIDs :
    /\ waID \in DOMAIN messages => Earned(waID, messages[waID].status)
    /\ waID \in pane => Earned(waID, bubble[waID])

\* A row is pending only while its goroutine is still at work on it, or if that
\* goroutine failed or died with the process.
PendingIsTracked ==
  \A waID \in DOMAIN messages \cap OwnIDs :
    messages[waID].status = StatusPending =>
      sender[waID] \in {"sending", "update"} \/ waID \in lost

\* No step makes a settled message pending again: not a redelivered copy, a
\* failed send or a restart.
PendingNeverReturnsStep ==
  \A waID \in DOMAIN messages :
    messages[waID].status # StatusPending => messages'[waID].status # StatusPending

PendingNeverReturns == [][PendingNeverReturnsStep]_allVars

=============================================================================
