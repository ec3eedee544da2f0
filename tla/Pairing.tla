------------------------------- MODULE Pairing -------------------------------
(***************************************************************************)
(* Linking the device, and the connection banner: the way of the QR items  *)
(* from whatsmeow to the terminal and the window, OnConnState, and which   *)
(* of the two screens renderRoot draws.                                    *)
(*                                                                         *)
(* needsPairing, connState, State.OwnJID and PairingView are shared by     *)
(* whatsmeow's goroutines, the QR goroutine and the frame loop without a   *)
(* lock, so each of their reads and writes is a step.  A Go string is two  *)
(* words: a reader of qrCode may find the pointer of one code and the      *)
(* length of another.                                                      *)
(***************************************************************************)
EXTENDS Integers, Sequences

CONSTANTS
  Capacity,   \* of the channels between the goroutines (4 in the code)
  MaxCodes,   \* bound: QR codes whatsmeow issues (about 8)
  Handlers,   \* whatsmeow's goroutines that dispatch connection events
  MaxEvents   \* bound: connection events, and frames drawn for other reasons

ASSUME PairingAssumption ==
  Capacity \in Nat \ {0} /\ MaxCodes \in Nat /\ MaxEvents \in Nat

VARIABLES
  issued,        \* codes issued so far
  linked,        \* the phone has linked this device
  events,        \* counts to MaxEvents
  out, outOpen,  \* the channel of QRChannel, and whether it is still open
  windowQR, fanOpen,  \* the window's channel; both of the fan-out close together
  terminalQR,    \* how many items wait in the terminal's
  window,        \* where the goroutine of windowQR is
  handler, event,              \* OnConnState: where each goroutine is, and with what
  needsPairing, phase, qrData, qrLen, connState,
  populated,     \* OwnJID is set, and LoadChats has succeeded since the device was linked
  failed,        \* history variable: a LoadChats of OnConnState has failed
  wake,          \* Invalidate was called and no frame has begun since
  frame,         \* where renderRoot is, and what it has read
  screen         \* what the last frame drew

qrVars == <<issued, out, outOpen, terminalQR, windowQR, fanOpen>>
viewVars == <<phase, qrData, qrLen>>
dataVars == <<populated, failed>>
connVars == <<linked, events, handler, event, connState, dataVars>>
uiVars == <<frame, screen>>
vars == <<qrVars, viewVars, connVars, uiVars, window, needsPairing, wake>>

Code(n) == [Event |-> "code", Code |-> n]
Last(e) == [Event |-> e, Code |-> 0]
QRItem == {Code(n) : n \in 1..MaxCodes} \cup {Last("success"), Last("timeout")}

\* LoggedOut goes the way of Disconnected.
ConnEvents == {"Connected", "Disconnected"}
Phases == {"WaitingQR", "Scanned", "Ready", "Failed"}

Blank == [view |-> "none", banner |-> "", phase |-> "", data |-> 0, len |-> 0]
MainScreen(cs) == [Blank EXCEPT !.view = "main", !.banner = cs]
PairingScreen ==
  [view |-> "pairing", banner |-> "", phase |-> phase,
   data |-> IF phase = "WaitingQR" THEN qrData ELSE 0,
   len |-> IF phase = "WaitingQR" THEN qrLen ELSE 0]

NoFrame == [at |-> "asleep", cs |-> "", np |-> FALSE]

\* The app starts with a device that is linked, or with one that is not.
Init ==
  /\ linked \in BOOLEAN
  /\ needsPairing = ~linked /\ populated = linked /\ failed = FALSE
  /\ connState = IF linked THEN "Connected" ELSE "Connecting"
  /\ issued = 0 /\ outOpen = ~linked /\ fanOpen = ~linked /\ events = 0
  /\ out = <<>> /\ terminalQR = 0 /\ windowQR = <<>>
  /\ window = IF linked THEN "gone" ELSE "reads"
  /\ handler = [h \in Handlers |-> "idle"] /\ event = [h \in Handlers |-> ""]
  /\ phase = "WaitingQR" /\ qrData = 0 /\ qrLen = 0
  /\ wake = TRUE /\ frame = NoFrame /\ screen = Blank

-----------------------------------------------------------------------------
(* whatsmeow *)

\* A code.  The goroutine of adaptQRChannel passes it on when there is room; what
\* whatsmeow issues and what that goroutine sends are one step.
IssueCode ==
  /\ outOpen /\ ~linked /\ issued < MaxCodes /\ Len(out) < Capacity
  /\ issued' = issued + 1 /\ out' = Append(out, Code(issued + 1))
  /\ UNCHANGED <<outOpen, terminalQR, windowQR, fanOpen,
                 viewVars, connVars, uiVars, window, needsPairing, wake>>

\* The stream ends: with "success" when the phone has linked, else with
\* "timeout" or an error, which HandleQR takes alike.
EndStream ==
  /\ outOpen /\ Len(out) < Capacity
  /\ out' = Append(out, Last(IF linked THEN "success" ELSE "timeout"))
  /\ outOpen' = FALSE
  /\ UNCHANGED <<issued, terminalQR, windowQR, fanOpen,
                 viewVars, connVars, uiVars, window, needsPairing, wake>>

\* The phone links: PairSuccess, which the Adapter publishes as Connected.
PairSuccess(h) ==
  /\ outOpen /\ ~linked /\ issued > 0 /\ handler[h] = "idle"
  /\ linked' = TRUE
  /\ handler' = [handler EXCEPT ![h] = "state"]
  /\ event' = [event EXCEPT ![h] = "Connected"]
  /\ UNCHANGED <<qrVars, viewVars, uiVars, events, connState, dataVars,
                 window, needsPairing, wake>>

\* The connection comes, goes, or is revoked; only a linked device's comes.
Dispatch(h, e) ==
  /\ handler[h] = "idle" /\ events < MaxEvents
  /\ e = "Connected" => linked
  /\ events' = events + 1
  /\ handler' = [handler EXCEPT ![h] = "state"]
  /\ event' = [event EXCEPT ![h] = e]
  /\ UNCHANGED <<qrVars, viewVars, uiVars, linked, connState, dataVars,
                 window, needsPairing, wake>>

-----------------------------------------------------------------------------
(* The way of the QR items *)

\* Mutant: a channel without a limit.
OfferUnbounded(ch, x) == Append(ch, x)

\* select with a default: a full channel drops the newest item.
Offer(ch, x) == IF Len(ch) < Capacity THEN Append(ch, x) ELSE ch

\* The fan-out goroutine takes an item and offers it to both channels.
FanOut ==
  /\ out # <<>>
  /\ out' = Tail(out)
  /\ terminalQR' = IF terminalQR < Capacity THEN terminalQR + 1 ELSE terminalQR
  /\ windowQR' = Offer(windowQR, Head(out))
  /\ UNCHANGED <<issued, outOpen, fanOpen,
                 viewVars, connVars, uiVars, window, needsPairing, wake>>

FanOutEnds ==
  /\ out = <<>> /\ ~outOpen /\ fanOpen
  /\ fanOpen' = FALSE
  /\ UNCHANGED <<issued, out, outOpen, terminalQR, windowQR,
                 viewVars, connVars, uiVars, window, needsPairing, wake>>

\* renderQRs prints an item; after "success" and "timeout" it reads no more,
\* which is one way for the terminal to stand still.
RenderQR ==
  /\ terminalQR > 0
  /\ terminalQR' = terminalQR - 1
  /\ UNCHANGED <<issued, out, outOpen, windowQR, fanOpen,
                 viewVars, connVars, uiVars, window, needsPairing, wake>>

TakeFromWindowQR(e) ==
  /\ window = "reads" /\ windowQR # <<>> /\ Head(windowQR).Event = e
  /\ windowQR' = Tail(windowQR)
  /\ UNCHANGED <<issued, out, outOpen, terminalQR, fanOpen,
                 connVars, uiVars, needsPairing, wake>>

\* HandleQR: a code is written word by word, then the phase.
HandleCode ==
  /\ TakeFromWindowQR("code")
  /\ qrData' = Head(windowQR).Code /\ window' = "len"
  /\ UNCHANGED <<phase, qrLen>>

HandleCodeLen ==
  /\ window = "len"
  /\ qrLen' = qrData /\ window' = "phase"
  /\ UNCHANGED <<qrVars, phase, qrData, connVars, uiVars, needsPairing, wake>>

HandleCodePhase ==
  /\ window = "phase"
  /\ phase' = "WaitingQR" /\ window' = "invalidate"
  /\ UNCHANGED <<qrVars, qrData, qrLen, connVars, uiVars, needsPairing, wake>>

HandleSuccess ==
  /\ TakeFromWindowQR("success")
  /\ phase' = "Scanned" /\ window' = "invalidate"
  /\ UNCHANGED <<qrData, qrLen>>

HandleFailure ==
  /\ TakeFromWindowQR("timeout")
  /\ phase' = "Failed" /\ window' = "invalidate"
  /\ UNCHANGED <<qrData, qrLen>>

WindowEnds ==
  /\ window = "reads" /\ windowQR = <<>> /\ ~fanOpen
  /\ window' = "gone"
  /\ UNCHANGED <<qrVars, viewVars, connVars, uiVars, needsPairing, wake>>

\* Mutant: the view is changed and no frame asked for.
WindowGoesOn ==
  /\ window = "invalidate"
  /\ window' = "reads"
  /\ UNCHANGED <<qrVars, viewVars, connVars, uiVars, needsPairing, wake>>

WindowInvalidate ==
  /\ window = "invalidate"
  /\ wake' = TRUE /\ window' = "reads"
  /\ UNCHANGED <<qrVars, viewVars, connVars, uiVars, needsPairing>>

-----------------------------------------------------------------------------
(* OnConnState, and Notify after it *)

Go(h, where) == handler' = [handler EXCEPT ![h] = where]

\* Mutant: the phase is set before the chats are loaded.
SetConnStateReadyFirst(h) ==
  /\ handler[h] = "state"
  /\ connState' = event[h]
  /\ Go(h, IF event[h] = "Disconnected" THEN "notify"
           ELSE IF needsPairing THEN "ready" ELSE "load")
  /\ UNCHANGED <<qrVars, viewVars, uiVars, linked, events, event, dataVars,
                 window, needsPairing, wake>>

SetConnState(h) ==
  /\ handler[h] = "state"
  /\ connState' = event[h]
  /\ Go(h, IF event[h] = "Connected" THEN "load" ELSE "notify")
  /\ UNCHANGED <<qrVars, viewVars, uiVars, linked, events, event, dataVars,
                 window, needsPairing, wake>>

AfterLoad == IF needsPairing THEN "ready" ELSE "notify"

\* OwnJID, then LoadChats.  Nothing but the main screen depends on either, so
\* they are one step.
LoadChats(h) ==
  /\ handler[h] = "load" /\ Go(h, AfterLoad)
  /\ populated' = TRUE
  /\ UNCHANGED <<qrVars, viewVars, uiVars, linked, events, event, connState, failed,
                 window, needsPairing, wake>>

\* An error of LoadChats is logged, and the rest goes on.
LoadChatsFails(h) ==
  /\ handler[h] = "load" /\ Go(h, AfterLoad)
  /\ failed' = TRUE
  /\ UNCHANGED <<qrVars, viewVars, uiVars, linked, events, event, connState, populated,
                 window, needsPairing, wake>>

SetReady(h) ==
  /\ handler[h] = "ready"
  /\ phase' = "Ready" /\ Go(h, "flag")
  /\ UNCHANGED <<qrVars, qrData, qrLen, uiVars, linked, events, event, connState, dataVars, window, needsPairing, wake>>

\* Mutant: the phase alone has to bring up the main screen.
KeepNeedsPairing(h) ==
  /\ handler[h] = "flag"
  /\ Go(h, "notify")
  /\ UNCHANGED <<qrVars, viewVars, uiVars, linked, events, event, connState,
                 dataVars, window, needsPairing, wake>>

ClearNeedsPairing(h) ==
  /\ handler[h] = "flag"
  /\ needsPairing' = FALSE /\ Go(h, "notify")
  /\ UNCHANGED <<qrVars, viewVars, uiVars, linked, events, event, connState, dataVars, window, wake>>

Notify(h) ==
  /\ handler[h] = "notify"
  /\ wake' = TRUE /\ Go(h, "idle") /\ event' = [event EXCEPT ![h] = ""]
  /\ UNCHANGED <<qrVars, viewVars, uiVars, linked, events, connState, dataVars,
                 window, needsPairing>>

-----------------------------------------------------------------------------
(* The frame loop *)

\* A frame event; renderRoot is called with connState and looks at needsPairing.
BeginFrame ==
  /\ frame.at = "asleep" /\ wake
  /\ wake' = FALSE
  /\ frame' = [at |-> "choose", cs |-> connState, np |-> needsPairing]
  /\ UNCHANGED <<qrVars, viewVars, connVars, screen, window, needsPairing>>

DrawMain ==
  /\ frame.at = "choose" /\ (~frame.np \/ phase = "Ready")
  /\ needsPairing' = FALSE
  /\ screen' = MainScreen(frame.cs) /\ frame' = NoFrame
  /\ UNCHANGED <<qrVars, viewVars, connVars, window, wake>>

ChoosePairing ==
  /\ frame.at = "choose" /\ frame.np /\ phase # "Ready"
  /\ frame' = [frame EXCEPT !.at = "layout"]
  /\ UNCHANGED <<qrVars, viewVars, connVars, screen, window, needsPairing, wake>>

\* PairingView.Layout.
DrawPairing ==
  /\ frame.at = "layout"
  /\ screen' = PairingScreen /\ frame' = NoFrame
  /\ UNCHANGED <<qrVars, viewVars, connVars, window, needsPairing, wake>>

\* A frame for any other reason: a message, input.
OtherInvalidate ==
  /\ ~wake /\ events < MaxEvents
  /\ wake' = TRUE /\ events' = events + 1
  /\ UNCHANGED <<qrVars, viewVars, uiVars, linked, handler, event, connState, dataVars,
                 window, needsPairing>>

-----------------------------------------------------------------------------

FanOutStep == FanOut \/ FanOutEnds
WindowStep ==
  \/ HandleCode \/ HandleCodeLen \/ HandleCodePhase \/ HandleSuccess
  \/ HandleFailure \/ WindowInvalidate \/ WindowEnds
HandlerStep(h) ==
  \/ SetConnState(h) \/ LoadChats(h) \/ LoadChatsFails(h) \/ SetReady(h)
  \/ ClearNeedsPairing(h) \/ Notify(h)
FrameStep == BeginFrame \/ DrawMain \/ ChoosePairing \/ DrawPairing

Next ==
  \/ IssueCode \/ EndStream \/ OtherInvalidate \/ RenderQR
  \/ FanOutStep \/ WindowStep \/ FrameStep
  \/ \E h \in Handlers : HandlerStep(h) \/ PairSuccess(h) \/ \E e \in ConnEvents : Dispatch(h, e)

Spec == Init /\ [][Next]_vars

\* Goroutines run and the loop draws; the terminal may stand still for ever, as
\* a paused one does, and nothing is asked of whatsmeow, the phone or the user.
FairSpec ==
  /\ Spec
  /\ WF_vars(FanOutStep) /\ WF_vars(WindowStep) /\ WF_vars(FrameStep)
  /\ \A h \in Handlers : WF_vars(HandlerStep(h))

-----------------------------------------------------------------------------
(* Properties *)

PairingTypeOK ==
  /\ terminalQR \in 0..Capacity
  /\ \A ch \in {out, windowQR} : ch \in Seq(QRItem) /\ Len(ch) <= Capacity
  /\ phase \in Phases /\ {qrData, qrLen} \subseteq 0..MaxCodes
  /\ connState \in ConnEvents \cup {"Connecting"}
  /\ \A k \in DOMAIN windowQR :
       windowQR[k].Event = "code" => windowQR[k].Code \in (qrData + 1)..issued

\* What the loop sleeps on is current: when no wake-up is due and no goroutine
\* stands between its writes and its Invalidate, the screen shows what the
\* variables say, and never a code put together from two.
ScreenCurrent ==
  (/\ frame.at = "asleep" /\ ~wake
   /\ window \in {"reads", "gone"} /\ \A h \in Handlers : handler[h] = "idle")
  => /\ screen = IF needsPairing /\ phase # "Ready" THEN PairingScreen
                 ELSE MainScreen(connState)
     /\ screen.data = screen.len

\* On a first pairing the main screen is not drawn before the own JID is set
\* and a LoadChats has run, so that what history sync stored is there
\* (OnConnState's order, against frames drawn at any moment).  It comes up
\* without the chats only after a LoadChats that failed, which OnConnState logs
\* and passes over.
MainIsPopulated == screen.view = "main" => populated \/ failed

\* Once the phone has linked, the main screen comes, and stays: whatever QR item
\* arrives late, and however two connection events overlap.
LinkedLeadsToMain == linked ~> [](screen.view = "main")

=============================================================================
