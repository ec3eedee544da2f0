--------------------------- MODULE PairingProofs ---------------------------
(***************************************************************************)
(* Proofs about linking and the banner, for any capacity of the channels,  *)
(* any number of codes and any number of goroutines with events.           *)
(*                                                                         *)
(* PairingInv has three independent parts.  The codes on their way to the  *)
(* window are in the order they were issued (InOrder), which PairingTypeOK *)
(* needs.  Whoever may bring up the main screen comes after a LoadChats,   *)
(* of which only one that failed leaves the data missing (DataFirst); this *)
(* gives MainIsPopulated.  And while every goroutine is quiet, what a      *)
(* frame in progress has read is still what the variables say              *)
(* (FrameCurrent), which gives ScreenCurrent: only a new frame can end a   *)
(* disturbance, because each ends by asking for one.                       *)
(***************************************************************************)
EXTENDS Pairing, SequenceTheorems, TLAPS

Places == {"idle", "state", "load", "ready", "flag", "notify"}
WindowPlaces == {"reads", "len", "phase", "invalidate", "gone"}

\* Types of what PairingTypeOK does not mention.
MoreTypes ==
  /\ issued \in 0..MaxCodes /\ needsPairing \in BOOLEAN /\ linked \in BOOLEAN
  /\ populated \in BOOLEAN /\ wake \in BOOLEAN
  /\ window \in WindowPlaces
  /\ handler \in [Handlers -> Places]
  /\ event \in [Handlers -> ConnEvents \cup {""}]
  /\ \A h \in Handlers : handler[h] = "state" => event[h] \in ConnEvents
  /\ frame \in [at : {"asleep", "choose", "layout"}, cs : ConnEvents \cup {"Connecting", ""},
                np : BOOLEAN]

\* Codes reach the window in the order they were issued.
IsCode(x) == x.Event = "code"

InOrder ==
  /\ \A i, j \in DOMAIN windowQR :
       i < j /\ IsCode(windowQR[i]) /\ IsCode(windowQR[j]) => windowQR[i].Code < windowQR[j].Code
  /\ \A i, j \in DOMAIN out :
       i < j /\ IsCode(out[i]) /\ IsCode(out[j]) => out[i].Code < out[j].Code
  /\ \A i \in DOMAIN windowQR, j \in DOMAIN out :
       IsCode(windowQR[i]) /\ IsCode(out[j]) => windowQR[i].Code < out[j].Code
  /\ \A j \in DOMAIN out : IsCode(out[j]) => out[j].Code \in (qrData + 1)..issued
  /\ qrData <= issued

\* LoadChats has run since the device was linked.
Loaded == populated \/ failed

\* What opens the way to the main screen comes after LoadChats, which only a
\* Connected runs, and that only of a linked device.
DataFirst ==
  /\ \A h \in Handlers : handler[h] = "state" /\ event[h] = "Connected" => linked
  /\ \A h \in Handlers : handler[h] = "load" => linked
  /\ \A h \in Handlers : handler[h] \in {"ready", "flag"} => Loaded
  /\ phase = "Ready" => Loaded
  /\ ~needsPairing => Loaded
  /\ frame.at = "choose" /\ ~frame.np => Loaded
  /\ MainIsPopulated

\* No wake-up is due and no goroutine stands between its writes and its Invalidate.
Quiet ==
  ~wake /\ window \in {"reads", "gone"} /\ \A h \in Handlers : handler[h] = "idle"

Shown == IF needsPairing /\ phase # "Ready" THEN PairingScreen ELSE MainScreen(connState)

FrameCurrent ==
  /\ window # "len" => qrLen = qrData
  /\ Quiet =>
       /\ frame.at = "asleep" => screen = Shown /\ screen.data = screen.len
       /\ frame.at = "choose" => frame.cs = connState /\ frame.np = needsPairing
       /\ frame.at = "layout" => needsPairing /\ phase # "Ready"

PairingInv == PairingTypeOK /\ MoreTypes /\ InOrder /\ DataFirst /\ FrameCurrent

-----------------------------------------------------------------------------
(* The channels *)

\* What PairingTypeOK and InOrder say of the codes and their channels.
Channels ==
  /\ issued \in 0..MaxCodes /\ qrData \in 0..MaxCodes
  /\ out \in Seq(QRItem) /\ Len(out) <= Capacity
  /\ windowQR \in Seq(QRItem) /\ Len(windowQR) <= Capacity
  /\ \A k \in DOMAIN windowQR :
       windowQR[k].Event = "code" => windowQR[k].Code \in (qrData + 1)..issued
  /\ InOrder

\* What is sent is an item, and a code is known by its event.
LEMMA ItemFact ==
  /\ \A n \in 1..MaxCodes : Code(n) \in QRItem /\ IsCode(Code(n)) /\ Code(n).Code = n
  /\ \A e \in {"success", "timeout"} : Last(e) \in QRItem /\ ~IsCode(Last(e))
  /\ \A x \in QRItem : IsCode(x) => x.Code \in 1..MaxCodes
BY DEF QRItem, Code, Last, IsCode

\* What a channel holds after a send.
LEMMA SendFact ==
  ASSUME NEW ch \in Seq(QRItem), NEW x \in QRItem, Len(ch) < Capacity
  PROVE  LET new == Append(ch, x) IN
         /\ new \in Seq(QRItem) /\ Len(new) <= Capacity
         /\ \A i \in DOMAIN new : \/ i \in DOMAIN ch /\ new[i] = ch[i]
                                  \/ i = Len(ch) + 1 /\ new[i] = x
         /\ \A i \in DOMAIN ch : i < Len(ch) + 1
<1> DEFINE new == Append(ch, x)
<1>1. /\ new \in Seq(QRItem) /\ Len(new) = Len(ch) + 1
      /\ \A i \in 1..Len(ch) : new[i] = ch[i]
      /\ new[Len(ch) + 1] = x
  BY AppendProperties
<1>2. /\ DOMAIN new = 1..(Len(ch) + 1) /\ DOMAIN ch = 1..Len(ch) /\ Len(ch) \in Nat
      /\ Capacity \in Nat
  BY <1>1, PairingAssumption
<1> HIDE DEF new
<1>3. /\ Len(new) <= Capacity /\ \A i \in DOMAIN ch : i < Len(ch) + 1
      /\ \A i \in DOMAIN new : i \in DOMAIN ch \/ i = Len(ch) + 1
  BY <1>1, <1>2
<1>4. \A i \in DOMAIN new : \/ i \in DOMAIN ch /\ new[i] = ch[i]
                            \/ i = Len(ch) + 1 /\ new[i] = x
  BY <1>1, <1>2, <1>3
<1> QED
  BY <1>1, <1>3, <1>4 DEF new

\* What a channel holds after a receive.
LEMMA ReceiveFact ==
  ASSUME NEW ch \in Seq(QRItem), ch # <<>>, Len(ch) <= Capacity
  PROVE  LET rest == Tail(ch) IN
         /\ rest \in Seq(QRItem) /\ Len(rest) <= Capacity
         /\ Head(ch) \in QRItem /\ 1 \in DOMAIN ch /\ Head(ch) = ch[1]
         /\ \A i \in DOMAIN rest : i + 1 \in DOMAIN ch /\ rest[i] = ch[i + 1] /\ i \in Nat /\ 1 < i + 1
<1> DEFINE rest == Tail(ch)
<1>1. /\ rest \in Seq(QRItem) /\ Len(rest) = Len(ch) - 1 /\ Head(ch) \in QRItem
      /\ \A i \in 1..Len(rest) : rest[i] = ch[i + 1]
  BY HeadTailProperties
<1>2. /\ DOMAIN rest = 1..Len(rest) /\ DOMAIN ch = 1..Len(ch) /\ Len(ch) \in Nat /\ Len(ch) >= 1
      /\ Capacity \in Nat /\ Head(ch) = ch[1]
  BY <1>1, PairingAssumption
<1> HIDE DEF rest
<1> QED
  BY <1>1, <1>2 DEF rest

\* A step that sends on neither channel and takes no code off them.
LEMMA ChannelsKept ==
  ASSUME Channels, UNCHANGED <<issued, qrData, out, windowQR>>
  PROVE  Channels'
BY DEF Channels, InOrder

\* whatsmeow sends an item: a code newer than all, or the last.
LEMMA IssueChannels ==
  ASSUME Channels, IssueCode \/ EndStream
  PROVE  Channels'
<1> PICK x \in QRItem : /\ out' = Append(out, x)
                        /\ \/ IsCode(x) /\ x.Code = issued + 1 /\ issued' = issued + 1
                           \/ ~IsCode(x) /\ issued' = issued
  <2>1. CASE IssueCode
    <3>1. issued + 1 \in 1..MaxCodes
      BY <2>1, PairingAssumption DEF IssueCode, Channels
    <3> QED
      BY <2>1, <3>1, ItemFact DEF IssueCode
  <2>2. CASE EndStream
    BY <2>2, ItemFact DEF EndStream
  <2> QED
    BY <2>1, <2>2
<1>1. /\ Len(out) < Capacity /\ UNCHANGED <<qrData, windowQR>>
      /\ issued' \in 0..MaxCodes /\ issued' >= issued
  BY PairingAssumption DEF IssueCode, EndStream, viewVars, Channels
<1> USE DEF Channels
<1>2. /\ out' \in Seq(QRItem) /\ Len(out') <= Capacity
      /\ \A i \in DOMAIN out' : \/ i \in DOMAIN out /\ out'[i] = out[i]
                                \/ i = Len(out) + 1 /\ out'[i] = x
      /\ \A i \in DOMAIN out : i < Len(out) + 1
  BY <1>1, SendFact
<1>3. /\ \A i \in DOMAIN out : i \in Nat /\ (IsCode(out[i]) => out[i].Code \in (qrData + 1)..issued)
      /\ \A i \in DOMAIN windowQR :
           IsCode(windowQR[i]) => windowQR[i].Code \in (qrData + 1)..issued
  BY DEF InOrder, IsCode
<1>4. InOrder'
  <2>1. \A i, j \in DOMAIN out' :
          i < j /\ IsCode(out'[i]) /\ IsCode(out'[j]) => out'[i].Code < out'[j].Code
    <3> SUFFICES ASSUME NEW i \in DOMAIN out', NEW j \in DOMAIN out', i < j,
                        IsCode(out'[i]), IsCode(out'[j])
                 PROVE  out'[i].Code < out'[j].Code
      OBVIOUS
    <3>1. i \in DOMAIN out /\ out'[i] = out[i]
      BY <1>2, <1>3
    <3> QED
      BY <1>2, <1>3, <3>1 DEF InOrder
  <2>2. \A i \in DOMAIN windowQR, j \in DOMAIN out' :
          IsCode(windowQR[i]) /\ IsCode(out'[j]) => windowQR[i].Code < out'[j].Code
    BY <1>2, <1>3 DEF InOrder
  <2>3. \A j \in DOMAIN out' : IsCode(out'[j]) => out'[j].Code \in (qrData + 1)..issued'
    BY <1>1, <1>2, <1>3 DEF InOrder
  <2> QED
    BY <1>1, <2>1, <2>2, <2>3 DEF InOrder
<1>5. \A k \in DOMAIN windowQR' :
        windowQR'[k].Event = "code" => windowQR'[k].Code \in (qrData' + 1)..issued'
  BY <1>1, <1>3 DEF IsCode
<1> QED
  BY <1>1, <1>2, <1>4, <1>5

\* The fan-out moves the oldest item, or drops it.
LEMMA FanOutChannels ==
  ASSUME Channels, FanOut
  PROVE  Channels'
<1> DEFINE x == Head(out)
<1>1. /\ out # <<>> /\ out' = Tail(out) /\ windowQR' = Offer(windowQR, x)
      /\ UNCHANGED <<issued, qrData>>
  BY DEF FanOut, viewVars
<1> USE DEF Channels
<1>2. /\ out' \in Seq(QRItem) /\ Len(out') <= Capacity
      /\ x \in QRItem /\ 1 \in DOMAIN out /\ x = out[1]
      /\ \A i \in DOMAIN out' : i + 1 \in DOMAIN out /\ out'[i] = out[i + 1] /\ i \in Nat /\ 1 < i + 1
  BY <1>1, ReceiveFact
<1> HIDE DEF x
<1>3. /\ windowQR' \in Seq(QRItem) /\ Len(windowQR') <= Capacity
      /\ \A i \in DOMAIN windowQR' : \/ i \in DOMAIN windowQR /\ windowQR'[i] = windowQR[i]
                                     \/ i = Len(windowQR) + 1 /\ windowQR'[i] = x
      /\ \A i \in DOMAIN windowQR : i < Len(windowQR) + 1
  <2>1. CASE Len(windowQR) < Capacity
    BY <1>1, <1>2, <2>1, SendFact DEF Offer
  <2>2. CASE ~(Len(windowQR) < Capacity)
    <3>1. windowQR' = windowQR /\ \A i \in DOMAIN windowQR : i < Len(windowQR) + 1
      BY <1>1, <2>2 DEF Offer
    <3> QED
      BY <3>1
  <2> QED
    BY <2>1, <2>2
<1>4. /\ \A i \in DOMAIN windowQR : i \in Nat
      /\ IsCode(x) => x.Code \in (qrData + 1)..issued
      /\ \A i \in DOMAIN windowQR : IsCode(windowQR[i]) /\ IsCode(x) => windowQR[i].Code < x.Code
      /\ \A j \in DOMAIN out' : IsCode(x) /\ IsCode(out'[j]) => x.Code < out'[j].Code
  BY <1>2 DEF InOrder
<1>5. \A i, j \in DOMAIN windowQR' :
        i < j /\ IsCode(windowQR'[i]) /\ IsCode(windowQR'[j])
          => windowQR'[i].Code < windowQR'[j].Code
  <2> SUFFICES ASSUME NEW i \in DOMAIN windowQR', NEW j \in DOMAIN windowQR', i < j,
                      IsCode(windowQR'[i]), IsCode(windowQR'[j])
               PROVE  windowQR'[i].Code < windowQR'[j].Code
    OBVIOUS
  <2>1. i \in DOMAIN windowQR /\ windowQR'[i] = windowQR[i]
    BY <1>3, <1>4
  <2> QED
    BY <1>3, <1>4, <2>1 DEF InOrder
<1>6. \A i, j \in DOMAIN out' :
        i < j /\ IsCode(out'[i]) /\ IsCode(out'[j]) => out'[i].Code < out'[j].Code
  <2> SUFFICES ASSUME NEW i \in DOMAIN out', NEW j \in DOMAIN out', i < j,
                      IsCode(out'[i]), IsCode(out'[j])
               PROVE  out'[i].Code < out'[j].Code
    OBVIOUS
  <2>1. i + 1 < j + 1
    BY <1>2
  <2> QED
    BY <1>2, <2>1 DEF InOrder
<1>7. \A i \in DOMAIN windowQR', j \in DOMAIN out' :
        IsCode(windowQR'[i]) /\ IsCode(out'[j]) => windowQR'[i].Code < out'[j].Code
  BY <1>2, <1>3, <1>4 DEF InOrder
<1>8. /\ \A j \in DOMAIN out' : IsCode(out'[j]) => out'[j].Code \in (qrData + 1)..issued
      /\ \A k \in DOMAIN windowQR' :
           windowQR'[k].Event = "code" => windowQR'[k].Code \in (qrData + 1)..issued
  BY <1>2, <1>3, <1>4 DEF InOrder, IsCode
<1>9. InOrder'
  BY <1>1, <1>5, <1>6, <1>7, <1>8 DEF InOrder
<1> QED
  BY <1>1, <1>2, <1>3, <1>8, <1>9

\* The window takes an item; a code it takes is older than those that follow.
LEMMA WindowChannels ==
  ASSUME Channels, HandleCode \/ HandleSuccess \/ HandleFailure
  PROVE  Channels'
<1> DEFINE x == Head(windowQR)
<1>1. /\ windowQR # <<>> /\ windowQR' = Tail(windowQR) /\ UNCHANGED <<issued, out>>
      /\ (IsCode(x) /\ qrData' = x.Code) \/ qrData' = qrData
  BY DEF HandleCode, HandleSuccess, HandleFailure, TakeFromWindowQR, IsCode
<1> USE DEF Channels
<1>2. /\ windowQR' \in Seq(QRItem) /\ Len(windowQR') <= Capacity
      /\ x \in QRItem /\ 1 \in DOMAIN windowQR /\ x = windowQR[1]
      /\ \A i \in DOMAIN windowQR' :
           i + 1 \in DOMAIN windowQR /\ windowQR'[i] = windowQR[i + 1] /\ i \in Nat /\ 1 < i + 1
  BY <1>1, ReceiveFact
<1> HIDE DEF x
<1>3. /\ IsCode(x) => x.Code \in (qrData + 1)..issued
      /\ \A j \in DOMAIN out : IsCode(x) /\ IsCode(out[j]) => x.Code < out[j].Code
      /\ \A i \in DOMAIN windowQR' :
           IsCode(x) /\ IsCode(windowQR'[i]) => x.Code < windowQR'[i].Code
      /\ \A i \in DOMAIN windowQR' :
           IsCode(windowQR'[i]) => windowQR'[i].Code \in (qrData + 1)..issued
  BY <1>2 DEF InOrder, IsCode
<1>4. qrData' \in 0..MaxCodes /\ qrData' <= issued
  BY <1>1, <1>3, PairingAssumption DEF InOrder
<1>5. \A i, j \in DOMAIN windowQR' :
        i < j /\ IsCode(windowQR'[i]) /\ IsCode(windowQR'[j])
          => windowQR'[i].Code < windowQR'[j].Code
  <2> SUFFICES ASSUME NEW i \in DOMAIN windowQR', NEW j \in DOMAIN windowQR', i < j,
                      IsCode(windowQR'[i]), IsCode(windowQR'[j])
               PROVE  windowQR'[i].Code < windowQR'[j].Code
    OBVIOUS
  <2>1. i + 1 < j + 1
    BY <1>2
  <2> QED
    BY <1>2, <2>1 DEF InOrder
<1>6. /\ \A j \in DOMAIN out : IsCode(out[j]) => out[j].Code \in (qrData' + 1)..issued
      /\ \A i \in DOMAIN windowQR' :
           IsCode(windowQR'[i]) => windowQR'[i].Code \in (qrData' + 1)..issued
  BY <1>1, <1>3 DEF InOrder
<1>7. \A i \in DOMAIN windowQR', j \in DOMAIN out :
        IsCode(windowQR'[i]) /\ IsCode(out[j]) => windowQR'[i].Code < out[j].Code
  BY <1>2 DEF InOrder
<1>8. InOrder'
  BY <1>1, <1>4, <1>5, <1>6, <1>7 DEF InOrder
<1> QED
  BY <1>1, <1>2, <1>4, <1>6, <1>8 DEF IsCode

\* Every step keeps the channels in order.
LEMMA ChannelsStep ==
  ASSUME Channels, [Next]_vars
  PROVE  Channels'
<1>1. CASE IssueCode \/ EndStream
  BY <1>1, IssueChannels
<1>2. CASE FanOut
  BY <1>2, FanOutChannels
<1>3. CASE HandleCode \/ HandleSuccess \/ HandleFailure
  BY <1>3, WindowChannels
<1>4. CASE \/ OtherInvalidate \/ RenderQR \/ FanOutEnds \/ FrameStep
           \/ HandleCodeLen \/ HandleCodePhase \/ WindowInvalidate \/ WindowEnds
  BY <1>4, ChannelsKept DEF OtherInvalidate, RenderQR, FanOutEnds, FrameStep, BeginFrame, DrawMain,
     ChoosePairing, DrawPairing, HandleCodeLen, HandleCodePhase, WindowInvalidate, WindowEnds,
     qrVars, viewVars
<1>5. ASSUME NEW h \in Handlers,
             HandlerStep(h) \/ PairSuccess(h) \/ \E e \in ConnEvents : Dispatch(h, e)
      PROVE  Channels'
  BY <1>5, ChannelsKept DEF HandlerStep, SetConnState, LoadChats, LoadChatsFails, AfterLoad, SetReady, ClearNeedsPairing, Notify,
     PairSuccess, Dispatch, qrVars, viewVars
<1>6. CASE UNCHANGED vars
  BY <1>6, ChannelsKept DEF vars, qrVars, viewVars
<1> QED
  BY <1>1, <1>2, <1>3, <1>4, <1>5, <1>6 DEF Next, FanOutStep, WindowStep

-----------------------------------------------------------------------------
(* Types of the rest *)

Singles ==
  /\ MoreTypes
  /\ terminalQR \in 0..Capacity
  /\ phase \in Phases /\ qrLen \in 0..MaxCodes
  /\ connState \in ConnEvents \cup {"Connecting"}

\* Every step of whatsmeow, of the fan-out or of the terminal is typed.
LEMMA SinglesSources ==
  ASSUME Channels, Singles,
         IssueCode \/ EndStream \/ OtherInvalidate \/ RenderQR \/ FanOut \/ FanOutEnds
  PROVE  Singles'
<1>0. Capacity \in Nat \ {0}
  BY PairingAssumption
<1>1. CASE IssueCode \/ EndStream
  <2>1. issued' \in 0..MaxCodes
    BY <1>1, PairingAssumption DEF IssueCode, EndStream, Channels
  <2> QED
    BY <1>1, <2>1 DEF IssueCode, EndStream, Singles, MoreTypes, viewVars, connVars, dataVars, uiVars
<1>2. CASE OtherInvalidate
  BY <1>2 DEF OtherInvalidate, Singles, MoreTypes, qrVars, viewVars, dataVars, uiVars
<1>3. CASE RenderQR \/ FanOut \/ FanOutEnds
  <2>1. terminalQR' \in 0..Capacity
    BY <1>0, <1>3 DEF RenderQR, FanOut, FanOutEnds, Singles
  <2> QED
    BY <1>3, <2>1 DEF RenderQR, FanOut, FanOutEnds, Singles, MoreTypes, viewVars, connVars, dataVars, uiVars
<1> QED
  BY <1>1, <1>2, <1>3

\* So is every step of the window's goroutine.
LEMMA SinglesWindow ==
  ASSUME Channels, Singles, WindowStep
  PROVE  Singles'
<1>1. CASE HandleCode \/ HandleSuccess \/ HandleFailure
  BY <1>1 DEF HandleCode, HandleSuccess, HandleFailure, TakeFromWindowQR, Singles, MoreTypes,
              WindowPlaces, Phases, connVars, dataVars, uiVars
<1>2. CASE HandleCodeLen \/ HandleCodePhase \/ WindowInvalidate \/ WindowEnds
  BY <1>2 DEF HandleCodeLen, HandleCodePhase, WindowInvalidate, WindowEnds, Channels, Singles,
              MoreTypes, WindowPlaces, Phases, qrVars, viewVars, connVars, dataVars, uiVars
<1> QED
  BY <1>1, <1>2 DEF WindowStep

\* So is every connection event.
LEMMA SinglesHandler ==
  ASSUME Channels, Singles, NEW h \in Handlers,
         HandlerStep(h) \/ PairSuccess(h) \/ \E e \in ConnEvents : Dispatch(h, e)
  PROVE  Singles'
<1> USE DEF Singles, MoreTypes, qrVars, viewVars, uiVars, dataVars, Go, Places, ConnEvents, Phases
<1>1. CASE SetConnState(h)
  BY <1>1 DEF SetConnState
<1>2. CASE LoadChats(h)
  BY <1>2 DEF LoadChats, AfterLoad
<1>3. CASE LoadChatsFails(h)
  <2>1. /\ \E place \in {"ready", "notify"} : handler' = [handler EXCEPT ![h] = place]
        /\ UNCHANGED <<linked, connState, populated, event, issued, terminalQR, viewVars, uiVars,
                       window, needsPairing, wake>>
    BY <1>3 DEF LoadChatsFails, AfterLoad
  <2>2. /\ handler' \in [Handlers -> Places]
        /\ \A v \in Handlers : handler'[v] = "state" => event'[v] \in ConnEvents
    BY <2>1
  <2>3. populated' \in BOOLEAN /\ linked' \in BOOLEAN /\ needsPairing' \in BOOLEAN /\ wake' \in BOOLEAN
    BY <2>1
  <2> QED
    BY <2>1, <2>2, <2>3
<1>4. CASE SetReady(h)
  BY <1>4 DEF SetReady
<1>5. CASE ClearNeedsPairing(h)
  BY <1>5 DEF ClearNeedsPairing
<1>6. CASE Notify(h)
  BY <1>6 DEF Notify
<1>7. CASE PairSuccess(h)
  BY <1>7 DEF PairSuccess
<1>8. ASSUME NEW e \in ConnEvents, Dispatch(h, e) PROVE Singles'
  <2> HIDE DEF ConnEvents
  <2>1. /\ handler' = [handler EXCEPT ![h] = "state"] /\ event' = [event EXCEPT ![h] = e]
        /\ UNCHANGED <<linked, connState, populated, failed, issued, terminalQR, viewVars, uiVars, window,
                       needsPairing, wake>>
    BY <1>8 DEF Dispatch
  <2>2. handler' \in [Handlers -> Places] /\ event' \in [Handlers -> ConnEvents \cup {""}]
    BY <2>1
  <2>3. \A v \in Handlers : handler'[v] = "state" => event'[v] \in ConnEvents
    BY <2>1
  <2> QED
    BY <2>1, <2>2, <2>3
<1> QED
  BY <1>1, <1>2, <1>3, <1>4, <1>5, <1>6, <1>7, <1>8 DEF HandlerStep

\* And so is every step of the frame loop.
LEMMA SinglesStep ==
  ASSUME Channels, Singles, [Next]_vars
  PROVE  Singles'
<1> DEFINE Frames == [at : {"asleep", "choose", "layout"}, cs : ConnEvents \cup {"Connecting", ""},
                      np : BOOLEAN]
<1>1. CASE FrameStep
  <2>1. frame' \in Frames
    <3>1. frame \in Frames /\ connState \in ConnEvents \cup {"Connecting", ""} /\ needsPairing \in BOOLEAN
      BY DEF Singles, MoreTypes
    <3>2. CASE BeginFrame
      BY <3>1, <3>2 DEF BeginFrame
    <3>3. CASE ChoosePairing
      BY <3>1, <3>3 DEF ChoosePairing
    <3>4. CASE DrawMain \/ DrawPairing
      <4>1. NoFrame \in Frames
        BY DEF NoFrame
      <4>2. frame' = NoFrame
        BY <3>4 DEF DrawMain, DrawPairing
      <4> QED
        BY <4>1, <4>2
    <3> QED
      BY <1>1, <3>2, <3>3, <3>4 DEF FrameStep
  <2>2. /\ needsPairing' \in BOOLEAN /\ wake' \in BOOLEAN
        /\ UNCHANGED <<qrVars, viewVars, connVars, window>>
    BY <1>1 DEF FrameStep, BeginFrame, DrawMain, ChoosePairing, DrawPairing, Singles, MoreTypes
  <2> QED
    BY <2>1, <2>2 DEF Singles, MoreTypes, qrVars, viewVars, connVars, dataVars
<1>2. CASE UNCHANGED vars
  BY <1>2 DEF vars, Singles, MoreTypes, qrVars, viewVars, connVars, dataVars, uiVars
<1> QED
  BY <1>1, <1>2, SinglesSources, SinglesWindow, SinglesHandler DEF Next, FanOutStep

-----------------------------------------------------------------------------
(* The data of the main screen *)

\* Whoever opens the way to the main screen, and the screen itself, come after
\* LoadChats: a handler that has got past it, the phase, the flag, a frame that
\* has read the flag.
LEMMA DataFirstStep ==
  ASSUME Singles, DataFirst, [Next]_vars
  PROVE  DataFirst'
<1> USE DEF DataFirst, MainIsPopulated, Loaded
<1>0. /\ handler \in [Handlers -> Places] /\ event \in [Handlers -> ConnEvents \cup {""}]
      /\ linked \in BOOLEAN /\ populated \in BOOLEAN
  BY DEF Singles, MoreTypes
<1>1. ASSUME UNCHANGED <<handler, event, linked, populated, failed, needsPairing, frame, screen>>,
             phase' = "Ready" => phase = "Ready"
      PROVE  DataFirst'
  BY <1>1
<1>2. CASE \/ IssueCode \/ EndStream \/ OtherInvalidate \/ RenderQR \/ FanOutStep \/ WindowStep
           \/ UNCHANGED vars
  BY <1>1, <1>2 DEF IssueCode, EndStream, OtherInvalidate, RenderQR, FanOutStep, FanOut,
     FanOutEnds, WindowStep, HandleCode, HandleCodeLen, HandleCodePhase, HandleSuccess,
     HandleFailure, WindowInvalidate, WindowEnds, TakeFromWindowQR, vars, qrVars, viewVars,
     connVars, dataVars, uiVars
<1>3. ASSUME NEW h \in Handlers,
             SetConnState(h) \/ Notify(h) \/ PairSuccess(h) \/ \E e \in ConnEvents : Dispatch(h, e)
      PROVE  DataFirst'
  <2>1. /\ UNCHANGED <<populated, failed, needsPairing, phase, frame, screen>>
        /\ linked => linked'
        /\ \A v \in Handlers : handler'[v] \in {"ready", "flag"} => handler[v] = handler'[v]
    BY <1>0, <1>3 DEF SetConnState, Notify, PairSuccess, Dispatch, Go, viewVars, dataVars, uiVars
  <2>2. \A v \in Handlers : v # h => handler'[v] = handler[v] /\ event'[v] = event[v]
    BY <1>0, <1>3 DEF SetConnState, Notify, PairSuccess, Dispatch, Go
  <2>3. handler'[h] = "load" => linked'
    BY <1>0, <1>3, <2>1 DEF SetConnState, Notify, PairSuccess, Dispatch, Go
  <2>4. handler'[h] = "state" /\ event'[h] = "Connected" => linked'
    BY <1>0, <1>3, <2>1 DEF SetConnState, Notify, PairSuccess, Dispatch, Go
  <2>5. ASSUME NEW v \in Handlers
        PROVE  /\ handler'[v] = "load" => linked'
               /\ handler'[v] = "state" /\ event'[v] = "Connected" => linked'
    BY <2>1, <2>2, <2>3, <2>4
  <2> QED
    BY <2>1, <2>5
<1>4. ASSUME NEW h \in Handlers, LoadChats(h) \/ LoadChatsFails(h) PROVE DataFirst'
  <2>1. /\ Loaded' /\ UNCHANGED <<linked, event>>
        /\ \A v \in Handlers : handler'[v] \in {"state", "load"} => handler'[v] = handler[v]
    BY <1>0, <1>4 DEF LoadChats, LoadChatsFails, AfterLoad, Go
  <2> QED
    BY <2>1
<1>5. ASSUME NEW h \in Handlers, SetReady(h) \/ ClearNeedsPairing(h) PROVE DataFirst'
  <2>1. /\ Loaded' /\ UNCHANGED <<linked, event>>
        /\ \A v \in Handlers : handler'[v] \in {"state", "load"} => handler'[v] = handler[v]
    BY <1>0, <1>5 DEF SetReady, ClearNeedsPairing, dataVars, Go
  <2> QED
    BY <2>1
<1>6. CASE BeginFrame
  BY <1>6 DEF BeginFrame, viewVars, connVars, dataVars
<1>7. CASE DrawMain
  <2>1. Loaded /\ UNCHANGED <<handler, event, linked, populated, failed>>
    BY <1>7 DEF DrawMain, connVars, dataVars
  <2> QED
    BY <2>1
<1>8. CASE ChoosePairing
  BY <1>8 DEF ChoosePairing, viewVars, connVars, dataVars, Singles, MoreTypes
<1>9. CASE DrawPairing
  BY <1>9 DEF DrawPairing, PairingScreen, NoFrame, viewVars, connVars, dataVars
<1> QED
  BY <1>2, <1>3, <1>4, <1>5, <1>6, <1>7, <1>8, <1>9 DEF Next, HandlerStep, FrameStep

-----------------------------------------------------------------------------
(* What the loop sleeps on *)

\* A step after which someone still has a frame to ask for shows nothing.
LEMMA Disturbed ==
  ASSUME ~Quiet', window' # "len" => qrLen' = qrData'
  PROVE  FrameCurrent'
BY DEF FrameCurrent

\* A step that changes nothing the screen depends on, and quietens nobody.
LEMMA Undisturbed ==
  ASSUME FrameCurrent, Quiet' => Quiet, window' # "len" => window # "len",
         UNCHANGED <<viewVars, connState, needsPairing, frame, screen>>
  PROVE  FrameCurrent'
<1>1. Shown' = Shown
  BY DEF Shown, PairingScreen, MainScreen, viewVars
<1> QED
  BY <1>1 DEF FrameCurrent, viewVars

\* Every disturbance lasts until a frame begins, and a frame begun in quiet
\* draws what the variables say.
LEMMA FrameCurrentStep ==
  ASSUME Singles, FrameCurrent, [Next]_vars
  PROVE  FrameCurrent'
<1>0. /\ handler \in [Handlers -> Places] /\ frame.np \in BOOLEAN
      /\ window # "len" => qrLen = qrData
  BY DEF Singles, MoreTypes, FrameCurrent
<1>1. CASE IssueCode \/ EndStream \/ RenderQR \/ FanOutStep \/ UNCHANGED vars
  <2>1. Quiet' = Quiet
    BY <1>1 DEF IssueCode, EndStream, RenderQR, FanOutStep, FanOut, FanOutEnds, vars, connVars, Quiet
  <2> QED
    BY <1>1, <2>1, Undisturbed DEF IssueCode, EndStream, RenderQR, FanOutStep, FanOut, FanOutEnds,
       vars, connVars, uiVars
<1>2. CASE WindowEnds
  <2>1. Quiet' => Quiet
    BY <1>2 DEF WindowEnds, connVars, Quiet
  <2> QED
    BY <1>2, <2>1, Undisturbed DEF WindowEnds, connVars, uiVars
<1>3. CASE OtherInvalidate
  <2>1. ~Quiet'
    BY <1>3 DEF OtherInvalidate, Quiet
  <2> QED
    BY <1>0, <1>3, <2>1, Disturbed DEF OtherInvalidate, viewVars
<1>4. CASE HandleCode \/ HandleCodeLen \/ HandleCodePhase \/ HandleSuccess \/ HandleFailure
           \/ WindowInvalidate
  <2>1. ~Quiet'
    BY <1>4 DEF HandleCode, HandleCodeLen, HandleCodePhase, HandleSuccess, HandleFailure,
                WindowInvalidate, Quiet
  <2>2. window' # "len" => qrLen' = qrData'
    BY <1>0, <1>4 DEF HandleCode, HandleCodeLen, HandleCodePhase, HandleSuccess, HandleFailure,
                TakeFromWindowQR, WindowInvalidate, viewVars
  <2> QED
    BY <2>1, <2>2, Disturbed
<1>5. ASSUME NEW h \in Handlers,
             HandlerStep(h) \/ PairSuccess(h) \/ \E e \in ConnEvents : Dispatch(h, e)
      PROVE  FrameCurrent'
  <2>1. wake' \/ handler'[h] # "idle"
    BY <1>0, <1>5 DEF HandlerStep, SetConnState, LoadChats, LoadChatsFails, AfterLoad, SetReady, ClearNeedsPairing, Notify,
                      Go, PairSuccess, Dispatch
  <2>2. UNCHANGED <<qrLen, qrData, window>>
    BY <1>5 DEF HandlerStep, SetConnState, LoadChats, LoadChatsFails, AfterLoad, SetReady, ClearNeedsPairing, Notify,
                PairSuccess, Dispatch, viewVars
  <2> QED
    BY <1>0, <2>1, <2>2, Disturbed DEF Quiet
<1>6. CASE BeginFrame
  BY <1>0, <1>6 DEF BeginFrame, FrameCurrent, viewVars, connVars, dataVars
<1>7. CASE DrawMain
  <2>1. /\ Quiet' = Quiet /\ ~needsPairing' /\ frame.at = "choose"
        /\ UNCHANGED <<connState, window, qrLen, qrData>>
        /\ screen' = MainScreen(frame.cs) /\ frame' = NoFrame
    BY <1>7 DEF DrawMain, viewVars, connVars, dataVars, Quiet
  <2>2. Quiet' => screen' = MainScreen(connState)'
    BY <2>1 DEF FrameCurrent, MainScreen
  <2>3. Shown' = MainScreen(connState)'
    BY <2>1 DEF Shown
  <2>4. screen'.data = screen'.len
    BY <2>1 DEF MainScreen, Blank
  <2>5. frame'.at = "asleep"
    BY <2>1 DEF NoFrame
  <2> QED
    BY <1>0, <2>1, <2>2, <2>3, <2>4, <2>5 DEF FrameCurrent
<1>8. CASE ChoosePairing
  <2>1. /\ Quiet' = Quiet /\ frame'.at = "layout"
        /\ frame.at = "choose" /\ frame.np /\ phase # "Ready"
        /\ UNCHANGED <<phase, needsPairing, window, qrLen, qrData>>
    BY <1>8 DEF ChoosePairing, viewVars, connVars, dataVars, Quiet, Singles, MoreTypes
  <2> QED
    BY <1>0, <2>1 DEF FrameCurrent
<1>9. CASE DrawPairing
  <2>1. /\ Quiet' = Quiet /\ frame.at = "layout"
        /\ UNCHANGED <<phase, needsPairing, window, qrLen, qrData, connState>>
        /\ screen' = PairingScreen /\ frame' = NoFrame
    BY <1>9 DEF DrawPairing, viewVars, connVars, dataVars, Quiet
  <2>2. PairingScreen' = PairingScreen
    BY <2>1 DEF PairingScreen
  <2>3. Quiet => Shown' = PairingScreen
    BY <2>1, <2>2 DEF FrameCurrent, Shown
  <2>4. Quiet => screen'.data = screen'.len
    <3>1. Quiet => qrLen = qrData
      BY DEF Quiet, FrameCurrent
    <3> QED
      BY <2>1, <3>1 DEF PairingScreen
  <2>5. frame'.at = "asleep"
    BY <2>1 DEF NoFrame
  <2> QED
    BY <1>0, <2>1, <2>3, <2>4, <2>5 DEF FrameCurrent
<1> QED
  BY <1>1, <1>2, <1>3, <1>4, <1>5, <1>6, <1>7, <1>8, <1>9 DEF Next, WindowStep, FrameStep

-----------------------------------------------------------------------------
(* The theorems *)

\* The invariant in the parts its steps are proved by.
LEMMA PairingInvParts ==
  PairingInv <=> Channels /\ Singles /\ DataFirst /\ FrameCurrent
BY DEF PairingInv, PairingTypeOK, Channels, Singles, InOrder, MoreTypes

\* It holds when the app starts, linked or not.
LEMMA PairingInitInv ==
  ASSUME Init
  PROVE  PairingInv
<1>1. MaxCodes \in Nat /\ Capacity \in Nat
  BY PairingAssumption
<1>2. Channels
  <2>1. /\ issued = 0 /\ qrData = 0 /\ out = <<>> /\ windowQR = <<>>
    BY DEF Init
  <2>2. DOMAIN out = {} /\ DOMAIN windowQR = {} /\ Len(<<>>) = 0 /\ <<>> \in Seq(QRItem)
    BY <2>1
  <2> QED
    BY <1>1, <2>1, <2>2 DEF Channels, InOrder
<1>3. Singles
  <2>1. /\ handler \in [Handlers -> Places] /\ event \in [Handlers -> ConnEvents \cup {""}]
        /\ \A h \in Handlers : handler[h] # "state"
    BY DEF Init, Places
  <2>2. /\ linked \in BOOLEAN /\ needsPairing \in BOOLEAN /\ populated \in BOOLEAN
        /\ wake \in BOOLEAN
    BY Zenon DEF Init
  <2>3. frame \in [at : {"asleep", "choose", "layout"}, cs : ConnEvents \cup {"Connecting", ""},
                   np : BOOLEAN]
    BY DEF Init, NoFrame
  <2>4. connState \in ConnEvents \cup {"Connecting"} /\ window \in WindowPlaces /\ phase \in Phases
    BY DEF Init, ConnEvents, WindowPlaces, Phases
  <2>5. issued \in 0..MaxCodes /\ terminalQR \in 0..Capacity /\ qrLen \in 0..MaxCodes
    <3>1. issued = 0 /\ terminalQR = 0 /\ qrLen = 0
      BY DEF Init
    <3> QED
      BY <1>1, <3>1
  <2> QED
    BY <2>1, <2>2, <2>3, <2>4, <2>5 DEF Singles, MoreTypes
<1>4. DataFirst
  BY DEF Init, DataFirst, MainIsPopulated, Loaded, NoFrame, Blank
<1>5. FrameCurrent
  BY DEF Init, FrameCurrent, Quiet
<1> QED
  BY <1>2, <1>3, <1>4, <1>5, PairingInvParts

\* The invariant holds of every run, however codes, events and frames interleave.
THEOREM PairingInvariant == Spec => []PairingInv
<1>1. ASSUME PairingInv, [Next]_vars PROVE PairingInv'
  <2>1. Channels /\ Singles /\ DataFirst /\ FrameCurrent
    BY <1>1, PairingInvParts
  <2>2. Channels' /\ Singles' /\ DataFirst' /\ FrameCurrent'
    BY <1>1, <2>1, ChannelsStep, SinglesStep, DataFirstStep, FrameCurrentStep
  <2> QED
    BY <2>2 DEF PairingInv, PairingTypeOK, Channels, Singles, InOrder, MoreTypes
<1> QED
  BY <1>1, PairingInitInv, PTL DEF Spec

\* Types; and the codes still to be shown are newer than the one shown.
THEOREM PairingTypes == Spec => []PairingTypeOK
<1>1. PairingInv => PairingTypeOK
  BY DEF PairingInv
<1> QED
  BY <1>1, PairingInvariant, PTL

\* The frame loop never sleeps on a screen that is out of date or torn.
THEOREM ScreenIsCurrent == Spec => []ScreenCurrent
<1>1. PairingInv => ScreenCurrent
  BY DEF PairingInv, FrameCurrent, Quiet, Shown, ScreenCurrent
<1> QED
  BY <1>1, PairingInvariant, PTL

\* The main screen is never drawn before its data is loaded, unless loading it
\* has failed.
THEOREM MainComesPopulated == Spec => []MainIsPopulated
<1>1. PairingInv => MainIsPopulated
  BY DEF PairingInv, DataFirst
<1> QED
  BY <1>1, PairingInvariant, PTL
=============================================================================
