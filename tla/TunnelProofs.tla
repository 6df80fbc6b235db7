---------------------------- MODULE TunnelProofs ----------------------------
(***************************************************************************)
(* Proofs about Tunnel, for every number of reads, every threshold, with   *)
(* or without a network that can go silent.                                *)
(***************************************************************************)
EXTENDS Tunnel, TLAPS

LEMMA SideType == "client" \in Side /\ "server" \in Side /\ \A s \in Side : Peer(s) \in Side
  BY DEF Side, Peer

LEMMA MessageType ==
  /\ Ready \in Message /\ Empty \in Message /\ Error \in Message
  /\ \A n \in Nat : Data(n) \in Message
  BY DEF Ready, Empty, Error, Data, Message

\* The control state.
LEMMA ControlStep == ControlTypes /\ [Next]_vars => ControlTypes'
<1> SUFFICES ASSUME ControlTypes, [Next]_vars PROVE ControlTypes'
  OBVIOUS
<1> USE SideType DEF ControlTypes, Set, SetPump, ClosePC, EndReader
<1>1. CASE ~panicked["client"] /\ ClientStep
  <2>1. CASE Main
    BY <2>1 DEF Main, Answer, ApplyAnswer, StartProxy, Return, net, flags, chan
  <2>2. CASE GiveUp
    BY <2>2 DEF GiveUp
  <2>3. CASE ClientOnOpen
    BY <2>3 DEF ClientOnOpen, net
  <2>4. CASE AbortClient
    BY <2>4 DEF AbortClient, net
  <2>5. CASE Delete
    BY <2>5 DEF Delete, ServeDelete, DeleteLost, net
  <2> QED BY <1>1, <2>1, <2>2, <2>3, <2>4, <2>5 DEF ClientStep
<1>2. CASE ~panicked["server"] /\ ServerStep
  <2>1. CASE ServePost
    BY <2>1 DEF ServePost, net
  <2>2. CASE ServerOpen
    BY <2>2 DEF ServerOpen, ServerOnOpen, DetachPanics, StoreChannel, DialTarget,
                DialFails, CloseAfterError, net, procs
  <2>3. CASE AbortServer \/ ConnReady \/ PumpEndOfStream
    BY <2>3 DEF AbortServer, ConnReady, PumpEndOfStream, net
  <2> QED BY <1>2, <2>1, <2>2, <2>3 DEF ServerStep
<1>3. ASSUME NEW s \in Side, SideStep(s) PROVE ControlTypes'
  <2>1. CASE Handshake(s)
    <3>1. AfterSend[s] \in {"recv", "await"} /\ AfterAwait[s] \in {"send", "connwait"}
      BY DEF AfterSend, AfterAwait, Side
    <3> QED
      BY <2>1, <3>1 DEF Handshake, SendReady, SendReadyFails, ReadySent, NilChannelPanics,
                  AwaitReady, AwaitFails, net, procs
  <2>2. CASE Relay(s)
    BY <2>2 DEF Relay, Receive, ReceiveFails, Forward, ForwardFails, net
  <2>3. CASE Pump(s) \/ PumpWake(s)
    BY <2>3 DEF Pump, PumpWake, PumpStart, PumpRead, PumpEOF, PumpSend, PumpSendFails,
                PumpFlow, PumpDrained, PumpClose, net
  <2>4. CASE PeerGone(s) \/ NoticeCut(s)
    BY <2>4 DEF PeerGone, NoticeCut, LinkDown, procs
  <2>5. CASE PeerWrites(s) \/ \E how \in {"fin", "rst"} : PeerEnds(s, how)
    BY <2>5 DEF PeerWrites, PeerEnds, procs, net
  <2> QED BY <1>3, <2>1, <2>2, <2>3, <2>4, <2>5 DEF SideStep
<1>4. CASE (\E s \in Side : Deliver(s)) \/ Connect \/ NetworkCut \/ UNCHANGED vars
  BY <1>4 DEF Deliver, Connect, NetworkCut, procs, net, vars
<1> QED BY <1>1, <1>2, <1>3, <1>4 DEF Next

\* A flag only takes the values of tests.
LEMMA FlagStep == FlagTypes /\ [Next]_vars => FlagTypes'
<1> SUFFICES ASSUME FlagTypes, [Next]_vars PROVE FlagTypes'
  OBVIOUS
<1> USE SideType DEF FlagTypes, Set, SetPump, ClosePC, EndReader, Panic
<1>1. CASE ~panicked["client"] /\ ClientStep
  <2>1. CASE Main
    BY <2>1 DEF Main, Answer, ApplyAnswer, StartProxy, Return, net, flags, chan
  <2>2. CASE GiveUp
    BY <2>2 DEF GiveUp, flags
  <2>3. CASE ClientOnOpen
    BY <2>3 DEF ClientOnOpen, net, flags
  <2>4. CASE AbortClient
    BY <2>4 DEF AbortClient, net, flags
  <2>5. CASE Delete
    BY <2>5 DEF Delete, ServeDelete, DeleteLost, net, flags
  <2> QED BY <1>1, <2>1, <2>2, <2>3, <2>4, <2>5 DEF ClientStep
<1>2. CASE ~panicked["server"] /\ ServerStep
  <2>1. CASE ServePost
    BY <2>1 DEF ServePost, net, flags
  <2>2. CASE ServerOpen
    BY <2>2 DEF ServerOpen, ServerOnOpen, DetachPanics, StoreChannel, DialTarget,
                DialFails, CloseAfterError, net, procs, flags
  <2>3. CASE AbortServer \/ ConnReady \/ PumpEndOfStream
    BY <2>3 DEF AbortServer, ConnReady, PumpEndOfStream, net, flags
  <2> QED BY <1>2, <2>1, <2>2, <2>3 DEF ServerStep
<1>3. ASSUME NEW s \in Side, SideStep(s) PROVE FlagTypes'
  <2>1. CASE Handshake(s)
    BY <2>1 DEF Handshake, SendReady, SendReadyFails, ReadySent, NilChannelPanics,
                AwaitReady, AwaitFails, net, procs, flags
  <2>2. CASE Relay(s)
    BY <2>2 DEF Relay, Receive, ReceiveFails, Forward, ForwardFails, net, flags
  <2>3. CASE Pump(s) \/ PumpWake(s)
    BY <2>3 DEF Pump, PumpWake, PumpStart, PumpRead, PumpEOF, PumpSend, PumpSendFails,
                PumpFlow, PumpDrained, PumpClose, net, flags
  <2>4. CASE PeerGone(s) \/ NoticeCut(s)
    BY <2>4 DEF PeerGone, NoticeCut, LinkDown, procs, flags
  <2>5. CASE PeerWrites(s) \/ \E how \in {"fin", "rst"} : PeerEnds(s, how)
    BY <2>5 DEF PeerWrites, PeerEnds, procs, net, flags
  <2> QED BY <1>3, <2>1, <2>2, <2>3, <2>4, <2>5 DEF SideStep
<1>4. CASE (\E s \in Side : Deliver(s)) \/ Connect \/ NetworkCut \/ UNCHANGED vars
  BY <1>4 DEF Deliver, Connect, NetworkCut, procs, net, vars, flags
<1> QED BY <1>1, <1>2, <1>3, <1>4 DEF Next

\* A write appends one message to what the side has sent.
LEMMA WriteTypes ==
  ASSUME ChannelTypes, NEW s \in Side, NEW m \in Message, WriteMessage(s, m)
  PROVE  ChannelTypes'
<1>1. sent[s] \in Seq(Message) /\ Append(sent[s], m) \in Seq(Message)
      /\ Len(Append(sent[s], m)) = Len(sent[s]) + 1
  BY DEF ChannelTypes
<1>2. sent' = [sent EXCEPT ![s] = Append(sent[s], m)] /\ UNCHANGED <<dlv, rd>>
  BY DEF WriteMessage
<1> QED BY <1>1, <1>2 DEF ChannelTypes

\* The channel: nothing is read that was not delivered, or delivered that was
\* not sent.
LEMMA ChannelStep == ChannelTypes /\ TcpTypes /\ [Next]_vars => ChannelTypes'
<1> SUFFICES ASSUME ChannelTypes, TcpTypes, [Next]_vars PROVE ChannelTypes'
  OBVIOUS
\* Most steps leave the channel alone.
<1>1. UNCHANGED chan => ChannelTypes'
  BY DEF chan, ChannelTypes
<1>2. CASE ~panicked["client"] /\ ClientStep
  BY <1>1, <1>2 DEF ClientStep, Main, Answer, ApplyAnswer, StartProxy, Return, GiveUp,
                ClientOnOpen, AbortClient, Delete, ServeDelete, DeleteLost
<1>3. CASE ~panicked["server"] /\ ServerStep
  BY <1>1, <1>3, WriteTypes, MessageType, SideType
     DEF ServerStep, ServePost, ServerOpen, ServerOnOpen, DetachPanics, StoreChannel,
         DialTarget, DialFails, CloseAfterError, AbortServer, ConnReady, PumpEndOfStream
<1>4. ASSUME NEW s \in Side, SideStep(s) PROVE ChannelTypes'
  <2>1. CASE SendReady(s)
    BY <2>1, WriteTypes, MessageType DEF SendReady
  <2>2. CASE PumpSend(s)
    <3>1. Data(taken[s]) \in Message
      BY MessageType DEF TcpTypes
    <3> QED BY <2>2, <3>1, WriteTypes DEF PumpSend
  <2>3. CASE AwaitReady(s) \/ Receive(s)
    <3>1. Peer(s) \in Side /\ HasMessage(s) /\ UNCHANGED <<sent, dlv>>
          /\ rd' = [rd EXCEPT ![Peer(s)] = rd[Peer(s)] + 1]
      BY <2>3, SideType DEF AwaitReady, Receive
    <3> QED BY <3>1 DEF ChannelTypes, HasMessage
  <2>4. CASE SendReadyFails(s) \/ ReadySent(s) \/ NilChannelPanics(s) \/ AwaitFails(s)
             \/ ReceiveFails(s) \/ Forward(s) \/ ForwardFails(s)
    BY <1>1, <2>4 DEF SendReadyFails, ReadySent, NilChannelPanics, AwaitFails, ReceiveFails,
                  Forward, ForwardFails
  <2>5. CASE (Pump(s) /\ ~PumpSend(s)) \/ PumpWake(s) \/ PeerWrites(s)
             \/ \E how \in {"fin", "rst"} : PeerEnds(s, how)
    BY <1>1, <2>5 DEF Pump, PumpWake, PumpStart, PumpRead, PumpEOF, PumpSendFails,
                  PumpFlow, PumpDrained, PumpClose, PeerWrites, PeerEnds
  <2>6. CASE PeerGone(s) \/ NoticeCut(s)
    BY <1>1, <2>6 DEF PeerGone, NoticeCut, LinkDown
  <2> QED BY <1>4, <2>1, <2>2, <2>3, <2>4, <2>5, <2>6 DEF SideStep, Handshake, Relay
<1>5. ASSUME NEW s \in Side, Deliver(s) PROVE ChannelTypes'
  BY <1>5 DEF Deliver, ChannelTypes, Buffered
<1>6. CASE Connect \/ NetworkCut \/ UNCHANGED vars
  BY <1>1, <1>6 DEF Connect, NetworkCut, vars
<1> QED BY <1>2, <1>3, <1>4, <1>5, <1>6 DEF Next


\* A message is in hand only after a read.
LEMMA InHandStep == TypeOK /\ InHand /\ [Next]_vars => InHand'
<1> SUFFICES ASSUME TypeOK, InHand, [Next]_vars PROVE InHand'
  OBVIOUS
<1>1. UNCHANGED <<reader, rd>> => InHand'
  BY DEF InHand
\* It is enough that no reader comes to "write" and no count goes down.
<1>2. ASSUME rd' = rd, \A s \in Side : reader'[s] = "write" => reader[s] = "write"
      PROVE  InHand'
  BY <1>2 DEF InHand
<1> USE SideType DEF TypeOK, ControlTypes, Set, SetPump, EndReader
<1>3. CASE ~panicked["client"] /\ ClientStep
  <2>1. CASE Main \/ GiveUp \/ Delete
    BY <1>1, <2>1 DEF Main, Answer, ApplyAnswer, StartProxy, Return, GiveUp,
                Delete, ServeDelete, DeleteLost, chan
  <2>2. CASE ClientOnOpen \/ AbortClient
    BY <1>2, <2>2 DEF ClientOnOpen, AbortClient, chan
  <2> QED BY <1>3, <2>1, <2>2 DEF ClientStep
<1>4. CASE ~panicked["server"] /\ ServerStep
  <2>1. CASE ServerOnOpen \/ AbortServer \/ ConnReady
    BY <1>2, <2>1 DEF ServerOnOpen, AbortServer, ConnReady, chan
  <2>2. CASE DialFails \/ PumpEndOfStream
    BY <1>1, <2>2 DEF DialFails, PumpEndOfStream, WriteMessage, chan
  <2>3. CASE ServePost \/ DetachPanics \/ StoreChannel \/ DialTarget \/ CloseAfterError
    BY <1>1, <2>3 DEF ServePost, DetachPanics, StoreChannel, DialTarget, CloseAfterError,
                procs, chan
  <2> QED BY <1>4, <2>1, <2>2, <2>3 DEF ServerStep, ServerOpen
<1>5. ASSUME NEW s \in Side, SideStep(s) PROVE InHand'
  <2>1. CASE AwaitReady(s)
    <3>1. AfterAwait[s] # "write"
      BY DEF AfterAwait, Side
    <3>2. \A t \in Side : reader'[t] = "write" => reader[t] = "write"
      BY <2>1, <3>1 DEF AwaitReady
    <3>3. \A t \in Side : rd[t] \in Nat /\ rd'[t] \in Nat /\ rd'[t] >= rd[t]
      BY <2>1 DEF AwaitReady, ChannelTypes
    <3>4. ASSUME NEW t \in Side, reader'[t] = "write" PROVE rd'[Peer(t)] >= 1
      BY <3>2, <3>3, <3>4 DEF InHand
    <3> QED BY <3>4 DEF InHand
  <2>2. CASE Receive(s)
    <3>1. rd' = [rd EXCEPT ![Peer(s)] = rd[Peer(s)] + 1]
          /\ \A t \in Side : t # s => reader'[t] = reader[t]
      BY <2>2 DEF Receive
    <3>2. \A t \in Side : rd'[t] \in Nat /\ rd'[t] >= rd[t]
      BY <3>1 DEF ChannelTypes
    <3>3. rd'[Peer(s)] >= 1
      BY <3>1 DEF ChannelTypes
    <3>4. \A t \in Side : reader'[t] = "write" => rd'[Peer(t)] >= 1
      BY <3>1, <3>2, <3>3 DEF InHand, ChannelTypes
    <3> QED BY <3>4 DEF InHand
  <2>3. CASE Handshake(s) /\ ~AwaitReady(s)
    <3>1. AfterSend[s] # "write"
      BY DEF AfterSend, Side
    <3> QED
      BY <1>2, <2>3, <3>1 DEF Handshake, SendReady, SendReadyFails, ReadySent,
                  NilChannelPanics, AwaitFails, WriteMessage, procs, chan
  <2>4. CASE ReceiveFails(s) \/ Forward(s) \/ ForwardFails(s)
    BY <1>2, <2>4 DEF ReceiveFails, Forward, ForwardFails, chan
  <2>5. CASE Pump(s) \/ PumpWake(s)
    BY <1>1, <2>5 DEF Pump, PumpWake, PumpStart, PumpRead, PumpEOF, PumpSend, PumpSendFails,
                PumpFlow, PumpDrained, PumpClose, WriteMessage, chan
  <2>6. CASE PeerGone(s) \/ NoticeCut(s) \/ PeerWrites(s)
             \/ \E how \in {"fin", "rst"} : PeerEnds(s, how)
    BY <1>1, <2>6 DEF PeerGone, NoticeCut, LinkDown, PeerWrites, PeerEnds, procs, chan
  <2> QED BY <1>5, <2>1, <2>2, <2>3, <2>4, <2>5, <2>6 DEF SideStep, Relay
<1>6. CASE (\E s \in Side : Deliver(s)) \/ Connect \/ NetworkCut \/ UNCHANGED vars
  BY <1>1, <1>6 DEF Deliver, Connect, NetworkCut, procs, vars, chan
<1> QED BY <1>3, <1>4, <1>5, <1>6 DEF Next

\* The message in hand is one that was sent.
LEMMA InHandType ==
  ASSUME ChannelTypes, InHand, NEW s \in Side, reader[s] = "write"
  PROVE  sent[Peer(s)][rd[Peer(s)]] \in Message
<1> DEFINE p == Peer(s)
<1>1. p \in Side /\ rd[p] >= 1
  BY SideType DEF InHand
<1> HIDE DEF p
<1>2. sent[p] \in Seq(Message) /\ Len(sent[p]) \in Nat
  BY <1>1 DEF ChannelTypes
<1>3. rd[p] \in Nat /\ dlv[p] \in Nat /\ rd[p] <= dlv[p] /\ dlv[p] <= Len(sent[p])
  BY <1>1 DEF ChannelTypes
<1>4. rd[p] \in 1..Len(sent[p])
  BY <1>1, <1>2, <1>3
<1>5. sent[p][rd[p]] \in Message
  BY <1>2, <1>4
<1> QED BY <1>5 DEF p

\* The TCP connections.
LEMMA TcpStep == TypeOK /\ InHand /\ [Next]_vars => TcpTypes'
<1> SUFFICES ASSUME TypeOK, InHand, [Next]_vars PROVE TcpTypes'
  OBVIOUS
<1> USE SideType DEF TypeOK, TcpTypes
<1>1. UNCHANGED tcp => TcpTypes'
  BY DEF tcp
<1>2. ASSUME NEW s \in Side, CloseSock(s) PROVE TcpTypes'
  BY <1>2 DEF CloseSock, Set
<1>3. ASSUME NEW s \in Side, EndReader(s) PROVE TcpTypes'
  BY <1>1, <1>2, <1>3 DEF EndReader
<1>4. CASE ~panicked["client"] /\ ClientStep
  BY <1>1, <1>2, <1>4 DEF ClientStep, Main, Answer, ApplyAnswer, StartProxy, Return, GiveUp,
                ClientOnOpen, AbortClient, Delete, ServeDelete, DeleteLost
<1>5. CASE ~panicked["server"] /\ ServerStep
  <2>1. CASE DialTarget
    BY <2>1 DEF DialTarget, Set
  <2>2. CASE ServerOpen /\ ~DialTarget
    BY <1>1, <1>2, <2>2 DEF ServerOpen, ServerOnOpen, DetachPanics, Panic, StoreChannel,
                DialFails, CloseAfterError
  <2>3. CASE ServePost \/ AbortServer \/ ConnReady \/ PumpEndOfStream
    BY <1>1, <1>2, <2>3 DEF ServePost, AbortServer, ConnReady, PumpEndOfStream
  <2> QED BY <1>5, <2>1, <2>2, <2>3 DEF ServerStep
<1>6. ASSUME NEW s \in Side, SideStep(s) PROVE TcpTypes'
  <2>1. CASE Handshake(s)
    BY <1>1, <1>2, <2>1 DEF Handshake, SendReady, SendReadyFails, ReadySent,
                NilChannelPanics, Panic, AwaitReady, AwaitFails
  <2>2. CASE Receive(s) \/ ReceiveFails(s) \/ ForwardFails(s)
    BY <1>1, <1>3, <2>2 DEF Receive, ReceiveFails, ForwardFails
  <2>3. CASE Forward(s)
    <3> DEFINE m == sent[Peer(s)][rd[Peer(s)]]
    <3>1. m \in Message
      BY <2>3, InHandType DEF Forward
    <3>2. Append(out[s], m) \in Seq(Message)
      BY <3>1
    <3>3. out' = [out EXCEPT ![s] = Append(out[s], m)]
          /\ UNCHANGED <<sock, wrote, taken, ended>>
      BY <2>3 DEF Forward
    <3> HIDE DEF m
    <3> QED BY <3>2, <3>3
  <2>4. CASE PumpRead(s)
    BY <2>4 DEF PumpRead
  <2>5. CASE (Pump(s) /\ ~PumpRead(s)) \/ PumpWake(s)
    BY <1>1, <2>5 DEF Pump, PumpWake, PumpStart, PumpEOF, PumpSend, PumpSendFails,
                PumpFlow, PumpDrained, PumpClose
  <2>6. CASE PeerWrites(s)
    BY <2>6 DEF PeerWrites
  <2>7. CASE \E how \in {"fin", "rst"} : PeerEnds(s, how)
    BY <2>7 DEF PeerEnds, Set
  <2>8. CASE PeerGone(s) \/ NoticeCut(s)
    BY <1>1, <2>8 DEF PeerGone, NoticeCut, LinkDown
  <2> QED BY <1>6, <2>1, <2>2, <2>3, <2>4, <2>5, <2>6, <2>7, <2>8 DEF SideStep, Relay
<1>7. CASE (\E s \in Side : Deliver(s)) \/ Connect \/ NetworkCut \/ UNCHANGED vars
  BY <1>1, <1>7 DEF Deliver, Connect, NetworkCut, vars
<1> QED BY <1>4, <1>5, <1>6, <1>7 DEF Next

LEMMA TypeInit == Init => TypeOK /\ InHand
<1>1. Init => ControlTypes /\ InHand
  BY SideType DEF Init, ControlTypes, InHand
<1>2. Init => FlagTypes
  <2>1. Init => answered \in BOOLEAN /\ closed \in BOOLEAN /\ deleted \in BOOLEAN
                  /\ cut \in BOOLEAN
    BY Zenon DEF Init
  <2>2. [t \in Side |-> FALSE] \in [Side -> BOOLEAN]
    BY Zenon
  <2>3. Init => /\ ready \in [Side -> BOOLEAN] /\ stored \in [Side -> BOOLEAN]
                /\ panicked \in [Side -> BOOLEAN] /\ pcClosed \in [Side -> BOOLEAN]
    BY <2>2, Zenon DEF Init
  <2> QED BY <2>1, <2>3, Zenon DEF FlagTypes
<1>3. Init => ChannelTypes
  BY DEF Init, ChannelTypes
<1>4. Init => TcpTypes
  BY DEF Init, TcpTypes
<1> QED BY <1>1, <1>2, <1>3, <1>4 DEF TypeOK

LEMMA TypeStep == TypeOK /\ InHand /\ [Next]_vars => (TypeOK /\ InHand)'
  BY ControlStep, FlagStep, ChannelStep, TcpStep, InHandStep DEF TypeOK

\* Every variable keeps its type, and the channel its order of counts: read,
\* delivered, sent.
THEOREM TypeCorrect == Spec => []TypeOK
  BY TypeInit, TypeStep, PTL DEF Spec


-----------------------------------------------------------------------------
(* The stream to the target *)

\* The parts of a type that the proofs below use, side by side.
LEMMA SideFacts ==
  ASSUME TypeOK, NEW s \in Side
  PROVE  /\ sent[s] \in Seq(Message) /\ Len(sent[s]) \in Nat
         /\ out[s] \in Seq(Message) /\ Len(out[s]) \in Nat
         /\ rd[s] \in Nat /\ dlv[s] \in Nat /\ taken[s] \in Nat /\ wrote[s] \in Nat
         /\ rd[s] <= dlv[s] /\ dlv[s] <= Len(sent[s]) /\ taken[s] <= wrote[s]
  BY DEF TypeOK, ChannelTypes, TcpTypes

\* A function changed at one side is the same at the other.
LEMMA OtherSide ==
  /\ "client" # "server"
  /\ \A s \in Side : s = "client" \/ s = "server"
  /\ Peer("client") = "server" /\ Peer("server") = "client"
  BY DEF Side, Peer

\* What ClientStream speaks of.
ClientView == <<sent["client"], reader["client"], ready["client"], pump["client"],
                taken["client"], opener["client"], cm>>

LEMMA ClientStreamFrame == ClientStream /\ UNCHANGED ClientView => ClientStream'
  BY DEF ClientStream, ClientView

LEMMA ClientStreamStep == TypeOK /\ ClientStream /\ [Next]_vars => ClientStream'
<1> SUFFICES ASSUME TypeOK, ClientStream, [Next]_vars PROVE ClientStream'
  OBVIOUS
<1> DEFINE stream == sent["client"]
<1>1. ControlTypes /\ FlagTypes /\ TypeOK
  BY DEF TypeOK
<1>2. /\ stream \in Seq(Message) /\ Len(stream) \in Nat /\ taken["client"] \in Nat
  BY SideFacts, SideType
<1>3. CASE ~panicked["client"] /\ ClientStep
  <2> USE DEF Set, SetPump
  <2>1. CASE Answer \/ ApplyAnswer
    BY <2>1 DEF Answer, ApplyAnswer, chan, tcp, ClientStream
  <2>2. CASE StartProxy
    BY <1>1, <2>2 DEF StartProxy, chan, tcp, ClientStream, ControlTypes, Side
  <2>3. CASE Return \/ GiveUp
    BY <1>1, <1>2, <2>3 DEF Return, GiveUp, CloseSock, chan, ClientStream, ControlTypes, Side
  <2>4. CASE ClientOnOpen
    BY <1>1, <2>4 DEF ClientOnOpen, chan, tcp, ClientStream, ControlTypes, Side
  <2>5. CASE AbortClient
    BY <1>1, <2>5 DEF AbortClient, CloseSock, chan, tcp, ClientStream, ControlTypes, Side
  <2>6. CASE Delete
    BY <1>1, <1>2, <2>6 DEF Delete, ServeDelete, DeleteLost, CloseSock, chan, tcp,
                ClientStream, ControlTypes, Side
  <2> QED BY <1>3, <2>1, <2>2, <2>3, <2>4, <2>5, <2>6 DEF ClientStep, Main
\* The server's goroutines touch nothing of it.
<1>4. CASE ~panicked["server"] /\ ServerStep
  <2>1. UNCHANGED ClientView
    BY <1>1, <1>4 DEF ServerStep, ServePost, ServerOpen, ServerOnOpen, DetachPanics, Panic,
         StoreChannel, DialTarget, DialFails, CloseAfterError, AbortServer, ConnReady,
         PumpEndOfStream, WriteMessage, CloseSock, SetPump, Set, procs, chan, tcp,
         ControlTypes, FlagTypes, Side, TypeOK, ChannelTypes, ClientView
  <2> QED BY <2>1, ClientStreamFrame
<1>5. CASE SideStep("server")
  <2>1. UNCHANGED ClientView
    BY <1>1, <1>5, OtherSide, SideType DEF SideStep, Handshake, SendReady, SendReadyFails, ReadySent,
         NilChannelPanics, Panic, AwaitReady, AwaitFails, Relay, Receive, ReceiveFails,
         Forward, ForwardFails, EndReader, Pump, PumpWake, PumpStart, PumpRead, PumpEOF,
         PumpSend, PumpSendFails, PumpFlow, PumpDrained, PumpClose, PeerGone, NoticeCut,
         LinkDown, PeerWrites, PeerEnds, WriteMessage, CloseSock, SetPump, Set, procs,
         chan, tcp, ControlTypes, FlagTypes, TypeOK, ChannelTypes, TcpTypes, ClientView
  <2> QED BY <2>1, ClientStreamFrame
<1>6. CASE SideStep("client")
  <2> USE OtherSide, SideType DEF Set, SetPump
  \* The ready signal is the first message, a read the next one.
  <2>1. CASE SendReady("client")
    <3>1. stream = <<>> /\ sent'["client"] = Append(stream, Ready)
          /\ reader'["client"] = "check" /\ UNCHANGED <<ready, pump, taken, opener, cm>>
      BY <1>1, <2>1 DEF SendReady, WriteMessage, tcp, ClientStream, ControlTypes, TypeOK, ChannelTypes
    <3>2. Len(sent'["client"]) = 1 /\ sent'["client"][1] = Ready
      BY <3>1
    <3> QED BY <3>1, <3>2, <2>1 DEF ClientStream, SendReady
  <2>2. CASE PumpSend("client")
    <3>1. pump["client"] = "send" /\ ready["client"] /\ Len(stream) >= 1
          /\ Len(stream) = taken["client"]
      BY <2>2 DEF PumpSend, ClientStream
    <3>2. sent'["client"] = Append(stream, Data(taken["client"]))
          /\ UNCHANGED <<reader, ready, taken, opener, cm>> /\ pump'["client"] = "flow"
      BY <1>1, <2>2 DEF PumpSend, WriteMessage, tcp, ControlTypes, TypeOK, ChannelTypes
    <3>3. Len(sent'["client"]) = Len(stream) + 1
          /\ \A i \in 1..Len(stream) : sent'["client"][i] = stream[i]
          /\ sent'["client"][Len(stream) + 1] = Data(Len(stream))
      BY <1>2, <3>1, <3>2
    <3>4. \A i \in 1..Len(sent'["client"]) :
            sent'["client"][i] = IF i = 1 THEN Ready ELSE Data(i - 1)
      BY <1>2, <3>1, <3>3 DEF ClientStream
    <3> QED BY <1>2, <3>1, <3>2, <3>3, <3>4 DEF ClientStream
  <2>3. CASE SendReadyFails("client") \/ ReadySent("client") \/ NilChannelPanics("client")
             \/ AwaitReady("client") \/ AwaitFails("client")
    <3>1. UNCHANGED <<sent, pump, taken, opener, cm>>
      BY <2>3 DEF SendReadyFails, ReadySent, NilChannelPanics, Panic, CloseSock, AwaitReady,
                  AwaitFails, procs, chan, tcp
    <3>2. CASE ReadySent("client")
      <4>1. reader["client"] = "check" /\ reader'["client"] = "recv" /\ ready'["client"]
        BY <1>1, <3>2 DEF ReadySent, AfterSend, ControlTypes, FlagTypes
      <4>2. Len(stream) = 1 /\ pump["client"] \in {"none", "wg"} /\ taken["client"] = 0
            /\ opener["client"] # "idle"
        BY <4>1 DEF ClientStream
      <4>3. Len(sent'["client"]) = 1 /\ pump'["client"] \in {"none", "wg"}
            /\ taken'["client"] = 0 /\ opener'["client"] # "idle"
        BY <3>1, <4>2
      <4>4. sent'["client"][1] = Ready
        BY <3>1, <4>2 DEF ClientStream
      <4> QED BY <3>1, <4>1, <4>3, <4>4 DEF ClientStream
    <3>3. CASE SendReadyFails("client") \/ AwaitReady("client") \/ AwaitFails("client")
      <4>1. reader["client"] \in {"send", "await"} /\ reader'["client"] \in {"send", "failed"}
            /\ ready' = ready
        BY <1>1, <3>3 DEF SendReadyFails, AwaitReady, AwaitFails, AfterAwait, ControlTypes
      <4> QED BY <3>1, <4>1 DEF ClientStream
    <3>4. CASE NilChannelPanics("client")
      BY <3>1, <3>4, ClientStreamFrame DEF NilChannelPanics, procs, ClientView
    <3> QED BY <2>3, <3>2, <3>3, <3>4
  <2>4. CASE Relay("client")
    <3>1. UNCHANGED <<sent, pump, taken, opener, cm, ready>>
          /\ reader["client"] \in {"recv", "write"}
          /\ reader'["client"] \in {"recv", "write", "ended"}
      BY <1>1, <2>4 DEF Relay, Receive, ReceiveFails, Forward, ForwardFails, EndReader,
                  CloseSock, chan, tcp, ControlTypes
    <3> QED BY <3>1 DEF ClientStream
  <2>5. CASE PumpRead("client")
    <3>1. pump["client"] = "read" /\ pump'["client"] = "send" /\ taken'["client"] = taken["client"] + 1
          /\ UNCHANGED <<sent, reader, ready, opener, cm>>
      BY <1>1, <2>5 DEF PumpRead, chan, ControlTypes, TypeOK, TcpTypes
    <3> QED BY <1>2, <3>1 DEF ClientStream
  <2>6. CASE (Pump("client") \/ PumpWake("client")) /\ ~PumpRead("client") /\ ~PumpSend("client")
    <3>1. UNCHANGED <<sent, taken, reader, ready, opener, cm>>
      BY <2>6 DEF Pump, PumpStart, PumpEOF, PumpSendFails, PumpFlow, PumpDrained, PumpClose,
                  PumpWake, chan, tcp
    <3>2. \/ pump["client"] \in {"wg", "flow", "more"} /\ pump'["client"] \in {"read", "more"}
          \/ pump'["client"] \in {"drain", "close", "delete", "signal"}
      BY <1>1, <2>6 DEF Pump, PumpStart, PumpEOF, PumpSendFails, PumpFlow, PumpDrained,
                  PumpClose, PumpWake, ControlTypes
    <3>3. ready["client"] /\ pump["client"] # "none"
      BY <2>6 DEF Pump, PumpStart, PumpEOF, PumpSendFails, PumpFlow, PumpDrained, PumpClose,
                  PumpWake, ClientStream
    <3> QED BY <1>2, <3>1, <3>2, <3>3 DEF ClientStream
  <2>7. CASE PeerGone("client") \/ NoticeCut("client") \/ PeerWrites("client")
             \/ \E how \in {"fin", "rst"} : PeerEnds("client", how)
    BY <2>7, ClientStreamFrame DEF PeerGone, NoticeCut, LinkDown, PeerWrites, PeerEnds,
                procs, chan, tcp, ClientView
  <2> QED BY <1>6, <2>1, <2>2, <2>3, <2>4, <2>5, <2>6, <2>7 DEF SideStep, Handshake, Pump
<1>7. CASE (\E s \in Side : Deliver(s)) \/ Connect \/ NetworkCut \/ UNCHANGED vars
  BY <1>7, ClientStreamFrame DEF Deliver, Connect, NetworkCut, procs, tcp, chan, vars, ClientView
<1> QED BY <1>3, <1>4, <1>5, <1>6, <1>7, OtherSide DEF Next


\* What ServerFirst speaks of.
ServerView == <<opener["server"], reader["server"], ready["server"], pump["server"],
                sent["server"], sent["client"], reader["client"]>>

LEMMA ServerFirstFrame == ServerFirst /\ UNCHANGED ServerView => ServerFirst'
  BY DEF ServerFirst, ServerView

\* Once the server's reader is past sending, only pump and reader matter.
LEMMA ServerFirstStep ==
  TypeOK /\ ClientStream /\ ServerFirst /\ [Next]_vars => ServerFirst'
<1> SUFFICES ASSUME TypeOK, ClientStream, ServerFirst, [Next]_vars PROVE ServerFirst'
  OBVIOUS
<1>1. ControlTypes /\ FlagTypes
  BY DEF TypeOK
<1>2. \A s \in Side : sent[s] \in Seq(Message) /\ Len(sent[s]) \in Nat
  BY SideFacts
<1> USE OtherSide, SideType
<1>3. CASE ~panicked["client"] /\ ClientStep
  <2>1. CASE Main \/ GiveUp \/ Delete
    <3>1. UNCHANGED ServerView
      BY <1>1, <2>1 DEF Main, Answer, ApplyAnswer, StartProxy, Return, GiveUp, Delete, ServeDelete,
                  DeleteLost, CloseSock, SetPump, Set, chan, tcp, ControlTypes, ServerView
    <3> QED BY <3>1, ServerFirstFrame
  <2>2. CASE ClientOnOpen \/ AbortClient
    <3>1. UNCHANGED <<opener["server"], reader["server"], ready, pump, sent>>
          /\ (reader'["client"] \in {"await", "ended"} \/ reader' = reader)
      BY <1>1, <2>2 DEF ClientOnOpen, AbortClient, Set, chan, ControlTypes
    <3> QED BY <3>1 DEF ServerFirst
  <2> QED BY <1>3, <2>1, <2>2 DEF ClientStep
<1>4. CASE ~panicked["server"] /\ ServerStep
  <2>1. CASE ServerOnOpen
    <3>1. opener["server"] = "idle" /\ opener'["server"] = "opened" /\ reader'["server"] = "send"
          /\ UNCHANGED <<ready, pump, sent, reader["client"]>>
      BY <1>1, <2>1 DEF ServerOnOpen, ServerCanOpen, Set, chan, ControlTypes
    <3> QED BY <3>1 DEF ServerFirst
  <2>2. CASE DialFails
    <3>1. /\ UNCHANGED <<reader, ready, pump, sent["client"]>> /\ opener'["server"] = "error"
          /\ sent'["server"] = sent["server"] \/ sent'["server"] = Append(sent["server"], Error)
      BY <1>1, <2>2 DEF DialFails, WriteMessage, Set, chan, ControlTypes, TypeOK, ChannelTypes
    <3>2. Error # Ready
      BY DEF Error, Ready
    <3>3. (\A i \in 1..Len(sent["server"]) : sent["server"][i] # Ready)
            => (\A i \in 1..Len(sent'["server"]) : sent'["server"][i] # Ready)
      BY <1>2, <3>1, <3>2
    <3> QED BY <3>1, <3>3 DEF ServerFirst
  <2>3. CASE StoreChannel \/ DialTarget \/ CloseAfterError
    <3>1. UNCHANGED <<reader, ready, sent>> /\ opener'["server"] # "idle"
          /\ (pump'["server"] = "wg" \/ pump' = pump)
      BY <1>1, <2>3 DEF StoreChannel, DialTarget, CloseAfterError, Set, chan, ControlTypes
    <3> QED BY <3>1 DEF ServerFirst
  <2>4. CASE ServePost \/ DetachPanics
    <3>1. UNCHANGED ServerView
      BY <2>4 DEF ServePost, DetachPanics, procs, chan, ServerView
    <3> QED BY <3>1, ServerFirstFrame
  <2>5. CASE AbortServer \/ ConnReady
    <3>1. UNCHANGED <<opener, pump, ready, sent, reader["client"]>>
          /\ reader["server"] \in {"failed", "connwait"} /\ reader'["server"] \in {"connwait", "recv"}
      BY <1>1, <2>5 DEF AbortServer, ConnReady, Set, chan, ControlTypes
    <3> QED BY <3>1 DEF ServerFirst
  <2>6. CASE PumpEndOfStream
    <3>1. pump["server"] = "eos" /\ UNCHANGED <<opener, reader, ready, sent["client"]>>
      BY <1>1, <2>6 DEF PumpEndOfStream, WriteMessage, SetPump, chan, TypeOK, ChannelTypes
    <3> QED BY <3>1 DEF ServerFirst
  <2> QED BY <1>4, <2>1, <2>2, <2>3, <2>4, <2>5, <2>6 DEF ServerStep, ServerOpen
<1>5. CASE SideStep("server")
  <2>1. CASE Handshake("server")
    <3>1. UNCHANGED <<opener, pump, sent["client"], reader["client"]>>
          /\ (UNCHANGED <<reader, ready, sent>> \/ reader'["server"] \in {"check", "failed", "await", "connwait"})
      BY <1>1, <2>1 DEF Handshake, SendReady, SendReadyFails, ReadySent, NilChannelPanics,
                  AwaitReady, AwaitFails, AfterSend, AfterAwait, WriteMessage, Set, procs, chan,
                  ControlTypes, TypeOK, ChannelTypes
    <3>2. CASE UNCHANGED <<reader, ready, sent>>
      BY <3>1, <3>2 DEF ServerFirst
    <3>3. CASE reader'["server"] = "connwait"
      BY <3>1, <3>3, <1>1, <2>1 DEF ServerFirst, Handshake, SendReady, SendReadyFails, ReadySent, NilChannelPanics,
                  AwaitReady, AwaitFails, AfterSend, AfterAwait, Set, procs, ControlTypes, FlagTypes
    <3>4. CASE reader'["server"] \in {"check", "failed", "await"}
      <4>1. UNCHANGED ready /\ (reader["server"] = reader'["server"] \/ reader["server"] \in {"send", "check", "await"})
        BY <3>4, <1>1, <2>1 DEF Handshake, SendReady, SendReadyFails, ReadySent, NilChannelPanics,
                  AwaitReady, AwaitFails, AfterSend, AfterAwait, Set, procs, ControlTypes, FlagTypes
      <4> QED BY <3>1, <3>4, <4>1 DEF ServerFirst
    <3> QED BY <3>1, <3>2, <3>3, <3>4
  <2>2. CASE Relay("server")
    <3>1. UNCHANGED <<opener, pump, ready, sent, reader["client"]>>
          /\ reader["server"] \in {"recv", "write"}
          /\ reader'["server"] \in {"recv", "write", "ended"}
      BY <1>1, <2>2 DEF Relay, Receive, ReceiveFails, Forward, ForwardFails, EndReader, Set, chan,
                  ControlTypes
    <3> QED BY <3>1 DEF ServerFirst
  <2>3. CASE Pump("server") \/ PumpWake("server")
    <3>1. ready["server"]
      BY <2>3 DEF Pump, PumpWake, PumpStart, PumpRead, PumpEOF, PumpSend, PumpSendFails, PumpFlow,
                  PumpDrained, PumpClose, ServerFirst
    <3>2. UNCHANGED <<opener, reader, ready>>
      BY <2>3 DEF Pump, PumpWake, PumpStart, PumpRead, PumpEOF, PumpSend, PumpSendFails, PumpFlow,
                  PumpDrained, PumpClose, SetPump
    <3> QED BY <3>1, <3>2 DEF ServerFirst
  <2>4. CASE PeerGone("server") \/ NoticeCut("server") \/ PeerWrites("server")
             \/ \E how \in {"fin", "rst"} : PeerEnds("server", how)
    BY <2>4, ServerFirstFrame DEF PeerGone, NoticeCut, LinkDown, PeerWrites, PeerEnds,
                procs, chan, ServerView
  <2> QED BY <1>5, <2>1, <2>2, <2>3, <2>4 DEF SideStep
<1>6. CASE SideStep("client")
  \* The client gets past waiting only if the server has sent its signal.
  <2>1. CASE AwaitReady("client")
    <3>1. /\ UNCHANGED <<opener, pump, ready["server"], sent, reader["server"]>>
          /\ reader'["client"] = "failed" \/ NextMessage("client") = Ready
      BY <1>1, <2>1 DEF AwaitReady, Set, ControlTypes, FlagTypes
    <3>2. NextMessage("client") = sent["server"][rd["server"] + 1]
          /\ rd["server"] + 1 \in 1..Len(sent["server"])
      <4>1. rd["server"] < dlv["server"]
        BY <2>1 DEF AwaitReady, HasMessage
      <4> QED BY <4>1, SideFacts DEF NextMessage
    <3> QED BY <3>1, <3>2 DEF ServerFirst
  <2>2. CASE Handshake("client") /\ ~AwaitReady("client")
    <3>1. /\ UNCHANGED <<opener, pump, ready["server"], reader["server"], sent["server"]>>
          /\ \/ reader["client"] \in {"send", "check"}
             \/ UNCHANGED sent["client"] /\ reader'["client"] = "failed"
      BY <1>1, <2>2 DEF Handshake, SendReady, SendReadyFails, ReadySent, NilChannelPanics,
                  AwaitFails, WriteMessage, Set, procs, chan, ControlTypes, FlagTypes, TypeOK,
                  ChannelTypes
    <3> QED BY <3>1 DEF ServerFirst
  <2>3. CASE Relay("client")
    <3>1. UNCHANGED <<opener, pump, ready, sent, reader["server"]>>
          /\ reader["client"] \in {"recv", "write"}
      BY <1>1, <2>3 DEF Relay, Receive, ReceiveFails, Forward, ForwardFails, EndReader, Set, chan,
                  ControlTypes
    <3> QED BY <3>1 DEF ServerFirst
  <2>4. CASE PumpSend("client")
    <3>1. ready["client"] /\ UNCHANGED <<opener, reader, ready, sent["server"], pump["server"]>>
      BY <1>1, <2>4 DEF PumpSend, WriteMessage, SetPump, Set, ClientStream, ControlTypes, TypeOK,
                  ChannelTypes
    <3>2. Len(sent["client"]) >= 1
      BY <3>1 DEF ClientStream
    <3>3. sent["client"] # <<>>
      BY <3>2
    <3> QED BY <3>1, <3>3 DEF ServerFirst
  <2>5. CASE (Pump("client") \/ PumpWake("client")) /\ ~PumpSend("client")
    <3>1. UNCHANGED ServerView
      BY <1>1, <2>5 DEF Pump, PumpWake, PumpStart, PumpRead, PumpEOF, PumpSendFails, PumpFlow,
                  PumpDrained, PumpClose, SetPump, Set, chan, ControlTypes, ServerView
    <3> QED BY <3>1, ServerFirstFrame
  <2>6. CASE PeerGone("client") \/ NoticeCut("client") \/ PeerWrites("client")
             \/ \E how \in {"fin", "rst"} : PeerEnds("client", how)
    BY <2>6, ServerFirstFrame DEF PeerGone, NoticeCut, LinkDown, PeerWrites, PeerEnds,
                procs, chan, ServerView
  <2> QED BY <1>6, <2>1, <2>2, <2>3, <2>4, <2>5, <2>6 DEF SideStep
<1>7. CASE (\E s \in Side : Deliver(s)) \/ Connect \/ NetworkCut \/ UNCHANGED vars
  BY <1>7, ServerFirstFrame DEF Deliver, Connect, NetworkCut, procs, chan, vars, ServerView
<1> QED BY <1>3, <1>4, <1>5, <1>6, <1>7 DEF Next


\* What TargetStream speaks of.
TargetView == <<out["server"], rd["client"], dlv["client"], ready["server"],
                reader["server"], link["server"]>>

LEMMA TargetStreamFrame == TargetStream /\ UNCHANGED TargetView => TargetStream'
  BY DEF TargetStream, TargetView

\* A dead association stays dead; it does not disturb what was read.
LEMMA TargetStreamLink ==
  ASSUME TargetStream, link'["server"] = "down",
         UNCHANGED <<out["server"], rd["client"], dlv["client"], ready["server"], reader["server"]>>
  PROVE  TargetStream'
  BY DEF TargetStream

LEMMA TargetStreamStep ==
  PrefixInv /\ [Next]_vars => TargetStream'
<1> SUFFICES ASSUME PrefixInv, [Next]_vars PROVE TargetStream'
  OBVIOUS
<1>1. TypeOK /\ ControlTypes /\ FlagTypes /\ ClientStream /\ ServerFirst /\ TargetStream /\ InHand
  BY DEF PrefixInv, TypeOK
<1>2. /\ sent["client"] \in Seq(Message) /\ Len(sent["client"]) \in Nat
      /\ out["server"] \in Seq(Message) /\ Len(out["server"]) \in Nat
      /\ rd["client"] \in Nat /\ dlv["client"] \in Nat
      /\ rd["client"] <= dlv["client"] /\ dlv["client"] <= Len(sent["client"])
  BY <1>1, SideFacts, SideType
<1>3. \A i \in 1..Len(sent["client"]) :
        sent["client"][i] = IF i = 1 THEN Ready ELSE Data(i - 1)
  BY <1>1 DEF ClientStream
<1> USE OtherSide, SideType DEF Set
<1>4. CASE ~panicked["client"] /\ ClientStep
  <2>1. UNCHANGED TargetView
    BY <1>1, <1>4 DEF ClientStep, Main, Answer, ApplyAnswer, StartProxy, Return, GiveUp, ClientOnOpen,
         AbortClient, Delete, ServeDelete, DeleteLost, CloseSock, ClosePC, SetPump, chan, net, tcp,
         ControlTypes, TypeOK, TargetView
  <2> QED BY <2>1, <1>1, TargetStreamFrame
<1>5. CASE ~panicked["server"] /\ ServerStep
  <2>1. CASE ServerOnOpen
    <3>1. reader["server"] = "none" /\ reader'["server"] = "send"
          /\ UNCHANGED <<out["server"], rd, dlv, ready, link>>
      BY <1>1, <2>1 DEF ServerOnOpen, ServerCanOpen, ServerFirst, ControlTypes, chan, net, tcp
    <3>2. ~ready["server"]
      BY <3>1, <1>1 DEF ServerFirst
    <3> QED BY <3>1, <3>2, <1>1 DEF TargetStream
  <2>2. CASE CloseAfterError
    BY <1>1, <2>2, TargetStreamLink DEF CloseAfterError, ClosePC, chan, tcp, ControlTypes
  <2>3. CASE ServePost \/ DetachPanics \/ StoreChannel \/ DialTarget \/ DialFails \/ PumpEndOfStream
    BY <1>1, <2>3, TargetStreamFrame DEF ServePost, DetachPanics, Panic, StoreChannel, DialTarget,
         DialFails, PumpEndOfStream, WriteMessage, CloseSock, SetPump, procs, chan, net, tcp, TargetView
  <2>4. CASE AbortServer \/ ConnReady
    <3>1. /\ UNCHANGED <<out, rd, dlv, ready, link>>
          /\ \/ reader["server"] = "failed" /\ reader'["server"] = "connwait"
             \/ reader["server"] = "connwait" /\ reader'["server"] = "recv"
      BY <1>1, <2>4 DEF AbortServer, ConnReady, CloseSock, ControlTypes, chan, net, tcp
    <3>2. reader["server"] = "failed" => ~ready["server"]
      BY <1>1 DEF ServerFirst
    <3> QED BY <3>1, <3>2, <1>1 DEF TargetStream
  <2> QED BY <1>5, <2>1, <2>2, <2>3, <2>4 DEF ServerStep, ServerOpen
<1>6. CASE SideStep("server")
  <2>1. CASE SendReady("server") \/ ReadySent("server")
    <3>1. ~ready["server"] /\ reader'["server"] \in {"check", "await"}
          /\ UNCHANGED <<out, rd, dlv, ready, link>>
      BY <1>1, <2>1 DEF SendReady, ReadySent, AfterSend, WriteMessage, ServerFirst, ControlTypes,
                  chan, net, tcp
    <3> QED BY <3>1, <1>1 DEF TargetStream
  \* A handshake that fails leaves nothing behind to be read.
  <2>2. CASE SendReadyFails("server")
    <3>1. reader["server"] = "send" /\ link["server"] = "down" /\ reader'["server"] = "failed"
          /\ UNCHANGED <<out, rd, dlv, ready, link>>
      BY <1>1, <2>2 DEF SendReadyFails, ControlTypes, chan, net, tcp
    <3>2. dlv["client"] = 0
      BY <1>1, <1>2, <3>1 DEF ServerFirst
    <3> QED BY <3>1, <3>2, <1>1 DEF TargetStream
  <2>3. CASE AwaitFails("server")
    <3>1. reader["server"] = "await" /\ link["server"] = "down" /\ ~(rd["client"] < dlv["client"])
          /\ reader'["server"] = "failed" /\ UNCHANGED <<out, rd, dlv, ready, link>>
      BY <1>1, <2>3 DEF AwaitFails, AtEnd, HasMessage, ControlTypes, chan, net, tcp
    <3>2. ~ready["server"] /\ rd["client"] = 0
      BY <3>1, <1>1 DEF ServerFirst, TargetStream
    <3>3. dlv["client"] = 0
      BY <1>2, <3>1, <3>2
    <3> QED BY <3>1, <3>2, <3>3, <1>1 DEF TargetStream
  <2>4. CASE AwaitReady("server")
    <3>1. reader["server"] = "await" /\ rd["client"] < dlv["client"]
          /\ rd'["client"] = rd["client"] + 1 /\ UNCHANGED <<out, dlv, link>>
      BY <1>1, <2>4 DEF AwaitReady, HasMessage, TypeOK, ChannelTypes, net, tcp
    <3>2. ~ready["server"] /\ rd["client"] = 0 /\ out["server"] = <<>>
      BY <3>1, <1>1 DEF ServerFirst, TargetStream
    <3>3. 1 \in 1..Len(sent["client"])
      BY <1>2, <3>1, <3>2
    <3>4. sent["client"][1] = Ready
      BY <1>3, <3>3
    <3>5. NextMessage("server") = Ready
      BY <3>2, <3>4 DEF NextMessage
    <3>6. reader'["server"] = "connwait" /\ ready'["server"]
      BY <1>1, <2>4, <3>5 DEF AwaitReady, AfterAwait, ControlTypes, FlagTypes
    <3>7. rd'["client"] = 1 /\ out'["server"] = <<>>
      BY <3>1, <3>2
    <3> QED BY <3>6, <3>7 DEF TargetStream
  <2>5. CASE Receive("server")
    <3>1. reader["server"] = "recv" /\ rd["client"] < dlv["client"]
          /\ rd'["client"] = rd["client"] + 1 /\ UNCHANGED <<out, dlv, ready, link>>
          /\ reader'["server"] \in {"write", "ended"}
      BY <1>1, <2>5 DEF Receive, EndReader, CloseSock, HasMessage, ControlTypes, TypeOK, ChannelTypes,
                  net, tcp
    <3>2. ready["server"]
      BY <1>1, <1>2, <3>1 DEF TargetStream
    <3>3. Len(out["server"]) = rd["client"] - 1
      BY <1>1, <3>1, <3>2 DEF TargetStream
    <3>4. out'["server"] = out["server"] /\ ready'["server"]
      BY <3>1, <3>2
    <3> QED BY <1>1, <1>2, <3>1, <3>3, <3>4 DEF TargetStream
  <2>6. CASE ReceiveFails("server") \/ ForwardFails("server")
    <3>1. reader["server"] \in {"recv", "write"} /\ reader'["server"] = "ended"
          /\ UNCHANGED <<out, rd, dlv, ready, link>>
      BY <1>1, <2>6 DEF ReceiveFails, ForwardFails, EndReader, CloseSock, ControlTypes, chan, net, tcp
    <3> QED BY <3>1, <1>1, <1>2 DEF TargetStream
  \* The message in hand is the next read of the application.
  <2>7. CASE Forward("server")
    <3>1. reader["server"] = "write" /\ reader'["server"] = "recv"
          /\ out'["server"] = Append(out["server"], sent["client"][rd["client"]])
          /\ UNCHANGED <<rd, dlv, ready, link>>
      BY <1>1, <2>7 DEF Forward, ControlTypes, TypeOK, TcpTypes, chan, net
    <3>2. ready["server"] /\ Len(out["server"]) = rd["client"] - 2
      BY <1>1, <3>1 DEF TargetStream
    <3>3. rd["client"] \in 2..Len(sent["client"])
      BY <1>2, <3>2
    <3>4. sent["client"][rd["client"]] = Data(rd["client"] - 1)
      BY <1>2, <1>3, <3>3
    <3>5. out'["server"] = Append(out["server"], Data(Len(out["server"]) + 1))
      BY <1>2, <3>1, <3>2, <3>4
    <3>6. Len(out'["server"]) = Len(out["server"]) + 1
          /\ \A i \in 1..Len(out'["server"]) : out'["server"][i] = Data(i)
      BY <1>1, <1>2, <3>5 DEF TargetStream
    <3> QED BY <1>2, <3>1, <3>2, <3>6 DEF TargetStream
  <2>8. CASE Pump("server") \/ PumpWake("server")
    <3>1. CASE PumpClose("server")
      BY <1>1, <3>1, TargetStreamLink DEF PumpClose, ClosePC, SetPump, chan, tcp, ControlTypes
    <3>2. CASE (Pump("server") \/ PumpWake("server")) /\ ~PumpClose("server")
      BY <1>1, <3>2, TargetStreamFrame DEF Pump, PumpWake, PumpStart, PumpRead, PumpEOF, PumpSend,
           PumpSendFails, PumpFlow, PumpDrained, SetPump, WriteMessage, chan, net, tcp, TargetView
    <3> QED BY <2>8, <3>1, <3>2
  <2>9. CASE PeerGone("server") \/ NoticeCut("server")
    BY <1>1, <2>9, TargetStreamLink DEF PeerGone, NoticeCut, LinkDown, procs, chan, tcp, ControlTypes
  <2>10. CASE NilChannelPanics("server") \/ PeerWrites("server")
              \/ \E how \in {"fin", "rst"} : PeerEnds("server", how)
    BY <1>1, <2>10, TargetStreamFrame DEF NilChannelPanics, Panic, CloseSock, PeerWrites, PeerEnds,
         procs, chan, net, tcp, TargetView
  <2> QED BY <1>6, <2>1, <2>2, <2>3, <2>4, <2>5, <2>6, <2>7, <2>8, <2>9, <2>10
          DEF SideStep, Handshake, Relay
<1>7. CASE SideStep("client")
  <2>1. UNCHANGED TargetView
    BY <1>1, <1>7 DEF SideStep, Handshake, SendReady, SendReadyFails, ReadySent,
         NilChannelPanics, Panic, AwaitReady, AwaitFails, Relay, Receive, ReceiveFails,
         Forward, ForwardFails, EndReader, Pump, PumpWake, PumpStart, PumpRead, PumpEOF,
         PumpSend, PumpSendFails, PumpFlow, PumpDrained, PumpClose, ClosePC, PeerGone, NoticeCut,
         LinkDown, PeerWrites, PeerEnds, WriteMessage, CloseSock, SetPump, procs,
         chan, net, tcp, ControlTypes, FlagTypes, TypeOK, ChannelTypes, TcpTypes, TargetView
  <2> QED BY <2>1, <1>1, TargetStreamFrame
\* Only a live association delivers, and only a new one comes up.
<1>8. ASSUME NEW s \in Side, Deliver(s) PROVE TargetStream'
  <2>1. link["server"] = "up" /\ UNCHANGED <<out, rd, ready, reader, link>>
    BY <1>8 DEF Deliver, procs, net, tcp
  <2> QED BY <2>1, <1>1 DEF TargetStream
<1>9. CASE Connect
  <2>1. link["server"] = "new" /\ UNCHANGED <<out, rd, dlv, ready, reader>>
    BY <1>9 DEF Connect, procs, chan, tcp
  <2> QED BY <2>1, <1>1 DEF TargetStream
<1>10. CASE NetworkCut \/ UNCHANGED vars
  BY <1>1, <1>10, TargetStreamFrame DEF NetworkCut, procs, chan, net, tcp, vars, TargetView
<1> QED BY <1>4, <1>5, <1>6, <1>7, <1>8, <1>9, <1>10 DEF Next

LEMMA PrefixInit == Init => PrefixInv
<1>1. Init => ClientStream
  BY SideType DEF Init, ClientStream
<1>2. Init => ServerFirst /\ TargetStream
  BY SideType DEF Init, ServerFirst, TargetStream
<1> QED BY <1>1, <1>2, TypeInit DEF PrefixInv

LEMMA PrefixStep == PrefixInv /\ [Next]_vars => PrefixInv'
  BY TypeStep, ClientStreamStep, ServerFirstStep, TargetStreamStep DEF PrefixInv

\* What the target is given is what the client has sent, less the ready
\* signal, and the client has sent what the application wrote.
LEMMA PrefixInvImplies == PrefixInv => TargetGetsPrefix
<1> SUFFICES ASSUME PrefixInv PROVE TargetGetsPrefix
  OBVIOUS
<1>1. TypeOK /\ ClientStream /\ TargetStream
  BY DEF PrefixInv
<1>2. /\ Len(sent["client"]) \in Nat /\ Len(out["server"]) \in Nat
      /\ rd["client"] \in Nat /\ dlv["client"] \in Nat
      /\ taken["client"] \in Nat /\ wrote["client"] \in Nat
      /\ rd["client"] <= dlv["client"] /\ dlv["client"] <= Len(sent["client"])
      /\ taken["client"] <= wrote["client"]
  BY <1>1, SideFacts, SideType
<1>3. CASE ready["server"]
  <2>1. Len(out["server"]) <= rd["client"] - 1
    BY <1>1, <1>3 DEF TargetStream
  <2>2. CASE ready["client"]
    <3>1. Len(sent["client"]) <= taken["client"] + 1
      BY <1>1, <2>2 DEF ClientStream
    <3> QED BY <1>1, <1>2, <2>1, <3>1 DEF TargetGetsPrefix, TargetStream
  <2>3. CASE ~ready["client"]
    BY <1>1, <1>2, <2>1, <2>3 DEF TargetGetsPrefix, TargetStream, ClientStream
  <2> QED BY <2>2, <2>3
<1>4. CASE ~ready["server"]
  <2>1. out["server"] = <<>>
    BY <1>1, <1>4 DEF TargetStream
  <2> QED BY <1>2, <2>1 DEF TargetGetsPrefix
<1> QED BY <1>3, <1>4

\* Whatever the interleaving, the failures and the network, the target is
\* given a prefix of what the application sent, unaltered and in order, and
\* nothing of the handshake.
THEOREM TargetStreamIntact == Spec => []TargetGetsPrefix
  BY PrefixInit, PrefixStep, PrefixInvImplies, PTL DEF Spec
=============================================================================
