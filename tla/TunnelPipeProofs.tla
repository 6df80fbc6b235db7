-------------------------- MODULE TunnelPipeProofs --------------------------
(***************************************************************************)
(* Both directions of a tunnel implement Pipe, for any number of reads and *)
(* any bounds of the buffer; a pump closes only when its side's buffer has *)
(* drained; and only a DELETE cuts the target off from what was received.  *)
(***************************************************************************)
EXTENDS TunnelProofs

Before == {"idle", "opened", "dial", "error"}   \* DialTarget has not happened

\* Which steps touch the server's target, and how.
SockCloses == /\ sock["server"] # "none" /\ sock'["server"] = "closed"
              /\ UNCHANGED <<wrote, out>>
SockKept == sock'["server"] = sock["server"] /\ UNCHANGED <<wrote, out>>

LEMMA CloseSockCases ==
  ASSUME TypeOK, NEW s \in Side, CloseSock(s)
  PROVE  SockKept \/ SockCloses
  BY OtherSide, SideType DEF CloseSock, Set, SockKept, SockCloses, TypeOK, TcpTypes

LEMMA EndReaderCases ==
  ASSUME TypeOK, NEW s \in Side, EndReader(s)
  PROVE  SockKept \/ SockCloses
<1>1. CASE s = "server"
  BY <1>1, CloseSockCases DEF EndReader
<1>2. CASE s # "server"
  BY <1>2 DEF EndReader, tcp, SockKept
<1> QED BY <1>1, <1>2

LEMMA TargetCases ==
  ASSUME TypeOK, [Next]_vars
  PROVE  \/ SockKept \/ SockCloses \/ DialTarget
         \/ \E s \in Side : Forward(s) \/ PeerWrites(s)
<1>1. UNCHANGED tcp => SockKept
  BY DEF tcp, SockKept
<1>2. CASE ~panicked["client"] /\ ClientStep
  BY <1>1, <1>2, CloseSockCases, SideType DEF ClientStep, Main, Answer, ApplyAnswer, StartProxy,
     Return, GiveUp, ClientOnOpen, AbortClient, Delete, ServeDelete, DeleteLost
<1>3. CASE ~panicked["server"] /\ ServerStep
  <2>1. CASE ServerOpen /\ ~DialTarget
    BY <1>1, <2>1, CloseSockCases, SideType DEF ServerOpen, ServerOnOpen, DetachPanics, Panic,
       StoreChannel, DialFails, CloseAfterError
  <2>2. CASE ServePost \/ AbortServer \/ ConnReady \/ PumpEndOfStream
    BY <1>1, <2>2, CloseSockCases, SideType DEF ServePost, AbortServer, ConnReady, PumpEndOfStream
  <2> QED BY <1>3, <2>1, <2>2 DEF ServerStep
<1>4. ASSUME NEW s \in Side, SideStep(s), ~Forward(s), ~PeerWrites(s)
      PROVE SockKept \/ SockCloses
  <2>1. CASE Handshake(s)
    BY <1>1, <2>1, CloseSockCases DEF Handshake, SendReady, SendReadyFails, ReadySent,
       NilChannelPanics, Panic, AwaitReady, AwaitFails
  <2>2. CASE Receive(s) \/ ReceiveFails(s) \/ ForwardFails(s)
    BY <1>1, <2>2, EndReaderCases DEF Receive, ReceiveFails, ForwardFails
  <2>3. CASE Pump(s) \/ PumpWake(s)
    BY <1>1, <2>3 DEF Pump, PumpWake, PumpStart, PumpRead, PumpEOF, PumpSend, PumpSendFails,
       PumpFlow, PumpDrained, PumpClose, SockKept
  <2>4. CASE \E how \in {"fin", "rst"} : PeerEnds(s, how)
    BY <2>4 DEF PeerEnds, SockKept
  <2>5. CASE PeerGone(s) \/ NoticeCut(s)
    BY <1>1, <2>5 DEF PeerGone, NoticeCut, LinkDown
  <2> QED BY <1>4, <2>1, <2>2, <2>3, <2>4, <2>5 DEF SideStep, Relay
<1>5. CASE (\E s \in Side : Deliver(s)) \/ Connect \/ NetworkCut \/ UNCHANGED vars
  BY <1>1, <1>5 DEF Deliver, Connect, NetworkCut, vars
<1> QED BY <1>2, <1>3, <1>4, <1>5 DEF Next

-----------------------------------------------------------------------------
(* Until the target was dialled *)

\* What the steps do to the server's opener and pump.
LEMMA OpenerCases ==
  ASSUME TypeOK, NotYetDialled, [Next]_vars, ~DialTarget, opener'["server"] \in Before
  PROVE  /\ opener["server"] \in Before
         /\ pump'["server"] = "none"
<1> USE SideType, OtherSide DEF TypeOK, ControlTypes, Before, NotYetDialled, Set, SetPump
<1>1. UNCHANGED <<opener, pump>> => opener["server"] \in Before /\ pump'["server"] = "none"
  OBVIOUS
<1>2. CASE ~panicked["client"] /\ ClientStep
  BY <1>1, <1>2 DEF ClientStep, Main, Answer, ApplyAnswer, StartProxy,
     Return, GiveUp, ClientOnOpen, AbortClient, Delete, ServeDelete, DeleteLost
<1>3. CASE ~panicked["server"] /\ ServerStep
  BY <1>1, <1>3 DEF ServerStep, ServerOpen, ServerOnOpen, ServerCanOpen, DetachPanics,
     StoreChannel, DialFails, CloseAfterError, ServePost, AbortServer, ConnReady,
     PumpEndOfStream, procs
<1>4. ASSUME NEW s \in Side, SideStep(s)
      PROVE opener["server"] \in Before /\ pump'["server"] = "none"
  <2>1. CASE Handshake(s) \/ Relay(s)
    BY <1>1, <2>1 DEF Handshake, SendReady, SendReadyFails, ReadySent, NilChannelPanics,
       AwaitReady, AwaitFails, Relay, Receive, ReceiveFails, Forward, ForwardFails, procs
  <2>2. CASE Pump(s) \/ PumpWake(s)
    <3>1. opener' = opener /\ pump[s] # "none" /\ \A t \in Side : t # s => pump'[t] = pump[t]
      BY <2>2 DEF Pump, PumpWake, PumpStart, PumpRead, PumpEOF, PumpSend, PumpSendFails,
         PumpFlow, PumpDrained, PumpClose
    <3> QED BY <3>1
  <2>3. CASE PeerGone(s) \/ NoticeCut(s) \/ PeerWrites(s)
             \/ \E how \in {"fin", "rst"} : PeerEnds(s, how)
    BY <1>1, <2>3 DEF PeerGone, NoticeCut, LinkDown, PeerWrites, PeerEnds, procs
  <2> QED BY <1>4, <2>1, <2>2, <2>3 DEF SideStep
<1>5. CASE (\E s \in Side : Deliver(s)) \/ Connect \/ NetworkCut \/ UNCHANGED vars
  BY <1>1, <1>5 DEF Deliver, Connect, NetworkCut, vars, procs
<1> QED BY <1>2, <1>3, <1>4, <1>5 DEF Next

LEMMA DialledStep == TypeOK /\ NotYetDialled /\ [Next]_vars => NotYetDialled'
<1> SUFFICES ASSUME TypeOK, NotYetDialled, [Next]_vars, opener'["server"] \in Before
             PROVE  sock'["server"] = "none" /\ pump'["server"] = "none"
  BY DEF NotYetDialled, Before
<1>1. ~DialTarget
  BY SideType DEF DialTarget, Set, Before, TypeOK, ControlTypes
<1>2. opener["server"] \in Before /\ pump'["server"] = "none"
  BY <1>1, OpenerCases
<1>3. sock["server"] = "none"
  BY <1>2 DEF NotYetDialled, Before
<1>4. ASSUME NEW s \in Side, Forward(s) \/ PeerWrites(s) PROVE sock' = sock
  BY <1>4 DEF Forward, PeerWrites
<1> QED BY <1>1, <1>2, <1>3, <1>4, TargetCases DEF SockKept, SockCloses

-----------------------------------------------------------------------------
(* Refinement *)

LEMMA StreamInit == Init => StreamInv
<1>1. Init => NotYetDialled
  BY SideType, OtherSide DEF Init, NotYetDialled
<1> QED BY <1>1, PrefixInit DEF StreamInv

LEMMA StreamStep == StreamInv /\ [Next]_vars => StreamInv'
  BY PrefixStep, DialledStep DEF StreamInv, PrefixInv

\* The inductive invariant of the stream to the target.
THEOREM StreamInvariant == Spec => []StreamInv
  BY StreamInit, StreamStep, PTL DEF Spec

Reads(n) == [i \in 1..n |-> Data(i)]

LEMMA ReadsBegin ==
  ASSUME NEW m \in Nat, NEW n \in Nat, m <= n
  PROVE  /\ Reads(n) \in Seq(Message) /\ Len(Reads(n)) = n
         /\ RequestPipe!Begins(Reads(m), Reads(n))
<1>1. ASSUME NEW k \in Nat PROVE Reads(k) \in Seq(Message) /\ Len(Reads(k)) = k
  <2>1. \A i \in 1..k : Data(i) \in Message
    BY MessageType
  <2> QED BY <2>1 DEF Reads
<1>2. \A i \in 1..m : Reads(m)[i] = Reads(n)[i]
  BY DEF Reads
<1> QED BY <1>1, <1>2 DEF RequestPipe!Begins

LEMMA PipeInit == Init => RequestPipe!Init
<1> SUFFICES ASSUME Init PROVE RequestPipe!Init
  OBVIOUS
<1>1. wrote["client"] = 0 /\ out["server"] = <<>> /\ sock["server"] = "none"
  BY SideType, OtherSide DEF Init
<1>2. Reads(0) = <<>>
  BY DEF Reads
<1> QED BY <1>1, <1>2 DEF RequestPipe!Init, Reads

\* What the target has is a beginning of what the application wrote.
LEMMA OutBegins == StreamInv => RequestPipe!Begins(out["server"], Reads(wrote["client"]))
<1> SUFFICES ASSUME StreamInv PROVE RequestPipe!Begins(out["server"], Reads(wrote["client"]))
  OBVIOUS
<1>1. TargetGetsPrefix /\ TypeOK
  BY PrefixInvImplies DEF StreamInv, PrefixInv
<1>2. wrote["client"] \in Nat /\ Len(out["server"]) \in Nat
  BY <1>1, SideFacts, SideType
<1>3. Len(Reads(wrote["client"])) = wrote["client"]
  BY <1>2, ReadsBegin
<1> QED BY <1>1, <1>2, <1>3 DEF RequestPipe!Begins, TargetGetsPrefix, Reads

LEMMA OutBeginsNext ==
  StreamInv' => RequestPipe!Begins(out["server"], Reads(wrote["client"]))'
  BY OutBegins, PTL

LEMMA PipeStep ==
  StreamInv /\ StreamInv' /\ [Next]_vars => [RequestPipe!Next]_(RequestPipe!vars)
<1> SUFFICES ASSUME StreamInv, StreamInv', [Next]_vars
             PROVE  [RequestPipe!Next]_(RequestPipe!vars)
  OBVIOUS
<1> USE SideType, OtherSide
<1> DEFINE view == <<wrote["client"], out["server"], sock["server"] = "closed">>
<1>1. TypeOK /\ TypeOK'
  BY DEF StreamInv, PrefixInv
<1>2. UNCHANGED view => UNCHANGED RequestPipe!vars
  BY DEF RequestPipe!vars
<1>3. CASE SockKept
  BY <1>2, <1>3 DEF SockKept
<1>4. CASE SockCloses
  BY <1>2, <1>4 DEF SockCloses, RequestPipe!Next, RequestPipe!End
<1>5. CASE DialTarget
  <2>1. sock["server"] = "none" /\ UNCHANGED <<wrote, out>>
    BY <1>5 DEF DialTarget, StreamInv, NotYetDialled
  <2>2. sock'["server"] = "open"
    BY <1>1, <1>5 DEF DialTarget, Set, TypeOK, TcpTypes
  <2> QED BY <1>2, <2>1, <2>2
<1>6. ASSUME NEW s \in Side, Forward(s) PROVE [RequestPipe!Next]_(RequestPipe!vars)
  <2>1. CASE s = "server"
    <3>1. sock["server"] = "open" /\ UNCHANGED <<wrote, sock>>
      BY <1>6, <2>1 DEF Forward
    <3>2. PICK m : out'["server"] = Append(out["server"], m)
      BY <1>1, <1>6, <2>1 DEF Forward, TypeOK, TcpTypes
    <3>3. out["server"] \in Seq(Message) /\ out'["server"] \in Seq(Message)
      BY <1>1 DEF TypeOK, TcpTypes
    <3>4. RequestPipe!Begins(out["server"], out'["server"])
      BY <3>2, <3>3 DEF RequestPipe!Begins
    <3>5. RequestPipe!Begins(out["server"], Reads(wrote["client"]))'
      BY OutBeginsNext
    <3>6. RequestPipe!Begins(out'["server"], Reads(wrote["client"]))
      BY <3>1, <3>5 DEF Reads, Data
    <3>7. RequestPipe!Read
      BY <3>1, <3>3, <3>4, <3>6 DEF RequestPipe!Read, Reads
    <3> QED BY <3>7 DEF RequestPipe!Next
  <2>2. CASE s # "server"
    <3>1. UNCHANGED <<wrote, sock>> /\ out'["server"] = out["server"]
      BY <1>1, <1>6, <2>2 DEF Forward, TypeOK, TcpTypes
    <3> QED BY <1>2, <3>1
  <2> QED BY <2>1, <2>2
<1>7. ASSUME NEW s \in Side, PeerWrites(s) PROVE [RequestPipe!Next]_(RequestPipe!vars)
  <2>1. UNCHANGED <<sock, out>> /\ wrote["client"] \in Nat /\ wrote'["client"] \in Nat
    BY <1>1, <1>7 DEF PeerWrites, TypeOK, TcpTypes
  <2>2. wrote["client"] <= wrote'["client"]
    BY <1>1, <1>7 DEF PeerWrites, TypeOK, TcpTypes
  <2>3. /\ Reads(wrote'["client"]) \in Seq(Message)
        /\ RequestPipe!Begins(Reads(wrote["client"]), Reads(wrote'["client"]))
    BY <2>1, <2>2, ReadsBegin
  <2>4. RequestPipe!Write
    BY <2>1, <2>3 DEF RequestPipe!Write, Reads, Data
  <2> QED BY <2>4 DEF RequestPipe!Next
<1> QED BY <1>1, <1>3, <1>4, <1>5, <1>6, <1>7, TargetCases

\* Every behaviour of the tunnel, with all its failures, is one of Pipe as
\* far as application and target can see.
THEOREM TunnelImplementsPipe == Spec => RequestIsPipe
  BY StreamInit, StreamStep, PipeInit, PipeStep, PTL DEF Spec, RequestIsPipe, RequestPipe!Spec

-----------------------------------------------------------------------------
(* The drained close *)

\* The messages of s change only by these.
LEMMA SentCases ==
  ASSUME TypeOK, [Next]_vars, NEW s \in Side
  PROVE  \/ sent'[s] = sent[s] /\ (dlv'[s] = dlv[s] \/ Deliver(s))
         \/ SendReady(s)
         \/ PumpSend(s)
         \/ s = "server" /\ (PumpEndOfStream \/ DialFails)
<1> USE SideType, OtherSide
<1>1. UNCHANGED <<sent, dlv>> => sent'[s] = sent[s] /\ dlv'[s] = dlv[s]
  OBVIOUS
<1>2. CASE ~panicked["client"] /\ ClientStep
  BY <1>1, <1>2 DEF ClientStep, Main, Answer, ApplyAnswer, StartProxy, Return, GiveUp,
     ClientOnOpen, AbortClient, Delete, ServeDelete, DeleteLost, chan
<1>3. CASE ~panicked["server"] /\ ServerStep
  <2>1. CASE PumpEndOfStream \/ DialFails
    BY <1>1, <2>1 DEF PumpEndOfStream, DialFails, WriteMessage, chan, TypeOK, ChannelTypes
  <2>2. CASE ServerOpen /\ ~DialFails
    BY <1>1, <2>2 DEF ServerOpen, ServerOnOpen, DetachPanics, StoreChannel, DialTarget,
       CloseAfterError, chan
  <2>3. CASE ServePost \/ AbortServer \/ ConnReady
    BY <1>1, <2>3 DEF ServePost, AbortServer, ConnReady, chan
  <2> QED BY <1>3, <2>1, <2>2, <2>3 DEF ServerStep
<1>4. ASSUME NEW t \in Side, SideStep(t)
      PROVE \/ sent'[s] = sent[s] /\ dlv'[s] = dlv[s]
            \/ SendReady(s) \/ PumpSend(s)
  <2>1. CASE SendReady(t) \/ PumpSend(t)
    BY <1>1, <2>1 DEF SendReady, PumpSend, WriteMessage, TypeOK, ChannelTypes
  <2>2. CASE Handshake(t) /\ ~SendReady(t)
    BY <1>1, <2>2 DEF Handshake, SendReadyFails, ReadySent, NilChannelPanics, AwaitReady,
       AwaitFails, chan
  <2>3. CASE Relay(t)
    BY <1>1, <2>3 DEF Relay, Receive, ReceiveFails, Forward, ForwardFails, chan
  <2>4. CASE (Pump(t) /\ ~PumpSend(t)) \/ PumpWake(t)
    BY <1>1, <2>4 DEF Pump, PumpWake, PumpStart, PumpRead, PumpEOF, PumpSendFails,
       PumpFlow, PumpDrained, PumpClose, chan
  <2>5. CASE PeerGone(t) \/ NoticeCut(t) \/ PeerWrites(t)
             \/ \E how \in {"fin", "rst"} : PeerEnds(t, how)
    BY <1>1, <2>5 DEF PeerGone, NoticeCut, LinkDown, PeerWrites, PeerEnds, chan
  <2> QED BY <1>4, <2>1, <2>2, <2>3, <2>4, <2>5 DEF SideStep
<1>5. CASE \E t \in Side : Deliver(t)
  BY <1>5 DEF Deliver, TypeOK, ChannelTypes
<1>6. CASE Connect \/ NetworkCut \/ UNCHANGED vars
  BY <1>1, <1>6 DEF Connect, NetworkCut, vars, chan
<1> QED BY <1>2, <1>3, <1>4, <1>5, <1>6 DEF Next

\* A pump comes to its close only by finding the buffer empty.
LEMMA CloseCases ==
  ASSUME TypeOK, [Next]_vars, NEW s \in Side, pump'[s] = "close"
  PROVE  pump[s] = "close" \/ (PumpDrained(s) /\ Buffered(s) = 0)
<1> USE SideType, OtherSide DEF TypeOK, ControlTypes, Set, SetPump
<1>1. UNCHANGED pump => pump[s] = "close"
  OBVIOUS
<1>2. CASE ~panicked["client"] /\ ClientStep
  BY <1>1, <1>2 DEF ClientStep, Main, Answer, ApplyAnswer, StartProxy, Return, GiveUp,
     ClientOnOpen, AbortClient, Delete, ServeDelete, DeleteLost
<1>3. CASE ~panicked["server"] /\ ServerStep
  BY <1>1, <1>3 DEF ServerStep, ServerOpen, ServerOnOpen, DetachPanics, StoreChannel,
     DialTarget, DialFails, CloseAfterError, ServePost, AbortServer, ConnReady,
     PumpEndOfStream, procs
<1>4. ASSUME NEW t \in Side, SideStep(t)
      PROVE pump[s] = "close" \/ (PumpDrained(s) /\ Buffered(s) = 0)
  <2>1. CASE Handshake(t) \/ Relay(t)
    BY <1>1, <2>1 DEF Handshake, SendReady, SendReadyFails, ReadySent, NilChannelPanics,
       AwaitReady, AwaitFails, Relay, Receive, ReceiveFails, Forward, ForwardFails, procs
  <2>2. CASE PumpDrained(t)
    BY <2>2 DEF PumpDrained
  <2>3. CASE (Pump(t) /\ ~PumpDrained(t)) \/ PumpWake(t)
    BY <2>3 DEF Pump, PumpWake, PumpStart, PumpRead, PumpEOF, PumpSend, PumpSendFails,
       PumpFlow, PumpClose
  <2>4. CASE PeerGone(t) \/ NoticeCut(t) \/ PeerWrites(t)
             \/ \E how \in {"fin", "rst"} : PeerEnds(t, how)
    BY <1>1, <2>4 DEF PeerGone, NoticeCut, LinkDown, PeerWrites, PeerEnds, procs
  <2> QED BY <1>4, <2>1, <2>2, <2>3, <2>4 DEF SideStep
<1>5. CASE (\E t \in Side : Deliver(t)) \/ Connect \/ NetworkCut \/ UNCHANGED vars
  BY <1>1, <1>5 DEF Deliver, Connect, NetworkCut, vars, procs
<1> QED BY <1>2, <1>3, <1>4, <1>5 DEF Next

LEMMA DrainedStep == StreamInv /\ ClosesDrained /\ [Next]_vars => ClosesDrained'
<1> SUFFICES ASSUME StreamInv, ClosesDrained, [Next]_vars, NEW s \in Side, pump'[s] = "close"
             PROVE  Buffered(s)' = 0
  BY DEF ClosesDrained
<1>1. TypeOK /\ ClientStream /\ ServerFirst /\ NotYetDialled
  BY DEF StreamInv, PrefixInv
<1>2. Buffered(s) = 0 /\ pump[s] \in {"close", "drain"}
  BY <1>1, CloseCases DEF ClosesDrained, PumpDrained
\* Past the handshake nothing but the pump sends.
<1>3. ~SendReady(s)
  <2>1. reader[s] # "send"
    BY <1>1, <1>2, OtherSide DEF ClientStream, ServerFirst
  <2> QED BY <2>1 DEF SendReady
<1>4. ~PumpSend(s)
  BY <1>2 DEF PumpSend
<1>5. s = "server" => ~DialFails
  BY <1>1, <1>2 DEF DialFails, NotYetDialled
<1>6. s = "server" => ~PumpEndOfStream
  BY <1>2 DEF PumpEndOfStream
<1>7. ~Deliver(s)
  BY <1>2 DEF Deliver
<1> QED BY <1>1, <1>2, <1>3, <1>4, <1>5, <1>6, <1>7, SentCases DEF Buffered

\* Between the test that the buffer has drained and the close nobody writes to
\* the channel, whichever of the side's goroutines runs.
THEOREM CloseLosesNothing == Spec => []ClosesDrained
<1>1. Init => ClosesDrained
  BY DEF Init, ClosesDrained
<1> QED BY <1>1, StreamInit, StreamStep, DrainedStep, PTL DEF Spec

-----------------------------------------------------------------------------
(* The connection to the target *)

\* A pump comes to life when the target is dialled, and never leaves none.
LEMMA PumpCases ==
  ASSUME TypeOK, [Next]_vars
  PROVE  DialTarget \/ (pump'["server"] = "none" <=> pump["server"] = "none")
<1> USE SideType, OtherSide DEF TypeOK, ControlTypes, Set, SetPump
<1> DEFINE same == pump'["server"] = "none" <=> pump["server"] = "none"
<1>1. UNCHANGED pump => same
  OBVIOUS
<1>2. CASE ~panicked["client"] /\ ClientStep
  BY <1>1, <1>2 DEF ClientStep, Main, Answer, ApplyAnswer, StartProxy, Return, GiveUp,
     ClientOnOpen, AbortClient, Delete, ServeDelete, DeleteLost
<1>3. CASE ~panicked["server"] /\ ServerStep
  BY <1>1, <1>3 DEF ServerStep, ServerOpen, ServerOnOpen, DetachPanics, StoreChannel,
     DialFails, CloseAfterError, ServePost, AbortServer, ConnReady, PumpEndOfStream, procs
<1>4. ASSUME NEW t \in Side, SideStep(t) PROVE same
  <2>1. CASE Handshake(t) \/ Relay(t)
    BY <1>1, <2>1 DEF Handshake, SendReady, SendReadyFails, ReadySent, NilChannelPanics,
       AwaitReady, AwaitFails, Relay, Receive, ReceiveFails, Forward, ForwardFails, procs
  <2>2. CASE Pump(t) \/ PumpWake(t)
    <3>1. pump[t] # "none" /\ \E to : to # "none" /\ pump' = [pump EXCEPT ![t] = to]
      BY <2>2 DEF Pump, PumpWake, PumpStart, PumpRead, PumpEOF, PumpSend, PumpSendFails,
         PumpFlow, PumpDrained, PumpClose
    <3> QED BY <3>1
  <2>3. CASE PeerGone(t) \/ NoticeCut(t) \/ PeerWrites(t)
             \/ \E how \in {"fin", "rst"} : PeerEnds(t, how)
    BY <1>1, <2>3 DEF PeerGone, NoticeCut, LinkDown, PeerWrites, PeerEnds, procs
  <2> QED BY <1>4, <2>1, <2>2, <2>3 DEF SideStep
<1>5. CASE (\E t \in Side : Deliver(t)) \/ Connect \/ NetworkCut \/ UNCHANGED vars
  BY <1>1, <1>5 DEF Deliver, Connect, NetworkCut, vars, procs
<1> QED BY <1>2, <1>3, <1>4, <1>5 DEF Next

LEMMA TogetherStep == TypeOK /\ DialledTogether /\ [Next]_vars => DialledTogether'
<1> SUFFICES ASSUME TypeOK, DialledTogether, [Next]_vars PROVE DialledTogether'
  OBVIOUS
<1> USE SideType
<1>1. CASE DialTarget
  BY <1>1 DEF DialTarget, Set, DialledTogether, TypeOK, ControlTypes, TcpTypes
<1>2. CASE ~DialTarget
  <2>1. ASSUME NEW s \in Side, Forward(s) \/ PeerWrites(s) PROVE sock' = sock
    BY <2>1 DEF Forward, PeerWrites
  <2>2. sock'["server"] = "none" <=> sock["server"] = "none"
    BY <1>2, <2>1, TargetCases DEF SockKept, SockCloses
  <2> QED BY <1>2, <2>2, PumpCases DEF DialledTogether
<1> QED BY <1>1, <1>2

\* Who closes the connection to the target.
LEMMA CloseReasons ==
  ASSUME TypeOK, [Next]_vars, sock["server"] = "open", sock'["server"] = "closed"
  PROVE  \/ deleted' \/ panicked'["server"]
         \/ AbortServer
         \/ Receive("server") /\ NextMessage("server") = Empty
         \/ ReceiveFails("server")
         \/ ForwardFails("server")
<1> USE SideType, OtherSide DEF TypeOK, TcpTypes, FlagTypes, Set
<1>1. sock' # sock /\ ~UNCHANGED tcp
  BY DEF tcp
<1>2. ~CloseSock("client")
  BY DEF CloseSock
<1>3. CASE ~panicked["client"] /\ ClientStep
  BY <1>1, <1>2, <1>3 DEF ClientStep, Main, Answer, ApplyAnswer, StartProxy, Return, GiveUp,
     ClientOnOpen, AbortClient, Delete, ServeDelete, DeleteLost
<1>4. CASE ~panicked["server"] /\ ServerStep
  BY <1>1, <1>4 DEF ServerStep, ServePost, ServerOpen, ServerOnOpen, DetachPanics, Panic,
     StoreChannel, DialTarget, DialFails, CloseAfterError, AbortServer, ConnReady, PumpEndOfStream
<1>5. ASSUME NEW s \in Side, SideStep(s)
      PROVE  \/ panicked'["server"]
             \/ Receive("server") /\ NextMessage("server") = Empty
             \/ ReceiveFails("server")
             \/ ForwardFails("server")
  <2>1. CASE Handshake(s)
    BY <1>1, <1>2, <2>1 DEF Handshake, SendReady, SendReadyFails, ReadySent, NilChannelPanics, Panic,
       AwaitReady, AwaitFails
  <2>2. CASE Relay(s)
    BY <1>1, <2>2 DEF Relay, Receive, ReceiveFails, Forward, ForwardFails, EndReader
  <2>3. CASE Pump(s) \/ PumpWake(s) \/ PeerGone(s) \/ NoticeCut(s)
    BY <1>1, <2>3 DEF Pump, PumpWake, PumpStart, PumpRead, PumpEOF, PumpSend, PumpSendFails,
       PumpFlow, PumpDrained, PumpClose, PeerGone, NoticeCut, LinkDown
  <2>4. CASE PeerWrites(s) \/ \E how \in {"fin", "rst"} : PeerEnds(s, how)
    BY <1>1, <2>4 DEF PeerWrites, PeerEnds
  <2> QED BY <1>5, <2>1, <2>2, <2>3, <2>4 DEF SideStep
<1>6. CASE (\E s \in Side : Deliver(s)) \/ Connect \/ NetworkCut \/ UNCHANGED vars
  BY <1>1, <1>6 DEF Deliver, Connect, NetworkCut, vars
<1> QED BY <1>3, <1>4, <1>5, <1>6 DEF Next

\* What happens once and for all: a DELETE, the end of a process, the end of
\* an association.
LEMMA OnceForAll ==
  ASSUME TypeOK, [Next]_vars, NEW s \in Side
  PROVE  /\ deleted => deleted'
         /\ panicked[s] => panicked'[s]
         /\ link[s] = "down" => link'[s] = "down"
         /\ ended'[s] = ended[s] \/ sock[s] = "open"
<1> DEFINE goal == /\ deleted => deleted'
                   /\ panicked[s] => panicked'[s]
                   /\ link[s] = "down" => link'[s] = "down"
                   /\ ended'[s] = ended[s] \/ sock[s] = "open"
<1> USE SideType DEF TypeOK, ControlTypes, FlagTypes, TcpTypes, Set
<1>1. CASE ~panicked["client"] /\ ClientStep
  BY <1>1 DEF ClientStep, Main, Answer, ApplyAnswer, StartProxy, Return, GiveUp, ClosePC, CloseSock,
     ClientOnOpen, AbortClient, Delete, ServeDelete, DeleteLost, flags, net, tcp
<1>2. CASE ~panicked["server"] /\ ServerStep
  <2>1. CASE ServePost \/ AbortServer \/ ConnReady \/ PumpEndOfStream
    BY <2>1 DEF ServePost, AbortServer, ConnReady, PumpEndOfStream, CloseSock, flags, net, tcp
  <2>2. CASE DetachPanics
    BY <2>2 DEF DetachPanics, Panic, CloseSock, net
  <2>3. CASE ServerOnOpen \/ StoreChannel \/ DialTarget \/ DialFails
    BY <2>3 DEF ServerOnOpen, StoreChannel, DialTarget, DialFails, flags, net, tcp
  <2>4. CASE CloseAfterError
    BY <2>4 DEF CloseAfterError, ClosePC, flags, tcp
  <2> QED BY <1>2, <2>1, <2>2, <2>3, <2>4 DEF ServerStep, ServerOpen
<1>3. ASSUME NEW t \in Side, SideStep(t) PROVE goal
  <2>1. CASE Handshake(t)
    BY <2>1 DEF Handshake, SendReady, SendReadyFails, ReadySent, NilChannelPanics, Panic, CloseSock,
       AwaitReady, AwaitFails, flags, net, tcp
  <2>2. CASE Relay(t)
    BY <2>2 DEF Relay, Receive, ReceiveFails, Forward, ForwardFails, EndReader, CloseSock, flags, net, tcp
  <2>3. CASE Pump(t) \/ PumpWake(t)
    BY <2>3 DEF Pump, PumpWake, PumpStart, PumpRead, PumpEOF, PumpSend, PumpSendFails,
       PumpFlow, PumpDrained, PumpClose, ClosePC, flags, net, tcp
  <2>4. CASE PeerGone(t) \/ NoticeCut(t)
    BY <2>4 DEF PeerGone, NoticeCut, LinkDown, flags, tcp
  <2>5. CASE PeerWrites(t) \/ \E how \in {"fin", "rst"} : PeerEnds(t, how)
    BY <2>5 DEF PeerWrites, PeerEnds, flags, net
  <2> QED BY <1>3, <2>1, <2>2, <2>3, <2>4, <2>5 DEF SideStep
<1>4. CASE (\E t \in Side : Deliver(t)) \/ Connect \/ NetworkCut \/ UNCHANGED vars
  BY <1>4 DEF Deliver, Connect, NetworkCut, vars, flags, net, tcp
<1> QED BY <1>1, <1>2, <1>3, <1>4 DEF Next

LEMMA HasAllStep ==
  StreamInv /\ DialledTogether /\ TargetHasAll /\ [Next]_vars => TargetHasAll'
<1> SUFFICES ASSUME StreamInv, DialledTogether, TargetHasAll, [Next]_vars,
                    sock'["server"] = "closed", ended'["server"] # "rst",
                    ~deleted', ~panicked'["server"]
             PROVE  /\ link'["server"] = "down"
                    /\ dlv'["client"] = 0 \/ Len(out'["server"]) = dlv'["client"] - 1
  BY DEF TargetHasAll
<1> USE SideType, OtherSide
<1>1. TypeOK /\ TypeOK' /\ ServerFirst /\ TargetStream /\ ClientStream
  BY PrefixStep DEF StreamInv, PrefixInv
<1>2. /\ rd["client"] \in Nat /\ dlv["client"] \in Nat /\ rd["client"] <= dlv["client"]
      /\ dlv["client"] <= Len(sent["client"]) /\ Len(sent["client"]) \in Nat
      /\ sock["server"] \in {"none", "open", "closed"}
  BY <1>1, SideFacts DEF TypeOK, TcpTypes
<1>3. ~deleted /\ ~panicked["server"]
  BY <1>1, OnceForAll
<1>4. ~DialTarget
  BY <1>1 DEF DialTarget, Set, TypeOK, TcpTypes
<1>5. sock["server"] # "none"
  <2>1. ASSUME NEW s \in Side, Forward(s) \/ PeerWrites(s) PROVE sock' = sock
    BY <2>1 DEF Forward, PeerWrites
  <2> QED BY <1>1, <1>4, <2>1, TargetCases DEF SockKept, SockCloses
\* A closed connection stays as it is.
<1>6. CASE sock["server"] = "closed"
  <2>1. ended["server"] = ended'["server"]
    BY <1>1, <1>6, OnceForAll
  <2>2. link["server"] = "down" /\ (dlv["client"] = 0 \/ Len(out["server"]) = dlv["client"] - 1)
    BY <1>3, <1>6, <2>1 DEF TargetHasAll
  <2>3. link'["server"] = "down"
    BY <1>1, <2>2, OnceForAll
  <2>4. dlv'["client"] = dlv["client"]
    <3>1. ~Deliver("client")
      BY <2>2 DEF Deliver
    <3>2. ASSUME SendReady("client") \/ PumpSend("client") PROVE dlv' = dlv
      BY <3>2 DEF SendReady, PumpSend, WriteMessage
    <3> QED BY <1>1, <3>1, <3>2, SentCases
  <2>5. out'["server"] = out["server"]
    <3>1. ~Forward("server")
      BY <1>6 DEF Forward
    <3>2. ASSUME Forward("client") PROVE out'["server"] = out["server"]
      BY <1>1, <3>2 DEF Forward, TypeOK, TcpTypes
    <3>3. ASSUME NEW s \in Side, PeerWrites(s) PROVE out'["server"] = out["server"]
      BY <3>3 DEF PeerWrites
    <3> QED BY <1>1, <1>4, <3>1, <3>2, <3>3, TargetCases DEF SockKept, SockCloses
  <2> QED BY <2>2, <2>3, <2>4, <2>5
<1>7. CASE sock["server"] = "open"
  <2>1. CASE AbortServer
    <3>1. reader["server"] = "failed" /\ UNCHANGED <<link, dlv>>
      BY <2>1 DEF AbortServer, net, chan
    <3>2. dlv["client"] = 0 /\ link["server"] = "down"
      BY <1>1, <3>1 DEF ServerFirst, TargetStream
    <3> QED BY <3>1, <3>2
  \* The client never sends an empty message.
  <2>2. CASE Receive("server") /\ NextMessage("server") = Empty
    <3>1. rd["client"] + 1 \in 1..Len(sent["client"])
      BY <1>2, <2>2 DEF Receive, HasMessage
    <3>2. sent["client"][rd["client"] + 1] \in {Ready} \cup {Data(i) : i \in Nat}
      BY <1>1, <1>2, <3>1 DEF ClientStream
    <3>3. Empty # Ready /\ \A i \in Nat : Empty # Data(i)
      BY DEF Empty, Ready, Data
    <3> QED BY <2>2, <3>2, <3>3 DEF NextMessage
  <2>3. CASE ReceiveFails("server")
    <3>1. /\ reader["server"] = "recv" /\ link["server"] = "down"
          /\ ~(rd["client"] < dlv["client"])
          /\ UNCHANGED <<link, dlv, out>>
      BY <2>3 DEF ReceiveFails, AtEnd, HasMessage, EndReader, CloseSock, net, chan, tcp
    <3>2. rd["client"] = dlv["client"]
      BY <1>2, <3>1
    <3>3. CASE ready["server"]
      BY <1>1, <3>1, <3>2, <3>3 DEF TargetStream
    <3>4. CASE ~ready["server"]
      BY <1>1, <3>1, <3>4 DEF TargetStream
    <3> QED BY <3>3, <3>4
  <2>4. CASE ForwardFails("server")
    <3>1. ended["server"] = "rst" /\ UNCHANGED ended
      BY <1>7, <2>4 DEF ForwardFails, EndReader, CloseSock, tcp
    <3> QED BY <3>1
  <2> QED BY <1>1, <1>7, <2>1, <2>2, <2>3, <2>4, CloseReasons
<1> QED BY <1>2, <1>5, <1>6, <1>7

-----------------------------------------------------------------------------
(* What the server writes *)

LEMMA SameSeq ==
  ASSUME NEW B, NEW s \in Seq(B), NEW t \in Seq(B), Len(s) = Len(t),
         \A i \in 1..Len(s) : s[i] = t[i]
  PROVE  s = t
  OBVIOUS

LEMMA Pairs ==
  ASSUME NEW a, NEW b
  PROVE  /\ Append(<<a>>, b) = <<a, b>>
         /\ <<a, b>> # <<>> /\ Len(<<a, b>>) = 2
         /\ <<a, b>>[1] = a /\ <<a, b>>[2] = b
<1> DEFINE s == Append(<<a>>, b)
           t == <<a, b>>
           B == {a, b}
<1>1. <<a>> \in Seq(B) /\ Len(<<a>>) = 1 /\ <<a>>[1] = a
  OBVIOUS
<1>2. s \in Seq(B) /\ Len(s) = 2 /\ s[1] = a /\ s[2] = b
  BY <1>1
<1>3. t \in Seq(B) /\ Len(t) = 2 /\ t[1] = a /\ t[2] = b
  OBVIOUS
<1> HIDE DEF s, t, B
<1>4. \A i \in 1..Len(s) : s[i] = t[i]
  <2>1. 1..Len(s) = {1, 2}
    BY <1>2
  <2> QED BY <1>2, <1>3, <2>1
<1>5. s = t
  BY <1>2, <1>3, <1>4, SameSeq
<1>6. t # <<>>
  <2>1. Len(<<>>) = 0
    OBVIOUS
  <2> QED BY <1>3, <2>1
<1> QED BY <1>3, <1>5, <1>6 DEF s, t

LEMMA Singles ==
  ASSUME NEW a
  PROVE  /\ Append(<<>>, a) = <<a>> /\ <<a>> # <<>> /\ Len(<<a>>) = 1 /\ <<a>>[1] = a
  OBVIOUS

LEMMA Statuses ==
  /\ Append(<<>>, Error) = <<Error>> /\ Append(<<Ready>>, Error) = <<Ready, Error>>
  /\ Append(<<>>, Ready) = <<Ready>> /\ Append(<<Error>>, Ready) = <<Error, Ready>>
  /\ <<Ready>> # <<>> /\ <<Error>> # <<>>
  /\ <<Ready, Error>> # <<>> /\ <<Error, Ready>> # <<>>
  BY Singles, Pairs, Zenon

\* One of these streams without a ready signal in it.
LEMMA NoReady ==
  ASSUME NEW st \in {<<>>, <<Ready>>, <<Error>>, <<Ready, Error>>, <<Error, Ready>>},
         \A i \in 1..Len(st) : st[i] # Ready
  PROVE  st \in {<<>>, <<Error>>}
<1>1. st # <<Ready>>
  <2>1. Len(<<Ready>>) = 1 /\ <<Ready>>[1] = Ready /\ 1 \in 1..1
    OBVIOUS
  <2> QED BY <2>1, Zenon
<1>2. st # <<Ready, Error>>
  <2>1. Len(<<Ready, Error>>) = 2 /\ <<Ready, Error>>[1] = Ready /\ 1 \in 1..2
    BY Pairs
  <2> QED BY <2>1, Zenon
<1>3. st # <<Error, Ready>>
  <2>1. Len(<<Error, Ready>>) = 2 /\ <<Error, Ready>>[2] = Ready /\ 2 \in 1..2
    BY Pairs
  <2> QED BY <2>1, Zenon
<1> QED BY <1>1, <1>2, <1>3, Zenon

LEMMA Appended ==
  ASSUME NEW B, NEW s \in Seq(B), NEW e \in B
  PROVE  /\ Len(s) \in Nat /\ Append(s, e) \in Seq(B) /\ Len(Append(s, e)) = Len(s) + 1
         /\ \A i \in 1..Len(s) : Append(s, e)[i] = s[i]
         /\ Append(s, e)[Len(s) + 1] = e
         /\ Append(s, e) # <<>>
  OBVIOUS

LEMMA KindsDiffer ==
  /\ Ready # Error /\ Ready # Empty /\ Error # Empty
  /\ \A i \in Nat : Data(i) # Ready /\ Data(i) # Error /\ Data(i) # Empty
  BY DEF Ready, Error, Empty, Data

\* What ServerStream speaks of.
WriterView == <<sent["server"], opener["server"], pump["server"], taken["server"],
                ready["server"], reader["server"]>>

LEMMA ServerStreamFrame == ServerStream /\ UNCHANGED WriterView => ServerStream'
  BY DEF ServerStream, WriterView

\* The stream of a pump that works: the ready signal, then the target's reads.
Relaying ==
  LET st == sent["server"] IN
  /\ st[1] = Ready
  /\ \A i \in 2..Len(st) : st[i] = Data(i - 1) /\ i - 1 <= taken["server"]

LEMMA ServerStreamStep ==
  StreamInv /\ ServerStream /\ [Next]_vars => ServerStream'
<1> SUFFICES ASSUME StreamInv, ServerStream, [Next]_vars PROVE ServerStream'
  OBVIOUS
<1> DEFINE st == sent["server"]
<1>1. TypeOK /\ ControlTypes /\ FlagTypes /\ ServerFirst /\ NotYetDialled
  BY DEF StreamInv, PrefixInv, TypeOK
<1>2. st \in Seq(Message) /\ Len(st) \in Nat /\ taken["server"] \in Nat
  BY <1>1, SideFacts, SideType
<1> USE OtherSide, SideType
\* The client's goroutines touch nothing of it.
<1>3. CASE ~panicked["client"] /\ ClientStep
  <2>1. UNCHANGED WriterView
    BY <1>1, <1>3 DEF ClientStep, Main, Answer, ApplyAnswer, StartProxy, Return, GiveUp, ClientOnOpen,
       AbortClient, Delete, ServeDelete, DeleteLost, CloseSock, SetPump, Set, chan, tcp,
       ControlTypes, WriterView
  <2> QED BY <2>1, ServerStreamFrame
<1>4. CASE SideStep("client")
  <2>1. UNCHANGED WriterView
    BY <1>1, <1>4 DEF SideStep, Handshake, SendReady, SendReadyFails, ReadySent,
       NilChannelPanics, Panic, AwaitReady, AwaitFails, Relay, Receive, ReceiveFails,
       Forward, ForwardFails, EndReader, Pump, PumpWake, PumpStart, PumpRead, PumpEOF,
       PumpSend, PumpSendFails, PumpFlow, PumpDrained, PumpClose, PeerGone, NoticeCut,
       LinkDown, PeerWrites, PeerEnds, WriteMessage, CloseSock, SetPump, Set, procs,
       chan, tcp, ControlTypes, FlagTypes, TypeOK, ChannelTypes, TcpTypes, WriterView
  <2> QED BY <2>1, ServerStreamFrame
<1>5. CASE ~panicked["server"] /\ ServerStep
  <2> USE DEF Set, SetPump
  <2>1. CASE ServePost \/ DetachPanics
    BY <2>1, ServerStreamFrame DEF ServePost, DetachPanics, Panic, CloseSock, procs, chan, tcp, WriterView
  <2>2. CASE ServerOnOpen \/ StoreChannel
    <3>1. /\ opener["server"] \in {"idle", "opened"} /\ opener'["server"] \in {"opened", "dial"}
          /\ reader'["server"] = "send" \/ reader' = reader
          /\ UNCHANGED <<sent, pump, taken, ready>>
      BY <1>1, <2>2 DEF ServerOnOpen, ServerCanOpen, StoreChannel, ControlTypes, chan, tcp
    <3>2. pump["server"] = "none"
      BY <1>1, <3>1 DEF NotYetDialled
    <3> QED BY <3>1, <3>2 DEF ServerStream
  <2>3. CASE DialTarget
    <3>1. /\ opener["server"] = "dial" /\ opener'["server"] = "done" /\ pump'["server"] = "wg"
          /\ UNCHANGED <<sent, taken, ready, reader>>
      BY <1>1, <2>3 DEF DialTarget, ControlTypes, chan
    <3>2. pump["server"] = "none" /\ st \in {<<>>, <<Ready>>} /\ taken["server"] = 0
      BY <1>1, <3>1 DEF NotYetDialled, ServerStream
    <3>3. CASE st = <<>>
      <4>1. ~ready["server"] /\ reader["server"] \notin {"check", "await"}
        BY <3>3 DEF ServerStream
      <4> QED BY <3>1, <3>2, <3>3, <4>1 DEF ServerStream
    <3>4. CASE st = <<Ready>>
      <4>1. st # <<>> /\ Len(st) = 1 /\ st[1] = Ready /\ 2..Len(st) = {}
        BY <3>4, Singles
      <4> QED BY <3>1, <3>2, <3>4, <4>1 DEF ServerStream
    <3> QED BY <3>2, <3>3, <3>4
  <2>4. CASE DialFails
    <3>1. /\ opener["server"] = "dial" /\ opener'["server"] = "error"
          /\ UNCHANGED <<pump, taken, ready, reader>>
          /\ sent'["server"] = st \/ sent'["server"] = Append(st, Error)
      BY <1>1, <2>4 DEF DialFails, WriteMessage, ControlTypes, TypeOK, ChannelTypes, chan, tcp
    <3>2. pump["server"] = "none" /\ st \in {<<>>, <<Ready>>} /\ taken["server"] = 0
      BY <1>1, <3>1 DEF NotYetDialled, ServerStream
    <3>3. sent'["server"] \in {<<>>, <<Ready>>, <<Error>>, <<Ready, Error>>}
      BY <3>1, <3>2, Statuses, Zenon
    <3>4. st # <<>> => sent'["server"] # <<>>
      BY <3>1, <3>2, Statuses, Zenon
    <3> QED BY <3>1, <3>2, <3>3, <3>4 DEF ServerStream
  <2>5. CASE CloseAfterError
    <3>1. opener'["server"] = "done" /\ UNCHANGED <<sent, pump, taken, ready, reader>>
      BY <1>1, <2>5 DEF CloseAfterError, ControlTypes, chan, tcp
    <3> QED BY <3>1 DEF ServerStream
  <2>6. CASE AbortServer \/ ConnReady
    <3>1. /\ reader'["server"] \in {"connwait", "recv"}
          /\ UNCHANGED <<sent, pump, taken, ready, opener>>
      BY <1>1, <2>6 DEF AbortServer, ConnReady, CloseSock, ControlTypes, chan, tcp
    <3> QED BY <3>1 DEF ServerStream
  <2>7. CASE PumpEndOfStream
    <3>1. /\ pump["server"] = "eos" /\ pump'["server"] = "drain"
          /\ UNCHANGED <<taken, ready, reader, opener>>
          /\ sent'["server"] = st \/ sent'["server"] = Append(st, Empty)
      BY <1>1, <2>7 DEF PumpEndOfStream, WriteMessage, ControlTypes, TypeOK, ChannelTypes, chan, tcp
    <3>2. ready["server"] /\ opener["server"] \notin {"idle", "opened", "dial"}
      BY <1>1, <3>1 DEF ServerFirst, NotYetDialled
    <3>3. st # <<>> /\ Len(st) = taken["server"] + 1 /\ Relaying
      BY <3>1, <3>2 DEF ServerStream, Relaying
    <3>4. CASE sent'["server"] = st
      BY <3>1, <3>2, <3>3, <3>4 DEF ServerStream
    <3>5. CASE sent'["server"] = Append(st, Empty)
      <4> DEFINE nst == sent'["server"]
      <4>1. /\ Len(nst) = Len(st) + 1 /\ nst[Len(st) + 1] = Empty /\ nst # <<>>
            /\ \A i \in 1..Len(st) : nst[i] = st[i]
        BY <1>2, <3>5, MessageType, Appended
      <4>2. Len(st) >= 1
        BY <1>2, <3>3
      <4>5. st[1] = Ready /\ \A i \in 2..Len(st) : st[i] = Data(i - 1) /\ i - 1 <= taken["server"]
        BY <3>3 DEF Relaying
      <4> HIDE DEF nst, st
      <4>3. nst[1] = Ready
        BY <1>2, <4>1, <4>2, <4>5
      <4>4. ASSUME NEW i \in 2..Len(nst)
            PROVE  \/ nst[i] = Data(i - 1) /\ i - 1 <= taken["server"]
                   \/ nst[i] = Empty /\ i = Len(nst)
        BY <1>2, <4>1, <4>5
      <4> QED BY <3>1, <3>2, <4>1, <4>3, <4>4 DEF ServerStream, nst
    <3> QED BY <3>1, <3>4, <3>5
  <2> QED BY <1>5, <2>1, <2>2, <2>3, <2>4, <2>5, <2>6, <2>7 DEF ServerStep, ServerOpen
<1>6. CASE SideStep("server")
  <2> USE DEF Set, SetPump
  <2>1. CASE SendReady("server")
    <3>1. /\ reader["server"] = "send" /\ sent'["server"] = Append(st, Ready)
          /\ UNCHANGED <<opener, pump, taken, ready>>
      BY <1>1, <2>1 DEF SendReady, WriteMessage, TypeOK, ChannelTypes, tcp
    <3>2. ~ready["server"] /\ pump["server"] \in {"none", "wg"}
          /\ \A i \in 1..Len(st) : st[i] # Ready
      BY <1>1, <3>1 DEF ServerFirst
    <3>3. st \in {<<>>, <<Ready>>, <<Error>>, <<Ready, Error>>, <<Error, Ready>>}
      BY <3>2 DEF ServerStream
    <3>4. st \in {<<>>, <<Error>>}
      BY <3>2, <3>3, NoReady, Zenon
    <3>5. (opener["server"] \in {"idle", "opened", "dial"} \/ pump["server"] = "wg")
            => st \in {<<>>, <<Ready>>}
      BY <3>2 DEF ServerStream
    <3>6. (opener["server"] \in {"idle", "opened", "dial"} \/ pump["server"] = "wg") => st = <<>>
      <4>1. st # <<Ready>>
        <5>1. Len(<<Ready>>) = 1 /\ <<Ready>>[1] = Ready /\ 1 \in 1..1
          OBVIOUS
        <5> QED BY <3>2, <5>1, Zenon
      <4> QED BY <3>5, <4>1, Zenon
    <3>7. sent'["server"] \in {<<Ready>>, <<Error, Ready>>} /\ sent'["server"] # <<>>
          /\ (st = <<>> => sent'["server"] = <<Ready>>)
      BY <3>1, <3>4, Statuses, Zenon
    <3> QED BY <3>1, <3>2, <3>6, <3>7 DEF ServerStream
  <2>2. CASE SendReadyFails("server") \/ AwaitFails("server") \/ ReadySent("server")
             \/ NilChannelPanics("server")
    <3>1. /\ UNCHANGED <<sent, opener, pump, taken, ready["server"]>>
          /\ \/ reader'["server"] = "failed"
             \/ reader["server"] = "check"
             \/ reader' = reader
      BY <1>1, <2>2 DEF SendReadyFails, AwaitFails, ReadySent, NilChannelPanics, Panic, CloseSock,
         ControlTypes, FlagTypes, procs, chan, tcp
    <3> QED BY <3>1 DEF ServerStream
  <2>3. CASE AwaitReady("server")
    <3>1. /\ reader["server"] = "await" /\ UNCHANGED <<sent, opener, pump, taken>>
          /\ reader'["server"] \in {"connwait", "failed"}
      BY <1>1, <2>3 DEF AwaitReady, AfterAwait, ControlTypes, tcp
    <3>2. st # <<>> /\ ~ready["server"] /\ pump["server"] \in {"none", "wg"} /\ taken["server"] = 0
      BY <1>1, <3>1 DEF ServerStream, ServerFirst
    <3>3. CASE pump["server"] = "none"
      BY <3>1, <3>2, <3>3 DEF ServerStream
    <3>4. CASE pump["server"] = "wg"
      <4>1. st = <<Ready>>
        BY <3>2, <3>4 DEF ServerStream
      <4>2. Len(st) = 1 /\ st[1] = Ready /\ 2..Len(st) = {}
        BY <4>1, Singles
      <4> QED BY <3>1, <3>2, <3>4, <4>1, <4>2 DEF ServerStream
    <3> QED BY <3>2, <3>3, <3>4
  <2>4. CASE Relay("server")
    <3>1. /\ UNCHANGED <<sent, opener, pump, taken, ready>>
          /\ reader'["server"] \in {"recv", "write", "ended"}
      BY <1>1, <2>4 DEF Relay, Receive, ReceiveFails, Forward, ForwardFails, EndReader, CloseSock,
         ControlTypes, chan, tcp
    <3> QED BY <3>1 DEF ServerStream
  <2>5. CASE PumpSend("server")
    <3>1. /\ pump["server"] = "send" /\ pump'["server"] = "flow"
          /\ UNCHANGED <<taken, ready, reader, opener>>
          /\ sent'["server"] = Append(st, Data(taken["server"]))
      BY <1>1, <2>5 DEF PumpSend, WriteMessage, ControlTypes, TypeOK, ChannelTypes, tcp
    <3>2. ready["server"] /\ opener["server"] \notin {"idle", "opened", "dial"}
      BY <1>1, <3>1 DEF ServerFirst, NotYetDialled
    <3>3. st # <<>> /\ Len(st) = taken["server"] /\ Relaying
      BY <3>1, <3>2 DEF ServerStream, Relaying
    <3> DEFINE nst == sent'["server"]
    <3>4. /\ Len(nst) = Len(st) + 1 /\ nst[Len(st) + 1] = Data(taken["server"]) /\ nst # <<>>
          /\ \A i \in 1..Len(st) : nst[i] = st[i]
      <4>1. Data(taken["server"]) \in Message
        BY <1>2, MessageType
      <4> QED BY <1>2, <3>1, <4>1, Appended
    <3>5. Len(st) >= 1
      BY <1>2, <3>3
    <3> HIDE DEF nst, st
    <3>6. nst[1] = Ready
      BY <1>2, <3>3, <3>4, <3>5 DEF Relaying, st
    <3>7. ASSUME NEW i \in 2..Len(nst)
          PROVE  nst[i] = Data(i - 1) /\ i - 1 <= taken["server"]
      BY <1>2, <3>3, <3>4 DEF Relaying, st
    <3> QED BY <1>2, <3>1, <3>2, <3>3, <3>4, <3>6, <3>7 DEF ServerStream, nst
  <2>6. CASE PumpRead("server")
    <3>1. /\ pump["server"] = "read" /\ pump'["server"] = "send"
          /\ taken'["server"] = taken["server"] + 1
          /\ UNCHANGED <<sent, ready, reader, opener>>
      BY <1>1, <2>6 DEF PumpRead, ControlTypes, TypeOK, TcpTypes, chan
    <3>2. ready["server"] /\ opener["server"] \notin {"idle", "opened", "dial"}
      BY <1>1, <3>1 DEF ServerFirst, NotYetDialled
    <3> QED BY <1>2, <3>1, <3>2 DEF ServerStream
  <2>7. CASE (Pump("server") \/ PumpWake("server")) /\ ~PumpRead("server") /\ ~PumpSend("server")
    <3>1. /\ UNCHANGED <<sent, taken, ready, reader, opener>>
          /\ \/ /\ pump["server"] \in {"wg", "read", "flow", "more"}
                /\ pump'["server"] \in {"read", "more", "eos"}
             \/ pump["server"] # "none" /\ pump'["server"] \in {"close", "ended"}
      BY <1>1, <2>7 DEF Pump, PumpWake, PumpStart, PumpEOF, PumpSendFails, PumpFlow,
         PumpDrained, PumpClose, ControlTypes, chan, tcp
    <3>2. ready["server"] /\ opener["server"] \notin {"idle", "opened", "dial"}
      BY <1>1, <2>7 DEF ServerFirst, NotYetDialled, Pump, PumpWake, PumpStart, PumpEOF,
         PumpSendFails, PumpFlow, PumpDrained, PumpClose
    <3> QED BY <1>2, <3>1, <3>2 DEF ServerStream
  <2>8. CASE PeerGone("server") \/ NoticeCut("server") \/ PeerWrites("server")
             \/ \E how \in {"fin", "rst"} : PeerEnds("server", how)
    BY <2>8, ServerStreamFrame DEF PeerGone, NoticeCut, LinkDown, PeerWrites, PeerEnds,
       procs, chan, tcp, WriterView
  <2> QED BY <1>6, <2>1, <2>2, <2>3, <2>4, <2>5, <2>6, <2>7, <2>8 DEF SideStep, Handshake, Pump
<1>7. CASE (\E s \in Side : Deliver(s)) \/ Connect \/ NetworkCut \/ UNCHANGED vars
  BY <1>7, ServerStreamFrame DEF Deliver, Connect, NetworkCut, procs, tcp, chan, vars, WriterView
<1> QED BY <1>3, <1>4, <1>5, <1>6, <1>7 DEF Next

-----------------------------------------------------------------------------
(* What the application is given *)

\* What LocalStream speaks of, but for the messages.
ReaderView == <<rd["server"], out["client"], reader["client"]>>

LEMMA SentGrows ==
  ASSUME TypeOK, [Next]_vars, NEW s \in Side
  PROVE  \/ sent'[s] = sent[s]
         \/ \E m \in Message : sent'[s] = Append(sent[s], m)
<1>1. ASSUME NEW m \in Message, WriteMessage(s, m) PROVE sent'[s] = Append(sent[s], m)
  BY <1>1 DEF WriteMessage, TypeOK, ChannelTypes
<1>2. Data(taken[s]) \in Message
  BY SideFacts, MessageType
<1>3. CASE SendReady(s) \/ PumpSend(s)
  BY <1>1, <1>2, <1>3, MessageType DEF SendReady, PumpSend
<1>4. CASE s = "server" /\ (PumpEndOfStream \/ DialFails)
  BY <1>1, <1>4, MessageType DEF PumpEndOfStream, DialFails, chan
<1> QED BY <1>3, <1>4, SentCases

\* Messages are added behind those that were read.
LEMMA LocalStreamFrame ==
  ASSUME TypeOK, LocalStream, UNCHANGED ReaderView,
         \/ sent'["server"] = sent["server"]
         \/ \E m \in Message : sent'["server"] = Append(sent["server"], m)
  PROVE  LocalStream'
<1> DEFINE st == sent["server"]
           nst == sent'["server"]
<1>1. /\ st \in Seq(Message) /\ Len(st) \in Nat /\ rd["server"] \in Nat /\ Len(out["client"]) \in Nat
      /\ out["client"] \in Seq(Message) /\ rd["server"] <= Len(st)
  BY SideFacts, SideType
<1>2. \A i \in 1..Len(st) : nst[i] = st[i]
  BY <1>1, Appended
<1>3. rd["server"] >= 1 => nst[1] = st[1] /\ nst[rd["server"]] = st[rd["server"]]
  BY <1>1, <1>2
<1>4. out["client"] # <<>> => Len(out["client"]) >= 1
  BY <1>1
<1>5. \A i \in 1..Len(out["client"]) : nst[i + 1] = st[i + 1]
  <2>1. \A i \in 1..Len(out["client"]) : i + 1 \in 1..Len(st)
    BY <1>1 DEF LocalStream
  <2> QED BY <1>2, <2>1
<1> HIDE DEF nst
<1> QED BY <1>1, <1>3, <1>4, <1>5 DEF LocalStream, ReaderView, nst

LEMMA LocalStreamStep == StreamInv /\ LocalStream /\ [Next]_vars => LocalStream'
<1> SUFFICES ASSUME StreamInv, LocalStream, [Next]_vars PROVE LocalStream'
  OBVIOUS
<1> DEFINE st == sent["server"]
           n  == rd["server"]
           o  == out["client"]
<1>1. TypeOK /\ ControlTypes /\ FlagTypes /\ ClientStream
  BY DEF StreamInv, PrefixInv, TypeOK
<1>2. /\ st \in Seq(Message) /\ Len(st) \in Nat /\ n \in Nat /\ n <= Len(st) /\ n <= dlv["server"]
      /\ dlv["server"] <= Len(st) /\ dlv["server"] \in Nat
      /\ o \in Seq(Message) /\ Len(o) \in Nat
  BY <1>1, SideFacts, SideType
<1>3. UNCHANGED ReaderView => LocalStream'
  BY <1>1, SentGrows, LocalStreamFrame, SideType
<1> USE OtherSide, SideType
<1>4. CASE ~panicked["client"] /\ ClientStep
  <2>1. CASE Main \/ GiveUp \/ Delete
    BY <1>3, <2>1 DEF Main, Answer, ApplyAnswer, StartProxy, Return, GiveUp, Delete, ServeDelete,
       DeleteLost, CloseSock, SetPump, chan, tcp, ReaderView
  <2>2. CASE ClientOnOpen
    <3>1. /\ opener["client"] = "idle" /\ UNCHANGED <<sent, rd, out>>
          /\ reader'["client"] = "await" \/ reader' = reader
      BY <1>1, <2>2 DEF ClientOnOpen, Set, ControlTypes, chan, tcp
    <3>2. reader["client"] = "none"
      BY <1>1, <3>1 DEF ClientStream
    <3> QED BY <3>1, <3>2 DEF LocalStream
  <2>3. CASE AbortClient
    <3>1. /\ reader["client"] = "failed" /\ reader'["client"] = "ended"
          /\ UNCHANGED <<sent, rd, out>>
      BY <1>1, <2>3 DEF AbortClient, CloseSock, Set, ControlTypes, chan, tcp
    <3> QED BY <3>1 DEF LocalStream
  <2> QED BY <1>4, <2>1, <2>2, <2>3 DEF ClientStep
<1>5. CASE ~panicked["server"] /\ ServerStep
  <2>1. UNCHANGED ReaderView
    BY <1>1, <1>5 DEF ServerStep, ServePost, ServerOpen, ServerOnOpen, DetachPanics, Panic,
       StoreChannel, DialTarget, DialFails, CloseAfterError, AbortServer, ConnReady,
       PumpEndOfStream, WriteMessage, CloseSock, SetPump, Set, procs, chan, tcp,
       ControlTypes, ReaderView
  <2> QED BY <1>3, <2>1
<1>6. CASE SideStep("server")
  <2>1. UNCHANGED ReaderView
    BY <1>1, <1>6 DEF SideStep, Handshake, SendReady, SendReadyFails, ReadySent,
       NilChannelPanics, Panic, AwaitReady, AwaitFails, Relay, Receive, ReceiveFails,
       Forward, ForwardFails, EndReader, Pump, PumpWake, PumpStart, PumpRead, PumpEOF,
       PumpSend, PumpSendFails, PumpFlow, PumpDrained, PumpClose, PeerGone, NoticeCut,
       LinkDown, PeerWrites, PeerEnds, WriteMessage, CloseSock, SetPump, Set, procs,
       chan, tcp, ControlTypes, TypeOK, ChannelTypes, TcpTypes, ReaderView
  <2> QED BY <1>3, <2>1
<1>7. CASE SideStep("client")
  <2> USE DEF Set
  <2>1. CASE SendReady("client")
    <3>1. /\ reader["client"] = "send" /\ reader'["client"] = "check"
          /\ UNCHANGED <<sent["server"], rd, out>>
      BY <1>1, <2>1 DEF SendReady, WriteMessage, ControlTypes, TypeOK, ChannelTypes, tcp
    <3> QED BY <3>1 DEF LocalStream
  <2>2. CASE SendReadyFails("client") \/ AwaitFails("client")
    <3>1. /\ reader["client"] \in {"send", "await"} /\ reader'["client"] = "failed"
          /\ UNCHANGED <<sent, rd, out>>
      BY <1>1, <2>2 DEF SendReadyFails, AwaitFails, ControlTypes, chan, tcp
    <3> QED BY <3>1 DEF LocalStream
  <2>3. CASE ReadySent("client")
    <3>1. /\ reader["client"] = "check" /\ reader'["client"] = "recv"
          /\ UNCHANGED <<sent, rd, out>>
      BY <1>1, <2>3 DEF ReadySent, AfterSend, ControlTypes, chan, tcp
    <3>2. n = 1 /\ st[1] = Ready /\ o = <<>> /\ Len(<<>>) = 0
      BY <3>1 DEF LocalStream
    <3> QED BY <3>1, <3>2 DEF LocalStream
  <2>4. CASE NilChannelPanics("client")
    BY <1>3, <2>4 DEF NilChannelPanics, Panic, CloseSock, procs, chan, tcp, ReaderView
  \* The first message is the ready signal.
  <2>5. CASE AwaitReady("client")
    <3>1. /\ reader["client"] = "await" /\ rd'["server"] = n + 1 /\ UNCHANGED <<sent, out>>
          /\ \/ NextMessage("client") = Ready /\ reader'["client"] = "send"
             \/ reader'["client"] = "failed"
      BY <1>1, <2>5 DEF AwaitReady, AfterAwait, ControlTypes, TypeOK, ChannelTypes, tcp
    <3>2. n = 0 /\ o = <<>> /\ Len(<<>>) = 0
      BY <3>1 DEF LocalStream
    <3>3. NextMessage("client") = st[1]
      BY <3>2 DEF NextMessage
    <3> QED BY <3>1, <3>2, <3>3 DEF LocalStream
  <2>6. CASE Receive("client")
    <3>1. /\ reader["client"] = "recv" /\ rd'["server"] = n + 1 /\ UNCHANGED <<sent, out>>
          /\ \/ NextMessage("client") # Empty /\ reader'["client"] = "write"
             \/ reader'["client"] = "ended"
      BY <1>1, <2>6 DEF Receive, EndReader, ControlTypes, TypeOK, ChannelTypes, tcp
    <3>2. NextMessage("client") = st[n + 1]
      BY DEF NextMessage
    <3> QED BY <1>2, <3>1, <3>2 DEF LocalStream
  <2>7. CASE ReceiveFails("client") \/ ForwardFails("client")
    <3>1. /\ reader'["client"] = "ended" /\ UNCHANGED <<sent, rd, out>>
      BY <1>1, <2>7 DEF ReceiveFails, ForwardFails, EndReader, ControlTypes, chan, tcp
    <3> QED BY <3>1 DEF LocalStream
  <2>8. CASE Forward("client")
    <3>1. /\ reader["client"] = "write" /\ reader'["client"] = "recv" /\ UNCHANGED <<sent, rd>>
          /\ out'["client"] = Append(o, st[n])
      BY <1>1, <2>8 DEF Forward, ControlTypes, TypeOK, TcpTypes, chan
    <3>2. n >= 2 /\ st[1] = Ready /\ Len(o) = n - 2 /\ st[n] # Empty
          /\ \A i \in 1..Len(o) : o[i] = st[i + 1] /\ o[i] # Empty
      BY <3>1 DEF LocalStream
    <3> DEFINE no == out'["client"]
    <3>3. /\ Len(no) = Len(o) + 1 /\ no[Len(o) + 1] = st[n]
          /\ \A i \in 1..Len(o) : no[i] = o[i]
      <4>1. st[n] \in Message
        BY <1>2, <3>2
      <4> QED BY <1>2, <3>1, <4>1, Appended
    <3>4. n = (Len(o) + 1) + 1
      BY <1>2, <3>2
    <3> HIDE DEF no, o, st, n
    <3>5. ASSUME NEW i \in 1..Len(no) PROVE no[i] = st[i + 1] /\ no[i] # Empty
      <4>1. CASE i \in 1..Len(o)
        BY <3>2, <3>3, <4>1
      <4>2. CASE i \notin 1..Len(o)
        <5>1. i = Len(o) + 1 /\ i + 1 = n
          BY <1>2, <3>3, <3>4, <4>2
        <5> QED BY <3>2, <3>3, <5>1
      <4> QED BY <4>1, <4>2
    <3> QED BY <1>2, <3>1, <3>2, <3>3, <3>5 DEF LocalStream, no, st, n
  <2>9. CASE Pump("client") \/ PumpWake("client")
    BY <1>3, <2>9 DEF Pump, PumpWake, PumpStart, PumpRead, PumpEOF, PumpSend, PumpSendFails,
       PumpFlow, PumpDrained, PumpClose, WriteMessage, SetPump, chan, tcp, ReaderView
  <2>10. CASE PeerGone("client") \/ NoticeCut("client") \/ PeerWrites("client")
             \/ \E how \in {"fin", "rst"} : PeerEnds("client", how)
    BY <1>3, <2>10 DEF PeerGone, NoticeCut, LinkDown, PeerWrites, PeerEnds, procs, chan, tcp,
       ReaderView
  <2> QED BY <1>7, <2>1, <2>2, <2>3, <2>4, <2>5, <2>6, <2>7, <2>8, <2>9, <2>10
          DEF SideStep, Handshake, Relay
<1>8. CASE (\E s \in Side : Deliver(s)) \/ Connect \/ NetworkCut \/ UNCHANGED vars
  BY <1>3, <1>8 DEF Deliver, Connect, NetworkCut, procs, tcp, chan, vars, ReaderView
<1> QED BY <1>4, <1>5, <1>6, <1>7, <1>8 DEF Next

\* The signals of ready, and what a client's reader has done by then.
LEMMA ReadyCases ==
  ASSUME TypeOK, [Next]_vars
  PROVE  \/ ready'["client"] = ready["client"]
         \/ reader["client"] = "check"
<1>1. CASE ~panicked["client"] /\ ClientStep
  BY <1>1 DEF ClientStep, Main, Answer, ApplyAnswer, StartProxy, Return, GiveUp, ClientOnOpen,
     AbortClient, Delete, ServeDelete, DeleteLost, SetPump
<1>2. CASE ~panicked["server"] /\ ServerStep
  BY <1>2 DEF ServerStep, ServePost, ServerOpen, ServerOnOpen, DetachPanics, StoreChannel,
     DialTarget, DialFails, CloseAfterError, AbortServer, ConnReady, PumpEndOfStream,
     SetPump, procs
<1>3. ASSUME NEW s \in Side, SideStep(s)
      PROVE  ready'["client"] = ready["client"] \/ reader["client"] = "check"
  <2>1. CASE ReadySent(s)
    BY <2>1, SideType DEF ReadySent, Set, Side
  <2>2. CASE AwaitReady(s)
    <3>1. ready' = ready \/ (s = "server" /\ ready' = [ready EXCEPT !["server"] = TRUE])
      BY <2>2 DEF AwaitReady, Set
    <3>2. ready \in [Side -> BOOLEAN]
      BY DEF TypeOK, FlagTypes
    <3> QED BY <3>1, <3>2, SideType
  <2>3. CASE Handshake(s) /\ ~ReadySent(s) /\ ~AwaitReady(s)
    BY <2>3 DEF Handshake, SendReady, SendReadyFails, NilChannelPanics, AwaitFails, procs
  <2>4. CASE Relay(s)
    BY <2>4 DEF Relay, Receive, ReceiveFails, Forward, ForwardFails, EndReader
  <2>5. CASE Pump(s) \/ PumpWake(s)
    BY <2>5 DEF Pump, PumpWake, PumpStart, PumpRead, PumpEOF, PumpSend, PumpSendFails,
       PumpFlow, PumpDrained, PumpClose, SetPump
  <2>6. CASE PeerGone(s) \/ NoticeCut(s) \/ PeerWrites(s)
             \/ \E how \in {"fin", "rst"} : PeerEnds(s, how)
    BY <2>6 DEF PeerGone, NoticeCut, LinkDown, PeerWrites, PeerEnds, procs
  <2> QED BY <1>3, <2>1, <2>2, <2>3, <2>4, <2>5, <2>6 DEF SideStep
<1>4. CASE (\E s \in Side : Deliver(s)) \/ Connect \/ NetworkCut \/ UNCHANGED vars
  BY <1>4 DEF Deliver, Connect, NetworkCut, vars, procs
<1> QED BY <1>1, <1>2, <1>3, <1>4 DEF Next

\* What has been read stays read.
LEMMA ReadGrows ==
  ASSUME TypeOK, [Next]_vars
  PROVE  rd'["server"] >= rd["server"]
<1>1. rd["server"] \in Nat /\ rd \in [Side -> Nat]
  BY SideType DEF TypeOK, ChannelTypes
<1>2. UNCHANGED rd => rd'["server"] >= rd["server"]
  BY <1>1
<1>3. ASSUME NEW s \in Side, rd' = [rd EXCEPT ![Peer(s)] = @ + 1]
      PROVE  rd'["server"] >= rd["server"]
  BY <1>1, <1>3, SideType
<1>4. CASE ~panicked["client"] /\ ClientStep
  BY <1>2, <1>4 DEF ClientStep, Main, Answer, ApplyAnswer, StartProxy, Return, GiveUp, ClientOnOpen,
     AbortClient, Delete, ServeDelete, DeleteLost, chan
<1>5. CASE ~panicked["server"] /\ ServerStep
  BY <1>2, <1>5 DEF ServerStep, ServePost, ServerOpen, ServerOnOpen, DetachPanics, StoreChannel,
     DialTarget, DialFails, CloseAfterError, AbortServer, ConnReady, PumpEndOfStream,
     WriteMessage, chan
<1>6. ASSUME NEW s \in Side, SideStep(s) PROVE rd'["server"] >= rd["server"]
  <2>1. CASE AwaitReady(s) \/ Receive(s)
    BY <1>3, <2>1 DEF AwaitReady, Receive
  <2>2. CASE Handshake(s) /\ ~AwaitReady(s)
    BY <1>2, <2>2 DEF Handshake, SendReady, SendReadyFails, ReadySent, NilChannelPanics,
       AwaitFails, WriteMessage, chan
  <2>3. CASE Relay(s) /\ ~Receive(s)
    BY <1>2, <2>3 DEF Relay, ReceiveFails, Forward, ForwardFails, chan
  <2>4. CASE Pump(s) \/ PumpWake(s)
    BY <1>2, <2>4 DEF Pump, PumpWake, PumpStart, PumpRead, PumpEOF, PumpSend, PumpSendFails,
       PumpFlow, PumpDrained, PumpClose, WriteMessage, chan
  <2>5. CASE PeerGone(s) \/ NoticeCut(s) \/ PeerWrites(s)
             \/ \E how \in {"fin", "rst"} : PeerEnds(s, how)
    BY <1>2, <2>5 DEF PeerGone, NoticeCut, LinkDown, PeerWrites, PeerEnds, chan
  <2> QED BY <1>6, <2>1, <2>2, <2>3, <2>4, <2>5 DEF SideStep
<1>7. CASE (\E s \in Side : Deliver(s)) \/ Connect \/ NetworkCut \/ UNCHANGED vars
  BY <1>2, <1>7 DEF Deliver, Connect, NetworkCut, vars, chan
<1> QED BY <1>4, <1>5, <1>6, <1>7 DEF Next

LEMMA ClientHeardStep ==
  StreamInv /\ LocalStream /\ ClientHeard /\ [Next]_vars => ClientHeard'
<1> SUFFICES ASSUME StreamInv, LocalStream, ClientHeard, [Next]_vars, ready'["client"]
             PROVE  rd'["server"] >= 1 /\ sent'["server"][1] = Ready
  BY DEF ClientHeard
<1> DEFINE st == sent["server"]
           nst == sent'["server"]
           n == rd["server"]
<1>1. TypeOK
  BY DEF StreamInv, PrefixInv
<1>2. n >= 1 /\ st[1] = Ready
  <2>1. CASE ready["client"]
    BY <2>1 DEF ClientHeard
  <2>2. CASE reader["client"] = "check"
    BY <2>2 DEF LocalStream
  <2>3. ready["client"] \/ reader["client"] = "check"
    BY <1>1, ReadyCases
  <2> QED BY <2>1, <2>2, <2>3
<1>3. /\ st \in Seq(Message) /\ Len(st) \in Nat /\ n \in Nat /\ n <= Len(st)
  BY <1>1, SideFacts, SideType
<1>4. nst[1] = st[1]
  <2>1. nst = st \/ \E m \in Message : nst = Append(st, m)
    BY <1>1, SentGrows, SideType
  <2>2. 1 \in 1..Len(st)
    BY <1>2, <1>3
  <2> HIDE DEF st, nst
  <2> QED BY <1>3, <2>1, <2>2, Appended
<1>5. rd'["server"] >= n /\ rd'["server"] \in Nat
  <2>1. TypeOK'
    BY StreamStep DEF StreamInv, PrefixInv
  <2> QED BY <1>1, <2>1, ReadGrows, SideType DEF TypeOK, ChannelTypes
<1> QED BY <1>2, <1>3, <1>4, <1>5

-----------------------------------------------------------------------------
(* What follows *)

LEMMA ReplyInit == Init => ReplyInv
<1> SUFFICES ASSUME Init PROVE ReplyInv
  OBVIOUS
<1> USE SideType, OtherSide DEF Init
<1>1. DialledTogether /\ TargetHasAll
  BY DEF DialledTogether, TargetHasAll
<1>2. ServerStream
  BY DEF ServerStream
<1>3. LocalStream /\ ClientHeard
  BY DEF LocalStream, ClientHeard
<1> QED BY <1>1, <1>2, <1>3 DEF ReplyInv

LEMMA ReplyStep == StreamInv /\ ReplyInv /\ [Next]_vars => ReplyInv'
  BY TogetherStep, HasAllStep, ServerStreamStep, LocalStreamStep, ClientHeardStep
     DEF ReplyInv, StreamInv, PrefixInv

\* The inductive invariant of the way back, and of how the target connection
\* comes to be closed.
THEOREM ReplyInvariant == Spec => []ReplyInv
  BY StreamInit, StreamStep, ReplyInit, ReplyStep, PTL DEF Spec

\* Of all the ways in which the server closes the connection to a target that
\* has not reset it, only a DELETE (or the end of the process) comes before
\* what was received has been written.
THEOREM OnlyDeleteCutsOff == Spec => []OnlyDeleteTruncates
<1>1. ReplyInv => OnlyDeleteTruncates
  BY DEF ReplyInv, TargetHasAll, OnlyDeleteTruncates
<1> QED BY <1>1, ReplyInvariant, PTL

LEMMA HandshakeFirst == StreamInv /\ ReplyInv => DataAfterHandshake
<1> SUFFICES ASSUME StreamInv, ReplyInv PROVE DataAfterHandshake
  OBVIOUS
<1>1. /\ TypeOK /\ ClientStream /\ ServerFirst /\ TargetStream
      /\ ServerStream /\ ClientHeard
  BY DEF StreamInv, PrefixInv, ReplyInv
<1>2. ASSUME NEW s \in Side PROVE sent[s] \in Seq(Message) /\ Len(sent[s]) \in Nat
  BY <1>1, <1>2, SideFacts
<1>3. Ready.kind = "ready" /\ Error.kind = "error"
  BY DEF Ready, Error
\* The client: beyond its ready signal there is data only when it is ready.
<1>4. ASSUME NEW i \in 1..Len(sent["client"]), sent["client"][i].kind = "data"
      PROVE  /\ sent["client"][1] = Ready
             /\ rd["server"] >= 1 /\ sent["server"][1] = Ready
  <2>1. 1 \in 1..Len(sent["client"])
    BY <1>2, SideType
  <2>2. sent["client"][1] = Ready
    BY <1>1, <2>1 DEF ClientStream
  <2>3. i # 1
    BY <1>3, <1>4, <2>2
  <2>4. ~(Len(sent["client"]) <= 1)
    BY <1>2, <2>3, SideType
  <2>5. ready["client"]
    BY <1>1, <2>4 DEF ClientStream
  <2> QED BY <1>1, <2>2, <2>5 DEF ClientHeard
\* The server: without target, or before the handshake, there are only signals.
<1>5. ASSUME NEW i \in 1..Len(sent["server"]), sent["server"][i].kind = "data"
      PROVE  /\ sent["server"][1] = Ready
             /\ rd["client"] >= 1 /\ sent["client"][1] = Ready
  <2> DEFINE st == sent["server"]
  <2>1. st \notin {<<>>, <<Ready>>, <<Error>>, <<Ready, Error>>, <<Error, Ready>>}
    BY <1>3, <1>5
  <2>2. pump["server"] # "none" /\ ready["server"] /\ st[1] = Ready
    <3>1. pump["server"] # "none"
      BY <1>1, <2>1 DEF ServerStream
    <3>2. ready["server"]
      BY <1>1, <2>1, <3>1 DEF ServerStream, ServerFirst
    <3> QED BY <1>1, <3>1, <3>2 DEF ServerStream
  <2>3. rd["client"] >= 1 /\ rd["client"] <= Len(sent["client"])
    BY <1>1, <2>2, SideFacts, SideType DEF TargetStream
  <2>4. 1 \in 1..Len(sent["client"])
    BY <1>1, <1>2, <2>3, SideFacts, SideType
  <2> QED BY <1>1, <2>2, <2>3, <2>4 DEF ClientStream
<1> QED BY <1>4, <1>5 DEF DataAfterHandshake, Side, Peer

\* Neither end writes data before both have said that they are ready and the
\* writer has heard the other, whatever fails or closes meanwhile.
THEOREM AgreedBeforeData == Spec => []DataAfterHandshake
  BY StreamInvariant, ReplyInvariant, HandshakeFirst, PTL

LEMMA ReplyImplies == StreamInv /\ ReplyInv => LocalGetsPrefixOrError
<1> SUFFICES ASSUME StreamInv, ReplyInv PROVE LocalGetsPrefixOrError
  OBVIOUS
<1> DEFINE st == sent["server"]
           o  == out["client"]
<1>1. TypeOK /\ ServerFirst /\ DialledTogether /\ ServerStream /\ LocalStream
  BY DEF StreamInv, PrefixInv, ReplyInv
<1>2. /\ st \in Seq(Message) /\ Len(st) \in Nat /\ rd["server"] \in Nat /\ rd["server"] <= Len(st)
      /\ o \in Seq(Message) /\ Len(o) \in Nat
      /\ taken["server"] \in Nat /\ wrote["server"] \in Nat /\ taken["server"] <= wrote["server"]
  BY <1>1, SideFacts, SideType
<1>3. CASE o = <<>>
  <2>1. Len(o) = 0
    BY <1>3
  <2> QED BY <1>2, <2>1 DEF LocalGetsPrefixOrError
<1>4. CASE o # <<>>
  <2>1. /\ Len(o) >= 1 /\ Len(o) + 1 <= Len(st) /\ st[1] = Ready
        /\ \A i \in 1..Len(o) : o[i] = st[i + 1] /\ o[i] # Empty
    <3>1. Len(o) # 0
      BY <1>2, <1>4
    <3> QED BY <1>1, <1>2, <1>4, <3>1 DEF LocalStream
  <2>2. st # <<>> /\ st # <<Ready>> /\ st # <<Error>>
    <3>1. Len(<<>>) = 0 /\ Len(<<Ready>>) = 1 /\ Len(<<Error>>) = 1 /\ Len(st) >= 2
      BY <1>2, <2>1
    <3> QED BY <3>1
  <2>3. CASE pump["server"] = "none"
    <3>1. st \in {<<>>, <<Ready>>, <<Error>>, <<Ready, Error>>, <<Error, Ready>>}
      BY <1>1, <2>3 DEF ServerStream
    <3>2. <<Ready, Error>>[2] = Error /\ Len(<<Ready, Error>>) = 2 /\ <<Error, Ready>>[1] = Error
      BY Pairs
    <3>3. st = <<Ready, Error>>
      BY <2>1, <2>2, <3>1, <3>2, KindsDiffer, Zenon
    <3>4. st[2] = Error /\ Len(st) = 2
      BY <3>2, <3>3, Zenon
    <3> HIDE DEF st, o
    <3>5. Len(o) = 1 /\ o[1] = Error
      <4>1. Len(o) = 1
        <5>1. Len(o) \in Nat /\ Len(o) >= 1 /\ Len(o) + 1 <= 2
          BY <1>2, <2>1, <3>4, Zenon
        <5>2. \A k \in Nat : k >= 1 /\ k + 1 <= 2 => k = 1
          OBVIOUS
        <5> QED BY <5>1, <5>2, Zenon
      <4>2. o[1] = st[1 + 1]
        BY <2>1, <4>1
      <4> QED BY <3>4, <4>1, <4>2
    <3>6. o = <<Error>>
      <4>1. <<Error>> \in Seq(Message) /\ Len(<<Error>>) = 1 /\ <<Error>>[1] = Error
        BY MessageType, Singles
      <4>2. \A i \in 1..Len(o) : o[i] = <<Error>>[i]
        BY <3>5, <4>1
      <4> QED BY <1>2, <3>5, <4>1, <4>2, SameSeq
    <3>7. sock["server"] = "none"
      BY <1>1, <2>3 DEF DialledTogether
    <3> QED BY <3>6, <3>7 DEF LocalGetsPrefixOrError, o
  <2>4. CASE pump["server"] # "none"
    <3>1. ready["server"]
      BY <1>1, <2>2, <2>4 DEF ServerFirst, ServerStream
    <3>2. \A i \in 2..Len(st) : st[i] = Empty \/ (st[i] = Data(i - 1) /\ i - 1 <= taken["server"])
      BY <1>1, <2>4, <3>1 DEF ServerStream
    <3> HIDE DEF st, o
    <3>3. ASSUME NEW i \in 1..Len(o) PROVE o[i] = Data(i) /\ i <= taken["server"]
      <4>1. i + 1 \in 2..Len(st) /\ (i + 1) - 1 = i
        BY <1>2, <2>1
      <4> QED BY <2>1, <3>2, <4>1
    <3>4. Len(o) <= wrote["server"]
      <4>1. Len(o) \in 1..Len(o)
        BY <1>2, <2>1
      <4>2. Len(o) <= taken["server"]
        BY <3>3, <4>1
      <4> QED BY <1>2, <4>2
    <3> QED BY <3>3, <3>4 DEF LocalGetsPrefixOrError, o
  <2> QED BY <2>3, <2>4
<1> QED BY <1>3, <1>4

\* Whatever the interleaving, the failures and the network, the application is
\* given a prefix of what the target sent, unaltered and in order; or, when
\* the target could not be reached, SERVER_ERROR and nothing else.
THEOREM LocalStreamIntact == Spec => []LocalGetsPrefixOrError
<1>1. StreamInv /\ ReplyInv => LocalGetsPrefixOrError
  BY ReplyImplies
<1> QED BY <1>1, StreamInvariant, ReplyInvariant, PTL

-----------------------------------------------------------------------------
(* The way back is a Pipe *)

\* A socket is left as it is, dialled, or closed.
LEMMA SockCases ==
  ASSUME TypeOK, [Next]_vars, ~DialTarget, NEW s \in Side
  PROVE  sock'[s] = sock[s] \/ sock'[s] = "closed"
<1> DEFINE goal == sock'[s] = sock[s] \/ sock'[s] = "closed"
<1>1. ASSUME NEW t \in Side, CloseSock(t) PROVE goal
  BY <1>1 DEF CloseSock, Set, TypeOK, TcpTypes
<1>2. UNCHANGED tcp => goal
  BY DEF tcp
<1> USE SideType
<1>3. CASE ~panicked["client"] /\ ClientStep
  BY <1>1, <1>2, <1>3 DEF ClientStep, Main, Answer, ApplyAnswer, StartProxy, Return, GiveUp,
     ClientOnOpen, AbortClient, Delete, ServeDelete, DeleteLost
<1>4. CASE ~panicked["server"] /\ ServerStep
  BY <1>1, <1>2, <1>4 DEF ServerStep, ServePost, ServerOpen, ServerOnOpen, DetachPanics, Panic,
     StoreChannel, DialFails, CloseAfterError, AbortServer, ConnReady, PumpEndOfStream
<1>5. ASSUME NEW t \in Side, SideStep(t) PROVE goal
  <2>1. CASE Handshake(t)
    BY <1>1, <1>2, <2>1 DEF Handshake, SendReady, SendReadyFails, ReadySent, NilChannelPanics, Panic,
       AwaitReady, AwaitFails
  <2>2. CASE Relay(t)
    BY <1>1, <1>2, <2>2 DEF Relay, Receive, ReceiveFails, Forward, ForwardFails, EndReader
  <2>3. CASE Pump(t) \/ PumpWake(t) \/ PeerGone(t) \/ NoticeCut(t)
    BY <1>2, <2>3 DEF Pump, PumpWake, PumpStart, PumpRead, PumpEOF, PumpSend, PumpSendFails,
       PumpFlow, PumpDrained, PumpClose, PeerGone, NoticeCut, LinkDown
  <2>4. CASE PeerWrites(t) \/ \E how \in {"fin", "rst"} : PeerEnds(t, how)
    BY <2>4 DEF PeerWrites, PeerEnds
  <2> QED BY <1>5, <2>1, <2>2, <2>3, <2>4 DEF SideStep
<1>6. CASE (\E t \in Side : Deliver(t)) \/ Connect \/ NetworkCut \/ UNCHANGED vars
  BY <1>2, <1>6 DEF Deliver, Connect, NetworkCut, vars
<1> QED BY <1>3, <1>4, <1>5, <1>6 DEF Next

\* What the application has of the target's stream.
Got == IF sock["server"] = "none" THEN <<>> ELSE out["client"]

LEMMA ResponseInit == Init => ResponsePipe!Init
<1> SUFFICES ASSUME Init PROVE ResponsePipe!Init
  OBVIOUS
<1>1. wrote["server"] = 0 /\ sock["server"] = "none" /\ sock["client"] = "open"
  BY SideType, OtherSide DEF Init
<1>2. Reads(0) = <<>>
  BY DEF Reads
<1> QED BY <1>1, <1>2 DEF ResponsePipe!Init, Reads

\* Once the target was reached, the application has a beginning of what it wrote.
LEMMA GotBegins ==
  StreamInv /\ ReplyInv /\ sock["server"] # "none"
    => ResponsePipe!Begins(out["client"], Reads(wrote["server"]))
<1> SUFFICES ASSUME StreamInv, ReplyInv, sock["server"] # "none"
             PROVE  ResponsePipe!Begins(out["client"], Reads(wrote["server"]))
  OBVIOUS
<1>1. LocalGetsPrefixOrError /\ TypeOK
  BY ReplyImplies DEF StreamInv, PrefixInv
<1>2. wrote["server"] \in Nat /\ Len(out["client"]) \in Nat
  BY <1>1, SideFacts, SideType
<1>3. Len(Reads(wrote["server"])) = wrote["server"]
  BY <1>2, ReadsBegin
<1> QED BY <1>1, <1>2, <1>3 DEF ResponsePipe!Begins, LocalGetsPrefixOrError, Reads

LEMMA ResponseStep ==
  StreamInv /\ ReplyInv /\ StreamInv' /\ ReplyInv' /\ [Next]_vars
    => [ResponsePipe!Next]_(ResponsePipe!vars)
<1> SUFFICES ASSUME StreamInv, ReplyInv, StreamInv', ReplyInv', [Next]_vars
             PROVE  [ResponsePipe!Next]_(ResponsePipe!vars)
  OBVIOUS
<1> USE SideType, OtherSide
<1>1. TypeOK /\ TypeOK'
  BY DEF StreamInv, PrefixInv
<1>2. wrote'["server"] = wrote["server"] /\ Got' = Got
        /\ (sock'["client"] = "closed" <=> sock["client"] = "closed")
        => UNCHANGED ResponsePipe!vars
  BY DEF ResponsePipe!vars, Got
\* The client's socket may be closed by any step that moves no data.
<1>3. ASSUME UNCHANGED <<wrote, out>>, ~DialTarget,
             sock'["server"] = "none" <=> sock["server"] = "none"
      PROVE  [ResponsePipe!Next]_(ResponsePipe!vars)
  <2>1. Got' = Got
    BY <1>3 DEF Got
  <2>2. CASE sock'["client"] = sock["client"]
    BY <1>2, <1>3, <2>1, <2>2
  <2>3. CASE sock'["client"] = "closed" /\ sock["client"] # "closed"
    BY <1>3, <2>1, <2>3 DEF ResponsePipe!Next, ResponsePipe!End, Got
  <2> QED BY <1>1, <1>2, <1>3, <2>1, <2>2, <2>3, SockCases
<1>4. CASE SockKept /\ ~DialTarget
  BY <1>3, <1>4 DEF SockKept
<1>5. CASE SockCloses /\ ~DialTarget
  BY <1>3, <1>5 DEF SockCloses
\* When the target is dialled the application has been given nothing.
<1>6. CASE DialTarget
  <2>1. /\ opener["server"] = "dial" /\ UNCHANGED <<wrote, out>> /\ sock'["client"] = sock["client"]
    BY <1>1, <1>6 DEF DialTarget, Set, TypeOK, TcpTypes
  <2>2. sock["server"] = "none"
    BY <2>1 DEF StreamInv, NotYetDialled
  <2>3. out["client"] = <<>>
    <3>1. sent["server"] \in {<<>>, <<Ready>>}
      BY <2>1 DEF ReplyInv, ServerStream
    <3>2. Len(sent["server"]) <= 1
      <4>1. Len(<<>>) = 0 /\ Len(<<Ready>>) = 1
        BY Singles
      <4>2. Len(sent["server"]) \in {0, 1}
        BY <3>1, <4>1, Zenon
      <4> QED BY <4>2
    <3>3. ASSUME out["client"] # <<>> PROVE FALSE
      <4>1. Len(out["client"]) <= rd["server"] - 1
        BY <3>3 DEF ReplyInv, LocalStream
      <4>2. out["client"] \in Seq(Message) /\ Len(out["client"]) # 0
        BY <1>1, <3>3, SideFacts
      <4> QED BY <1>1, <3>2, <4>1, <4>2, SideFacts
    <3> QED BY <3>3
  <2>4. Got' = Got
    BY <2>1, <2>2, <2>3 DEF Got
  <2> QED BY <1>2, <2>1, <2>4
<1>7. ASSUME NEW s \in Side, Forward(s) PROVE [ResponsePipe!Next]_(ResponsePipe!vars)
  <2>1. UNCHANGED <<wrote, sock>>
    BY <1>7 DEF Forward
  <2>2. CASE s = "server" \/ sock["server"] = "none"
    <3>1. Got' = Got
      BY <1>1, <1>7, <2>1, <2>2 DEF Got, Forward, TypeOK, TcpTypes
    <3> QED BY <1>2, <2>1, <3>1
  <2>3. CASE s = "client" /\ sock["server"] # "none"
    <3>1. sock["client"] = "open"
      BY <1>7, <2>3 DEF Forward
    <3>2. PICK m : out'["client"] = Append(out["client"], m)
      BY <1>1, <1>7, <2>3 DEF Forward, TypeOK, TcpTypes
    <3>3. out["client"] \in Seq(Message) /\ out'["client"] \in Seq(Message)
      BY <1>1 DEF TypeOK, TcpTypes
    <3>4. ResponsePipe!Begins(out["client"], out'["client"])
      BY <3>2, <3>3 DEF ResponsePipe!Begins
    <3>5. (StreamInv /\ ReplyInv /\ sock["server"] # "none"
             => ResponsePipe!Begins(out["client"], Reads(wrote["server"])))'
      BY GotBegins, PTL
    <3>6. ResponsePipe!Begins(out'["client"], Reads(wrote["server"]))
      BY <2>1, <2>3, <3>5 DEF Reads, Data
    <3>7. ResponsePipe!Read
      BY <2>1, <2>3, <3>1, <3>3, <3>4, <3>6 DEF ResponsePipe!Read, Reads
    <3> QED BY <3>7 DEF ResponsePipe!Next
  <2> QED BY <2>2, <2>3
<1>8. ASSUME NEW s \in Side, PeerWrites(s) PROVE [ResponsePipe!Next]_(ResponsePipe!vars)
  <2>1. UNCHANGED <<sock, out>> /\ wrote["server"] \in Nat /\ wrote'["server"] \in Nat
    BY <1>1, <1>8 DEF PeerWrites, TypeOK, TcpTypes
  <2>2. wrote["server"] <= wrote'["server"]
    BY <1>1, <1>8 DEF PeerWrites, TypeOK, TcpTypes
  <2>3. /\ Reads(wrote'["server"]) \in Seq(Message)
        /\ ResponsePipe!Begins(Reads(wrote["server"]), Reads(wrote'["server"]))
    BY <2>1, <2>2, ReadsBegin DEF RequestPipe!Begins, ResponsePipe!Begins
  <2>4. ResponsePipe!Write
    BY <2>1, <2>3 DEF ResponsePipe!Write, Reads, Data
  <2> QED BY <2>4 DEF ResponsePipe!Next
<1> QED BY <1>1, <1>4, <1>5, <1>6, <1>7, <1>8, TargetCases

\* Once the target was reached, the way back is a Pipe too, through handshake,
\* back pressure, failures and the end of the target's stream.
THEOREM TunnelRepliesAsPipe == Spec => ResponseIsPipe
  BY StreamInit, StreamStep, ReplyInit, ReplyStep, ResponseInit, ResponseStep, PTL
     DEF Spec, ResponseIsPipe, ResponsePipe!Spec
=============================================================================
