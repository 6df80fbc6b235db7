-------------------------- MODULE WhetServerProofs --------------------------
(***************************************************************************)
(* Proofs about WhetServer for any number of names, listeners, dials and   *)
(* goroutines.  Each variable group is typed on its own; then each part of *)
(* ServerInv is shown to be kept by every step.  The last part proves that *)
(* a dialled connection is handed to one listener, once; Places counts, so *)
(* that proof rests on what Append and Tail do to a count.                 *)
(***************************************************************************)
EXTENDS WhetServer, FiniteSetTheorems, TLAPS

USE DEF life, maps, lsn, conn, accs

LEMMA ProcessesApart == Server \in Process /\ Closer \subseteq Process
  BY DEF Process

LEMMA InitTypes == Init => TypeOK
<1> SUFFICES ASSUME Init PROVE TypeOK
  OBVIOUS
<1>1. LifeTypes /\ MapTypes
  BY DEF Init, LifeTypes, MapTypes
<1>2. CloseTypes /\ ConnTypes /\ AcceptTypes
  BY DEF Init, CloseTypes, ConnTypes, AcceptTypes
<1> QED BY <1>1, <1>2 DEF TypeOK

LEMMA InitEstablishes == Init => ServerInv
<1> SUFFICES ASSUME Init PROVE ServerInv
  OBVIOUS
<1>1. TypeOK
  BY InitTypes
<1>2. TargetHasListener /\ ListenersAdded /\ ClosedThenMarked
  BY WhetServerAssumption DEF Init, TargetHasListener, ListenersAdded, ClosedThenMarked
<1>3. LoopProgress
  BY ProcessesApart DEF Init, LoopProgress
<1>4. ClosedIsEmpty
  BY DEF Init, ClosedIsEmpty
<1> QED BY <1>1, <1>2, <1>3, <1>4 DEF ServerInv

-----------------------------------------------------------------------------
(* Every step is one of these *)

\* The actions by what they change: the server, the maps, a Close, a
\* connection, an Accept, or nothing but panicked.
LifeStep == SetHttp \/ Serve \/ CloseServer \/ ListenerVisited
            \/ ListenersClosed \/ CloseHttp
MapStep == \E c \in Call : Add(c) \/ PutTarget(c) \/ PutListener(c)
CloseStep == \/ \E n \in Name : VisitListener(n)
             \/ \E p \in Closer, c \in Call : CloseListener(p, c)
             \/ \E p \in Process : CloseChan(p) \/ CloseMark(p)
DialStep == \E d \in Dial : \/ Request(d) \/ Post(d) \/ HandshakeEnds(d)
                            \/ NotFound(d) \/ Send(d)
AcceptStep == \/ \E a \in Acceptor, c \in Call : Accept(a, c)
              \/ \E a \in Acceptor : HandOff(a) \/ AcceptFails(a)
StopStep == \/ \E why \in {"send", "close", "map", "nil"} : Panic(why)
            \/ UNCHANGED vars

LEMMA StepCases ==
  [Next]_vars => \/ LifeStep \/ MapStep \/ CloseStep
                 \/ DialStep \/ AcceptStep \/ StopStep
<1>1. ASSUME NEW p \in Process, Closing(p) PROVE CloseStep \/ StopStep
  BY <1>1 DEF Closing, ClosePanics, CloseStep, StopStep
<1>2. ASSUME NEW d \in Dial, Dialling(d) PROVE DialStep \/ StopStep
  BY <1>2 DEF Dialling, SendPanics, DialStep, StopStep
<1>3. ServerClosing => LifeStep \/ CloseStep \/ StopStep
  BY DEF ServerClosing, NilHttpPanics, LifeStep, CloseStep, StopStep
<1>4. Adding => MapStep
  BY DEF Adding, MapStep
<1>5. MapRace => StopStep
  BY DEF MapRace, StopStep
<1>6. ASSUME Step PROVE LifeStep \/ MapStep \/ CloseStep \/ DialStep \/ AcceptStep \/ StopStep
  <2>1. CASE SetHttp \/ Serve \/ CloseServer
    BY <2>1 DEF LifeStep
  <2>2. CASE \E c \in Call : Add(c)
    BY <2>2 DEF MapStep
  <2>3. CASE \E p \in Closer, c \in Call : CloseListener(p, c)
    BY <2>3 DEF CloseStep
  <2>4. CASE \E d \in Dial : Request(d) \/ Post(d)
    BY <2>4 DEF DialStep
  <2>5. CASE \/ \E a \in Acceptor, c \in Call : Accept(a, c)
             \/ \E a \in Acceptor : HandOff(a) \/ AcceptFails(a)
    BY <2>5 DEF AcceptStep
  <2> QED BY <1>6, <1>1, <1>2, <1>3, <1>4, <1>5, <2>1, <2>2, <2>3, <2>4, <2>5 DEF Step
<1> QED BY <1>6 DEF Next, StopStep

-----------------------------------------------------------------------------
(* Types *)

LEMMA LifeTypesKept == TypeOK /\ [Next]_vars => LifeTypes'
<1> SUFFICES ASSUME TypeOK, [Next]_vars PROVE LifeTypes'
  OBVIOUS
<1> USE DEF TypeOK, LifeTypes
<1>1. CASE LifeStep
  BY <1>1 DEF LifeStep, SetHttp, Serve, CloseServer, ListenerVisited,
              ListenersClosed, CloseHttp
<1>2. CASE MapStep
  BY <1>2 DEF MapStep, Add, PutTarget, PutListener, MapTypes
<1>3. CASE CloseStep
  BY <1>3 DEF CloseStep, VisitListener, CloseListener, CloseChan, CloseMark
<1>4. CASE DialStep
  BY <1>4 DEF DialStep, Request, Post, HandshakeEnds, NotFound, Send
<1>5. CASE AcceptStep
  BY <1>5 DEF AcceptStep, Accept, HandOff, AcceptFails
<1>6. CASE StopStep
  BY <1>6 DEF StopStep, Panic, vars
<1> QED BY StepCases, <1>1, <1>2, <1>3, <1>4, <1>5, <1>6

LEMMA MapTypesKept == TypeOK /\ [Next]_vars => MapTypes'
<1> SUFFICES ASSUME TypeOK, [Next]_vars PROVE MapTypes'
  OBVIOUS
<1> USE DEF TypeOK, MapTypes
<1>1. CASE LifeStep
  BY <1>1 DEF LifeStep, SetHttp, Serve, CloseServer, ListenerVisited,
              ListenersClosed, CloseHttp
<1>2. CASE MapStep
  BY <1>2 DEF MapStep, Add, PutTarget, PutListener
<1>3. CASE CloseStep
  BY <1>3 DEF CloseStep, VisitListener, CloseListener, CloseChan, CloseMark
<1>4. CASE DialStep
  BY <1>4 DEF DialStep, Request, Post, HandshakeEnds, NotFound, Send
<1>5. CASE AcceptStep
  BY <1>5 DEF AcceptStep, Accept, HandOff, AcceptFails
<1>6. CASE StopStep
  BY <1>6 DEF StopStep, Panic, vars
<1> QED BY StepCases, <1>1, <1>2, <1>3, <1>4, <1>5, <1>6

LEMMA CloseTypesKept == ServerInv /\ [Next]_vars => CloseTypes'
<1> SUFFICES ASSUME ServerInv, [Next]_vars PROVE CloseTypes'
  OBVIOUS
<1> USE WhetServerAssumption, ProcessesApart DEF ServerInv, TypeOK, CloseTypes
<1>1. CASE LifeStep
  BY <1>1 DEF LifeStep, SetHttp, Serve, CloseServer, ListenerVisited,
              ListenersClosed, CloseHttp
<1>2. CASE MapStep
  BY <1>2 DEF MapStep, Add, PutTarget, PutListener
<1>3. CASE CloseStep
  <2>1. ASSUME NEW n \in Name, VisitListener(n) PROVE CloseTypes'
    <3>1. listeners[n] \in Call
      BY <2>1 DEF VisitListener, LoopProgress, ListenersAdded, MapTypes, LifeTypes
    <3>2. CASE isopen[listeners[n]]
      BY <2>1, <3>1, <3>2 DEF VisitListener
    <3>3. CASE ~isopen[listeners[n]]
      BY <2>1, <3>3 DEF VisitListener
    <3> QED BY <3>2, <3>3
  <2>2. ASSUME NEW p \in Closer, NEW c \in Call, CloseListener(p, c) PROVE CloseTypes'
    BY <2>2 DEF CloseListener
  <2>3. ASSUME NEW p \in Process, CloseChan(p) PROVE CloseTypes'
    BY <2>3 DEF CloseChan
  <2>4. ASSUME NEW p \in Process, CloseMark(p) PROVE CloseTypes'
    BY <2>4 DEF CloseMark
  <2> QED BY <1>3, <2>1, <2>2, <2>3, <2>4 DEF CloseStep
<1>4. CASE DialStep
  BY <1>4 DEF DialStep, Request, Post, HandshakeEnds, NotFound, Send
<1>5. CASE AcceptStep
  BY <1>5 DEF AcceptStep, Accept, HandOff, AcceptFails
<1>6. CASE StopStep
  BY <1>6 DEF StopStep, Panic, vars
<1> QED BY StepCases, <1>1, <1>2, <1>3, <1>4, <1>5, <1>6

LEMMA ConnTypesKept == TypeOK /\ [Next]_vars => ConnTypes'
<1> SUFFICES ASSUME TypeOK, [Next]_vars PROVE ConnTypes'
  OBVIOUS
<1> USE DEF TypeOK, ConnTypes
<1>1. CASE LifeStep
  BY <1>1 DEF LifeStep, SetHttp, Serve, CloseServer, ListenerVisited,
              ListenersClosed, CloseHttp
<1>2. CASE MapStep
  BY <1>2 DEF MapStep, Add, PutTarget, PutListener
<1>3. CASE CloseStep
  BY <1>3 DEF CloseStep, VisitListener, CloseListener, CloseChan, CloseMark
<1>4. CASE DialStep
  <2>1. ASSUME NEW d \in Dial, Send(d) PROVE ConnTypes'
    <3>1. listeners[wants[d]] \in Call
      BY <2>1 DEF Send, MapTypes
    <3> QED BY <2>1, <3>1 DEF Send
  <2>2. CASE \E d \in Dial : Request(d) \/ Post(d) \/ HandshakeEnds(d) \/ NotFound(d)
    BY <2>2 DEF Request, Post, HandshakeEnds, NotFound
  <2> QED BY <1>4, <2>1, <2>2 DEF DialStep
<1>5. CASE AcceptStep
  <2>1. ASSUME NEW a \in Acceptor, HandOff(a) PROVE ConnTypes'
    <3>1. on[a] \in Call
      BY <2>1 DEF HandOff, AcceptTypes
    <3>2. Head(sendq[on[a]]) \in Dial /\ Tail(sendq[on[a]]) \in Seq(Dial)
      BY <2>1, <3>1 DEF HandOff
    <3> QED BY <2>1, <3>1, <3>2 DEF HandOff
  <2>2. CASE \E a \in Acceptor, c \in Call : Accept(a, c)
    BY <2>2 DEF Accept
  <2>3. CASE \E a \in Acceptor : AcceptFails(a)
    BY <2>3 DEF AcceptFails
  <2> QED BY <1>5, <2>1, <2>2, <2>3 DEF AcceptStep
<1>6. CASE StopStep
  BY <1>6 DEF StopStep, Panic, vars
<1> QED BY StepCases, <1>1, <1>2, <1>3, <1>4, <1>5, <1>6

LEMMA AcceptTypesKept == TypeOK /\ [Next]_vars => AcceptTypes'
<1> SUFFICES ASSUME TypeOK, [Next]_vars PROVE AcceptTypes'
  OBVIOUS
<1> USE WhetServerAssumption DEF TypeOK, AcceptTypes
<1>1. CASE LifeStep
  BY <1>1 DEF LifeStep, SetHttp, Serve, CloseServer, ListenerVisited,
              ListenersClosed, CloseHttp
<1>2. CASE MapStep
  BY <1>2 DEF MapStep, Add, PutTarget, PutListener
<1>3. CASE CloseStep
  BY <1>3 DEF CloseStep, VisitListener, CloseListener, CloseChan, CloseMark
<1>4. CASE DialStep
  BY <1>4 DEF DialStep, Request, Post, HandshakeEnds, NotFound, Send
<1>5. CASE AcceptStep
  BY <1>5 DEF AcceptStep, Accept, HandOff, AcceptFails
<1>6. CASE StopStep
  BY <1>6 DEF StopStep, Panic, vars
<1> QED BY StepCases, <1>1, <1>2, <1>3, <1>4, <1>5, <1>6

-----------------------------------------------------------------------------
(* The parts of ServerInv *)

LEMMA ClosedThenMarkedKept == ServerInv /\ [Next]_vars => ClosedThenMarked'
<1> SUFFICES ASSUME ServerInv, [Next]_vars PROVE ClosedThenMarked'
  OBVIOUS
<1> USE DEF ServerInv, ClosedThenMarked, TypeOK, CloseTypes
<1>1. CASE LifeStep
  BY <1>1 DEF LifeStep, SetHttp, Serve, CloseServer, ListenerVisited,
              ListenersClosed, CloseHttp
<1>2. CASE MapStep
  BY <1>2 DEF MapStep, Add, PutTarget, PutListener
<1>3. CASE CloseStep
  BY <1>3 DEF CloseStep, VisitListener, CloseListener, CloseChan, CloseMark
<1>4. CASE DialStep
  BY <1>4 DEF DialStep, Request, Post, HandshakeEnds, NotFound, Send
<1>5. CASE AcceptStep
  BY <1>5 DEF AcceptStep, Accept, HandOff, AcceptFails
<1>6. CASE StopStep
  BY <1>6 DEF StopStep, Panic, vars
<1> QED BY StepCases, <1>1, <1>2, <1>3, <1>4, <1>5, <1>6

LEMMA ClosedIsEmptyKept == ServerInv /\ [Next]_vars => ClosedIsEmpty'
<1> SUFFICES ASSUME ServerInv, [Next]_vars PROVE ClosedIsEmpty'
  OBVIOUS
<1> USE WhetServerAssumption, ProcessesApart
      DEF ServerInv, ClosedIsEmpty, TypeOK, LifeTypes, MapTypes, CloseTypes, ConnTypes
<1>1. CASE LifeStep
  BY <1>1 DEF LifeStep, SetHttp, Serve, CloseServer, ListenerVisited,
              ListenersClosed, CloseHttp
<1>2. CASE MapStep
  BY <1>2 DEF MapStep, Add, PutTarget, PutListener
<1>3. CASE CloseStep
  <2>1. ASSUME NEW n \in Name, VisitListener(n) PROVE ClosedIsEmpty'
    <3>1. listeners[n] \in Call /\ add[listeners[n]] = "done"
      BY <2>1 DEF VisitListener, LoopProgress, ListenersAdded
    <3>2. UNCHANGED <<add, chan, sendq>>
      BY <2>1 DEF VisitListener
    <3>3. \/ UNCHANGED <<pc, closing>>
          \/ /\ pc' = [pc EXCEPT ![Server] = "close"]
             /\ closing' = [closing EXCEPT ![Server] = listeners[n]]
      BY <2>1 DEF VisitListener
    <3> QED BY <3>1, <3>2, <3>3
  <2>2. ASSUME NEW p \in Closer, NEW c \in Call, CloseListener(p, c) PROVE ClosedIsEmpty'
    BY <2>2 DEF CloseListener
  <2>3. ASSUME NEW p \in Process, CloseChan(p) PROVE ClosedIsEmpty'
    BY <2>3 DEF CloseChan
  <2>4. ASSUME NEW p \in Process, CloseMark(p) PROVE ClosedIsEmpty'
    BY <2>4 DEF CloseMark
  <2> QED BY <1>3, <2>1, <2>2, <2>3, <2>4 DEF CloseStep
<1>4. CASE DialStep
  \* Nobody sends on a closed channel and lives.
  <2>1. ASSUME NEW d \in Dial, Send(d) PROVE ClosedIsEmpty'
    <3>1. /\ chan[listeners[wants[d]]]
          /\ sendq' = [sendq EXCEPT ![listeners[wants[d]]] = Append(@, d)]
          /\ UNCHANGED <<add, chan, pc, closing>>
      BY <2>1 DEF Send
    <3> QED BY <3>1
  <2>2. CASE \E d \in Dial : Request(d) \/ Post(d) \/ HandshakeEnds(d) \/ NotFound(d)
    BY <2>2 DEF Request, Post, HandshakeEnds, NotFound
  <2> QED BY <1>4, <2>1, <2>2 DEF DialStep
<1>5. CASE AcceptStep
  <2>1. ASSUME NEW a \in Acceptor, HandOff(a) PROVE ClosedIsEmpty'
    <3>1. /\ sendq[on[a]] # <<>>
          /\ sendq' = [sendq EXCEPT ![on[a]] = Tail(@)]
          /\ UNCHANGED <<add, chan, pc, closing>>
      BY <2>1 DEF HandOff
    <3> QED BY <3>1
  <2>2. CASE \/ \E a \in Acceptor, c \in Call : Accept(a, c)
             \/ \E a \in Acceptor : AcceptFails(a)
    BY <2>2 DEF Accept, AcceptFails
  <2> QED BY <1>5, <2>1, <2>2 DEF AcceptStep
<1>6. CASE StopStep
  BY <1>6 DEF StopStep, Panic, vars
<1> QED BY StepCases, <1>1, <1>2, <1>3, <1>4, <1>5, <1>6

LEMMA ListenersAddedKept == ServerInv /\ [Next]_vars => ListenersAdded'
<1> SUFFICES ASSUME ServerInv, [Next]_vars PROVE ListenersAdded'
  OBVIOUS
<1> USE WhetServerAssumption DEF ServerInv, ListenersAdded, TypeOK, MapTypes, LifeTypes
<1>1. CASE LifeStep
  BY <1>1 DEF LifeStep, SetHttp, Serve, CloseServer, ListenerVisited,
              ListenersClosed, CloseHttp
<1>2. CASE MapStep
  BY <1>2 DEF MapStep, Add, PutTarget, PutListener
<1>3. CASE CloseStep
  BY <1>3 DEF CloseStep, VisitListener, CloseListener, CloseChan, CloseMark
<1>4. CASE DialStep
  BY <1>4 DEF DialStep, Request, Post, HandshakeEnds, NotFound, Send
<1>5. CASE AcceptStep
  BY <1>5 DEF AcceptStep, Accept, HandOff, AcceptFails
<1>6. CASE StopStep
  BY <1>6 DEF StopStep, Panic, vars
<1> QED BY StepCases, <1>1, <1>2, <1>3, <1>4, <1>5, <1>6

LEMMA TargetHasListenerKept == ServerInv /\ [Next]_vars => TargetHasListener'
<1> SUFFICES ASSUME ServerInv, [Next]_vars PROVE TargetHasListener'
  OBVIOUS
<1> USE WhetServerAssumption DEF ServerInv, TargetHasListener, TypeOK, MapTypes
<1>1. CASE LifeStep
  BY <1>1 DEF LifeStep, SetHttp, Serve, CloseServer, ListenerVisited,
              ListenersClosed, CloseHttp
<1>2. CASE MapStep
  <2>1. ASSUME NEW c \in Call, Add(c) PROVE TargetHasListener'
    BY <2>1 DEF Add
  <2>2. ASSUME NEW c \in Call, PutTarget(c) PROVE TargetHasListener'
    BY <2>2 DEF PutTarget
  <2>3. ASSUME NEW c \in Call, PutListener(c) PROVE TargetHasListener'
    BY <2>3 DEF PutListener
  <2> QED BY <1>2, <2>1, <2>2, <2>3 DEF MapStep
<1>3. CASE CloseStep
  BY <1>3 DEF CloseStep, VisitListener, CloseListener, CloseChan, CloseMark
<1>4. CASE DialStep
  BY <1>4 DEF DialStep, Request, Post, HandshakeEnds, NotFound, Send
<1>5. CASE AcceptStep
  BY <1>5 DEF AcceptStep, Accept, HandOff, AcceptFails
<1>6. CASE StopStep
  BY <1>6 DEF StopStep, Panic, vars
<1> QED BY StepCases, <1>1, <1>2, <1>3, <1>4, <1>5, <1>6

\* The loop of WhetServer.Close leaves no listener behind that it met and that
\* is still in the map.
LEMMA LoopProgressKept == ServerInv /\ [Next]_vars => LoopProgress'
<1> SUFFICES ASSUME ServerInv, [Next]_vars PROVE LoopProgress'
  OBVIOUS
<1> USE WhetServerAssumption, ProcessesApart
      DEF ServerInv, LoopProgress, TypeOK, LifeTypes, MapTypes, CloseTypes
<1>1. CASE LifeStep
  <2>1. CASE CloseServer
    BY <2>1 DEF CloseServer
  <2>2. CASE SetHttp \/ Serve \/ CloseHttp
    BY <2>2 DEF SetHttp, Serve, CloseHttp
  <2>3. CASE ListenerVisited \/ ListenersClosed
    BY <2>3 DEF ListenerVisited, ListenersClosed
  <2> QED BY <1>1, <2>1, <2>2, <2>3 DEF LifeStep
<1>2. CASE MapStep
  <2>1. ASSUME NEW c \in Call, Add(c) \/ PutTarget(c) PROVE LoopProgress'
    BY <2>1 DEF Add, PutTarget
  \* The new listener was not there when Close was called.
  <2>2. ASSUME NEW c \in Call, PutListener(c) PROVE LoopProgress'
    <3>1. name[c] \in Name /\ c \notin due
      BY <2>2 DEF PutListener, ListenersAdded
    <3>2. \A n \in Name : listeners'[n] = IF n = name[c] THEN c ELSE listeners[n]
      BY <2>2, <3>1 DEF PutListener
    <3>3. todo \subseteq todo' /\ todo' \subseteq todo \cup {name[c]}
      BY <2>2 DEF PutListener
    <3>4. srv \notin {"listeners", "visit"} => todo' = todo
      BY <2>2 DEF PutListener
    <3>5. UNCHANGED <<srv, due, chan, pc, closing>>
      BY <2>2 DEF PutListener
    <3> QED BY <3>1, <3>2, <3>3, <3>4, <3>5
  <2> QED BY <1>2, <2>1, <2>2 DEF MapStep
<1>3. CASE CloseStep
  <2>1. ASSUME NEW n \in Name, VisitListener(n) PROVE LoopProgress'
    <3>1. listeners[n] \in Call /\ srv = "listeners" /\ todo' = todo \ {n}
          /\ UNCHANGED <<listeners, due, chan>>
      BY <2>1 DEF VisitListener
    <3>2. CASE isopen[listeners[n]]
      <4>1. /\ srv' = "visit" /\ pc'[Server] = "close"
            /\ closing'[Server] = listeners[n]
        BY <2>1, <3>2 DEF VisitListener
      <4> QED BY <3>1, <4>1
    <3>3. CASE ~isopen[listeners[n]]
      <4>1. ~chan[listeners[n]]
        BY <3>1, <3>3 DEF ClosedThenMarked
      <4>2. UNCHANGED <<srv, pc, closing>>
        BY <2>1, <3>3 DEF VisitListener
      <4> QED BY <3>1, <4>1, <4>2
    <3> QED BY <3>2, <3>3
  <2>2. ASSUME NEW p \in Closer, NEW c \in Call, CloseListener(p, c) PROVE LoopProgress'
    BY <2>2 DEF CloseListener
  <2>3. ASSUME NEW p \in Process, CloseChan(p) PROVE LoopProgress'
    <3>1. closing[p] \in Call
      BY <2>3 DEF CloseChan
    <3>2. \A c \in Call : chan'[c] = IF c = closing[p] THEN FALSE ELSE chan[c]
      BY <2>3, <3>1 DEF CloseChan
    <3>3. pc' = [pc EXCEPT ![p] = "mark"] /\ pc[p] = "close"
          /\ UNCHANGED <<srv, todo, due, listeners, closing>>
      BY <2>3 DEF CloseChan
    <3>4. p = Server => srv = "visit"
      BY <2>3 DEF CloseChan
    <3> QED BY <3>1, <3>2, <3>3, <3>4
  <2>4. ASSUME NEW p \in Process, CloseMark(p) PROVE LoopProgress'
    BY <2>4 DEF CloseMark
  <2> QED BY <1>3, <2>1, <2>2, <2>3, <2>4 DEF CloseStep
<1>4. CASE DialStep
  BY <1>4 DEF DialStep, Request, Post, HandshakeEnds, NotFound, Send
<1>5. CASE AcceptStep
  BY <1>5 DEF AcceptStep, Accept, HandOff, AcceptFails
<1>6. CASE StopStep
  BY <1>6 DEF StopStep, Panic, vars
<1> QED BY StepCases, <1>1, <1>2, <1>3, <1>4, <1>5, <1>6

-----------------------------------------------------------------------------

LEMMA StepPreserves == ServerInv /\ [Next]_vars => ServerInv'
  BY LifeTypesKept, MapTypesKept, CloseTypesKept, ConnTypesKept, AcceptTypesKept,
     TargetHasListenerKept, ListenersAddedKept, ClosedThenMarkedKept,
     ClosedIsEmptyKept, LoopProgressKept
  DEF ServerInv, TypeOK

\* The inductive invariant: what the maps hold, what is marked closed, and how
\* far the loop of WhetServer.Close has come.
THEOREM InvariantHolds == Spec => []ServerInv
  BY InitEstablishes, StepPreserves, PTL DEF Spec

\* Every variable keeps its type.
THEOREM TypeCorrect == Spec => []TypeOK
<1>1. ServerInv => TypeOK
  BY DEF ServerInv
<1> QED BY InvariantHolds, <1>1, PTL

\* A name that can be dialled always has a listener, entered or about to be,
\* however AddListener and Close calls interleave.
THEOREM DialledNameHasListener == Spec => []TargetHasListener
<1>1. ServerInv => TargetHasListener
  BY DEF ServerInv
<1> QED BY InvariantHolds, <1>1, PTL

\* WhetServer.Close closes every listener that it met in the map and that was
\* not replaced, whatever other closers and AddListener calls do meanwhile.
THEOREM CloseReachesListed == Spec => []ListedAreClosed
<1>1. ServerInv => ListedAreClosed
  BY WhetServerAssumption
  DEF ServerInv, LoopProgress, ListedAreClosed
<1> QED BY InvariantHolds, <1>1, PTL

-----------------------------------------------------------------------------
(* A dialled connection is handed over once *)

\* How often d occurs in a queue.
At(s, d) == {i \in DOMAIN s : s[i] = d}
Count(s, d) == Cardinality(At(s, d))

LEMMA CountIsNatural ==
  ASSUME NEW s \in Seq(Dial), NEW d
  PROVE  IsFiniteSet(At(s, d)) /\ Count(s, d) \in Nat
<1>1. DOMAIN s = 1..Len(s) /\ Len(s) \in Int
  OBVIOUS
<1>2. IsFiniteSet(1..Len(s))
  BY <1>1, FS_Interval
<1>3. At(s, d) \in SUBSET (1..Len(s))
  BY <1>1 DEF At
<1> QED BY <1>2, <1>3, FS_Subset, FS_CardinalityType DEF Count

LEMMA CountEmpty ==
  ASSUME NEW d PROVE Count(<<>>, d) = 0
<1>1. At(<<>>, d) = {}
  BY DEF At
<1> QED BY <1>1, FS_EmptySet DEF Count

LEMMA CountAppend ==
  ASSUME NEW s \in Seq(Dial), NEW e \in Dial, NEW d
  PROVE  Count(Append(s, e), d) = Count(s, d) + (IF e = d THEN 1 ELSE 0)
<1> DEFINE n == Len(s) + 1
           t == Append(s, e)
<1>1. /\ Len(s) \in Nat /\ DOMAIN s = 1..Len(s) /\ DOMAIN t = 1..n
      /\ \A i \in 1..Len(s) : t[i] = s[i]
      /\ t[n] = e
  OBVIOUS
<1>2. IsFiniteSet(At(s, d)) /\ n \notin At(s, d)
  <2>1. IsFiniteSet(At(s, d))
    BY CountIsNatural
  <2>2. n \notin At(s, d)
    BY <1>1 DEF At
  <2> QED BY <2>1, <2>2
<1>3. CASE e = d
  <2>1. At(t, d) = At(s, d) \cup {n}
    BY <1>1, <1>3 DEF At
  <2> QED BY <1>2, <1>3, <2>1, FS_AddElement DEF Count
<1>4. CASE e # d
  <2>1. At(t, d) = At(s, d)
    BY <1>1, <1>4 DEF At
  <2> QED BY <1>2, <1>4, <2>1, CountIsNatural DEF Count
<1> QED BY <1>3, <1>4

\* The positions in the tail are those after the first, shifted by one.
LEMMA CountTail ==
  ASSUME NEW s \in Seq(Dial), s # <<>>, NEW d
  PROVE  Count(s, d) = Count(Tail(s), d) + (IF Head(s) = d THEN 1 ELSE 0)
<1> DEFINE t == Tail(s)
           f == [i \in At(t, d) |-> i + 1]
           After == At(s, d) \ {1}
<1>1. /\ Len(s) \in Nat \ {0} /\ DOMAIN s = 1..Len(s) /\ DOMAIN t = 1..(Len(s) - 1)
      /\ t \in Seq(Dial)
      /\ \A i \in 1..(Len(s) - 1) : t[i] = s[i + 1]
      /\ Head(s) = s[1]
  OBVIOUS
<1>2. f \in Bijection(At(t, d), After)
  <2>1. \A i \in At(t, d) : f[i] \in After
    BY <1>1 DEF At
  <2>2. \A i, j \in At(t, d) : f[i] = f[j] => i = j
    BY <1>1 DEF At
  <2>3. ASSUME NEW k \in After PROVE \E i \in At(t, d) : f[i] = k
    <3>1. k - 1 \in At(t, d) /\ (k - 1) + 1 = k
      BY <1>1 DEF At
    <3> QED BY <3>1
  <2> QED BY <2>1, <2>2, <2>3 DEF Bijection, Injection, Surjection, IsInjective
<1>3. Cardinality(After) = Count(t, d)
  <2>1. IsFiniteSet(At(t, d))
    BY <1>1, CountIsNatural
  <2>2. ExistsBijection(At(t, d), After)
    BY <1>2 DEF ExistsBijection
  <2> HIDE DEF t, f, After
  <2> QED BY <2>1, <2>2, FS_Bijection DEF Count
<1>4. IsFiniteSet(At(s, d)) /\ Count(s, d) \in Nat
  BY CountIsNatural
<1>5. 1 \in At(s, d) <=> Head(s) = d
  BY <1>1 DEF At
<1>6. Cardinality(After) = IF 1 \in At(s, d) THEN Count(s, d) - 1 ELSE Count(s, d)
  BY <1>4, FS_RemoveElement DEF Count
<1> HIDE DEF t, f, After
<1>7. CASE 1 \in At(s, d)
  BY <1>3, <1>4, <1>5, <1>6, <1>7 DEF t
<1>8. CASE 1 \notin At(s, d)
  BY <1>3, <1>4, <1>5, <1>6, <1>8 DEF t
<1> QED BY <1>7, <1>8

-----------------------------------------------------------------------------
(* The hand-off *)

InHand(d) == dial[d] \in {"send", "handed"}

LEMMA PlacesCounts ==
  ASSUME NEW d, NEW c
  PROVE  Places(d, c) = Count(sendq[c], d) + Count(taken[c], d)
  BY DEF Places, Count, At

LEMMA PlacesType ==
  ASSUME TypeOK, NEW d, NEW c \in Call
  PROVE  /\ Count(sendq[c], d) \in Nat /\ Count(taken[c], d) \in Nat
         /\ Places(d, c) \in Nat
<1>1. sendq[c] \in Seq(Dial) /\ taken[c] \in Seq(Dial)
  BY DEF TypeOK, ConnTypes
<1> QED BY <1>1, CountIsNatural, PlacesCounts

\* A step that moves nobody between the hands keeps HandedOnce.
LEMMA HandsKept ==
  ASSUME HandedOnce, UNCHANGED <<wants, name>>,
         \A c \in Call : add[c] = "done" => add'[c] = "done",
         \A d \in Dial : InHand(d)' <=> InHand(d),
         \A d \in Dial, c \in Call : Places(d, c)' = Places(d, c)
  PROVE  HandedOnce'
  BY DEF HandedOnce, InHand

LEMMA QueuesKept ==
  ASSUME UNCHANGED <<sendq, taken>>
  PROVE  \A d \in Dial, c \in Call : Places(d, c)' = Places(d, c)
  BY DEF Places

\* A send enters the queue of a listener of the right name, once.
LEMMA SendKeeps ==
  ASSUME ServerInv, HandedOnce, NEW d \in Dial, NEW c \in Call,
         listeners[wants[d]] = c, Send(d)
  PROVE  HandedOnce'
<1>1. /\ dial[d] = "lookup" /\ name[c] = wants[d] /\ add[c] = "done"
      /\ dial' = [dial EXCEPT ![d] = "send"]
      /\ sendq' = [sendq EXCEPT ![c] = Append(@, d)]
      /\ UNCHANGED <<add, name, wants, taken>>
  BY DEF Send, ServerInv, TypeOK, MapTypes, ConnTypes, ListenersAdded
<1>2. /\ sendq'[c] = Append(sendq[c], d) /\ sendq[c] \in Seq(Dial)
      /\ \A b \in Call \ {c} : sendq'[b] = sendq[b]
  BY <1>1 DEF ServerInv, TypeOK, ConnTypes
<1>3. \A e \in Dial : InHand(e)' <=> (InHand(e) \/ e = d)
  BY <1>1 DEF InHand, ServerInv, TypeOK, ConnTypes
<1>4. \A b \in Call : Places(d, b) = 0
  BY <1>1 DEF HandedOnce
<1>5. ASSUME NEW e \in Dial, NEW b \in Call, b # c \/ e # d
      PROVE  Places(e, b)' = Places(e, b)
  <2>1. CASE b # c
    BY <1>1, <1>2, <2>1 DEF Places
  <2>2. CASE b = c /\ e # d
    <3>1. Count(sendq'[c], e) = Count(sendq[c], e) + 0
      BY <1>2, <2>2, CountAppend
    <3>2. Count(sendq[c], e) \in Nat
      BY <1>2, CountIsNatural
    <3>3. Places(e, c)' = Count(sendq'[c], e) + Count(taken[c], e)
      BY <1>1 DEF Places, Count, At
    <3> QED BY <2>2, <3>1, <3>2, <3>3, PlacesCounts
  <2> QED BY <1>5, <2>1, <2>2
<1>6. Places(d, c)' = 1
  <2>1. Count(sendq'[c], d) = Count(sendq[c], d) + 1
    BY <1>2, CountAppend
  <2>2. /\ Count(sendq[c], d) \in Nat /\ Count(taken[c], d) \in Nat
        /\ Count(sendq[c], d) + Count(taken[c], d) = 0
    BY <1>1, <1>4, PlacesType, PlacesCounts DEF ServerInv
  <2>3. Places(d, c)' = Count(sendq'[c], d) + Count(taken[c], d)
    BY <1>1 DEF Places, Count, At
  <2> QED BY <2>1, <2>2, <2>3
<1>7. \A e \in Dial, b \in Call : (Places(e, b) > 0)' => name'[b] = wants'[e] /\ add'[b] = "done"
  BY <1>1, <1>5, <1>6 DEF HandedOnce
<1>8. ASSUME NEW e \in Dial, InHand(e)'
      PROVE  \E b \in Call : Places(e, b)' = 1 /\ \A x \in Call \ {b} : Places(e, x)' = 0
  <2>1. CASE e = d
    BY <1>1, <1>4, <1>5, <1>6, <2>1
  <2>2. CASE e # d
    BY <1>3, <1>5, <1>8, <2>2 DEF HandedOnce, InHand
  <2> QED BY <2>1, <2>2
<1>9. ASSUME NEW e \in Dial, ~InHand(e)' PROVE \A b \in Call : Places(e, b)' = 0
  BY <1>3, <1>5, <1>9 DEF HandedOnce, InHand
<1> QED BY <1>7, <1>8, <1>9 DEF HandedOnce, InHand

\* A hand-off takes the first of the queue from it and accepts it.
LEMMA HandOffKeeps ==
  ASSUME ServerInv, HandedOnce, NEW a \in Acceptor, NEW c \in Call, NEW h \in Dial,
         on[a] = c, h = Head(sendq[c]), HandOff(a)
  PROVE  HandedOnce'
<1>1. /\ sendq[c] \in Seq(Dial) /\ taken[c] \in Seq(Dial) /\ sendq[c] # <<>>
      /\ sendq' = [sendq EXCEPT ![c] = Tail(@)]
      /\ taken' = [taken EXCEPT ![c] = Append(@, h)]
      /\ dial' = [dial EXCEPT ![h] = "handed"]
      /\ UNCHANGED <<add, name, wants>>
  BY DEF HandOff, ServerInv, TypeOK, ConnTypes, AcceptTypes
<1>3. /\ sendq'[c] = Tail(sendq[c]) /\ taken'[c] = Append(taken[c], h)
      /\ \A b \in Call \ {c} : sendq'[b] = sendq[b] /\ taken'[b] = taken[b]
  BY <1>1 DEF ServerInv, TypeOK, ConnTypes
<1>4. ASSUME NEW e \in Dial, NEW b \in Call PROVE Places(e, b)' = Places(e, b)
  <2>1. CASE b # c
    BY <1>3, <2>1 DEF Places
  <2>2. CASE b = c
    <3> DEFINE one == IF h = e THEN 1 ELSE 0
    <3>1. Count(sendq[c], e) = Count(Tail(sendq[c]), e) + one
      BY <1>1, CountTail
    <3>2. Count(Append(taken[c], h), e) = Count(taken[c], e) + one
      BY <1>1, CountAppend
    <3>3. /\ Tail(sendq[c]) \in Seq(Dial)
          /\ Count(Tail(sendq[c]), e) \in Nat /\ Count(taken[c], e) \in Nat
      <4>1. Tail(sendq[c]) \in Seq(Dial)
        BY <1>1
      <4> QED BY <1>1, <4>1, CountIsNatural
    <3>4. Places(e, c)' = Count(Tail(sendq[c]), e) + Count(Append(taken[c], h), e)
      BY <1>3 DEF Places, Count, At
    <3>5. Places(e, c) = Count(sendq[c], e) + Count(taken[c], e)
      BY PlacesCounts
    <3>6. one \in Nat
      OBVIOUS
    <3> HIDE DEF one
    <3> QED BY <2>2, <3>1, <3>2, <3>3, <3>4, <3>5, <3>6
  <2> QED BY <2>1, <2>2
<1>5. InHand(h)
  <2>1. Count(sendq[c], h) = Count(Tail(sendq[c]), h) + 1
    BY <1>1, CountTail
  <2>2. Count(Tail(sendq[c]), h) \in Nat /\ Count(taken[c], h) \in Nat
    <3>1. Tail(sendq[c]) \in Seq(Dial)
      BY <1>1
    <3> QED BY <1>1, <3>1, CountIsNatural
  <2>3. Places(h, c) = Count(sendq[c], h) + Count(taken[c], h)
    BY PlacesCounts
  <2>4. Places(h, c) # 0
    BY <2>1, <2>2, <2>3
  <2> QED BY <2>4 DEF HandedOnce, InHand
<1>6. \A e \in Dial : InHand(e)' <=> InHand(e)
  BY <1>1, <1>5 DEF InHand, ServerInv, TypeOK, ConnTypes
<1> QED BY <1>1, <1>4, <1>6, HandsKept

LEMMA HandedOnceKept == ServerInv /\ HandedOnce /\ [Next]_vars => HandedOnce'
<1> SUFFICES ASSUME ServerInv, HandedOnce, [Next]_vars PROVE HandedOnce'
  OBVIOUS
<1>1. ASSUME UNCHANGED <<conn, name>>, \A c \in Call : add[c] = "done" => add'[c] = "done"
      PROVE  HandedOnce'
  BY <1>1, QueuesKept, HandsKept DEF InHand
<1>2. CASE LifeStep
  BY <1>1, <1>2 DEF LifeStep, SetHttp, Serve, CloseServer, ListenerVisited, ListenersClosed, CloseHttp
<1>3. CASE MapStep
  BY <1>1, <1>3 DEF MapStep, Add, PutTarget, PutListener, ServerInv, TypeOK, MapTypes
<1>4. CASE CloseStep
  BY <1>1, <1>4 DEF CloseStep, VisitListener, CloseListener, CloseChan, CloseMark
<1>5. CASE DialStep
  <2>1. ASSUME NEW d \in Dial, Request(d) \/ Post(d) \/ HandshakeEnds(d) \/ NotFound(d)
        PROVE  HandedOnce'
    <3>1. /\ ~InHand(d)
          /\ \E r \in {"request", "posted", "failed", "lookup", "notfound"} :
               dial' = [dial EXCEPT ![d] = r]
          /\ UNCHANGED <<sendq, taken, wants, name, add>>
      BY <2>1 DEF Request, Post, HandshakeEnds, NotFound, InHand
    <3>2. \A e \in Dial : InHand(e)' <=> InHand(e)
      BY <3>1 DEF InHand, ServerInv, TypeOK, ConnTypes
    <3> QED BY <3>1, <3>2, QueuesKept, HandsKept
  <2>2. ASSUME NEW d \in Dial, Send(d) PROVE HandedOnce'
    <3>1. listeners[wants[d]] \in Call
      BY <2>2 DEF Send, ServerInv, TypeOK, MapTypes, ConnTypes
    <3> QED BY <2>2, <3>1, SendKeeps
  <2> QED BY <1>5, <2>1, <2>2 DEF DialStep
<1>6. CASE AcceptStep
  <2>1. ASSUME NEW a \in Acceptor, NEW c \in Call, Accept(a, c) PROVE HandedOnce'
    BY <1>1, <2>1 DEF Accept
  <2>2. ASSUME NEW a \in Acceptor, AcceptFails(a) PROVE HandedOnce'
    BY <1>1, <2>2 DEF AcceptFails
  <2>3. ASSUME NEW a \in Acceptor, HandOff(a) PROVE HandedOnce'
    <3>1. on[a] \in Call
      BY <2>3 DEF HandOff, ServerInv, TypeOK, AcceptTypes
    <3>2. sendq[on[a]] \in Seq(Dial) /\ sendq[on[a]] # <<>>
      BY <2>3, <3>1 DEF HandOff, ServerInv, TypeOK, ConnTypes
    <3>3. Head(sendq[on[a]]) \in Dial
      BY <3>2
    <3> QED BY <2>3, <3>1, <3>3, HandOffKeeps
  <2> QED BY <1>6, <2>1, <2>2, <2>3 DEF AcceptStep
<1>7. CASE StopStep
  BY <1>1, <1>7 DEF StopStep, Panic, vars
<1> QED BY StepCases, <1>2, <1>3, <1>4, <1>5, <1>6, <1>7

LEMMA NoHandsAtFirst == Init => HandedOnce
<1> SUFFICES ASSUME Init PROVE HandedOnce
  OBVIOUS
<1>1. \A d \in Dial, c \in Call : Places(d, c) = 0
  BY CountEmpty, PlacesCounts DEF Init
<1> QED BY <1>1 DEF HandedOnce, Init

\* A dialled connection is blocked on, or accepted by, one listener, once, and
\* that listener was added for the name that was dialled: whatever AddListener,
\* Close and Accept do meanwhile.
THEOREM HandedToOne == Spec => []HandedOnce
<1>1. ServerInv /\ HandedOnce /\ [Next]_vars => ServerInv' /\ HandedOnce'
  BY StepPreserves, HandedOnceKept
<1>2. Init => ServerInv /\ HandedOnce
  BY InitEstablishes, NoHandsAtFirst
<1> QED BY <1>1, <1>2, PTL DEF Spec

-----------------------------------------------------------------------------
(* The server as a Listening *)

State(c) == CASE ~chan[c] -> "closed"
              [] chan[c] /\ add[c] = "done" -> "open"
              [] OTHER -> "new"
Mapped == [c \in Call |-> State(c)]

LEMMA ListensInit == Init => Listens!Init
  BY DEF Init, Listens!Init

\* A step that touches neither the channels nor an unfinished AddListener, nor
\* what was accepted, is a stutter.
LEMMA Unseen ==
  ASSUME UNCHANGED <<name, wants, add, chan, taken>> PROVE UNCHANGED Listens!vars
  BY DEF Listens!vars

\* One listener changes its state.
LEMMA Entered ==
  ASSUME NEW c \in Call, NEW from, NEW to,
         State(c) = from, State(c)' = to,
         \A b \in Call \ {c} : State(b)' = State(b),
         UNCHANGED <<name, wants, taken>>
  PROVE  Listens!Enter(c, from, to)
<1>1. Mapped' = [Mapped EXCEPT ![c] = to]
  BY DEF Mapped
<1>2. Mapped[c] = from
  BY DEF Mapped
<1> QED BY <1>1, <1>2 DEF Listens!Enter, Mapped, State

\* What is at the head of a queue was accepted nowhere.
LEMMA HeadIsNew ==
  ASSUME ServerInv, HandedOnce, NEW c \in Call, sendq[c] # <<>>
  PROVE  /\ Head(sendq[c]) \in Dial
         /\ name[c] = wants[Head(sendq[c])]
         /\ ~Listens!Accepted(Head(sendq[c]))
<1> DEFINE h == Head(sendq[c])
<1>1. TypeOK /\ sendq[c] \in Seq(Dial) /\ h \in Dial /\ Tail(sendq[c]) \in Seq(Dial)
  BY DEF ServerInv, TypeOK, ConnTypes
<1> HIDE DEF h
<1>2. Count(sendq[c], h) = Count(Tail(sendq[c]), h) + 1
  BY <1>1, CountTail DEF h
<1>3. Count(Tail(sendq[c]), h) \in Nat
  BY <1>1, CountIsNatural
<1>4. ASSUME NEW b \in Call
      PROVE  /\ Count(sendq[b], h) \in Nat /\ Count(taken[b], h) \in Nat
             /\ Places(h, b) = Count(sendq[b], h) + Count(taken[b], h)
  BY <1>1, PlacesType, PlacesCounts
<1>5. Places(h, c) > 0
  BY <1>2, <1>3, <1>4
<1>6. InHand(h)
  BY <1>1, <1>5, <1>4 DEF HandedOnce, InHand
<1>7. PICK b \in Call : Places(h, b) = 1 /\ \A x \in Call \ {b} : Places(h, x) = 0
  BY <1>1, <1>6 DEF HandedOnce, InHand
<1>8. b = c
  BY <1>5, <1>7
<1>9. \A x \in Call : Count(taken[x], h) = 0
  <2>1. Count(taken[c], h) = 0
    BY <1>2, <1>3, <1>4, <1>7, <1>8
  <2>2. ASSUME NEW x \in Call \ {c} PROVE Count(taken[x], h) = 0
    BY <1>4, <1>7, <1>8
  <2> QED BY <2>1, <2>2
<1>10. ASSUME NEW x \in Call, NEW i \in DOMAIN taken[x], taken[x][i] = h PROVE FALSE
  <2>1. i \in At(taken[x], h)
    BY <1>10 DEF At
  <2>2. IsFiniteSet(At(taken[x], h))
    BY <1>1, CountIsNatural DEF TypeOK, ConnTypes
  <2>3. At(taken[x], h) = {}
    BY <1>9, <2>2, FS_EmptySet DEF Count
  <2> QED BY <2>1, <2>3
<1>11. name[c] = wants[h]
  BY <1>1, <1>5 DEF HandedOnce
<1> QED BY <1>1, <1>10, <1>11 DEF h, Listens!Accepted

LEMMA ListensStep ==
  ServerInv /\ HandedOnce /\ [Next]_vars => [Listens!Next]_(Listens!vars)
<1> SUFFICES ASSUME ServerInv, HandedOnce, [Next]_vars
             PROVE  Listens!Next \/ UNCHANGED Listens!vars
  OBVIOUS
<1> USE DEF ServerInv, TypeOK
<1>1. CASE LifeStep
  BY <1>1, Unseen DEF LifeStep, SetHttp, Serve, CloseServer, ListenerVisited,
              ListenersClosed, CloseHttp
<1>2. CASE MapStep
  <2>1. ASSUME NEW c \in Call, Add(c) \/ PutTarget(c)
        PROVE  UNCHANGED Listens!vars
    <3>1. /\ add[c] # "done" /\ add'[c] # "done"
          /\ \A b \in Call \ {c} : add'[b] = add[b]
          /\ UNCHANGED <<name, wants, chan, taken>>
      BY <2>1 DEF Add, PutTarget, MapTypes
    <3>2. \A b \in Call : State(b)' = State(b)
      BY <3>1 DEF State
    <3> QED BY <3>1, <3>2 DEF Listens!vars, State
  <2>2. ASSUME NEW c \in Call, PutListener(c)
        PROVE  Listens!Next \/ UNCHANGED Listens!vars
    <3>1. /\ add[c] = "listeners" /\ add'[c] = "done"
          /\ \A b \in Call \ {c} : add'[b] = add[b]
          /\ UNCHANGED <<name, wants, chan, taken>>
      BY <2>2 DEF PutListener, MapTypes
    <3>2. \A b \in Call \ {c} : State(b)' = State(b)
      BY <3>1 DEF State
    <3>3. CASE chan[c]
      <4>1. State(c) = "new" /\ State(c)' = "open"
        BY <3>1, <3>3 DEF State
      <4>2. Listens!Enter(c, "new", "open")
        BY <3>1, <3>2, <4>1, Entered
      <4> QED BY <4>2 DEF Listens!Next, Listens!Open
    <3>4. CASE ~chan[c]
      <4>1. State(c)' = State(c)
        BY <3>1, <3>4 DEF State
      <4> QED BY <3>1, <3>2, <4>1 DEF Listens!vars, State
    <3> QED BY <3>3, <3>4
  <2> QED BY <1>2, <2>1, <2>2 DEF MapStep
<1>3. CASE CloseStep
  <2>1. ASSUME NEW p \in Process, NEW c \in Call, closing[p] = c, CloseChan(p)
        PROVE  Listens!Next
    <3>1. /\ add[c] = "done" /\ chan[c] /\ ~chan'[c]
          /\ \A b \in Call \ {c} : chan'[b] = chan[b]
          /\ UNCHANGED <<name, wants, add, taken>>
      BY <2>1 DEF CloseChan, CloseTypes, ClosedIsEmpty
    <3>2. State(c) = "open" /\ State(c)' = "closed"
      BY <3>1 DEF State
    <3>3. \A b \in Call \ {c} : State(b)' = State(b)
      BY <3>1 DEF State
    <3>4. Listens!Enter(c, "open", "closed")
      BY <3>1, <3>2, <3>3, Entered
    <3> QED BY <3>1, <3>4 DEF Listens!Next, Listens!Close
  <2>2. ASSUME \/ \E n \in Name : VisitListener(n)
               \/ \E p \in Closer, c \in Call : CloseListener(p, c)
               \/ \E p \in Process : CloseMark(p)
        PROVE  UNCHANGED Listens!vars
    BY <2>2, Unseen DEF VisitListener, CloseListener, CloseMark
  <2>3. ASSUME NEW p \in Process, CloseChan(p) PROVE closing[p] \in Call
    BY <2>3, WhetServerAssumption DEF CloseChan, CloseTypes
  <2> QED BY <1>3, <2>1, <2>2, <2>3 DEF CloseStep
<1>4. CASE DialStep
  BY <1>4, Unseen DEF DialStep, Request, Post, HandshakeEnds, NotFound, Send
<1>5. CASE AcceptStep
  <2>1. ASSUME NEW a \in Acceptor, HandOff(a) PROVE Listens!Next
    <3> DEFINE c == on[a]
               h == Head(sendq[c])
    <3>1. /\ c \in Call /\ sendq[c] # <<>>
          /\ taken' = [taken EXCEPT ![c] = Append(@, h)]
          /\ UNCHANGED <<name, wants, add, chan>>
      BY <2>1 DEF HandOff, AcceptTypes
    <3> HIDE DEF c
    <3>2. h \in Dial /\ name[c] = wants[h] /\ ~Listens!Accepted(h)
      BY <3>1, HeadIsNew
    <3>3. chan[c] /\ add[c] = "done"
      <4>1. chan[c]
        BY <3>1 DEF ClosedIsEmpty
      <4>2. Places(h, c) > 0
        <5>1. Count(sendq[c], h) = Count(Tail(sendq[c]), h) + 1
          BY <3>1, CountTail DEF ConnTypes
        <5>2. Count(Tail(sendq[c]), h) \in Nat
          <6>1. Tail(sendq[c]) \in Seq(Dial)
            BY <3>1 DEF ConnTypes
          <6> QED BY <6>1, CountIsNatural
        <5>3. Count(taken[c], h) \in Nat
          BY <3>1, PlacesType
        <5> QED BY <5>1, <5>2, <5>3, PlacesCounts
      <4> QED BY <3>1, <3>2, <4>1, <4>2 DEF HandedOnce
    <3> HIDE DEF h
    <3>4. Mapped[c] = "open"
      BY <3>1, <3>3 DEF Mapped, State
    <3>5. Mapped' = Mapped
      BY <3>1 DEF Mapped, State
    <3>6. Listens!Accept(c, h)
      BY <3>1, <3>2, <3>4, <3>5 DEF Listens!Accept, Mapped, State
    <3> QED BY <3>1, <3>2, <3>6 DEF Listens!Next
  <2>2. ASSUME \/ \E a \in Acceptor, c \in Call : Accept(a, c)
               \/ \E a \in Acceptor : AcceptFails(a)
        PROVE  UNCHANGED Listens!vars
    BY <2>2, Unseen DEF Accept, AcceptFails
  <2> QED BY <1>5, <2>1, <2>2 DEF AcceptStep
<1>6. CASE StopStep
  BY <1>6, Unseen DEF StopStep, Panic, vars
<1> QED BY StepCases, <1>1, <1>2, <1>3, <1>4, <1>5, <1>6

\* The listeners of a server keep the promise of Listening: at most one Accept
\* for each connection, for the right name, and none after Close.
THEOREM ServerImplementsListening == Spec => ListensAsPromised
<1>1. Init => ServerInv /\ HandedOnce
  BY InitEstablishes, NoHandsAtFirst
<1>2. ServerInv /\ HandedOnce /\ [Next]_vars => ServerInv' /\ HandedOnce'
  BY StepPreserves, HandedOnceKept
<1> QED BY <1>1, <1>2, ListensInit, ListensStep, PTL
        DEF Spec, ListensAsPromised, Listens!Spec
=============================================================================
