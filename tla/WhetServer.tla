----------------------------- MODULE WhetServer -----------------------------
(***************************************************************************)
(* The server object of pkg/server.go and its in-process listeners.        *)
(*                                                                         *)
(* AddListener makes a listener and enters it, under a mutex, into the     *)
(* maps Targets and Listeners.  A client dials by name: the POST handler   *)
(* reads Targets, and once the handshake is done the OnOpen callback reads *)
(* Listeners and sends the connection on the listener's unbuffered         *)
(* ConnsChan, where Accept receives it.  WhetServer.Close closes the       *)
(* listeners it finds in the map, then the HTTP server.  Handlers and      *)
(* Close read the maps, isopen and the channel without the mutex.          *)
(*                                                                         *)
(* A listener is named by the AddListener call that made it.  Of the       *)
(* targets only the names that lead to a listener are kept; module Tunnel  *)
(* is about the others.                                                    *)
(***************************************************************************)
EXTENDS Integers, Sequences, FiniteSets

CONSTANTS
  Name,      \* target names
  Call,      \* calls of AddListener, and the listeners they return
  Dial,      \* connections that clients dial
  Closer,    \* goroutines that call Close on a listener
  Acceptor,  \* goroutines that call Accept
  Server,    \* the goroutine that calls WhetServer.Close
  None,      \* no listener
  OwnHttp    \* whether ws.Http is the HTTP server that serves

ASSUME WhetServerAssumption ==
  Server \notin Closer /\ None \notin Call /\ OwnHttp \in BOOLEAN

VARIABLES
  http,       \* ws.Http
  serving,    \* whether new requests are accepted
  add,        \* add[c]: where the AddListener call c is
  name,       \* name[c]: the target it was called for
  targets,    \* the names that ws.Targets maps to a listener target
  listeners,  \* ws.Listeners
  isopen,     \* isopen[c], of the listener
  chan,       \* chan[c]: its ConnsChan is open
  pc,         \* pc[p]: where a goroutine is in WhetListener.Close
  closing,    \* closing[p]: the listener it closes
  srv,        \* where WhetServer.Close is
  todo,       \* the names its loop has yet to visit
  due,        \* history: the listeners there were when it was called
  dial,       \* dial[d]: how far a dialled connection is
  wants,      \* wants[d]: the name it was dialled for
  sendq,      \* sendq[c]: OnOpen callbacks blocked on ConnsChan, in order
  taken,      \* taken[c]: the connections Accept has returned, in order
  acc,        \* acc[a]: whether a call of Accept is under way
  on,         \* on[a]: the listener of a's latest Accept
  panicked    \* what ended the process, if anything

life == <<http, serving, srv, todo, due>>
maps == <<add, name, targets, listeners>>
lsn  == <<isopen, chan, pc, closing>>
conn == <<dial, wants, sendq, taken>>
accs == <<acc, on>>
vars == <<life, maps, lsn, conn, accs, panicked>>

Process == Closer \cup {Server}

LifeTypes ==
  /\ http \in {"nil", "set", "closed"} /\ serving \in {"no", "yes", "stopped"}
  /\ srv \in {"idle", "listeners", "visit", "http", "done"}
  /\ todo \subseteq Name /\ due \subseteq Call
  /\ panicked \in {"no", "send", "close", "map", "nil"}

MapTypes ==
  /\ add \in [Call -> {"idle", "targets", "listeners", "done"}]
  /\ name \in [Call -> Name] /\ targets \subseteq Name
  /\ listeners \in [Name -> Call \cup {None}]

\* A goroutine that is closing a listener knows which; one that is about to
\* mark it closed has closed its channel.
CloseTypes ==
  /\ isopen \in [Call -> BOOLEAN] /\ chan \in [Call -> BOOLEAN]
  /\ pc \in [Process -> {"idle", "close", "mark"}]
  /\ closing \in [Process -> Call \cup {None}]
  /\ \A p \in Process : pc[p] # "idle" => closing[p] # None
  /\ \A p \in Process : pc[p] = "mark" => ~chan[closing[p]]

ConnTypes ==
  /\ dial \in [Dial -> {"idle", "request", "posted", "failed", "lookup",
                        "notfound", "send", "handed"}]
  /\ wants \in [Dial -> Name]
  /\ sendq \in [Call -> Seq(Dial)] /\ taken \in [Call -> Seq(Dial)]

AcceptTypes ==
  /\ acc \in [Acceptor -> {"idle", "waiting", "error"}]
  /\ on \in [Acceptor -> Call \cup {None}]
  /\ \A a \in Acceptor : acc[a] = "waiting" => on[a] # None

TypeOK == LifeTypes /\ MapTypes /\ CloseTypes /\ ConnTypes /\ AcceptTypes

Init ==
  /\ http = "nil" /\ serving = "no"
  /\ srv = "idle" /\ todo = {} /\ due = {}
  /\ add = [c \in Call |-> "idle"]
  /\ name \in [Call -> Name] /\ wants \in [Dial -> Name]
  /\ targets = {} /\ listeners = [n \in Name |-> None]
  /\ isopen = [c \in Call |-> TRUE] /\ chan = [c \in Call |-> TRUE]
  /\ pc = [p \in Process |-> "idle"]
  /\ closing = [p \in Process |-> None]
  /\ dial = [d \in Dial |-> "idle"]
  /\ sendq = [c \in Call |-> <<>>] /\ taken = [c \in Call |-> <<>>]
  /\ acc = [a \in Acceptor |-> "idle"] /\ on = [a \in Acceptor |-> None]
  /\ panicked = "no"

Panic(why) ==
  /\ panicked' = why
  /\ UNCHANGED <<life, maps, lsn, conn, accs>>

-----------------------------------------------------------------------------
(* Start and Close of the server *)

\* ws.Http is assigned in the goroutine that goes on to serve.
SetHttp ==
  /\ http = "nil"
  /\ http' = "set"
  /\ UNCHANGED <<serving, srv, todo, due, maps, lsn, conn, accs, panicked>>

\* ws.Http serves, unless it was closed before; or else a server that
\* http.Serve makes for itself (StartWithListener, not blocking).
Serve ==
  /\ serving = "no" /\ http # "nil"
  /\ OwnHttp => http = "set"
  /\ serving' = "yes"
  /\ UNCHANGED <<http, srv, todo, due, maps, lsn, conn, accs, panicked>>

CloseServer ==
  /\ srv = "idle"
  /\ srv' = "listeners"
  /\ todo' = {n \in Name : listeners[n] # None}
  /\ due' = {c \in Call : add[c] = "done"}
  /\ UNCHANGED <<http, serving, maps, lsn, conn, accs, panicked>>

\* FAULT: the listener is closed in the background (go listener.Close()).
VisitListenerInBackground(n) ==
  /\ srv = "listeners" /\ n \in todo /\ pc[Server] = "idle"
  /\ todo' = todo \ {n}
  /\ IF isopen[listeners[n]]
     THEN /\ pc' = [pc EXCEPT ![Server] = "close"]
          /\ closing' = [closing EXCEPT ![Server] = listeners[n]]
     ELSE UNCHANGED <<pc, closing>>
  /\ UNCHANGED <<http, serving, srv, due, maps, isopen, chan, conn, accs, panicked>>

\* The loop reads an entry of the map and calls Close on the listener.
VisitListener(n) ==
  /\ srv = "listeners" /\ n \in todo
  /\ todo' = todo \ {n}
  /\ IF isopen[listeners[n]]
     THEN /\ srv' = "visit"
          /\ pc' = [pc EXCEPT ![Server] = "close"]
          /\ closing' = [closing EXCEPT ![Server] = listeners[n]]
     ELSE UNCHANGED <<srv, pc, closing>>
  /\ UNCHANGED <<http, serving, due, maps, isopen, chan, conn, accs, panicked>>

ListenerVisited ==
  /\ srv = "visit" /\ pc[Server] = "idle"
  /\ srv' = "listeners"
  /\ UNCHANGED <<http, serving, todo, due, maps, lsn, conn, accs, panicked>>

ListenersClosed ==
  /\ srv = "listeners" /\ todo = {}
  /\ srv' = "http"
  /\ UNCHANGED <<http, serving, todo, due, maps, lsn, conn, accs, panicked>>

\* The server in ws.Http takes no more requests.
CloseHttp ==
  /\ srv = "http" /\ http # "nil"
  /\ http' = "closed" /\ srv' = "done"
  /\ serving' = IF OwnHttp THEN "stopped" ELSE serving
  /\ UNCHANGED <<todo, due, maps, lsn, conn, accs, panicked>>

\* ws.Http.Close() before any goroutine has assigned ws.Http.
NilHttpPanics == srv = "http" /\ http = "nil" /\ Panic("nil")

-----------------------------------------------------------------------------
(* AddListener *)

\* A map that is being written: the runtime may notice a reader.
WritesTargets == \E c \in Call : add[c] = "targets"
WritesListeners == \E c \in Call : add[c] = "listeners"

\* ws.mut is taken; the pattern that the duplicate check looks for is never
\* registered, so that the check passes; the write to Targets begins.
Add(c) ==
  /\ add[c] = "idle"
  /\ ~WritesTargets /\ ~WritesListeners
  /\ add' = [add EXCEPT ![c] = "targets"]
  /\ UNCHANGED <<life, name, targets, listeners, lsn, conn, accs, panicked>>

PutTarget(c) ==
  /\ add[c] = "targets"
  /\ add' = [add EXCEPT ![c] = "listeners"]
  /\ targets' = targets \cup {name[c]}
  /\ UNCHANGED <<life, name, listeners, lsn, conn, accs, panicked>>

\* The second write, and the mutex is released.  A loop over the map may or
\* may not visit an entry that is created while it runs.
PutListener(c) ==
  /\ add[c] = "listeners"
  /\ add' = [add EXCEPT ![c] = "done"]
  /\ listeners' = [listeners EXCEPT ![name[c]] = c]
  /\ \/ UNCHANGED todo
     \/ /\ srv \in {"listeners", "visit"} /\ listeners[name[c]] = None
        /\ todo' = todo \cup {name[c]}
  /\ UNCHANGED <<http, serving, srv, due, name, targets, lsn, conn, accs, panicked>>

-----------------------------------------------------------------------------
(* WhetListener.Close *)

\* if wl.isopen, read without a lock.
CloseListener(p, c) ==
  /\ pc[p] = "idle" /\ add[c] = "done" /\ isopen[c]
  /\ pc' = [pc EXCEPT ![p] = "close"]
  /\ closing' = [closing EXCEPT ![p] = c]
  /\ UNCHANGED <<life, maps, isopen, chan, conn, accs, panicked>>

\* FAULT: the channel is left open.
CloseChanForgotten(p) ==
  /\ pc[p] = "close" /\ chan[closing[p]]
  /\ pc' = [pc EXCEPT ![p] = "mark"]
  /\ UNCHANGED <<life, maps, isopen, closing, chan, conn, accs, panicked>>

\* FAULT: ConnsChan is buffered, so that what it holds outlives the close.
CloseChanBuffered(p) ==
  /\ pc[p] = "close" /\ chan[closing[p]]
  /\ chan' = [chan EXCEPT ![closing[p]] = FALSE]
  /\ pc' = [pc EXCEPT ![p] = "mark"]
  /\ UNCHANGED <<life, maps, isopen, closing, conn, accs, panicked>>

CloseChan(p) ==
  /\ pc[p] = "close" /\ chan[closing[p]] /\ sendq[closing[p]] = <<>>
  /\ chan' = [chan EXCEPT ![closing[p]] = FALSE]
  /\ pc' = [pc EXCEPT ![p] = "mark"]
  /\ UNCHANGED <<life, maps, isopen, closing, conn, accs, panicked>>

\* Closing the channel under a goroutine that is blocked sending on it (one
\* that no Accept is there to receive from) makes that goroutine panic;
\* closing it twice makes the second closer panic.
ClosePanics(p) ==
  LET c == closing[p] IN
  /\ pc[p] = "close"
  /\ \/ ~chan[c] /\ Panic("close")
     \/ /\ chan[c] /\ sendq[c] # <<>>
        /\ \A a \in Acceptor : ~(acc[a] = "waiting" /\ on[a] = c)
        /\ Panic("send")

\* FAULT: the name is taken out of Listeners but stays in Targets.
CloseMarkForgetsName(p) ==
  /\ pc[p] = "mark"
  /\ isopen' = [isopen EXCEPT ![closing[p]] = FALSE]
  /\ listeners' = [listeners EXCEPT ![name[closing[p]]] = None]
  /\ pc' = [pc EXCEPT ![p] = "idle"]
  /\ UNCHANGED <<life, add, name, targets, closing, chan, conn, accs, panicked>>

CloseMark(p) ==
  /\ pc[p] = "mark"
  /\ isopen' = [isopen EXCEPT ![closing[p]] = FALSE]
  /\ pc' = [pc EXCEPT ![p] = "idle"]
  /\ UNCHANGED <<life, maps, closing, chan, conn, accs, panicked>>

-----------------------------------------------------------------------------
(* A dialled connection: POST, handshake, hand-off *)

\* The HTTP server runs the handler, which goes on when the server is closed.
Request(d) ==
  /\ dial[d] = "idle" /\ serving = "yes"
  /\ dial' = [dial EXCEPT ![d] = "request"]
  /\ UNCHANGED <<life, maps, lsn, wants, sendq, taken, accs, panicked>>

\* The POST handler captures the target, if there is one, and answers.
Post(d) ==
  /\ dial[d] = "request"
  /\ dial' = [dial EXCEPT ![d] = IF wants[d] \in targets THEN "posted" ELSE "failed"]
  /\ UNCHANGED <<life, maps, lsn, wants, sendq, taken, accs, panicked>>

\* OnOpen waits for the handshake.  One that fails never signals wg.
HandshakeEnds(d) ==
  /\ dial[d] = "posted"
  /\ \E r \in {"lookup", "failed"} : dial' = [dial EXCEPT ![d] = r]
  /\ UNCHANGED <<life, maps, lsn, wants, sendq, taken, accs, panicked>>

NotFound(d) ==
  /\ dial[d] = "lookup" /\ listeners[wants[d]] = None
  /\ dial' = [dial EXCEPT ![d] = "notfound"]
  /\ UNCHANGED <<life, maps, lsn, wants, sendq, taken, accs, panicked>>

\* FAULT: the connection is dropped when nobody is waiting for it.
SendOrDrop(d) ==
  LET c == listeners[wants[d]] IN
  /\ dial[d] = "lookup" /\ c # None /\ chan[c]
  /\ IF \E a \in Acceptor : acc[a] = "waiting" /\ on[a] = c
     THEN /\ dial' = [dial EXCEPT ![d] = "send"]
          /\ sendq' = [sendq EXCEPT ![c] = Append(@, d)]
     ELSE /\ dial' = [dial EXCEPT ![d] = "notfound"]
          /\ UNCHANGED sendq
  /\ UNCHANGED <<life, maps, lsn, wants, taken, accs, panicked>>

\* wl.ConnsChan <- listernconn
Send(d) ==
  LET c == listeners[wants[d]] IN
  /\ dial[d] = "lookup" /\ c # None /\ chan[c]
  /\ dial' = [dial EXCEPT ![d] = "send"]
  /\ sendq' = [sendq EXCEPT ![c] = Append(@, d)]
  /\ UNCHANGED <<life, maps, lsn, wants, taken, accs, panicked>>

SendPanics(d) ==
  LET c == listeners[wants[d]] IN
  dial[d] = "lookup" /\ c # None /\ ~chan[c] /\ Panic("send")

-----------------------------------------------------------------------------
(* Accept *)

Accept(a, c) ==
  /\ acc[a] # "waiting" /\ add[c] = "done"
  /\ acc' = [acc EXCEPT ![a] = "waiting"]
  /\ on' = [on EXCEPT ![a] = c]
  /\ UNCHANGED <<life, maps, lsn, conn, panicked>>

\* FAULT: the sender is not released when its connection is received.
HandOffTwice(a) ==
  LET c == on[a] IN
  /\ acc[a] = "waiting" /\ sendq[c] # <<>> /\ Len(taken[c]) < 3
  /\ acc' = [acc EXCEPT ![a] = "idle"]
  /\ taken' = [taken EXCEPT ![c] = Append(@, Head(sendq[c]))]
  /\ dial' = [dial EXCEPT ![Head(sendq[c])] = "handed"]
  /\ UNCHANGED <<life, maps, lsn, wants, sendq, on, panicked>>

\* A send and a receive meet.
HandOff(a) ==
  LET c == on[a] IN
  /\ acc[a] = "waiting" /\ sendq[c] # <<>>
  /\ acc' = [acc EXCEPT ![a] = "idle"]
  /\ taken' = [taken EXCEPT ![c] = Append(@, Head(sendq[c]))]
  /\ dial' = [dial EXCEPT ![Head(sendq[c])] = "handed"]
  /\ sendq' = [sendq EXCEPT ![c] = Tail(@)]
  /\ UNCHANGED <<life, maps, lsn, wants, on, panicked>>

\* A receive from a closed channel: "listener closed".
AcceptFails(a) ==
  /\ acc[a] = "waiting" /\ ~chan[on[a]]
  /\ acc' = [acc EXCEPT ![a] = "error"]
  /\ UNCHANGED <<life, maps, lsn, conn, on, panicked>>

-----------------------------------------------------------------------------

\* An unsynchronised read of a map that AddListener is writing: the runtime
\* ends the process if it notices.
MapRace ==
  /\ \/ WritesTargets /\ \E d \in Dial : dial[d] = "request"
     \/ WritesListeners /\ \E d \in Dial : dial[d] = "lookup"
     \/ WritesListeners /\ srv = "listeners"
  /\ Panic("map")

Adding == \E c \in Call : PutTarget(c) \/ PutListener(c)
Closing(p) == CloseChan(p) \/ ClosePanics(p) \/ CloseMark(p)
ServerClosing == \/ \E n \in Name : VisitListener(n)
                 \/ ListenerVisited
                 \/ ListenersClosed
                 \/ CloseHttp
                 \/ NilHttpPanics
Dialling(d) == HandshakeEnds(d) \/ NotFound(d) \/ Send(d) \/ SendPanics(d)

Step ==
  \/ SetHttp
  \/ Serve
  \/ CloseServer
  \/ ServerClosing
  \/ \E c \in Call : Add(c)
  \/ Adding
  \/ \E p \in Closer, c \in Call : CloseListener(p, c)
  \/ \E p \in Process : Closing(p)
  \/ \E d \in Dial : Request(d)
  \/ \E d \in Dial : Post(d)
  \/ \E d \in Dial : Dialling(d)
  \/ \E a \in Acceptor, c \in Call : Accept(a, c)
  \/ \E a \in Acceptor : HandOff(a)
  \/ \E a \in Acceptor : AcceptFails(a)
  \/ MapRace

Next == panicked = "no" /\ Step

Spec == Init /\ [][Next]_vars

\* What has been called runs on: AddListener, Close, the callback of a
\* dialled connection, a receive that can take place.  Nobody has to call
\* anything, and the handshake need not end.
FairSpec ==
  /\ Spec
  /\ WF_vars(panicked = "no" /\ Adding)
  /\ WF_vars(panicked = "no" /\ ServerClosing)
  /\ \A p \in Process : WF_vars(panicked = "no" /\ Closing(p))
  /\ \A d \in Dial :
       WF_vars(panicked = "no" /\ (NotFound(d) \/ Send(d) \/ SendPanics(d)))
  /\ \A a \in Acceptor : WF_vars(panicked = "no" /\ (HandOff(a) \/ AcceptFails(a)))

-----------------------------------------------------------------------------
(* Properties *)

\* A name that can be dialled has a listener, or AddListener is about to
\* enter it; closing a listener never leaves a target without one.
TargetHasListener ==
  \A n \in targets :
    \/ listeners[n] # None /\ name[listeners[n]] = n
    \/ \E c \in Call : add[c] = "listeners" /\ name[c] = n

\* How often d is in the hands of listener c: blocked on it or accepted.
Places(d, c) ==
  Cardinality({i \in DOMAIN sendq[c] : sendq[c][i] = d})
  + Cardinality({i \in DOMAIN taken[c] : taken[c][i] = d})

\* A dialled connection is blocked on, or accepted by, one listener, once,
\* and that listener was added for the name that was dialled.
HandedOnce ==
  \A d \in Dial :
    /\ \A c \in Call : Places(d, c) > 0 => name[c] = wants[d] /\ add[c] = "done"
    /\ dial[d] \in {"send", "handed"}
         => \E c \in Call : Places(d, c) = 1 /\ \A b \in Call \ {c} : Places(d, b) = 0
    /\ dial[d] \notin {"send", "handed"} => \A c \in Call : Places(d, c) = 0

\* When WhetServer.Close has returned, the listeners that it met in the map
\* and that have not been replaced since are closed, whoever else is closing
\* them at the time.  (One that was replaced, its name being taken a second
\* time, is not: the check of server.go:577-584 never refuses a name.)
ListedAreClosed ==
  srv \in {"http", "done"}
    => \A n \in Name : listeners[n] \in due => ~chan[listeners[n]]

\* Once a listener is marked closed, every Accept on it returns.
CloseEndsAccept ==
  \A a \in Acceptor, c \in Call :
    (acc[a] = "waiting" /\ on[a] = c /\ ~isopen[c])
      ~> ((acc[a] # "waiting" \/ on[a] # c) \/ panicked # "no")

\* A connection that looks for its listener, while Accept is called on every
\* listener again and again, is handed over or the process ends.
HandedOver ==
  (\A c \in Call :
     []<>(add[c] = "done" => \E a \in Acceptor : acc[a] = "waiting" /\ on[a] = c))
    => \A d \in Dial :
         (dial[d] = "lookup" /\ listeners[wants[d]] # None)
           ~> (dial[d] = "handed" \/ panicked # "no")

\* "close the channel so accept will return an error and the listener will be
\* closed" (server.go:620): closing a listener, which is still in the maps,
\* does not end the process when clients dial its name.
CloseSparesSenders == panicked # "send"

\* What the application sees of the listeners: a listener is open from the end
\* of its AddListener until its channel is closed, by whichever Close.
Listens == INSTANCE Listening WITH
  Listener <- Call,
  Conn <- Dial,
  state <- [c \in Call |-> CASE ~chan[c] -> "closed"
                             [] chan[c] /\ add[c] = "done" -> "open"
                             [] OTHER -> "new"],
  accepted <- taken

\* The server keeps the promise, through concurrent AddListener and Close, the
\* replacement of a listener, and dials that come at any time.
ListensAsPromised == Listens!Spec

-----------------------------------------------------------------------------
(* What makes these inductive *)

\* What the map holds was added, for that name.
ListenersAdded ==
  /\ \A n \in Name : listeners[n] # None
       => name[listeners[n]] = n /\ add[listeners[n]] = "done"
  /\ \A c \in due : add[c] = "done"

\* A listener is marked closed only after its channel was closed.
ClosedThenMarked == \A c \in Call : ~isopen[c] => ~chan[c]

\* A listener is closed only after it was added, and then nobody is left
\* sending to it.
ClosedIsEmpty ==
  /\ \A p \in Process : pc[p] # "idle" => add[closing[p]] = "done"
  /\ \A c \in Call : ~chan[c] => sendq[c] = <<>>

\* What the loop of WhetServer.Close still has to do for the listeners it met.
LoopProgress ==
  /\ \A n \in todo : listeners[n] # None
  /\ srv \in {"idle", "http", "done"} => todo = {}
  /\ srv # "visit" => pc[Server] = "idle"
  /\ srv # "idle" =>
       \A n \in Name : listeners[n] \in due =>
         \/ ~chan[listeners[n]]
         \/ n \in todo
         \/ srv = "visit" /\ pc[Server] = "close" /\ closing[Server] = listeners[n]

ServerInv ==
  TypeOK /\ TargetHasListener /\ ListenersAdded /\ ClosedThenMarked
  /\ ClosedIsEmpty /\ LoopProgress
=============================================================================
