----------------------------- MODULE Signaling ------------------------------
(***************************************************************************)
(* The signalling of connections: POST and DELETE of WhetHandler           *)
(* (pkg/server.go), the clients that send them (HandleClientConnection and *)
(* DialClientConnection of pkg/client.go, runClient of cmd/main.go) and    *)
(* the registry OpenConnections under connectionsLock (pkg/connection.go). *)
(*                                                                         *)
(* A session is one connection, forwarded from a listening socket of the   *)
(* client ("tunnel") or dialled.  Both sides store a Connection under the  *)
(* id that the POST handler made, each in the registry of its process;     *)
(* client and server may be one process, as in conection_test.go.  What    *)
(* goes over the data channel is in modules Tunnel and WebRTCConn.         *)
(***************************************************************************)
EXTENDS Targets

CONSTANTS
  Session,
  TargetLists,  \* the -tcptarget lists that a server is started with
  ListenLists,  \* the -tcplisten lists that a client is started with
  Paths,        \* the target names that are dialled
  None

ASSUME SignalingAssumption == None \notin Session

Process == {"server", "client"}
Copy == {1, 2}    \* two goroutines that close a connection may both send a DELETE

VARIABLES
  shared,   \* client and server are one process
  specs,    \* the server's target specifications
  listens,  \* the names in the client's listen specifications
  via,      \* via[x]: the listen specification x came through, 0 if dialled
  path,     \* path[x]: what x asks for
  client,   \* client[x]: the place of the client's goroutine
  handler,  \* handler[x]: the place of the POST handler
  target,   \* target[x]: c.conn of the server's Connection
  closed,   \* closed[x]: c.closed of it
  delete,   \* delete[x][i]: the place of a DELETE handler
  closes,   \* closes[x]: history, how often DELETE handlers closed c.conn
  lock,     \* lock[p]: the dial that holds connectionsLock across steps
  entry     \* entry[p][x]: whose Connection OpenConnections has for x

config == <<shared, specs, listens>>
asked  == <<via, path>>
srv    == <<target, closed, delete, closes>>
reg    == <<lock, entry>>
vars   == <<config, asked, client, handler, srv, reg>>

targets == ParseTargets(specs)
ClientProcess == IF shared THEN "server" ELSE "client"

\* (connectionsLock is held across steps by the dials that wait, only.)
TypeOK ==
  /\ shared \in BOOLEAN
  /\ client \in [Session -> {"idle", "posted", "answered", "waiting", "open", "over", "failed"}]
  /\ handler \in [Session -> {"none", "store", "answered", "refused"}]
  /\ target \in [Session -> {"none", "open", "closed"}]
  /\ closed \in [Session -> BOOLEAN] /\ closes \in [Session -> Nat]
  /\ delete \in [Session -> [Copy -> {"none", "sent", "found", "closing", "done", "missed"}]]
  /\ lock \in [Process -> Session \cup {None}]
  /\ entry \in [Process -> [Session -> {"none", "server", "client"}]]
  /\ \A x \in Session : client[x] = "waiting" <=> lock[ClientProcess] = x

\* The server has been started: its specifications were well formed.
Init ==
  /\ shared \in BOOLEAN
  /\ specs \in {l \in TargetLists : \A i \in DOMAIN l : TargetOk(l[i])}
  /\ listens \in ListenLists
  /\ via = [x \in Session |-> 0] /\ path = [x \in Session |-> <<>>]
  /\ client = [x \in Session |-> "idle"]
  /\ handler = [x \in Session |-> "none"]
  /\ target = [x \in Session |-> "none"] /\ closed = [x \in Session |-> FALSE]
  /\ delete = [x \in Session |-> [i \in Copy |-> "none"]]
  /\ closes = [x \in Session |-> 0]
  /\ lock = [p \in Process |-> None]
  /\ entry = [p \in Process |-> [x \in Session |-> "none"]]

Put(f, x, v) == [f EXCEPT ![x] = v]
PutEntry(p, x, v) == entry' = [entry EXCEPT ![p][x] = v]

-----------------------------------------------------------------------------
(* The client, up to its answer *)

\* runClient: a connection was accepted; the POST asks for the target name of
\* the listen specification.
StartTunnel(x, i) ==
  /\ client[x] = "idle" /\ i \in Opened(listens)
  /\ client' = Put(client, x, "posted")
  /\ via' = Put(via, x, i)
  /\ path' = Put(path, x, <<ListenTarget(listens[i])>>)
  /\ UNCHANGED <<config, handler, srv, reg>>

StartDial(x, p) ==
  /\ client[x] = "idle"
  /\ client' = Put(client, x, "posted")
  /\ path' = Put(path, x, p)
  /\ UNCHANGED <<config, via, handler, srv, reg>>

\* The answer is there and applied: the client goes for the lock.
Answered(x) ==
  /\ client[x] = "posted" /\ handler[x] = "answered"
  /\ client' = Put(client, x, "answered")
  /\ UNCHANGED <<config, asked, handler, srv, reg>>

\* An answer that is not 201 or 200, or any error before the client goes for
\* the lock.  Nothing is taken back on the server.
Fails(x) ==
  /\ client[x] = "posted"
  /\ client' = Put(client, x, "failed")
  /\ UNCHANGED <<config, asked, handler, srv, reg>>

-----------------------------------------------------------------------------
(* The POST handler *)

\* The target is resolved and the peer connection is made; the handler goes for
\* the lock.
Resolve(x) ==
  /\ client[x] # "idle" /\ handler[x] = "none" /\ Found(targets, path[x])
  /\ handler' = Put(handler, x, "store")
  /\ UNCHANGED <<config, asked, client, srv, reg>>

\* The target is not found, or making the peer connection fails: either comes
\* before the handler goes for the lock.
Refuse(x) ==
  /\ client[x] # "idle" /\ handler[x] = "none"
  /\ handler' = Put(handler, x, "refused")
  /\ UNCHANGED <<config, asked, client, srv, reg>>

\* FAULT: the handler answers first and registers the connection later.
StoreLate(x) ==
  /\ \/ handler[x] = "store"
     \/ handler[x] = "answered" /\ lock["server"] = None /\ entry["server"][x] # "server"
  /\ handler' = Put(handler, x, "answered")
  /\ IF handler[x] = "store" THEN UNCHANGED entry ELSE PutEntry("server", x, "server")
  /\ UNCHANGED <<config, asked, client, srv, lock>>

\* Under the lock the connection is registered; then comes the answer.
Store(x) ==
  /\ handler[x] = "store" /\ lock["server"] = None
  /\ handler' = Put(handler, x, "answered")
  /\ PutEntry("server", x, "server")
  /\ UNCHANGED <<config, asked, client, srv, lock>>

-----------------------------------------------------------------------------
(* The client registers, waits for its handshake, and ends *)

\* Under the lock of its process.  A dial keeps it until the handshake is over.
Register(x) ==
  /\ client[x] = "answered" /\ lock[ClientProcess] = None
  /\ PutEntry(ClientProcess, x, "client")
  /\ IF via[x] = 0
     THEN /\ client' = Put(client, x, "waiting")
          /\ lock' = Put(lock, ClientProcess, x)
     ELSE /\ client' = Put(client, x, "open")
          /\ UNCHANGED lock
  /\ UNCHANGED <<config, asked, handler, srv>>

\* FAULT: a failed handshake returns without releasing the lock.
HandshakeKeepsLock(x) ==
  /\ client[x] = "waiting"
  /\ \/ client' = Put(client, x, "open") /\ lock' = Put(lock, ClientProcess, None)
     \/ client' = Put(client, x, "failed") /\ UNCHANGED lock
  /\ UNCHANGED <<config, asked, handler, srv, entry>>

\* wg.Wait returns, with a connection or with an error.
HandshakeEnds(x) ==
  /\ client[x] = "waiting"
  /\ \E r \in {"open", "failed"} : client' = Put(client, x, r)
  /\ lock' = Put(lock, ClientProcess, None)
  /\ UNCHANGED <<config, asked, handler, srv, entry>>

\* The pump or WebRTCConn.Close sends the DELETE; it may never arrive.
Finish(x) ==
  /\ client[x] = "open"
  /\ client' = Put(client, x, "over")
  /\ \/ delete' = [delete EXCEPT ![x][1] = "sent"]
     \/ UNCHANGED delete
  /\ UNCHANGED <<config, asked, handler, target, closed, closes, reg>>

\* Another goroutine is in WebRTCConn.Close: it found c.closed still FALSE, as
\* test and assignment have no lock, and sends a DELETE of its own, any time.
CloseAgain(x) ==
  /\ client[x] = "over" /\ via[x] = 0 /\ delete[x][2] = "none"
  /\ delete' = [delete EXCEPT ![x][2] = "sent"]
  /\ UNCHANGED <<config, asked, client, handler, target, closed, closes, reg>>

-----------------------------------------------------------------------------
(* The server's connection to the target, and the DELETE handler *)

\* The data channel can open once the client has the answer.
CanConnect(x) == handler[x] = "answered" /\ client[x] \in {"answered", "waiting", "open", "over"}

\* OnOpen dials a TCP target; a listener's connection has no c.conn.
DialTarget(x) ==
  /\ CanConnect(x) /\ target[x] = "none"
  /\ target' = Put(target, x, "open")
  /\ UNCHANGED <<config, asked, client, handler, closed, delete, closes, reg>>

\* The reader ends, or the handshake fails, which sets c.closed as well and may
\* come before the target is dialled.
TargetEnds(x) ==
  /\ CanConnect(x)
  /\ \/ target[x] = "open" /\ UNCHANGED closed
     \/ ~closed[x] /\ closed' = Put(closed, x, TRUE)
  /\ target' = IF target[x] = "open" THEN Put(target, x, "closed") ELSE target
  /\ UNCHANGED <<config, asked, client, handler, delete, closes, reg>>

SetDelete(x, i, to) == delete' = [delete EXCEPT ![x][i] = to]

\* FAULT: the entry is looked up but stays.
LookUpKeepsEntry(x, i) ==
  /\ delete[x][i] = "sent" /\ lock["server"] = None
  /\ SetDelete(x, i, IF entry["server"][x] = "server" THEN "found" ELSE "missed")
  /\ UNCHANGED <<config, asked, client, handler, target, closed, closes, reg>>

\* The entry is taken out under the lock.  It may be gone, or it may be the
\* client's, whose c.conn, if any, is the local socket.
LookUp(x, i) ==
  /\ delete[x][i] = "sent" /\ lock["server"] = None
  /\ SetDelete(x, i, IF entry["server"][x] = "server" THEN "found" ELSE "missed")
  /\ PutEntry("server", x, "none")
  /\ UNCHANGED <<config, asked, client, handler, target, closed, closes, lock>>

\* if c.conn != nil, if !c.closed
TestClosed(x, i) ==
  /\ delete[x][i] = "found"
  /\ SetDelete(x, i, IF target[x] = "none" \/ closed[x] THEN "done" ELSE "closing")
  /\ UNCHANGED <<config, asked, client, handler, target, closed, closes, reg>>

CloseTarget(x, i) ==
  /\ delete[x][i] = "closing"
  /\ SetDelete(x, i, "done")
  /\ target' = Put(target, x, "closed") /\ closed' = Put(closed, x, TRUE)
  /\ closes' = Put(closes, x, closes[x] + 1)
  /\ UNCHANGED <<config, asked, client, handler, reg>>

-----------------------------------------------------------------------------

Posting(x) == Resolve(x) \/ Refuse(x) \/ Store(x)
Deleting(x) == \E i \in Copy : LookUp(x, i) \/ TestClosed(x, i) \/ CloseTarget(x, i)

Next ==
  \/ \E x \in Session, i \in 1..2 : i \in DOMAIN listens /\ StartTunnel(x, i)
  \/ \E x \in Session, p \in Paths : StartDial(x, p)
  \/ \E x \in Session : Answered(x)
  \/ \E x \in Session : Fails(x)
  \/ \E x \in Session : Posting(x)
  \/ \E x \in Session : Register(x)
  \/ \E x \in Session : HandshakeEnds(x)
  \/ \E x \in Session : Finish(x)
  \/ \E x \in Session : CloseAgain(x)
  \/ \E x \in Session : DialTarget(x)
  \/ \E x \in Session : TargetEnds(x)
  \/ \E x \in Session : Deleting(x)

Spec == Init /\ [][Next]_vars

\* Who waits for connectionsLock gets it when it stays free, and DELETE handlers
\* run.  A handshake need not end: wg.Wait has no time-out.
FairSpec ==
  /\ Spec
  /\ \A x \in Session :
       WF_vars(Store(x)) /\ WF_vars(Register(x)) /\ WF_vars(Deleting(x))

-----------------------------------------------------------------------------
(* Properties *)

\* What one path of the form name or name-index can reach for target t.
Reaches(t) ==
  {Address(targets, p) : p \in {q \in {<<t>>} \cup {<<t, u>> : u \in Token} : Found(targets, q)}}

\* Parser and handler agree on the ends of a range: the paths of a target
\* reach every port of its specification, the last given for its name, and
\* no other.  (A name with a hyphen is accepted but no path finds it.)
RangesServed ==
  \A i \in DOMAIN specs : Wins(specs, i) /\ Len(specs[i].name) = 1 =>
    Reaches(specs[i].name[1])
      = {[host |-> specs[i].host, port |-> n] : n \in FirstPort(specs[i])..LastPort(specs[i])}

\* With two closers, whose DELETEs come in any order with each other and with
\* the end of the connection: once one was served the id is gone for good, at
\* most one found the server's Connection, and its target connection was closed
\* at most once by them.  One did find it if client and server are two
\* processes (DeleteFindsConnection is about one process).
Served(x, i) == delete[x][i] \notin {"none", "sent"}
Finds(x, i) == Served(x, i) /\ delete[x][i] # "missed"
SomeServed(x) == \E i \in Copy : Served(x, i)
SomeFinds(x) == \E i \in Copy : Finds(x, i)
DeleteOnce ==
  \A x \in Session :
    /\ closes[x] <= 1
    /\ \A i, j \in Copy : Finds(x, i) /\ Finds(x, j) => i = j
    /\ SomeServed(x) => entry["server"][x] = "none" /\ (shared \/ SomeFinds(x))

\* A dial holds connectionsLock during its handshake.  If no handshake goes on
\* for ever, every POST that was resolved, every DELETE and every client that
\* has its answer gets the lock, also when client and server share it, and
\* however the handshakes of other dials end.
RequestsServed ==
  (\A x \in Session : []<>(client[x] # "waiting"))
    => \A x \in Session :
         /\ handler[x] = "store" ~> handler[x] = "answered"
         /\ client[x] = "answered" ~> client[x] # "answered"
         /\ \A i \in Copy : delete[x][i] = "sent" ~> Served(x, i)

\* "the pathSuffix will contain the UUID for the distro to remove", "stop the
\* peer connection" (server.go:489, 501): of the DELETEs for a connection one
\* finds the Connection of the server, also if the client that sends them runs
\* in the same process and has registered its own under that UUID.
DeleteFindsConnection == \A x \in Session : SomeServed(x) => SomeFinds(x)

-----------------------------------------------------------------------------
(* What makes DeleteOnce inductive *)

\* The client is answered after the server has registered, registers itself
\* before it can send a DELETE, and is over when it has.
Order ==
  \A x \in Session :
    /\ client[x] \in {"answered", "waiting", "open", "over"} => handler[x] = "answered"
    /\ handler[x] # "answered" => entry["server"][x] = "none"
    /\ \A i \in Copy : delete[x][i] # "none" => client[x] = "over"

\* Whose Connection a DELETE will find, as long as none was served.
Entry ==
  \A x \in Session :
    /\ ~shared => entry["server"][x] # "client"
    /\ ~shared /\ handler[x] = "answered" /\ ~SomeServed(x)
         => entry["server"][x] = "server"

\* Only a DELETE that found the Connection closes, and is done then.
ClosedByOne ==
  \A x \in Session : closes[x] # 0 =>
    closes[x] = 1 /\ \E i \in Copy : delete[x][i] = "done"

SignalingInv == TypeOK /\ DeleteOnce /\ Order /\ Entry /\ ClosedByOne
=============================================================================
