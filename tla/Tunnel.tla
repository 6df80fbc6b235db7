------------------------------- MODULE Tunnel -------------------------------
(***************************************************************************)
(* One forwarded TCP connection, end to end.                               *)
(*                                                                         *)
(* On the client, HandleClientConnection (pkg/client.go) takes an accepted *)
(* local connection, posts an offer to the signal server and relays bytes  *)
(* over a WebRTC data channel.  On the server, WhetHandler and             *)
(* createServerSideConnection (pkg/server.go) answer the offer, dial the   *)
(* target and relay the other way.  Both ends start with the handshake of  *)
(* pkg/handshake.go.  Each end is several goroutines that share one        *)
(* Connection without a lock:                                              *)
(*                                                                         *)
(*   cm         HandleClientConnection itself                              *)
(*   opener[s]  the OnOpen callback of side s                              *)
(*   reader[s]  the goroutine that does the handshake, then reads the data *)
(*              channel and writes the TCP connection                      *)
(*   pump[s]    the goroutine that reads the TCP connection and writes the *)
(*              data channel                                               *)
(*                                                                         *)
(* The unit of data is one TCP read, which is one message.  pion (ICE,     *)
(* SCTP), TCP, the local application and the target are modelled by what   *)
(* the code relies on.                                                     *)
(***************************************************************************)
EXTENDS Integers, Sequences

CONSTANTS
  Detached,   \* the mode both ends run in (the -detached flag)
  Requests,   \* bound of the model: reads the application can supply
  Responses,  \* bound of the model: reads the target can supply
  Max,        \* MaxBufferedAmount, in messages
  Low,        \* bufferedAmountLowThreshold, in messages
  CanCut      \* whether the network may stop delivering for good

ASSUME TunnelAssumption ==
  /\ Detached \in BOOLEAN /\ CanCut \in BOOLEAN
  /\ Requests \in Nat /\ Responses \in Nat
  /\ Max \in Nat /\ Low \in Nat /\ Low <= Max

Side == {"client", "server"}
Peer(s) == IF s = "client" THEN "server" ELSE "client"
Items(s) == IF s = "client" THEN Requests ELSE Responses

\* Messages on the data channel.  Data(n) is the n-th read of a TCP
\* connection; the empty message marks the end of the target's stream.
Data(n) == [kind |-> "data", n |-> n]
Ready   == [kind |-> "ready", n |-> 0]    \* READY_TO_TRANSMIT
Empty   == [kind |-> "empty", n |-> 0]    \* a message of 0 bytes
Error   == [kind |-> "error", n |-> 0]    \* SERVER_ERROR
Message == [kind : {"data", "ready", "empty", "error"}, n : Nat]

VARIABLES
  cm,        \* HandleClientConnection
  answered,  \* whether the POST handler has answered
  opener, reader, pump,
  ready,     \* ready[s]: the handshake of s is done (wg.Done)
  stored,    \* stored[s]: c.dataChannel of s is set (client: c.conn too)
  closed,    \* c.closed of the server's Connection
  deleted,   \* whether the DELETE handler has run
  panicked,  \* panicked[s]: the process of s is gone
  link,      \* link[s]: the association, as s sees it
  pcClosed,  \* pcClosed[s]: s has called PeerConnection.Close
  cut,       \* the network delivers nothing any more
  sent,      \* sent[s]: every message s has written, in order
  dlv,       \* dlv[s]: how many of them reached the peer and were acknowledged
  rd,        \* rd[s]: how many of them the peer's reader has read
  sock,      \* sock[s]: our TCP socket (client: local, server: to the target)
  wrote,     \* wrote[s]: reads that the TCP peer of s has supplied
  taken,     \* taken[s]: how many of them the pump has read
  ended,     \* ended[s]: what the TCP peer of s has done with its end
  out        \* out[s]: what the reader of s wrote to its TCP peer

procs == <<cm, answered, opener, reader, pump, ready, stored>>
flags == <<closed, deleted, panicked>>
net   == <<link, pcClosed, cut>>
chan  == <<sent, dlv, rd>>
tcp   == <<sock, wrote, taken, ended, out>>
vars  == <<procs, flags, net, chan, tcp>>

ControlTypes ==
  /\ cm \in {"post", "apply", "store", "wait", "returned"}
  /\ opener \in [Side -> {"idle", "opened", "dial", "error", "done"}]
  /\ reader \in [Side -> {"none", "await", "send", "check", "failed",
                          "connwait", "recv", "write", "ended"}]
  /\ pump \in [Side -> {"none", "wg", "read", "send", "flow", "more", "eos",
                        "drain", "close", "delete", "signal", "ended"}]
  /\ link \in [Side -> {"new", "up", "down"}]

FlagTypes ==
  /\ answered \in BOOLEAN /\ closed \in BOOLEAN
  /\ deleted \in BOOLEAN /\ cut \in BOOLEAN
  /\ ready \in [Side -> BOOLEAN] /\ stored \in [Side -> BOOLEAN]
  /\ panicked \in [Side -> BOOLEAN] /\ pcClosed \in [Side -> BOOLEAN]

\* Nothing is read that was not delivered, nor delivered that was not sent.
ChannelTypes ==
  /\ sent \in [Side -> Seq(Message)]
  /\ dlv \in [Side -> Nat] /\ rd \in [Side -> Nat]
  /\ \A s \in Side : rd[s] <= dlv[s] /\ dlv[s] <= Len(sent[s])

TcpTypes ==
  /\ sock \in [Side -> {"none", "open", "closed"}]
  /\ ended \in [Side -> {"open", "fin", "rst"}]
  /\ out \in [Side -> Seq(Message)]
  /\ wrote \in [Side -> Nat] /\ taken \in [Side -> Nat]
  /\ \A s \in Side : taken[s] <= wrote[s]

TypeOK == ControlTypes /\ FlagTypes /\ ChannelTypes /\ TcpTypes

\* A reader that is about to write has read something.
InHand == \A s \in Side : reader[s] = "write" => rd[Peer(s)] >= 1

Init ==
  /\ cm = "post" /\ answered = FALSE
  /\ opener = [s \in Side |-> "idle"]
  /\ reader = [s \in Side |-> "none"]
  /\ pump = [s \in Side |-> "none"]
  /\ ready = [s \in Side |-> FALSE]
  /\ stored = [s \in Side |-> FALSE]
  /\ closed = FALSE /\ deleted = FALSE
  /\ panicked = [s \in Side |-> FALSE]
  /\ link = [s \in Side |-> "new"]
  /\ pcClosed = [s \in Side |-> FALSE]
  /\ cut = FALSE
  /\ sent = [s \in Side |-> <<>>]
  /\ dlv = [s \in Side |-> 0] /\ rd = [s \in Side |-> 0]
  /\ sock = [s \in Side |-> IF s = "client" THEN "open" ELSE "none"]
  /\ wrote = [s \in Side |-> 0] /\ taken = [s \in Side |-> 0]
  /\ ended = [s \in Side |-> "open"]
  /\ out = [s \in Side |-> <<>>]

Set(f, s, v) == [f EXCEPT ![s] = v]

Buffered(s) == Len(sent[s]) - dlv[s]              \* BufferedAmount()

HasMessage(s) == rd[Peer(s)] < dlv[Peer(s)]        \* s can read a message
NextMessage(s) == sent[Peer(s)][rd[Peer(s)] + 1]
\* FAULT: a dead association hides what was received before.
AtEndAtOnce(s) == link[s] = "down"

\* What was received is read first; then reads fail.
AtEnd(s) == link[s] = "down" /\ ~HasMessage(s)

\* PeerConnection.Close: what is still buffered is lost.
ClosePC(s) ==
  /\ pcClosed' = Set(pcClosed, s, TRUE)
  /\ link' = Set(link, s, "down")
  /\ UNCHANGED cut

\* net.Conn.Close on the socket of s, if there is one.
CloseSock(s) ==
  /\ sock' = IF sock[s] = "none" THEN sock ELSE Set(sock, s, "closed")
  /\ UNCHANGED <<wrote, taken, ended, out>>

\* rawDetached.Write: an error once the association is down.
WriteMessage(s, m) ==
  /\ link[s] = "up"
  /\ sent' = [sent EXCEPT ![s] = Append(@, m)]
  /\ UNCHANGED <<dlv, rd>>

\* A nil dereference or an unhandled error ends the process; the kernel
\* closes its sockets.
Panic(s) ==
  /\ panicked' = Set(panicked, s, TRUE)
  /\ CloseSock(s)

-----------------------------------------------------------------------------
(* HandleClientConnection and the POST handler *)

\* The POST handler: it prepares the peer connection and answers.
ServePost ==
  /\ cm = "post" /\ ~answered
  /\ answered' = TRUE
  /\ UNCHANGED <<cm, opener, reader, pump, ready, stored, flags, net, chan, tcp>>

Answer ==
  /\ cm = "post" /\ answered
  /\ cm' = "apply"
  /\ UNCHANGED <<answered, opener, reader, pump, ready, stored, flags, net, chan, tcp>>

\* Any error before the answer is applied: the deferred calls close the peer
\* connection and the local connection.
GiveUp ==
  /\ cm \in {"post", "apply"}
  /\ cm' = "returned"
  /\ ClosePC("client") /\ CloseSock("client")
  /\ UNCHANGED <<answered, opener, reader, pump, ready, stored, flags, chan>>

\* SetRemoteDescription has succeeded: from here the channel may open.
ApplyAnswer ==
  /\ cm = "apply"
  /\ cm' = "store"
  /\ UNCHANGED <<answered, opener, reader, pump, ready, stored, flags, net, chan, tcp>>

\* The fields of c are set and the pump is started.
StartProxy ==
  /\ cm = "store"
  /\ cm' = "wait"
  /\ stored' = Set(stored, "client", TRUE)
  /\ pump' = Set(pump, "client", "wg")
  /\ UNCHANGED <<answered, opener, reader, ready, flags, net, chan, tcp>>

\* <-done, then the deferred calls.
Return ==
  /\ cm = "wait" /\ pump["client"] = "signal"
  /\ cm' = "returned"
  /\ pump' = Set(pump, "client", "ended")
  /\ ClosePC("client") /\ CloseSock("client")
  /\ UNCHANGED <<answered, opener, reader, ready, stored, flags, chan>>

-----------------------------------------------------------------------------
(* OnOpen *)

\* Client: wg.Done, and in detached mode the reader is started.
ClientOnOpen ==
  /\ opener["client"] = "idle" /\ link["client"] # "new" /\ ~pcClosed["client"]
  /\ opener' = Set(opener, "client", "done")
  /\ reader' = IF Detached THEN Set(reader, "client", "await") ELSE reader
  /\ UNCHANGED <<cm, answered, pump, ready, stored, flags, net, chan, tcp>>

ServerCanOpen == opener["server"] = "idle" /\ link["server"] # "new"

\* Server: Detach, and the reader is started before c.dataChannel is set.
ServerOnOpen ==
  /\ ServerCanOpen /\ Detached
  /\ opener' = Set(opener, "server", "opened")
  /\ reader' = Set(reader, "server", "send")
  /\ UNCHANGED <<cm, answered, pump, ready, stored, flags, net, chan, tcp>>

\* Detach is an error when the settings do not enable it: panic(dErr).
DetachPanics ==
  /\ ServerCanOpen /\ ~Detached
  /\ Panic("server")
  /\ UNCHANGED <<procs, closed, deleted, net, chan>>

StoreChannel ==
  /\ opener["server"] = "opened"
  /\ opener' = Set(opener, "server", "dial")
  /\ stored' = Set(stored, "server", TRUE)
  /\ UNCHANGED <<cm, answered, reader, pump, ready, flags, net, chan, tcp>>

\* FAULT: a target connection that was closed is dialled again.
DialTargetAgain ==
  /\ \/ opener["server"] = "dial"
     \/ opener["server"] = "done" /\ sock["server"] = "closed"
  /\ opener' = Set(opener, "server", "done")
  /\ sock' = Set(sock, "server", "open")
  /\ pump' = Set(pump, "server", "wg")
  /\ UNCHANGED <<cm, answered, reader, ready, stored, flags, net, chan,
                 wrote, taken, ended, out>>

DialTarget ==
  /\ opener["server"] = "dial"
  /\ opener' = Set(opener, "server", "done")
  /\ sock' = Set(sock, "server", "open")
  /\ pump' = Set(pump, "server", "wg")
  /\ UNCHANGED <<cm, answered, reader, ready, stored, flags, net, chan,
                 wrote, taken, ended, out>>

\* The target cannot be reached: SERVER_ERROR is written, errors ignored ...
DialFails ==
  /\ opener["server"] = "dial"
  /\ opener' = Set(opener, "server", "error")
  /\ \/ WriteMessage("server", Error)
     \/ link["server"] = "down" /\ UNCHANGED chan
  /\ UNCHANGED <<cm, answered, reader, pump, ready, stored, flags, net, tcp>>

\* ... and the peer connection is closed at once.
CloseAfterError ==
  /\ opener["server"] = "error"
  /\ opener' = Set(opener, "server", "done")
  /\ ClosePC("server")
  /\ UNCHANGED <<cm, answered, reader, pump, ready, stored, flags, chan, tcp>>

-----------------------------------------------------------------------------
(* The reader: handleDetachedHandshake, then data channel to TCP *)

\* FAULT: the server does not wait for the client's ready signal.
AfterSendOneSided == [client |-> "recv", server |-> "connwait"]

\* Where a reader goes: the client waits for the peer's ready signal and then
\* sends its own, the server sends first.
AfterSend  == [client |-> "recv", server |-> "await"]
AfterAwait == [client |-> "send", server |-> "connwait"]

\* sendReadySignal; SendRawDataChannel then looks at c.dataChannel.
SendReady(s) ==
  /\ reader[s] = "send"
  /\ WriteMessage(s, Ready)
  /\ reader' = Set(reader, s, "check")
  /\ UNCHANGED <<cm, answered, opener, pump, ready, stored, flags, net, tcp>>

SendReadyFails(s) ==
  /\ reader[s] = "send" /\ link[s] = "down"
  /\ reader' = Set(reader, s, "failed")
  /\ UNCHANGED <<cm, answered, opener, pump, ready, stored, flags, net, chan, tcp>>

\* A ready signal never fills the buffer, so nothing waits here.
ReadySent(s) ==
  /\ reader[s] = "check" /\ stored[s]
  /\ reader' = Set(reader, s, AfterSend[s])
  /\ ready' = IF s = "client" THEN Set(ready, s, TRUE) ELSE ready
  /\ UNCHANGED <<cm, answered, opener, pump, stored, flags, net, chan, tcp>>

\* c.dataChannel.BufferedAmount() on a nil c.dataChannel.
NilChannelPanics(s) ==
  /\ reader[s] = "check" /\ ~stored[s]
  /\ Panic(s)
  /\ UNCHANGED <<procs, closed, deleted, net, chan>>

\* FAULT: the first message is taken for the ready signal, whatever it is.
AwaitAnything(s) ==
  /\ reader[s] = "await" /\ HasMessage(s)
  /\ rd' = [rd EXCEPT ![Peer(s)] = @ + 1]
  /\ reader' = Set(reader, s, AfterAwait[s])
  /\ ready' = IF s = "server" THEN Set(ready, s, TRUE) ELSE ready
  /\ UNCHANGED <<cm, answered, opener, pump, stored, flags, net, sent, dlv, tcp>>

\* waitForPeerReady: one message is read, and it must be the ready signal.
AwaitReady(s) ==
  /\ reader[s] = "await" /\ HasMessage(s)
  /\ rd' = [rd EXCEPT ![Peer(s)] = @ + 1]
  /\ IF NextMessage(s) = Ready
     THEN /\ reader' = Set(reader, s, AfterAwait[s])
          /\ ready' = IF s = "server" THEN Set(ready, s, TRUE) ELSE ready
     ELSE /\ reader' = Set(reader, s, "failed")
          /\ UNCHANGED ready
  /\ UNCHANGED <<cm, answered, opener, pump, stored, flags, net, sent, dlv, tcp>>

AwaitFails(s) ==
  /\ reader[s] = "await" /\ AtEnd(s)
  /\ reader' = Set(reader, s, "failed")
  /\ UNCHANGED <<cm, answered, opener, pump, ready, stored, flags, net, chan, tcp>>

\* The handshake failed: c.conn is closed if it is set.  The client's reader
\* ends without a word to HandleClientConnection; the server's goes on to
\* wait for the target connection.
AbortClient ==
  /\ reader["client"] = "failed"
  /\ reader' = Set(reader, "client", "ended")
  /\ IF stored["client"] THEN CloseSock("client") ELSE UNCHANGED tcp
  /\ UNCHANGED <<cm, answered, opener, pump, ready, stored, flags, net, chan>>

AbortServer ==
  /\ reader["server"] = "failed"
  /\ reader' = Set(reader, "server", "connwait")
  /\ closed' = TRUE
  /\ CloseSock("server")
  /\ UNCHANGED <<cm, answered, opener, pump, ready, stored, deleted, panicked,
                 net, chan>>

\* connWg.Wait: the target connection is there (it may be closed already).
ConnReady ==
  /\ reader["server"] = "connwait" /\ sock["server"] # "none"
  /\ reader' = Set(reader, "server", "recv")
  /\ UNCHANGED <<cm, answered, opener, pump, ready, stored, flags, net, chan, tcp>>

\* FAULT: the reader leaves the target connection open.
EndReaderKeepsSock(s) ==
  /\ reader' = Set(reader, s, "ended")
  /\ UNCHANGED tcp

\* The loop is left.  The server's deferred call closes the target
\* connection; the client closes nothing.
EndReader(s) ==
  /\ reader' = Set(reader, s, "ended")
  /\ IF s = "server" THEN CloseSock(s) ELSE UNCHANGED tcp

\* FAULT: an empty message is written to the TCP connection like any other.
ReceiveNoEnd(s) ==
  /\ reader[s] = "recv" /\ HasMessage(s)
  /\ rd' = [rd EXCEPT ![Peer(s)] = @ + 1]
  /\ reader' = Set(reader, s, "write")
  /\ UNCHANGED <<cm, answered, opener, pump, ready, stored, flags, net, sent, dlv, tcp>>

Receive(s) ==
  /\ reader[s] = "recv" /\ HasMessage(s)
  /\ rd' = [rd EXCEPT ![Peer(s)] = @ + 1]
  /\ IF NextMessage(s) = Empty
     THEN EndReader(s)
     ELSE reader' = Set(reader, s, "write") /\ UNCHANGED tcp
  /\ UNCHANGED <<cm, answered, opener, pump, ready, stored, flags, net, sent, dlv>>

ReceiveFails(s) ==
  /\ reader[s] = "recv" /\ AtEnd(s)
  /\ EndReader(s)
  /\ UNCHANGED <<cm, answered, opener, pump, ready, stored, flags, net, chan>>

Forward(s) ==
  /\ reader[s] = "write" /\ sock[s] = "open" /\ ended[s] # "rst"
  /\ out' = [out EXCEPT ![s] = Append(@, sent[Peer(s)][rd[Peer(s)]])]
  /\ reader' = Set(reader, s, "recv")
  /\ UNCHANGED <<cm, answered, opener, pump, ready, stored, flags, net, chan,
                 sock, wrote, taken, ended>>

ForwardFails(s) ==
  /\ reader[s] = "write" /\ (sock[s] # "open" \/ ended[s] = "rst")
  /\ EndReader(s)
  /\ UNCHANGED <<cm, answered, opener, pump, ready, stored, flags, net, chan>>

-----------------------------------------------------------------------------
(* The pump: TCP to data channel *)

SetPump(s, to) ==
  /\ pump' = Set(pump, s, to)
  /\ UNCHANGED <<cm, answered, opener, reader, ready, stored>>

\* FAULT: the pump does not wait for the handshake.
PumpStartAtOnce(s) ==
  /\ pump[s] = "wg" /\ opener[s] = "done"
  /\ SetPump(s, "read")
  /\ UNCHANGED <<flags, net, chan, tcp>>

\* wg.Wait
PumpStart(s) ==
  /\ pump[s] = "wg" /\ ready[s]
  /\ SetPump(s, "read")
  /\ UNCHANGED <<flags, net, chan, tcp>>

\* FAULT: a read of 0 bytes is not taken for the end of the stream.
PumpReadPastEnd(s) ==
  /\ pump[s] = "read" /\ sock[s] = "open" /\ (taken[s] < wrote[s] \/ ended[s] = "fin")
  /\ taken' = [taken EXCEPT ![s] = @ + 1]
  /\ SetPump(s, "send")
  /\ UNCHANGED <<flags, net, chan, sock, wrote, ended, out>>

PumpRead(s) ==
  /\ pump[s] = "read" /\ sock[s] = "open" /\ taken[s] < wrote[s]
  /\ taken' = [taken EXCEPT ![s] = @ + 1]
  /\ SetPump(s, "send")
  /\ UNCHANGED <<flags, net, chan, sock, wrote, ended, out>>

\* A read of 0 bytes: the peer has finished, or has reset the connection, or
\* another goroutine has closed our end.  The code takes all three for EOF.
PumpEOF(s) ==
  /\ pump[s] = "read"
  /\ \/ sock[s] # "open"
     \/ ended[s] = "rst"
     \/ ended[s] = "fin" /\ taken[s] = wrote[s]
  /\ SetPump(s, IF s = "client" THEN "drain" ELSE "eos")
  /\ UNCHANGED <<flags, net, chan, tcp>>

PumpSend(s) ==
  /\ pump[s] = "send"
  /\ WriteMessage(s, Data(taken[s]))
  /\ SetPump(s, "flow")
  /\ UNCHANGED <<flags, net, tcp>>

\* The client reports done; the server only leaves.
PumpSendFails(s) ==
  /\ pump[s] = "send" /\ link[s] = "down"
  /\ SetPump(s, IF s = "client" THEN "signal" ELSE "ended")
  /\ UNCHANGED <<flags, net, chan, tcp>>

\* The tests of BufferedAmount, in SendRawDataChannel and after it.
PumpFlow(s) ==
  /\ pump[s] = "flow"
  /\ SetPump(s, IF Buffered(s) > Max THEN "more" ELSE "read")
  /\ UNCHANGED <<flags, net, chan, tcp>>

\* <-c.sendMoreCh: once the buffer has crossed Low, or at any time, with a
\* token left over from an earlier crossing (module FlowControl).
PumpWake(s) ==
  /\ pump[s] = "more"
  /\ SetPump(s, "read")
  /\ UNCHANGED <<flags, net, chan, tcp>>

\* The server marks the end of the stream with an empty message, errors
\* ignored.
PumpEndOfStream ==
  /\ pump["server"] = "eos"
  /\ \/ WriteMessage("server", Empty)
     \/ link["server"] = "down" /\ UNCHANGED chan
  /\ SetPump("server", "drain")
  /\ UNCHANGED <<flags, net, tcp>>

\* FAULT: the wait for an empty buffer is given up.
PumpDrainGivenUp(s) ==
  /\ pump[s] = "drain"
  /\ SetPump(s, "close")
  /\ UNCHANGED <<flags, net, chan, tcp>>

\* for dataChannel.BufferedAmount() > 0 { time.Sleep(...) }
PumpDrained(s) ==
  /\ pump[s] = "drain" /\ Buffered(s) = 0
  /\ SetPump(s, "close")
  /\ UNCHANGED <<flags, net, chan, tcp>>

PumpClose(s) ==
  /\ pump[s] = "close"
  /\ ClosePC(s)
  /\ SetPump(s, IF s = "client" THEN "delete" ELSE "ended")
  /\ UNCHANGED <<flags, chan, tcp>>

\* The client's DELETE reaches the server, whose handler closes the target
\* connection unless it was closed or never made.
ServeDelete ==
  /\ pump["client"] = "delete"
  /\ ~panicked["server"]
  /\ deleted' = TRUE
  /\ IF sock["server"] # "none" /\ ~closed
     THEN closed' = TRUE /\ CloseSock("server")
     ELSE UNCHANGED <<closed, tcp>>
  /\ SetPump("client", "signal")
  /\ UNCHANGED <<panicked, net, chan>>

DeleteLost ==
  /\ pump["client"] = "delete"
  /\ SetPump("client", "signal")
  /\ UNCHANGED <<flags, net, chan, tcp>>

-----------------------------------------------------------------------------
(* pion and the network (external) *)

Connect ==
  /\ cm \in {"store", "wait"} /\ ~cut
  /\ \A s \in Side : link[s] = "new" /\ ~panicked[s]
  /\ link' = [s \in Side |-> "up"]
  /\ UNCHANGED <<procs, flags, pcClosed, cut, chan, tcp>>

\* The channel is ordered and reliable while both ends are up.
Deliver(s) ==
  /\ \A t \in Side : link[t] = "up" /\ ~panicked[t]
  /\ ~cut /\ Buffered(s) > 0
  /\ dlv' = [dlv EXCEPT ![s] = @ + 1]
  /\ UNCHANGED <<procs, flags, net, sent, rd, tcp>>

LinkDown(s) ==
  /\ link[s] = "up"
  /\ link' = Set(link, s, "down")
  /\ UNCHANGED <<procs, flags, pcClosed, cut, chan, tcp>>

\* The peer's close is announced ...
PeerGone(s) == ~cut /\ pcClosed[Peer(s)] /\ LinkDown(s)

\* ... a network that has gone silent may or may not be noticed.
NoticeCut(s) == cut /\ LinkDown(s)

NetworkCut ==
  /\ CanCut /\ ~cut
  /\ cut' = TRUE
  /\ UNCHANGED <<procs, flags, link, pcClosed, chan, tcp>>

-----------------------------------------------------------------------------
(* The TCP peers: the application (client) and the target (server) *)

PeerWrites(s) ==
  /\ sock[s] = "open" /\ ended[s] = "open" /\ wrote[s] < Items(s)
  /\ wrote' = [wrote EXCEPT ![s] = @ + 1]
  /\ UNCHANGED <<procs, flags, net, chan, sock, taken, ended, out>>

PeerEnds(s, how) ==
  /\ sock[s] = "open" /\ ended[s] # "rst" /\ ended[s] # how
  /\ ended' = Set(ended, s, how)
  /\ UNCHANGED <<procs, flags, net, chan, sock, wrote, taken, out>>

-----------------------------------------------------------------------------

Handshake(s) ==
  \/ SendReady(s)
  \/ SendReadyFails(s)
  \/ ReadySent(s)
  \/ NilChannelPanics(s)
  \/ AwaitReady(s)
  \/ AwaitFails(s)

Relay(s) ==
  \/ Receive(s)
  \/ ReceiveFails(s)
  \/ Forward(s)
  \/ ForwardFails(s)

Pump(s) ==
  \/ PumpStart(s)
  \/ PumpRead(s)
  \/ PumpEOF(s)
  \/ PumpSend(s)
  \/ PumpSendFails(s)
  \/ PumpFlow(s)
  \/ PumpDrained(s)
  \/ PumpClose(s)

Main == Answer \/ ApplyAnswer \/ StartProxy \/ Return
ServerOpen == ServerOnOpen \/ DetachPanics \/ StoreChannel \/ DialTarget
              \/ DialFails \/ CloseAfterError
Delete == ServeDelete \/ DeleteLost

ClientStep ==
  \/ Main
  \/ GiveUp
  \/ ClientOnOpen
  \/ AbortClient
  \/ Delete

ServerStep ==
  \/ ServePost
  \/ ServerOpen
  \/ AbortServer
  \/ ConnReady
  \/ PumpEndOfStream

SideStep(s) ==
  \/ Handshake(s)
  \/ Relay(s)
  \/ Pump(s)
  \/ PumpWake(s)
  \/ PeerGone(s)
  \/ NoticeCut(s)
  \/ PeerWrites(s)
  \/ \E how \in {"fin", "rst"} : PeerEnds(s, how)

Next ==
  \/ ~panicked["client"] /\ ClientStep
  \/ ~panicked["server"] /\ ServerStep
  \/ \E s \in Side : ~panicked[s] /\ SideStep(s)
  \/ \E s \in Side : Deliver(s)
  \/ Connect
  \/ NetworkCut

Spec == Init /\ [][Next]_vars

\* Every goroutine is scheduled, messages and close notices arrive while the
\* network delivers, dialling and HTTP requests come to an end.  Nothing is
\* assumed of the application, of the target (but that it lets itself be
\* written to) or of the connection set-up.
Running(s, A) == ~panicked[s] /\ A
FairSpec ==
  /\ Spec
  /\ WF_vars(Running("client", Main))
  /\ WF_vars(Running("client", ClientOnOpen))
  /\ WF_vars(Running("client", AbortClient))
  /\ WF_vars(Running("client", Delete))
  /\ WF_vars(Running("server", ServePost))
  /\ WF_vars(Running("server", ServerOpen))
  /\ WF_vars(Running("server", AbortServer \/ ConnReady))
  /\ WF_vars(Running("server", PumpEndOfStream))
  /\ \A s \in Side :
       /\ WF_vars(Running(s, Handshake(s)))
       /\ WF_vars(Running(s, Relay(s)))
       /\ WF_vars(Running(s, Pump(s)))
       /\ WF_vars(Running(s, Buffered(s) <= Low /\ PumpWake(s)))
       /\ WF_vars(Running(s, PeerGone(s)))
       /\ WF_vars(Deliver(s))

-----------------------------------------------------------------------------
(* Properties *)

\* The target receives exactly a prefix of what the application sent, in
\* order, and nothing of the handshake.
TargetGetsPrefix ==
  /\ Len(out["server"]) <= wrote["client"]
  /\ \A i \in 1..Len(out["server"]) : out["server"][i] = Data(i)

\* The application receives a prefix of what the target sent, or else, when
\* the target could not be reached, SERVER_ERROR and nothing more.
LocalGetsPrefixOrError ==
  \/ /\ Len(out["client"]) <= wrote["server"]
     /\ \A i \in 1..Len(out["client"]) : out["client"][i] = Data(i)
  \/ out["client"] = <<Error>> /\ sock["server"] = "none"

\* The server cuts the target off before writing what it has received only
\* because of a DELETE (or because its process is gone).
OnlyDeleteTruncates ==
  sock["server"] = "closed" /\ ended["server"] # "rst"
    => \/ deleted \/ panicked["server"]
       \/ Len(out["server"]) = dlv["client"] - 1
       \/ dlv["client"] = 0

\* Nothing is lost in an orderly close: no goroutine of the side writes to
\* the channel between the test that it has drained and the close.
ClosesDrained == \A s \in Side : pump[s] = "close" => Buffered(s) = 0

\* The ends agree before data flows: a side writes data only behind its own
\* ready signal, and only after it has received the other side's, which was the
\* first message that came.  A pump is held back by a wait group alone; data
\* that came sooner would be taken for a broken handshake and be lost.
DataAfterHandshake ==
  \A s \in Side :
    (\E i \in 1..Len(sent[s]) : sent[s][i].kind = "data")
      => /\ sent[s][1] = Ready
         /\ rd[Peer(s)] >= 1 /\ sent[Peer(s)][1] = Ready

\* The handshake never runs on a channel that c does not hold yet: a client
\* that dials a running target is connected ("Error connecting to client
\* target", conection_test.go:235-238).
HandshakeFindsChannel ==
  \A s \in Side : ~(panicked[s] /\ reader[s] = "check")

\* The empty message is there "to signal the end of the stream"
\* (server.go:536): when the client has read it, it closes the local
\* connection, so that the application sees the target's end.
EndReceived == rd["server"] > 0 /\ sent["server"][rd["server"]] = Empty
EndReachesLocal == EndReceived ~> (sock["client"] = "closed")

\* "closing the net.Conn will also close the data channel and the peer
\* connection" (server.go:503): after a DELETE the server closes its peer
\* connection.
DeleteClosesPeer == deleted ~> (pcClosed["server"] \/ panicked["server"])

\* When HandleClientConnection has returned, the target connection is closed.
TargetReleased ==
  (cm = "returned" /\ sock["server"] = "open") ~> (sock["server"] = "closed")

\* What the target wrote before finishing reaches the application, unless
\* the application ends first, or writes into the tunnel once it is closed.
ResponseComplete ==
  (ended["server"] = "fin" /\ sock["server"] = "open")
    ~> \/ Len(out["client"]) = wrote["server"]
       \/ ended["client"] # "open" \/ ended["server"] = "rst"
       \/ pump["client"] \in {"signal", "ended"}
       \/ \E s \in Side : panicked[s]

\* The direction from the application to the target is a Pipe: what the
\* application's socket supplied is written, what was written to the target
\* is received, and the target is told the end when its connection is closed.
RequestPipe == INSTANCE Pipe WITH
  Item <- Message,
  written <- [i \in 1..wrote["client"] |-> Data(i)],
  got <- out["server"],
  over <- sock["server"] = "closed"

\* The tunnel implements it, through handshake, back pressure, failures of
\* either end, DELETE and a network that goes silent.
RequestIsPipe == RequestPipe!Spec

\* So is the direction from the target to the application, once the target
\* was reached: until then the application may be given SERVER_ERROR.
ResponsePipe == INSTANCE Pipe WITH
  Item <- Message,
  written <- [i \in 1..wrote["server"] |-> Data(i)],
  got <- IF sock["server"] = "none" THEN <<>> ELSE out["client"],
  over <- sock["client"] = "closed"

ResponseIsPipe == ResponsePipe!Spec

-----------------------------------------------------------------------------
(* What makes TargetGetsPrefix and RequestIsPipe inductive *)

\* The client writes its ready signal, then its reads in order; what the pump
\* holds is the next one.
ClientStream ==
  /\ opener["client"] = "idle" => reader["client"] = "none"
  /\ cm \in {"post", "apply", "store"} => pump["client"] = "none"
  /\ \A i \in 1..Len(sent["client"]) :
       sent["client"][i] = IF i = 1 THEN Ready ELSE Data(i - 1)
  /\ reader["client"] \in {"none", "await", "send", "failed"}
       => sent["client"] = <<>> /\ ~ready["client"]
  /\ reader["client"] = "check" => Len(sent["client"]) = 1 /\ ~ready["client"]
  /\ ~ready["client"] => /\ pump["client"] \in {"none", "wg"}
                         /\ taken["client"] = 0 /\ Len(sent["client"]) <= 1
  /\ ready["client"]
       => /\ Len(sent["client"]) >= 1
          /\ Len(sent["client"]) <= taken["client"] + 1
          /\ pump["client"] = "send" => Len(sent["client"]) = taken["client"]
          /\ pump["client"] \in {"none", "wg", "read", "flow", "more"}
               => Len(sent["client"]) = taken["client"] + 1

\* Before the server has sent its own ready signal the client sends nothing.
ServerFirst ==
  /\ opener["server"] = "idle" => reader["server"] = "none"
  /\ ~ready["server"] => pump["server"] \in {"none", "wg"}
  /\ reader["server"] \in {"none", "send"}
       => /\ \A i \in 1..Len(sent["server"]) : sent["server"][i] # Ready
          /\ reader["client"] \in {"none", "await", "failed", "ended"}
          /\ sent["client"] = <<>>
  /\ reader["server"] \in {"none", "send", "check", "await", "failed"}
       => ~ready["server"]

\* The target has been given what the server's reader has read, less the
\* ready signal and the message in hand.  After a failed handshake nothing
\* can arrive any more.
TargetStream ==
  /\ \A i \in 1..Len(out["server"]) : out["server"][i] = Data(i)
  /\ ~ready["server"] => rd["client"] = 0 /\ out["server"] = <<>>
  /\ ~ready["server"] /\ reader["server"] \in {"failed", "connwait", "recv", "write", "ended"}
       => dlv["client"] = 0 /\ link["server"] = "down" /\ reader["server"] # "write"
  /\ ready["server"]
       => /\ Len(out["server"]) <= rd["client"] - 1
          /\ reader["server"] \in {"connwait", "recv"}
               => Len(out["server"]) = rd["client"] - 1
          /\ reader["server"] = "write"
               => Len(out["server"]) = rd["client"] - 2

PrefixInv == TypeOK /\ InHand /\ ClientStream /\ ServerFirst /\ TargetStream

\* Until the target was dialled there is neither a connection to it nor a pump.
NotYetDialled ==
  opener["server"] \in {"idle", "opened", "dial", "error"}
    => sock["server"] = "none" /\ pump["server"] = "none"

StreamInv == PrefixInv /\ NotYetDialled

-----------------------------------------------------------------------------
(* What makes OnlyDeleteTruncates, LocalGetsPrefixOrError, ResponseIsPipe   *)
(* and DataAfterHandshake inductive                                          *)

\* The connection to the target and its pump come together.
DialledTogether == pump["server"] = "none" <=> sock["server"] = "none"

\* With the target connection closed, and neither reset by the target nor
\* closed by a DELETE or the end of the process, no message can arrive, and
\* the target has all that did.
TargetHasAll ==
  sock["server"] = "closed" /\ ended["server"] # "rst" /\ ~deleted /\ ~panicked["server"]
    => /\ link["server"] = "down"
       /\ dlv["client"] = 0 \/ Len(out["server"]) = dlv["client"] - 1

\* What the server has written: its ready signal and the target's reads in
\* order, with at most one empty message at the end; or else, when the target
\* was not reached, its ready signal and SERVER_ERROR in either order.
ServerStream ==
  LET st == sent["server"] IN
  /\ opener["server"] \in {"idle", "opened", "dial"} => st \in {<<>>, <<Ready>>}
  /\ pump["server"] = "none"
       => st \in {<<>>, <<Ready>>, <<Error>>, <<Ready, Error>>, <<Error, Ready>>}
  /\ pump["server"] \in {"none", "wg"} => taken["server"] = 0
  /\ pump["server"] = "wg" /\ ~ready["server"] => st \in {<<>>, <<Ready>>}
  /\ reader["server"] \in {"check", "await"} \/ ready["server"] => st # <<>>
  /\ pump["server"] # "none" /\ ready["server"]
       => /\ st[1] = Ready
          /\ \A i \in 2..Len(st) :
               \/ st[i] = Data(i - 1) /\ i - 1 <= taken["server"]
               \/ st[i] = Empty /\ i = Len(st) /\ pump["server"] \in {"drain", "close", "ended"}
          /\ pump["server"] \in {"wg", "read", "flow", "more", "eos"}
               => Len(st) = taken["server"] + 1
          /\ pump["server"] = "send" => Len(st) = taken["server"]

\* The application has been given what the client's reader has read, less the
\* ready signal and the message in hand.
LocalStream ==
  LET st == sent["server"]
      n  == rd["server"]
      o  == out["client"]
  IN
  /\ o # <<>> => Len(o) <= n - 1 /\ st[1] = Ready
  /\ \A i \in 1..Len(o) : o[i] = st[i + 1] /\ o[i] # Empty
  /\ reader["client"] \in {"none", "await", "failed"} => o = <<>>
  /\ reader["client"] \in {"none", "await"} => n = 0
  /\ reader["client"] \in {"send", "check"} => n = 1 /\ st[1] = Ready /\ o = <<>>
  /\ reader["client"] = "recv" => n >= 1 /\ st[1] = Ready /\ Len(o) = n - 1
  /\ reader["client"] = "write" => n >= 2 /\ st[1] = Ready /\ Len(o) = n - 2 /\ st[n] # Empty

\* A client that is ready has received the server's ready signal.
ClientHeard == ready["client"] => rd["server"] >= 1 /\ sent["server"][1] = Ready

ReplyInv ==
  DialledTogether /\ TargetHasAll /\ ServerStream /\ LocalStream /\ ClientHeard
=============================================================================
