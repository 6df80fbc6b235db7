# A verification development for whet

whet forwards TCP connections over WebRTC data channels. A client process
accepts local TCP connections (or dials in-process connections) and, for each,
sets up a peer connection with a server process through one HTTP POST; the
server connects the data channel to a TCP target or hands it to an in-process
listener. This directory holds TLA+ modules that model that code, the TLC
configurations that check them on small instances, and proofs checked by TLAPS
for instances of every size. `PROJECT.json` lists, for every definition that
models code, the lines it stands for.

## The system

| part | source | state | operations |
| --- | --- | --- | --- |
| back pressure | `pkg/connection.go` | `BufferedAmount`, `sendMoreCh` (capacity 1) | `SendRawDataChannel`, `OnBufferedAmountLow`, the pumps' second test |
| handshake | `pkg/handshake.go` | `clientReady`, `closed`, two wait groups | send the ready signal, wait for the peer's |
| client tunnel | `pkg/client.go` 28-316 | `Connection` fields, `wg`, `done`, the local socket | accept, POST, set up, relay both ways, drain, close, DELETE |
| server tunnel | `pkg/server.go` 237-571 | `Connection` fields, `wg`, `connWg`, the target socket | answer, `OnOpen`, dial, relay both ways, end of stream, drain, close; DELETE |
| listener | `pkg/server.go` 411-424, 573-626 | `Targets`, `Listeners`, `ConnsChan`, `isopen` | `AddListener`, hand-off, `Accept`, `Close` |
| dialled connection | `pkg/client.go` 333-497, `pkg/webrtcconn.go` | read buffer and positions, `writeMutex`, `closed` | dial, `Read`, `Write`, `Close` |
| registry | `pkg/connection.go` 25-26 | `OpenConnections` under `connectionsLock` | register (POST, tunnel, dial), remove (DELETE) |
| targets | `pkg/forwardportid.go`, `pkg/server.go` 261-295 | `Targets` | parse specifications, resolve a path to an address |
| server life cycle | `pkg/server.go` 131-207 | `Http`, `Addr` | start (blocking or not), close |
| mirror server, C library, command line, WebAssembly | `pkg/util.go`, `lib`, `cmd`, `wasm` | handles, flags | glue around the parts above |

How they meet. The POST handler creates a `Connection`, registers it and
answers; everything else on the server happens in callbacks and goroutines of
that `Connection`. On each side the goroutine that does the handshake later
reads the data channel and writes TCP (the *reader*), another reads TCP and
writes the data channel (the *pump*); they share the `Connection` without a
lock, and wait groups order their start. A client that is done closes its peer
connection and then sends an HTTP DELETE, on a path the data does not take.
Back pressure is a channel of capacity one that the SCTP read loop fills.

What is hard: goroutines that use fields another one is about to set; the test
of the buffered amount and the wait as two steps; close notices, DELETE and data
taking different paths; each of four goroutines failing alone; waits with no
time-out (`sendMoreCh`, `wg`, `connWg`, the drain loops, `ConnsChan`, a lock held
during a handshake). `PROJECT.json` lists these hazards at their lines.

## Modules

| module | what it is |
| --- | --- |
| `FlowControl` | one writer of a data channel, `sendMoreCh`, the callback and the acknowledgements |
| `FlowControlProofs` | proofs about it |
| `Pipe` | abstract: what one direction of a connection promises to its two users |
| `PipeProofs` | what follows from the promise |
| `Tunnel` | one forwarded TCP connection, both ends, from POST to DELETE |
| `TunnelProofs` | proofs about what the target receives |
| `TunnelPipeProofs` | proofs that both directions implement `Pipe`, what the application receives, and which closes may lose data |
| `MCTunnel` | the root module of the Tunnel runs |
| `WebRTCConn` | one direction of a dialled connection: `Write`, `Read`, `Close` |
| `WebRTCConnProofs` | proofs about calls, the channel and `Close` |
| `WebRTCConnPipeProofs` | proofs about bytes: calls do not mix, and a connection implements `Pipe` |
| `MCWebRTCConn` | the root module of its runs |
| `Targets` | target and listen specifications, and the resolution of a path (pure operators) |
| `Signaling` | POST, DELETE, their clients, `OpenConnections` under `connectionsLock`; uses `Targets` |
| `SignalingProofs` | proofs about it |
| `MCSignaling` | the root module of the Signaling runs, with the specifications that are tried |
| `WhetServer` | `AddListener`, `Accept`, `Close` of listeners and server, the hand-off of dialled connections |
| `Listening` | abstract: what its listeners promise to the application that accepts |
| `WhetServerProofs` | proofs that the server implements `Listening`, about its maps and `Close`, and that a dialled connection is handed to one listener, once |
| `MCWhetServer` | the root module of the WhetServer runs, with the symmetries |

Operators below a comment `FAULT:` are deliberate mistakes, each the way the
definition after it could have been got wrong. They are not part of any
specification: `PROJECT.json` pairs each with the property that catches it.

### FlowControl

`pc` is the place of the writer in `SendRawDataChannel` (`write`, `check1`,
`wait1`) or, for a pump, in the second test of the same kind that follows it
(`check2`, `wait2`). `buffered` is `BufferedAmount()` in bytes, `token` is the
one element `sendMoreCh` can hold, `cb` says that a crossing of the low
threshold has occurred and that its callback has yet to run. Test and receive
are separate steps; an acknowledgement and the callback it causes are separate
steps; the read loop of the association does one after the other (`Ack` needs
`~cb`). A call is from a pump (at most `Chunk` bytes, one TCP read) or from
`WebRTCConn.Write` (any length).

### Tunnel

Each side is four goroutines with a program counter each: `cm`
(`HandleClientConnection`), `opener` (the `OnOpen` callback), `reader` (the
handshake, then data channel to TCP) and `pump` (TCP to data channel). Fields
they share are variables of their own (`stored` for `c.dataChannel`, `ready`
for `wg`, `sock` for `c.conn` and with it `connWg`, `closed`). One direction of
the channel is the sequence `sent` of everything written, with two indices:
`dlv` messages have arrived and are acknowledged, `rd` have been read; what is
between `dlv` and the end of `sent` is `BufferedAmount()` and is lost when a
side closes. `link` is the association as one side sees it, `cut` a network
that has stopped delivering; `sock`, `wrote`, `taken`, `ended` and `out` are the
TCP connection of each side.

What is left out, and why that is enough:

- One TCP read is one message. Data is numbered, so that a loss, a repetition,
  a swap and a stray handshake message are visible; partial writes, which
  `SendDataTCP` resumes in a loop, are not.
- A message arrives and is acknowledged in one step. An acknowledgement that is
  lost after delivery would only leave the sender's drain loop waiting longer.
- The pumps' two tests of the buffered amount are one wait (`PumpFlow`,
  `PumpWake`); a pump may be woken at any time, which is what the stale tokens
  of `FlowControl` amount to, and is only *sure* to be woken at or below `Low`.
- The deferred calls of `HandleClientConnection` are one step: nothing lies
  between them that another goroutine could tell apart.
- A TCP read that returns 0 bytes is taken for the end of the stream whatever
  its error (`client.go:252`, `server.go:530`): end, reset and closed socket are
  one action.
- The DELETE may get lost, and so may the POST or its answer.
- In attached mode the server panics when the first channel opens
  (`DetachPanics`: `Detach` is an error there, `server.go:343-345`, and attached is the
  default of the command line); the model has that and the client's part up to
  there. The runs are in detached mode.

`RequestPipe` maps the direction from the application to the target to a `Pipe`:
what the application's socket has supplied is written, what the target was given
is received, and the end is the close of the target's connection. `ResponsePipe`
maps the other direction: what the target's socket has supplied is written, what
the application was given is received, from the moment the target was
connected. Before that the application can be given one thing that no target
sent, `SERVER_ERROR` (`LocalGetsPrefixOrError` allows it); that the end of the
response is ever reported is not promised by a `Pipe`, and does not happen
(`tunnel_half_close`).

### WebRTCConn

One direction of a connection whose handshake is over. `pc`, `size` and `done` are
a call of `Write` in its chunk loop (`writeMutex` is held while a call is `Writing`);
`sent`, `dlv`, `rd` are the channel as in `Tunnel`; `rest` is what is left in
`readBuffer`; `closing` and `tries` are `Close` of either end with its drain loop of
`Tries` looks (100 in the code, one per 10 ms). `Close` closes the peer connection and
then, at the end that was `Dialled`, waits for the answer to its DELETE (the place
`delete`), with a client that has no time-out: `DeleteEnds` is a step that need not come,
and `DrainEnds` claims of `Close` no more than that it gets as far as closing the peer
connection. The two orders of the flow test and
its callback are in `FlowControl`; here the wait ends at any time, and surely at
`Low`. A `Write` of no bytes sends an empty message, for which `Read` returns
`io.EOF` although more may follow: `over` is only the end after which nothing
comes, so this early EOF is a `Read` of nothing here. An end has one `Close`; a
second one at the same time would only close the peer connection again and send
a second DELETE, which is in `Signaling`. One goroutine reads, as everywhere in the
repository but in the WebAssembly client.

`Stream` maps it to a `Pipe` of bytes: what `Write` has put into the channel is
written, what `Read` has returned is received. `Whole` says where one call's bytes
end and the next one's begin.

### Targets and Signaling

A name, path or range is the sequence of tokens that `strings.Split(_, "-")` makes
of it, and `Atoi` succeeds on the tokens in the domain of `Number`. `ParseTargets`
and `Opened` are the two parsers, `Found` and `Address` the resolution in the POST
handler. The duplicates (`Wins`) and the third part of a range behave as in the
code: the last specification of a name stays, a third part is ignored.

In `Signaling` a session is one connection with its client goroutine (`client`),
its POST handler (`handler`), the server's `Connection` as far as DELETE looks at it
(`target` for `c.conn`, `closed`), and up to two DELETE handlers: two goroutines in
`WebRTCConn.Close` can both find `c.closed` false. `entry[p][x]` says whose
`Connection` the registry of process `p` holds under the id of `x`: with client and
server in one process (`shared`, as in `conection_test.go`) there is one registry and
the client's entry replaces the server's. `lock` is the dial that holds
`connectionsLock` while it waits for its handshake; all other uses of the lock are
one step, possible while no dial has it. A POST is refused, and a client fails, only
before it goes for the lock: who waits for it can do nothing else. `TestClosed` and
`CloseTarget` are two steps, as nothing guards `c.closed`.

### WhetServer

`add[c]` is the place of an `AddListener` call: `targets` and `listeners` are the
times during which it writes the one map and the other, the mutex held. A
reader that comes then may see the old or the new entry, or the runtime may
notice and end the process (`MapRace`). A listener is known by the call that
made it. `pc` and `closing` say where a goroutine is in `WhetListener.Close`,
which is three steps: the test of `isopen`, `close(ConnsChan)`, and the
assignment to `isopen`. The application's closers and the loop of
`WhetServer.Close` (`srv`, `todo`) take the same steps. `sendq` holds the
callbacks that are blocked sending on `ConnsChan`, in the order in which Go
serves them; `HandOff` pairs the first with an `Accept`. A send on a closed
channel, the close of one under a blocked sender, a second close, and
`ws.Http.Close()` on nil end the process (`panicked`). `OwnHttp` says whether the
HTTP server that serves is the one in `ws.Http`; only `StartWithListener` without
blocking makes it false. `server_safety` has the one case, `server_live` the other.
`serving` says whether requests are accepted; one accepted
before `Close` is answered all the same. `due` is a history variable. Name resolution with port
offsets, TCP targets and the token check are not part of it.

`Listens` maps the module to a `Listening`: a listener is open from the end of its
`AddListener` until its channel is closed, `taken` is what was accepted. The promise
includes that nothing is accepted after `Close`, which rests on `ConnsChan` having
no buffer.

Two facts of this module have no run. When a name is added twice the check of
`server.go:577-584` compares with a pattern that is never registered and lets it
pass; the second listener takes the place of the first in the map, so that
`WhetServer.Close` does not close the first and its `Accept` waits for ever.
`ListedAreClosed` therefore speaks of listeners that were not replaced. And with
`OwnHttp = FALSE`, `Close` closes a server that serves nothing, against the comment of
`server.go:169`: requests go on being accepted.

## Runs

| run | instance | shows |
| --- | --- | --- |
| `flow` | Low 2, Max 4, Chunk 2, calls to 5 bytes | `NoLostWakeup`, `BufferBounded`, `CallReturns`, and that `IInv` is an invariant |
| `tunnel_safety` | 2 requests, 1 response, Max 1, Low 0, network may go silent | what each TCP peer receives, which closes may lose data, `DataAfterHandshake`, `RequestIsPipe`, `ResponseIsPipe`, and that `ReplyInv` is an invariant |
| `tunnel_live` | 1 request, 2 responses, network delivers | `TargetReleased`, `ResponseComplete` |
| `tunnel_nil_channel` | as the safety run | handshake on a nil `c.dataChannel` (finding) |
| `tunnel_half_close` | network delivers | the target's end does not reach the application (finding) |
| `tunnel_delete` | network delivers | after a DELETE the peer connection may stay open for ever (finding) |
| `server_safety` | 2 names, 2 listeners, 2 dials, application and server closing | hand-off to exactly one listener of the right name; what Close closes; `ListensAsPromised` |
| `server_live` | 1 listener, 2 dials, 2 acceptors, `OwnHttp = FALSE` | Accept ends when the listener is closed; dials are handed over |
| `server_send_panic` | as the safety run | a dial to a closed listener ends the process (finding) |
| `conn` | 2 calls of up to 3 bytes, messages of 2, reads of 1, Tries 1, network may go silent | `StreamIsPipe`, `WritesWhole`, `LostOnlyByGivingUp`, `DrainEnds`, `EndReachesReader`, and that `BytesInv` is an invariant |
| `signaling` | 2 sessions, one process or two, 6 target lists, 2 DELETEs each | `DeleteOnce`, `RequestsServed`, `RangesServed` |
| `signaling_delete` | 1 session | in one process a DELETE finds the client's entry (finding) |

Bounds. `FlowControl` needs a call longer than two chunks, a buffer that passes
`Max` by less and by more than a chunk, and a distance between `Low` and `Max`
that takes more than one acknowledgement: the instance has all three, and the
bound of `BufferBounded` does not hold there with two messages in place of
three. In `Tunnel`, two requests and `Max = 1` are the least with which a
pump waits, a reader holds one message while another is in the channel, and
a loss in the middle differs from one at the end; each TCP peer may end or
reset at any point; the response needs two messages only for its completeness.
In `WhetServer`, two calls cover one name twice and two names; two dials cover
one waiting while another meets a closed channel; one closer and the server
cover concurrent closes. The names, listeners and dials of the safety runs are
interchangeable and declared symmetric; the liveness runs declare no symmetry.
In `WebRTCConn` a call of three bytes is two messages, the second one shorter;
reads of one byte split a message; two calls are enough to mix without the mutex;
two calls of a message each suffice for a loss in the middle. The end that writes is the
dialled one, whose `Close` may wait for ever; with the other one dialled there is one
place less. In `Signaling` two
sessions are one that waits with the lock and one that needs it; the lists of
targets have a range, a single port, a name given twice, a range of three parts, a
name with a hyphen, a reversed range and a port that is no number; a server with
one of the last two does not start, which `Init` says.
No run constrains the state space otherwise; `Requests`, `Responses`,
`MaxCall` and `Length` are the only bounds on counters and are in the guards.
Deadlock is not reported where a connection, or a process after a panic, has
simply come to its end.

Fairness. Weak fairness of the steps of every goroutine that is not blocked (Go
schedules them), of delivery and close notices while the network delivers (SCTP
is reliable), of dialling and HTTP calls coming to an end (by TCP's own time-outs:
`getHttpClient` sets none), and of the peer acknowledging what it received. Nothing is assumed
of the application, of the target beyond that it lets itself be written to, of
the set-up of a connection, of calls that nobody has made, or of a network that
went silent. `HandedOver` assumes in its own statement that the application
goes on calling `Accept`. `PumpWake` is fair only once the buffer is at or below
`Low`, as the callback is. In `WebRTCConn` the far application goes on reading, and
the DELETE of a `Close` is not assumed to be answered. In `Signaling` who waits for
`connectionsLock` gets it when it stays free, and DELETE handlers run; no handshake is
assumed to end, for nothing makes it (`client.go:490` has no time-out).
`RequestsServed` says it as its premise: *if* no dial waits for ever, every resolved
POST, every DELETE and every client with an answer gets the lock, however the
handshakes end. Without the premise TLC finds the state in which a dial that hangs
blocks every POST, DELETE and dial of its process.

## Findings

The violation runs check what a comment or a test says of the program and what
the code does not do. `PROJECT.json` quotes the lines.

- `tunnel_nil_channel`: the handshake goroutine is started before
  `c.dataChannel` is assigned, and dereferences it.
- `tunnel_half_close`: the client reads the end-of-stream message and leaves its
  loop; nobody closes the local connection.
- `tunnel_delete`: the server's pump waits for a buffer that a closed peer will
  never acknowledge; `peer.Close()` is not reached.
- `server_send_panic`: a closed listener stays in the maps; the next dial of its
  name sends on a closed channel.
- `signaling_delete`: with client and server in one process, as in the repository's
  tests, there is one `OpenConnections`; the client replaces the server's entry by its
  own, so that the DELETE finds the wrong `Connection`. `DeleteOnce` has the rest of what
  a DELETE promises, in one process and in two.

More facts are in the models and have no run of their own, for each would only
reach one action or one wait:

- A writer that waits on `sendMoreCh` when the association ends waits for ever
  (`connection.go:138`): no callback comes. `CallReturns` excludes just that.
- Every attached server panics at its first channel (`DetachPanics`).
- Two `WhetListener.Close` at the same time close the channel twice
  (`ClosePanics`): `isopen` is tested and set without a lock. Closing the channel
  ends an `Accept`; an HTTP server on top of the listener then closes it, while
  the first `Close` has yet to clear `isopen`.
- Started with `StartWithListener` without blocking, the server that serves is not the one
  in `ws.Http` (`server.go:143-148`), and `Close` leaves it serving.
- The parser looks for the index of a listen specification in the name before the
  hyphen (`forwardportid.go:97`, against 77-78), so that one with an index is refused
  unless its name is a number (`ListenOk`); nothing reads `PortIndex`.
- `WebRTCConn.Close` waits for its DELETE without a time-out, and the DELETE may wait
  for `connectionsLock` under a dial that hangs (`webrtcconn.go:131`).
- A client whose handshake fails leaves `HandleClientConnection` and its pump behind
  for ever (`handshake.go:44`), and one whose pump fails to send may cut off a response
  that has arrived (`client.go:293`): `TargetReleased` and `ResponseComplete` say nothing
  of these cases.

## Proofs

All theorems hold for every value of the constants under the assumption named
in the module that declares them (`FlowAssumption`: natural thresholds with
`Low <= Max`, a positive chunk; `TunnelAssumption`: natural bounds;
`WhetServerAssumption`: `Server` is not a closer and `None` not a listener;
`ConnAssumption`: natural bounds, messages and reads of at least a byte;
`TargetsAssumption`: the numbers are natural; `SignalingAssumption`: `None` is no
session). TLC evaluates the assumptions in every run.

- `FlowControlProofs`: `TypeCorrect`, `WakeupNeverLost`, `BackPressure`. `NoLostWakeup`
  and `BufferBounded` are not inductive alone: a stale token lets the writer pass
  a full buffer, so the invariant `Room` counts each wake-up that is due (token,
  callback) as one message still owed. Each use of a token consumes one; a new
  one arises only when the buffer has fallen to `Low`.
- `TunnelProofs`: `TypeCorrect`, and `TargetStreamIntact`: the target gets a prefix of
  what the application wrote. `PrefixInv` says what the client has written at
  each stage of its handshake (`ClientStream`), that it writes nothing before the
  server's ready signal (`ServerFirst`), and that the target has what the
  server's reader has read, less the ready signal and the message in hand; after
  a failed handshake nothing arrives any more (`TargetStream`). The last point is
  where the order of the handshake matters: only a server that has failed to
  send, or to receive on a dead association, goes on without it.
- `WhetServerProofs`: `TypeCorrect`, `DialledNameHasListener`, `CloseReachesListed`.
  `ServerInv` adds that what the map holds was added for
  that name, that `isopen` is cleared only after the channel was closed
  (`ClosedThenMarked`), and that a listener which the loop of `Close` met is closed,
  still to be visited, or the one being visited (`LoopProgress`). A listener that
  sees `isopen = false` may be skipped just because of `ClosedThenMarked`. `HandedToOne`:
  `HandedOnce` is inductive next to `ServerInv`, but says how often a dial occurs in a
  sequence of accepted connections; the proof counts the positions at which it
  occurs, and what `Append` and `Tail` do to that count. `ServerImplementsListening`:
  each step is the end of an `AddListener`, the close of a channel, a hand-off, or
  a stutter. That a connection at the head of a queue was accepted nowhere follows
  from those counts, and that its listener is open from `ClosedIsEmpty`: a closed
  channel has no blocked sender, for the close of one that has ends the process.
- `PipeProofs`: `ReaderHasPrefix`, which what implements `Pipe` inherits. That nothing is
  received after the end is a guard of `Pipe`; it is for the refinements to show that
  the code keeps it.
- `TunnelPipeProofs`: `TunnelImplementsPipe`, each step of `Tunnel` is a `Write` (the pump
  reads the socket), a `Read` (a message is written to the target), an `End` (its
  connection is closed) or a stutter. `TargetGetsPrefix` alone is not enough:
  nothing may be received after the end, and the end is not taken back, for which
  `NotYetDialled` says that the target is dialled once. `CloseLosesNothing` is
  `ClosesDrained`: between the test of the buffer and the close no goroutine of that
  side writes, because the handshake is over and the only writer is the pump.
  The response direction rests on `ReplyInv` (`ReplyInvariant`), which mirrors
  `PrefixInv` for the server and is weaker where the code is: its handshake
  goroutine and its dialling callback write without an order, so that
  `ServerStream` allows the ready signal and `SERVER_ERROR` either way round, each at
  most once, and data only behind the former; a message of length zero is the
  last one. `LocalStream` says that the client has what it read, less the first
  message and the one in hand, and `ClientHeard` that a client that is ready has
  received the ready signal. From these: `AgreedBeforeData`
  (`DataAfterHandshake`), `LocalStreamIntact`
  (`LocalGetsPrefixOrError`), `TunnelRepliesAsPipe` (`ResponseIsPipe`), and
  `OnlyDeleteCutsOff` (`OnlyDeleteTruncates`): by `TargetHasAll`, a target connection
  that was closed without a reset, a DELETE or a panic was closed on a dead
  association after everything that had arrived was written; the client never
  sends the empty message that would end the server's loop early.
- `WebRTCConnProofs`: `TypeCorrect`, `OnlyGivingUpLoses`. `DrainInv` carries the test of
  the drain loop over to the reader: what was owed when `Close` was called is
  delivered, and at the end of the stream all that was delivered has been read.
- `WebRTCConnPipeProofs`: `BytesInvariant`, `CallsDoNotMix`, `ConnImplementsPipe`.
  `BytesInv` says that a single call is between its first and its last message
  (`OneWriter`), that the calls and the messages in `sent` agree on where each
  call begins (`WriterAtEnd`), and that what `Read` has returned, followed by
  `rest`, is the bytes of the messages read so far (`ReaderPlace`).
  The mapping concatenates a sequence of messages. That is an induction over
  the number of messages, which the proof does by the least number for which
  the claim fails (`LeastNumber`, from the well-foundedness of `<` on the naturals);
  the lemmas say what `FlattenSeq` of a sequence with one more message is, and that
  a prefix of the messages has a prefix of the bytes.
- `SignalingProofs`: `TypeCorrect`, `DeleteIsIdempotent`, `ServesWholeRange`. `Entry` says whose
  `Connection` the first DELETE will find when the client is another process, `Order` that the client gets its id only after the
  server has registered, and `ClosedByOne` that only a DELETE that found the entry
  closes. `ServesWholeRange` holds for all specifications, on the condition that
  every offset of a range has a token.

Each inductive invariant is also an invariant of a run, and each safety property
of a passing run, invariant or action property, is a theorem. Only model-checked is all
liveness, for fairness and ENABLED are out of the prover's reach: `CallReturns`,
`TargetReleased`, `ResponseComplete`, `CloseEndsAccept`, `HandedOver`, `DrainEnds`,
`EndReachesReader`, `RequestsServed`. No module has a RECURSIVE operator.

## Not modelled

pion (ICE, DTLS, SCTP) and the HTTP library are represented by what the code
relies on. Session descriptions, tokens and CORS headers carry no state of the
protocol. `httputil.ReverseProxy`, file serving and the health endpoint have no
state of their own; the old proxy is commented out; the flags of the command line
choose constants. The C library and the WebAssembly client wrap one `WebRTCConn` per
handle or object; their handles are the Go runtime's and the browser's. The mirror
server serves tests, one connection at a time. `PROJECT.json` lists all of them.
Hazards without a property have a note there.

## Plan

The modules were written in the order `FlowControl`, `Tunnel`, `WhetServer`, `Pipe`,
`WebRTCConn`, `Targets`, `Signaling`, `Listening`, each with its proofs. What is left:

1. The handles of the C library as clients of `WebRTCConn`.
2. An abstract registry that `Signaling` implements: a session that is registered,
   found by the first DELETE and gone after it.
