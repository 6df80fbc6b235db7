----------------------------- MODULE WebRTCConn -----------------------------
(***************************************************************************)
(* WebRTCConn (pkg/webrtcconn.go): the net.Conn that DialWebRTCConn and    *)
(* WhetListener.Accept return.  One direction of a connection whose        *)
(* handshake is over: any number of goroutines call Write on the near end, *)
(* one calls Read on the far end, and either end may be closed.  The other *)
(* direction runs the same code.                                           *)
(***************************************************************************)
EXTENDS Integers, SequencesExt

CONSTANTS
  Call,    \* the calls of Write
  Length,  \* bound of the model: the bytes of a call
  Chunk,   \* maxBufferSize: the bytes of a message
  Buffer,  \* bound of the model: the bytes a Read has room for
  Low,     \* bufferedAmountLowThreshold, in messages
  Tries,   \* how often Close looks at the buffer before it gives up
  Dialled, \* the end that was dialled; the other one was accepted
  CanCut   \* whether the network may stop delivering for good

ASSUME ConnAssumption ==
  /\ Length \in Nat /\ Low \in Nat /\ Tries \in Nat
  /\ Chunk \in Nat \ {0} /\ Buffer \in Nat \ {0}
  /\ CanCut \in BOOLEAN /\ Dialled \in {"near", "far"}

End == {"near", "far"}
Byte == [call : Call, n : 1..Length]   \* the n-th byte of a call

VARIABLES
  pc,      \* pc[c]: the place of c in Write and SendRawDataChannel
  size,    \* size[c]: len(b)
  done,    \* done[c]: sentData
  sent,    \* every message written, in order
  dlv,     \* how many of them have arrived and are acknowledged
  rd,      \* how many of them the far end has read from the channel
  rest,    \* readBuffer[bufferPos:bufferSize]
  got,     \* what Read has returned
  over,    \* Read has returned EOF because there is no more to come
  closing, \* closing[e]: the place of e in Close ("open" while ~c.closed)
  tries,   \* tries[e]: lcount
  owed,    \* history: the messages written when the near end was closed
  link,    \* link[e]: the association, as e sees it
  cut      \* the network delivers nothing any more

wvars == <<pc, size, done>>
rvars == <<rd, rest, got, over>>
cvars == <<closing, tries, owed>>
vars  == <<wvars, sent, dlv, rvars, cvars, link, cut>>

TypeOK ==
  /\ pc \in [Call -> {"idle", "write", "flow", "done", "error"}]
  /\ size \in [Call -> 0..Length] /\ done \in [Call -> 0..Length]
  /\ \A c \in Call : done[c] <= size[c]
  /\ sent \in Seq(Seq(Byte)) /\ rest \in Seq(Byte) /\ got \in Seq(Byte)
  /\ dlv \in 0..Len(sent) /\ rd \in 0..dlv /\ owed \in 0..Len(sent)
  /\ over \in BOOLEAN /\ cut \in BOOLEAN
  /\ closing \in [End -> {"open", "drain", "close", "delete", "done"}]
  /\ tries \in [End -> 0..(Tries + 1)]
  /\ link \in [End -> {"up", "down"}]

Init ==
  /\ pc = [c \in Call |-> "idle"]
  /\ size = [c \in Call |-> 0] /\ done = [c \in Call |-> 0]
  /\ sent = <<>> /\ dlv = 0 /\ rd = 0 /\ rest = <<>> /\ got = <<>> /\ over = FALSE
  /\ closing = [e \in End |-> "open"] /\ tries = [e \in End |-> 0] /\ owed = 0
  /\ link = [e \in End |-> "up"] /\ cut = FALSE

Least(a, b) == IF a < b THEN a ELSE b
Buffered == Len(sent) - dlv                 \* BufferedAmount() of the near end
BufferedAt(e) == IF e = "near" THEN Buffered ELSE 0

-----------------------------------------------------------------------------
(* Write, and SendRawDataChannel in it *)

Writing(c) == pc[c] \in {"write", "flow"}

\* FAULT: there is no writeMutex.
BeginUnlocked(c) ==
  /\ pc[c] = "idle"
  /\ pc' = [pc EXCEPT ![c] = "write"]
  /\ \E n \in 0..Length : size' = [size EXCEPT ![c] = n]
  /\ UNCHANGED <<done, sent, dlv, rvars, cvars, link, cut>>

\* writeMutex.Lock: the mutex is held as long as a call is Writing.
Begin(c) ==
  /\ pc[c] = "idle" /\ \A d \in Call : ~Writing(d)
  /\ pc' = [pc EXCEPT ![c] = "write"]
  /\ \E n \in 0..Length : size' = [size EXCEPT ![c] = n]
  /\ UNCHANGED <<done, sent, dlv, rvars, cvars, link, cut>>

\* rawDetached.Write of the next chunk.  A call without bytes writes an empty
\* message and is done with that.
WriteChunk(c) ==
  LET k == Least(size[c] - done[c], Chunk) IN
  /\ pc[c] = "write" /\ link["near"] = "up"
  /\ sent' = Append(sent, [i \in 1..k |-> [call |-> c, n |-> done[c] + i]])
  /\ done' = [done EXCEPT ![c] = @ + k]
  /\ pc' = [pc EXCEPT ![c] = IF size[c] = 0 THEN "done" ELSE "flow"]
  /\ UNCHANGED <<size, dlv, rvars, cvars, link, cut>>

WriteFails(c) ==
  /\ pc[c] = "write" /\ link["near"] = "down"
  /\ pc' = [pc EXCEPT ![c] = "error"]
  /\ UNCHANGED <<size, done, sent, dlv, rvars, cvars, link, cut>>

\* The test of BufferedAmount, with the wait on sendMoreCh if it says so; it
\* may be passed at any time, with a token left over from before (FlowControl).
Flow(c) ==
  /\ pc[c] = "flow"
  /\ pc' = [pc EXCEPT ![c] = IF done[c] < size[c] THEN "write" ELSE "done"]
  /\ UNCHANGED <<size, done, sent, dlv, rvars, cvars, link, cut>>

-----------------------------------------------------------------------------
(* Read *)

HasMessage == rd < dlv

\* What Read copies from: what is left of the last message, or the next one.
Source == IF rest # <<>> THEN rest ELSE sent[rd + 1]

\* FAULT: what the caller had no room for is dropped.
ReadWithoutBuffer(k) ==
  /\ HasMessage
  /\ rd' = rd + 1 /\ rest' = <<>>
  /\ got' = got \o SubSeq(sent[rd + 1], 1, Least(k, Len(sent[rd + 1])))
  /\ UNCHANGED <<wvars, sent, dlv, over, cvars, link, cut>>

\* The caller has room for k bytes.  From an empty message nothing is copied
\* and EOF is returned, although the next Read may find more.
Read(k) ==
  LET n == Least(k, Len(Source)) IN
  /\ rest # <<>> \/ HasMessage
  /\ rd' = IF rest # <<>> THEN rd ELSE rd + 1
  /\ got' = got \o SubSeq(Source, 1, n)
  /\ rest' = SubSeq(Source, n + 1, Len(Source))
  /\ UNCHANGED <<wvars, sent, dlv, over, cvars, link, cut>>

\* ReceiveRaw returns an error, which Read turns into EOF.
ReadEnd ==
  /\ rest = <<>> /\ ~HasMessage /\ link["far"] = "down" /\ ~over
  /\ over' = TRUE
  /\ UNCHANGED <<wvars, sent, dlv, rd, rest, got, cvars, link, cut>>

-----------------------------------------------------------------------------
(* Close *)

SetClosing(e, to) == closing' = [closing EXCEPT ![e] = to]

\* c.closed is set; a second call returns at once.
Close(e) ==
  /\ closing[e] = "open"
  /\ SetClosing(e, "drain")
  /\ owed' = IF e = "near" THEN Len(sent) ELSE owed
  /\ UNCHANGED <<wvars, sent, dlv, rvars, tries, link, cut>>

\* FAULT: the buffer is not waited for.
DrainedAtOnce(e) ==
  /\ closing[e] = "drain"
  /\ SetClosing(e, "close")
  /\ UNCHANGED <<wvars, sent, dlv, rvars, tries, owed, link, cut>>

Drained(e) ==
  /\ closing[e] = "drain" /\ BufferedAt(e) = 0
  /\ SetClosing(e, "close")
  /\ UNCHANGED <<wvars, sent, dlv, rvars, tries, owed, link, cut>>

\* FAULT: the loop goes on when lcount has passed its limit.
DrainTryForEver(e) ==
  /\ closing[e] = "drain" /\ BufferedAt(e) > 0
  /\ tries' = [tries EXCEPT ![e] = Least(@ + 1, Tries + 2)]
  /\ UNCHANGED <<wvars, sent, dlv, rvars, closing, owed, link, cut>>

\* Something is buffered: sleep, lcount++, and give up when lcount > Tries.
DrainTry(e) ==
  /\ closing[e] = "drain" /\ BufferedAt(e) > 0
  /\ tries' = [tries EXCEPT ![e] = @ + 1]
  /\ SetClosing(e, IF tries[e] + 1 > Tries THEN "close" ELSE "drain")
  /\ UNCHANGED <<wvars, sent, dlv, rvars, owed, link, cut>>

\* FAULT: a Close that has given up leaves the peer connection alone.
ClosePCIfDrained(e) ==
  /\ closing[e] = "close"
  /\ SetClosing(e, IF e = Dialled THEN "delete" ELSE "done")
  /\ link' = IF tries[e] > Tries THEN link ELSE [link EXCEPT ![e] = "down"]
  /\ UNCHANGED <<wvars, sent, dlv, rvars, tries, owed, cut>>

\* PeerConnection.Close: what is still buffered is lost.  Only the end that was
\* dialled has a resourceURL to send a DELETE to.
ClosePC(e) ==
  /\ closing[e] = "close"
  /\ SetClosing(e, IF e = Dialled THEN "delete" ELSE "done")
  /\ link' = [link EXCEPT ![e] = "down"]
  /\ UNCHANGED <<wvars, sent, dlv, rvars, tries, owed, cut>>

\* The answer to the DELETE, or an error; there is no time-out.  The DELETE
\* closes nothing of a dialled connection (module Signaling).
DeleteEnds(e) ==
  /\ closing[e] = "delete"
  /\ SetClosing(e, "done")
  /\ UNCHANGED <<wvars, sent, dlv, rvars, tries, owed, link, cut>>

-----------------------------------------------------------------------------
(* pion and the network (external), as in module Tunnel *)

Deliver ==
  /\ ~cut /\ \A e \in End : link[e] = "up"
  /\ Buffered > 0
  /\ dlv' = dlv + 1
  /\ UNCHANGED <<wvars, sent, rvars, cvars, link, cut>>

\* The other end's close is announced; a silent network may be noticed.
LinkDown(e) ==
  /\ link[e] = "up"
  /\ cut \/ \E o \in End : link[o] = "down"
  /\ link' = [link EXCEPT ![e] = "down"]
  /\ UNCHANGED <<wvars, sent, dlv, rvars, cvars, cut>>

NetworkCut ==
  /\ CanCut /\ ~cut
  /\ cut' = TRUE
  /\ UNCHANGED <<wvars, sent, dlv, rvars, cvars, link>>

-----------------------------------------------------------------------------

Sending(c) == WriteChunk(c) \/ WriteFails(c)
Reading == (\E k \in 1..Buffer : Read(k)) \/ ReadEnd
Closing(e) == Drained(e) \/ DrainTry(e) \/ ClosePC(e)

Next ==
  \/ \E c \in Call : Begin(c)
  \/ \E c \in Call : Sending(c)
  \/ \E c \in Call : Flow(c)
  \/ Reading
  \/ \E e \in End : Close(e)
  \/ \E e \in End : Closing(e)
  \/ \E e \in End : DeleteEnds(e)
  \/ \E e \in End : LinkDown(e)
  \/ Deliver
  \/ NetworkCut

Spec == Init /\ [][Next]_vars

\* Goroutines run, the far application goes on reading, and the network
\* delivers data and close notices unless it is cut.  A DELETE need not end.
FairSpec ==
  /\ Spec
  /\ \A c \in Call : WF_vars(Sending(c)) /\ WF_vars(Buffered <= Low /\ Flow(c))
  /\ \A e \in End : WF_vars(Closing(e)) /\ WF_vars(~cut /\ LinkDown(e))
  /\ WF_vars(Reading) /\ WF_vars(Deliver)

-----------------------------------------------------------------------------
(* Properties *)

GaveUp == tries["near"] > Tries

\* Close has closed the peer connection; it may be waiting for its DELETE.
PCClosed(e) == closing[e] \in {"delete", "done"}

\* When Close of the near end has closed the peer connection and the far end has
\* read to the end, it has read every message written before Close was called,
\* unless Close gave up waiting; whatever the network and the far end did.
LostOnlyByGivingUp ==
  PCClosed("near") /\ over => GaveUp \/ rd >= owed

\* The writeMutex: the messages of concurrent calls do not mix.  In what
\* Read returns, a byte of a call follows the one before it of that call.
Whole(s) ==
  \A i \in 1..Len(s) : s[i].n > 1 => i > 1 /\ s[i - 1] = [s[i] EXCEPT !.n = @ - 1]
WritesWhole == Whole(got)

\* The near end writes, the far end reads, and the stream is over for it when
\* Read has returned EOF for good.  An EOF caused by an empty Write is not the
\* end of the stream.
Stream == INSTANCE Pipe WITH
  Item <- Byte,
  written <- FlattenSeq(sent),
  got <- got,
  over <- over

\* Chunks, back pressure, the read buffer and Close carry bytes as a Pipe does.
StreamIsPipe == Stream!Spec

\* Close of the end that writes closes the peer connection, with any buffer and
\* any network, and whatever is still written meanwhile: "We don't want to wait
\* forever, so we give up after 1 second" (webrtcconn.go:97-98).  It need not
\* return: the DELETE of the end that was dialled has no time-out (see
\* RequestsServed of module Signaling).
DrainEnds == closing["near"] = "drain" ~> PCClosed("near")

\* A reader is told the end once the near end is closed, even by a Close that
\* gave up and may be waiting for its DELETE, unless the network is gone.
EndReachesReader == PCClosed("near") ~> (over \/ cut)

-----------------------------------------------------------------------------
(* What makes TypeOK and LostOnlyByGivingUp inductive *)

\* A call starts with nothing sent, and Close stops trying after lcount > 100.
Counts ==
  /\ \A c \in Call : pc[c] = "idle" => done[c] = 0
  /\ \A e \in End : closing[e] \in {"open", "drain"} => tries[e] <= Tries

\* Past the drain loop, what was owed has been delivered; at the end of the
\* stream everything delivered has been read, and nothing more can arrive.
DrainInv ==
  /\ closing["near"] \in {"close", "delete", "done"} => GaveUp \/ dlv >= owed
  /\ over => link["far"] = "down" /\ rd = dlv

ConnInv == TypeOK /\ Counts /\ DrainInv

-----------------------------------------------------------------------------
(* What makes WritesWhole and StreamIsPipe inductive *)

\* The writeMutex is held by one call, and what that call has sent so far is
\* the end of what was written.
OneWriter == \A c, d \in Call : Writing(c) /\ Writing(d) => c = d
WriterAtEnd ==
  \A c \in Call : Writing(c) /\ done[c] > 0
    => /\ FlattenSeq(sent) # <<>>
       /\ FlattenSeq(sent)[Len(FlattenSeq(sent))] = [call |-> c, n |-> done[c]]

\* What Read has returned, and what it has kept for the next call, are the
\* messages that were read; at the end nothing is kept.
ReaderPlace ==
  /\ got \o rest = FlattenSeq(SubSeq(sent, 1, rd))
  /\ over => rest = <<>>

BytesInv == OneWriter /\ Whole(FlattenSeq(sent)) /\ WriterAtEnd /\ ReaderPlace
=============================================================================
