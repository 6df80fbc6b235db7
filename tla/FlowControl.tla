---------------------------- MODULE FlowControl ----------------------------
(***************************************************************************)
(* Back pressure between one writer of a data channel and the SCTP layer   *)
(* below it (pkg/connection.go, SendRawDataChannel, and its callers).      *)
(*                                                                         *)
(* The writer cuts a call's bytes into messages of at most Chunk bytes.    *)
(* After each message it reads BufferedAmount and, above Max, receives     *)
(* from sendMoreCh.  The peer's acknowledgements lower the buffered        *)
(* amount; when it crosses Low, the SCTP read loop runs the                *)
(* OnBufferedAmountLow callback, which puts a token into sendMoreCh unless *)
(* one is there already.  Three things happen at times nobody coordinates: *)
(* the test of the buffered amount, the wait, and the callback.            *)
(*                                                                         *)
(* A call comes either from a tunnel's pump, which tests the amount a      *)
(* second time after SendRawDataChannel has returned (pump = TRUE), or     *)
(* from WebRTCConn.Write, which does not, and may pass many chunks.        *)
(***************************************************************************)
EXTENDS Integers

CONSTANTS
  Low,      \* bufferedAmountLowThreshold, 512 KB in the code
  Max,      \* MaxBufferedAmount, 1 MB in the code
  Chunk,    \* maxBufferSize, 16 KB in the code
  MaxCall   \* bound of the model: the longest slice passed to one call

ASSUME FlowAssumption ==
  /\ Low \in Nat /\ Max \in Nat /\ Low <= Max
  /\ Chunk \in Nat \ {0}
  /\ MaxCall \in Nat \ {0}

VARIABLES
  pc,        \* where the writer is
  pump,      \* whether the current call comes from a pump
  left,      \* bytes of the current call that are not yet written
  buffered,  \* dataChannel.BufferedAmount()
  token,     \* whether sendMoreCh (capacity 1) holds its element
  cb,        \* whether OnBufferedAmountLow is due and has not run
  alive      \* whether the association is up

vars == <<pc, pump, left, buffered, token, cb, alive>>

Waiting == pc \in {"wait1", "wait2"}

WriterTypes ==
  /\ pc \in {"idle", "write", "check1", "wait1", "check2", "wait2"}
  /\ left \in 0..MaxCall
  /\ buffered \in Nat

FlagTypes ==
  /\ pump \in BOOLEAN /\ token \in BOOLEAN
  /\ cb \in BOOLEAN /\ alive \in BOOLEAN

TypeOK == WriterTypes /\ FlagTypes

Init ==
  /\ pc = "idle" /\ pump = FALSE /\ left = 0
  /\ buffered = 0 /\ token = FALSE /\ cb = FALSE
  /\ alive = TRUE

-----------------------------------------------------------------------------
(* The writer *)

\* FAULT: the slice is not clamped to what is left.
NextWriteUnclamped == Chunk

\* The slice of the next message: min(len(data) - sentData, maxBufferSize).
NextWrite == IF left < Chunk THEN left ELSE Chunk

\* A pump hands over one read of its TCP connection, never more than Chunk
\* bytes; WebRTCConn.Write hands over whatever its caller passed.
Call(n, p) ==
  /\ pc = "idle"
  /\ p => n <= Chunk
  /\ pc' = "write" /\ pump' = p /\ left' = n
  /\ UNCHANGED <<buffered, token, cb, alive>>

\* FAULT: sentData is not advanced.
WriteChunkForgetsProgress ==
  /\ pc = "write" /\ alive
  /\ buffered' = buffered + NextWrite
  /\ pc' = "check1"
  /\ UNCHANGED <<pump, left, token, cb, alive>>

WriteChunk ==
  /\ pc = "write" /\ alive
  /\ buffered' = buffered + NextWrite
  /\ left' = left - NextWrite
  /\ pc' = "check1"
  /\ UNCHANGED <<pump, token, cb, alive>>

\* Write returns an error; so does the call.
WriteFails ==
  /\ pc = "write" /\ ~alive
  /\ pc' = "idle" /\ left' = 0
  /\ UNCHANGED <<pump, buffered, token, cb, alive>>

\* Where the loop of SendRawDataChannel goes after a message.
AfterMessage == IF left > 0 THEN "write" ELSE IF pump THEN "check2" ELSE "idle"

\* FAULT: the loop does not look at the buffered amount.
Check1Skipped ==
  /\ pc = "check1"
  /\ pc' = AfterMessage
  /\ UNCHANGED <<pump, left, buffered, token, cb, alive>>

Check1 ==
  /\ pc = "check1"
  /\ pc' = IF buffered > Max THEN "wait1" ELSE AfterMessage
  /\ UNCHANGED <<pump, left, buffered, token, cb, alive>>

\* FAULT: the wait is given up after a while (a timeout).
Wait1TimesOut ==
  /\ pc = "wait1"
  /\ token' = FALSE
  /\ pc' = AfterMessage
  /\ UNCHANGED <<pump, left, buffered, cb, alive>>

Wait1 ==
  /\ pc = "wait1" /\ token
  /\ token' = FALSE
  /\ pc' = AfterMessage
  /\ UNCHANGED <<pump, left, buffered, cb, alive>>

\* The pump's own test, after SendRawDataChannel returned.
Check2 ==
  /\ pc = "check2"
  /\ pc' = IF buffered > Max THEN "wait2" ELSE "idle"
  /\ UNCHANGED <<pump, left, buffered, token, cb, alive>>

Wait2 ==
  /\ pc = "wait2" /\ token
  /\ token' = FALSE
  /\ pc' = "idle"
  /\ UNCHANGED <<pump, left, buffered, cb, alive>>

-----------------------------------------------------------------------------
(* The SCTP read loop (external) and the callback it runs *)

\* An acknowledgement of n bytes.  The read loop is one goroutine: it
\* handles no further acknowledgement before the callback has returned.
Ack(n) ==
  /\ alive /\ ~cb
  /\ n \in 1..buffered
  /\ buffered' = buffered - n
  /\ cb' = (buffered > Low /\ buffered - n <= Low)
  /\ UNCHANGED <<pc, pump, left, token, alive>>

\* FAULT: sendMoreCh has no capacity.  Only a writer that already receives
\* gets the token; one that has tested the amount and is about to receive
\* does not.
OnBufferedAmountLowUnbuffered ==
  /\ cb
  /\ cb' = FALSE
  /\ token' \in BOOLEAN /\ (token' => Waiting)
  /\ UNCHANGED <<pc, pump, left, buffered, alive>>

\* select { case sendMoreCh <- struct{}{}: default: }
OnBufferedAmountLow ==
  /\ cb
  /\ cb' = FALSE /\ token' = TRUE
  /\ UNCHANGED <<pc, pump, left, buffered, alive>>

\* The association ends: no further acknowledgement is handled.
LinkDies ==
  /\ alive
  /\ alive' = FALSE
  /\ UNCHANGED <<pc, pump, left, buffered, token, cb>>

-----------------------------------------------------------------------------

Writer == WriteChunk \/ WriteFails \/ Check1 \/ Wait1 \/ Check2 \/ Wait2

Acks == \E n \in 1..buffered : Ack(n)

Next ==
  \/ \E n \in 1..MaxCall, p \in BOOLEAN : Call(n, p)
  \/ WriteChunk
  \/ WriteFails
  \/ Check1
  \/ Wait1
  \/ Check2
  \/ Wait2
  \/ \E n \in 1..buffered : Ack(n)
  \/ OnBufferedAmountLow
  \/ LinkDies

Spec == Init /\ [][Next]_vars

\* The goroutines are scheduled, and a live peer acknowledges what it gets.
FairSpec ==
  /\ Spec
  /\ WF_vars(Writer)
  /\ WF_vars(Acks)
  /\ WF_vars(OnBufferedAmountLow)

-----------------------------------------------------------------------------
(* Properties *)

\* A writer that waits on sendMoreCh will be woken: the token is there, or
\* the callback that brings it is due, or the buffer has yet to cross Low.
\* (The test of BufferedAmount and the receive are two steps; the crossing
\* may fall between them.)
NoLostWakeup == Waiting => token \/ cb \/ buffered > Low

\* Bytes the writer may still be let through by wake-ups left over from an
\* earlier crossing.
Stale == (IF token THEN Chunk ELSE 0) + (IF cb THEN Chunk ELSE 0)

\* Back pressure: the buffer exceeds MaxBufferedAmount by at most three
\* messages, although a stale token lets the writer pass a full buffer.
BufferBounded == buffered <= Max + 3 * Chunk

\* Every call returns, unless the association ends under it: then no callback
\* comes and a writer that waits, waits for ever.
CallReturns == (pc # "idle") ~> (pc = "idle" \/ ~alive)

\* The strengthening that makes the two invariants inductive: a message may
\* be written only within Max and two messages, less one for each wake-up
\* that is already due.
Room ==
  IF pc \in {"check1", "wait1"}
  THEN buffered + Stale <= Max + 3 * Chunk
  ELSE buffered + Stale <= Max + 2 * Chunk

\* The inductive invariant: types, the wake-up, and the room left.
IInv == TypeOK /\ NoLostWakeup /\ Room
=============================================================================
