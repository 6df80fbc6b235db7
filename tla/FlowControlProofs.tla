-------------------------- MODULE FlowControlProofs --------------------------
(***************************************************************************)
(* Proofs about FlowControl for every threshold, message size and call     *)
(* length.  The inductive invariant IInv adds to the types and to          *)
(* NoLostWakeup the bound Room: away from a test of the buffered amount    *)
(* the writer has at most two messages above Max, and one less for each    *)
(* wake-up (token or callback) that is already due.                        *)
(***************************************************************************)
EXTENDS FlowControl, TLAPS

LEMMA InitEstablishes == Init => IInv
<1>1. Init => FlagTypes
  BY DEF Init, FlagTypes
<1>2. Init => WriterTypes /\ NoLostWakeup /\ Room
  BY FlowAssumption DEF Init, WriterTypes, NoLostWakeup, Waiting, Room, Stale
<1> QED BY <1>1, <1>2 DEF IInv, TypeOK

\* The flags only ever take the values of tests.
LEMMA FlagsKept == FlagTypes /\ [Next]_vars => FlagTypes'
<1> SUFFICES ASSUME FlagTypes, [Next]_vars PROVE FlagTypes'
  OBVIOUS
<1> USE DEF FlagTypes
<1>1. ASSUME NEW n \in 1..MaxCall, NEW p \in BOOLEAN, Call(n, p) PROVE FlagTypes'
  BY <1>1 DEF Call
<1>2. CASE WriteChunk \/ WriteFails \/ Check1 \/ Wait1 \/ Check2 \/ Wait2
  BY <1>2 DEF WriteChunk, WriteFails, Check1, Wait1, Check2, Wait2
<1>3. ASSUME NEW n \in 1..buffered, Ack(n) PROVE FlagTypes'
  BY <1>3 DEF Ack
<1>4. CASE OnBufferedAmountLow \/ LinkDies \/ UNCHANGED vars
  BY <1>4 DEF OnBufferedAmountLow, LinkDies, vars
<1> QED BY <1>1, <1>2, <1>3, <1>4 DEF Next

\* No step leaves the inductive invariant.
LEMMA StepPreserves == IInv /\ [Next]_vars => IInv'
<1> SUFFICES ASSUME IInv, [Next]_vars PROVE (WriterTypes /\ NoLostWakeup /\ Room)'
  BY FlagsKept DEF IInv, TypeOK
<1> DEFINE Goal == WriterTypes /\ NoLostWakeup /\ Room
<1> USE FlowAssumption DEF IInv, TypeOK, WriterTypes, NoLostWakeup, Waiting, Room, Stale
<1>1. ASSUME NEW n \in 1..MaxCall, NEW p \in BOOLEAN, Call(n, p) PROVE Goal'
  BY <1>1 DEF Call
<1>2. CASE WriteChunk
  <2>1. NextWrite \in 0..Chunk /\ NextWrite <= left
    BY DEF NextWrite
  <2> QED BY <1>2, <2>1 DEF WriteChunk
<1>3. CASE WriteFails
  BY <1>3 DEF WriteFails
\* The test and the wait lead to the same places.
<1>4. AfterMessage \in {"write", "check2", "idle"}
  BY DEF AfterMessage
<1>5. CASE Check1
  BY <1>4, <1>5 DEF Check1
\* A token used is a message less that is still owed to the writer.
<1>6. CASE Wait1
  BY <1>4, <1>6 DEF Wait1
<1>7. CASE Check2
  BY <1>7 DEF Check2
<1>8. CASE Wait2
  BY <1>8 DEF Wait2
\* The callback becomes due only when Low is crossed, far below the bound.
<1>9. ASSUME NEW n \in 1..buffered, Ack(n) PROVE Goal'
  <2>1. buffered \in Nat /\ n \in Nat /\ 1 <= n /\ n <= buffered
    BY <1>9
  <2>2. buffered' = buffered - n /\ ~cb /\ UNCHANGED <<pc, left, token>>
    BY <1>9 DEF Ack
  <2>3. CASE buffered > Low /\ buffered - n <= Low
    <3>1. cb'
      BY <1>9, <2>3 DEF Ack
    <3> QED BY <2>1, <2>2, <2>3, <3>1
  <2>4. CASE ~(buffered > Low /\ buffered - n <= Low)
    <3>1. ~cb'
      BY <1>9, <2>4 DEF Ack
    <3> QED BY <2>1, <2>2, <2>4, <3>1
  <2> QED BY <2>3, <2>4
<1>10. CASE OnBufferedAmountLow
  BY <1>10 DEF OnBufferedAmountLow
<1>11. CASE LinkDies
  BY <1>11 DEF LinkDies
<1>12. CASE UNCHANGED vars
  BY <1>12 DEF vars
<1> QED
  BY <1>1, <1>2, <1>3, <1>5, <1>6, <1>7, <1>8, <1>9, <1>10, <1>11, <1>12 DEF Next

\* The inductive invariant: how the tests of BufferedAmount, the tokens in
\* sendMoreCh and the callbacks under way add up.
THEOREM InvariantHolds == Spec => []IInv
  BY InitEstablishes, StepPreserves, PTL DEF Spec

\* Every variable keeps its type.
THEOREM TypeCorrect == Spec => []TypeOK
<1>1. IInv => TypeOK
  BY DEF IInv
<1> QED BY InvariantHolds, <1>1, PTL

\* A writer blocked on sendMoreCh always has its wake-up ahead of it, however
\* the test, the wait, the acknowledgements and the callback interleave.
THEOREM WakeupNeverLost == Spec => []NoLostWakeup
<1>1. IInv => NoLostWakeup
  BY DEF IInv
<1> QED BY InvariantHolds, <1>1, PTL

\* Stale wake-ups let a writer exceed MaxBufferedAmount by three messages at
\* most, for every message size.
THEOREM BackPressure == Spec => []BufferBounded
<1>1. IInv => BufferBounded
  BY FlowAssumption DEF IInv, TypeOK, WriterTypes, Room, Stale, BufferBounded
<1> QED BY InvariantHolds, <1>1, PTL
=============================================================================
