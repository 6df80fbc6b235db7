------------------------- MODULE WebRTCConnProofs --------------------------
(***************************************************************************)
(* Proofs about WebRTCConn, for any number of concurrent calls of Write,   *)
(* any sizes of calls, chunks and buffers and any number of tries.         *)
(***************************************************************************)
EXTENDS WebRTCConn, TLAPS

USE DEF wvars, rvars, cvars

LEMMA Ends == "near" \in End /\ "far" \in End /\ \A e \in End : e = "near" \/ e = "far"
  BY DEF End

LEMMA InitEstablishes == Init => ConnInv
<1> SUFFICES ASSUME Init PROVE ConnInv
  OBVIOUS
<1>1. over \in BOOLEAN /\ cut \in BOOLEAN
  BY DEF Init
<1>2. <<>> \in Seq(Seq(Byte)) /\ <<>> \in Seq(Byte) /\ Len(<<>>) = 0
  OBVIOUS
<1>3. TypeOK
  BY <1>1, <1>2, ConnAssumption DEF Init, TypeOK
<1>4. Counts /\ DrainInv
  BY Ends, ConnAssumption DEF Init, Counts, DrainInv
<1> QED BY <1>3, <1>4 DEF ConnInv

-----------------------------------------------------------------------------
(* Writing *)

\* What the steps of a call of Write leave alone.
LEMMA WritersKeep ==
  ASSUME NEW c \in Call, Begin(c) \/ WriteFails(c) \/ Flow(c) \/ WriteChunk(c)
  PROVE  UNCHANGED <<dlv, rvars, cvars, link, cut>>
<1>1. CASE Begin(c) \/ WriteFails(c)
  BY <1>1 DEF Begin, WriteFails
<1>2. CASE Flow(c) \/ WriteChunk(c)
  BY <1>2 DEF Flow, WriteChunk
<1> QED BY <1>1, <1>2

\* A chunk is the next bytes of the call, at most what is left of it.
LEMMA ChunkFacts ==
  ASSUME ConnInv, NEW c \in Call, WriteChunk(c)
  PROVE  \E k \in Nat, m \in Seq(Byte) :
           /\ done[c] + k <= size[c] /\ done' = [done EXCEPT ![c] = done[c] + k]
           /\ Len(m) = k /\ \A i \in 1..k : m[i] = [call |-> c, n |-> done[c] + i]
           /\ sent' = Append(sent, m)
<1> DEFINE k == Least(size[c] - done[c], Chunk)
           m == [i \in 1..k |-> [call |-> c, n |-> done[c] + i]]
<1>1. /\ size[c] \in 0..Length /\ done[c] \in 0..Length /\ done[c] <= size[c]
      /\ Length \in Nat /\ Chunk \in Nat
  BY ConnAssumption DEF ConnInv, TypeOK
<1>2. k \in Nat /\ done[c] + k <= size[c]
  BY <1>1 DEF Least
<1>3. m \in Seq(Byte) /\ Len(m) = k
  <2>1. ASSUME NEW i \in 1..k PROVE [call |-> c, n |-> done[c] + i] \in Byte
    <3>1. done[c] + i \in 1..Length
      BY <1>1, <1>2, <2>1
    <3> HIDE DEF k
    <3> QED BY <3>1 DEF Byte
  <2> HIDE DEF k
  <2>2. m \in [1..k -> Byte]
    BY <2>1
  <2> QED BY <1>2, <2>2
<1>4. sent' = Append(sent, m) /\ done' = [done EXCEPT ![c] = done[c] + k]
  BY DEF WriteChunk
<1>5. \A i \in 1..k : m[i] = [call |-> c, n |-> done[c] + i]
  OBVIOUS
<1> HIDE DEF k, m
<1> QED BY <1>2, <1>3, <1>4, <1>5

LEMMA ChunkType ==
  ASSUME ConnInv, NEW c \in Call, WriteChunk(c)
  PROVE  /\ sent' \in Seq(Seq(Byte)) /\ Len(sent') = Len(sent) + 1
         /\ done' \in [Call -> 0..Length]
         /\ \A d \in Call : done'[d] <= size'[d]
<1>1. PICK k \in Nat, m \in Seq(Byte) :
        /\ done[c] + k <= size[c] /\ done' = [done EXCEPT ![c] = done[c] + k]
        /\ sent' = Append(sent, m)
  BY ChunkFacts
<1>2. sent \in Seq(Seq(Byte)) /\ size' = size
  BY DEF WriteChunk, ConnInv, TypeOK
<1>3. /\ done \in [Call -> 0..Length] /\ size \in [Call -> 0..Length] /\ Length \in Nat
      /\ \A d \in Call : done[d] <= size[d]
  BY ConnAssumption DEF ConnInv, TypeOK
<1>4. done[c] + k \in 0..Length
  BY <1>1, <1>3
<1> QED BY <1>1, <1>2, <1>3, <1>4

LEMMA WriteStep ==
  ASSUME ConnInv, NEW c \in Call, Begin(c) \/ WriteFails(c) \/ Flow(c) \/ WriteChunk(c)
  PROVE  ConnInv'
<1> USE DEF ConnInv, TypeOK
<1>1. UNCHANGED <<dlv, rvars, cvars, link, cut>>
  BY WritersKeep
<1>2. pc' \in [Call -> {"idle", "write", "flow", "done", "error"}]
  <2>1. CASE Begin(c) \/ WriteFails(c)
    BY <2>1 DEF Begin, WriteFails
  <2>2. CASE Flow(c) \/ WriteChunk(c)
    BY <2>2 DEF Flow, WriteChunk
  <2> QED BY <2>1, <2>2
<1>3. /\ size' \in [Call -> 0..Length] /\ done' \in [Call -> 0..Length]
      /\ \A d \in Call : done'[d] <= size'[d]
  <2>1. CASE Begin(c)
    <3>1. PICK n \in 0..Length : size' = [size EXCEPT ![c] = n]
      BY <2>1 DEF Begin
    <3>2. done' = done /\ done[c] = 0
      BY <2>1 DEF Begin, Counts
    <3>3. size' \in [Call -> 0..Length] /\ n >= 0
      BY <3>1, ConnAssumption
    <3> QED BY <3>1, <3>2, <3>3
  <2>2. CASE WriteFails(c) \/ Flow(c)
    BY <2>2 DEF WriteFails, Flow
  <2>3. CASE WriteChunk(c)
    BY <2>3, ChunkType DEF WriteChunk
  <2> QED BY <2>1, <2>2, <2>3
<1>4. sent' \in Seq(Seq(Byte)) /\ Len(sent') >= Len(sent)
  BY ChunkType DEF Begin, WriteFails, Flow
<1>5. Counts'
  <2>1. \A d \in Call : pc'[d] = "idle" => pc[d] = "idle" /\ done'[d] = done[d]
    <3>1. CASE Begin(c)
      BY <3>1 DEF Begin
    <3>2. CASE WriteFails(c)
      BY <3>2 DEF WriteFails
    <3>3. CASE Flow(c)
      BY <3>3 DEF Flow
    <3>4. CASE WriteChunk(c)
      BY <3>4 DEF WriteChunk
    <3> QED BY <3>1, <3>2, <3>3, <3>4
  <2> QED BY <1>1, <2>1 DEF Counts
<1>6. DrainInv'
  BY <1>1 DEF DrainInv, GaveUp
<1>7. dlv' \in 0..Len(sent') /\ owed' \in 0..Len(sent')
  BY <1>1, <1>4
<1> QED BY <1>1, <1>2, <1>3, <1>4, <1>5, <1>6, <1>7

-----------------------------------------------------------------------------
(* Reading *)

LEMMA SourceType ==
  ASSUME ConnInv, rest # <<>> \/ HasMessage
  PROVE  Source \in Seq(Byte)
<1>1. CASE rest # <<>>
  BY <1>1 DEF Source, ConnInv, TypeOK
<1>2. CASE ~(rest # <<>>)
  <2>1. rd + 1 \in 1..Len(sent)
    BY <1>2 DEF HasMessage, ConnInv, TypeOK
  <2>2. sent[rd + 1] \in Seq(Byte)
    BY <2>1 DEF ConnInv, TypeOK
  <2> QED BY <1>2, <2>2 DEF Source
<1> QED BY <1>1, <1>2

LEMMA ReadStep ==
  ASSUME ConnInv, NEW k \in 1..Buffer, Read(k)
  PROVE  ConnInv'
<1> USE DEF ConnInv, TypeOK
<1> DEFINE n == Least(k, Len(Source))
<1>1. Source \in Seq(Byte)
  BY SourceType DEF Read
<1>2. n \in 0..Len(Source) /\ Len(Source) \in Nat
  BY <1>1, ConnAssumption DEF Least
<1>3. SubSeq(Source, 1, n) \in Seq(Byte) /\ SubSeq(Source, n + 1, Len(Source)) \in Seq(Byte)
  <2> HIDE DEF n
  <2> QED BY <1>1, <1>2
<1>4. got' \in Seq(Byte) /\ rest' \in Seq(Byte)
  <2>1. got' = got \o SubSeq(Source, 1, n) /\ rest' = SubSeq(Source, n + 1, Len(Source))
    BY DEF Read
  <2> HIDE DEF n
  <2> QED BY <1>3, <2>1
<1>5. UNCHANGED <<wvars, sent, dlv, over, cvars, link, cut>>
  BY DEF Read
<1>6. rd' \in 0..dlv
  BY DEF Read, HasMessage
<1>7. over => rd' = rd
  BY DEF Read, HasMessage, DrainInv
<1> QED BY <1>4, <1>5, <1>6, <1>7 DEF Counts, DrainInv, GaveUp

LEMMA ReadEndStep == ConnInv /\ ReadEnd => ConnInv'
<1> SUFFICES ASSUME ConnInv, ReadEnd PROVE ConnInv'
  OBVIOUS
<1>1. over' \in BOOLEAN /\ rd = dlv /\ link["far"] = "down"
  BY DEF ReadEnd, HasMessage, ConnInv, TypeOK
<1> QED BY <1>1 DEF ReadEnd, ConnInv, TypeOK, Counts, DrainInv, GaveUp

-----------------------------------------------------------------------------
(* Closing *)

LEMMA CloseStep ==
  ASSUME ConnInv, NEW e \in End,
         Close(e) \/ Drained(e) \/ DrainTry(e) \/ ClosePC(e) \/ DeleteEnds(e)
  PROVE  ConnInv'
<1> USE Ends, ConnAssumption DEF ConnInv, TypeOK, SetClosing
<1>1. CASE Close(e)
  <2>1. owed' \in 0..Len(sent)
    BY <1>1 DEF Close
  <2>2. \A f \in End : closing'[f] = IF f = e THEN "drain" ELSE closing[f]
    BY <1>1 DEF Close
  <2>3. e # "near" => owed' = owed
    BY <1>1 DEF Close
  <2>4. TypeOK'
    BY <1>1, <2>1 DEF Close
  <2>5. Counts'
    BY <1>1, <2>2 DEF Close, Counts
  <2>6. DrainInv'
    BY <1>1, <2>2, <2>3 DEF Close, DrainInv, GaveUp
  <2> QED BY <2>4, <2>5, <2>6
\* Nothing is buffered: everything that was written has been delivered.
<1>2. CASE Drained(e)
  <2>1. e = "near" => dlv >= owed
    BY <1>2 DEF Drained, BufferedAt, Buffered
  <2>2. \A f \in End : closing'[f] = IF f = e THEN "close" ELSE closing[f]
    BY <1>2 DEF Drained
  <2>3. TypeOK'
    BY <1>2 DEF Drained
  <2>4. Counts'
    BY <1>2, <2>2 DEF Drained, Counts
  <2>5. DrainInv'
    BY <1>2, <2>1, <2>2 DEF Drained, DrainInv, GaveUp
  <2> QED BY <2>3, <2>4, <2>5
<1>3. CASE DrainTry(e)
  <2>1. tries[e] <= Tries /\ tries[e] \in Nat
    BY <1>3 DEF DrainTry, Counts
  <2>2. \A f \in End : tries'[f] = IF f = e THEN tries[e] + 1 ELSE tries[f]
    BY <1>3 DEF DrainTry
  <2>3. \A f \in End : closing'[f] = IF f = e THEN IF tries[e] + 1 > Tries THEN "close" ELSE "drain"
                                     ELSE closing[f]
    BY <1>3 DEF DrainTry
  <2>4. tries' \in [End -> 0..(Tries + 1)] /\ closing' \in [End -> {"open", "drain", "close", "delete", "done"}]
    BY <1>3, <2>1 DEF DrainTry
  <2>5. TypeOK'
    BY <1>3, <2>4 DEF DrainTry
  <2>6. Counts'
    BY <1>3, <2>1, <2>2, <2>3 DEF DrainTry, Counts
  <2>7. DrainInv'
    BY <1>3, <2>1, <2>2, <2>3 DEF DrainTry, DrainInv, GaveUp
  <2> QED BY <2>5, <2>6, <2>7
<1>4. CASE ClosePC(e)
  <2>1. \A f \in End : closing'[f] =
         IF f = e THEN (IF e = Dialled THEN "delete" ELSE "done") ELSE closing[f]
    BY <1>4 DEF ClosePC
  <2>2. link["far"] = "down" => link'["far"] = "down"
    BY <1>4 DEF ClosePC
  <2>3. TypeOK'
    BY <1>4 DEF ClosePC
  <2>4. Counts'
    BY <1>4, <2>1 DEF ClosePC, Counts
  <2>5. DrainInv'
    BY <1>4, <2>1, <2>2 DEF ClosePC, DrainInv, GaveUp
  <2> QED BY <2>3, <2>4, <2>5
<1>5. CASE DeleteEnds(e)
  <2>1. \A f \in End : closing'[f] = IF f = e THEN "done" ELSE closing[f]
    BY <1>5 DEF DeleteEnds
  <2>2. TypeOK'
    BY <1>5 DEF DeleteEnds
  <2>3. Counts'
    BY <1>5, <2>1 DEF DeleteEnds, Counts
  <2>4. DrainInv'
    BY <1>5, <2>1 DEF DeleteEnds, DrainInv, GaveUp
  <2> QED BY <2>2, <2>3, <2>4
<1> QED BY <1>1, <1>2, <1>3, <1>4, <1>5

-----------------------------------------------------------------------------

LEMMA NetworkStep ==
  ASSUME ConnInv, Deliver \/ NetworkCut \/ \E e \in End : LinkDown(e)
  PROVE  ConnInv'
<1> USE Ends DEF ConnInv, TypeOK, Counts, DrainInv, GaveUp
<1>1. CASE Deliver
  <2>1. dlv' = dlv + 1 /\ dlv + 1 \in 0..Len(sent) /\ link["far"] = "up"
    BY <1>1 DEF Deliver, Buffered
  <2> QED BY <1>1, <2>1 DEF Deliver
<1>2. CASE NetworkCut
  <2>1. cut' \in BOOLEAN
    BY <1>2 DEF NetworkCut
  <2> QED BY <1>2, <2>1 DEF NetworkCut
<1>3. ASSUME NEW e \in End, LinkDown(e) PROVE ConnInv'
  <2>1. link["far"] = "down" => link'["far"] = "down"
    BY <1>3 DEF LinkDown
  <2> QED BY <1>3, <2>1 DEF LinkDown
<1> QED BY <1>1, <1>2, <1>3

LEMMA Inductive == ConnInv /\ [Next]_vars => ConnInv'
<1> SUFFICES ASSUME ConnInv, [Next]_vars PROVE ConnInv'
  OBVIOUS
<1>1. ASSUME NEW c \in Call, Begin(c) \/ Sending(c) \/ Flow(c) PROVE ConnInv'
  BY <1>1, WriteStep DEF Sending
<1>2. CASE Reading
  BY <1>2, ReadStep, ReadEndStep DEF Reading
<1>3. ASSUME NEW e \in End, Close(e) \/ Closing(e) \/ DeleteEnds(e) PROVE ConnInv'
  BY <1>3, CloseStep DEF Closing
<1>4. CASE Deliver \/ NetworkCut \/ \E e \in End : LinkDown(e)
  BY <1>4, NetworkStep
<1>5. CASE UNCHANGED vars
  BY <1>5 DEF vars, ConnInv, TypeOK, Counts, DrainInv, GaveUp
<1> QED BY <1>1, <1>2, <1>3, <1>4, <1>5 DEF Next

\* The inductive invariant: what Close has seen delivered, and what the end of
\* the stream means to the reader.
THEOREM InvariantHolds == Spec => []ConnInv
  BY InitEstablishes, Inductive, PTL DEF Spec

\* Every variable keeps its type: no chunk exceeds its call, the reader never
\* overtakes the network, and Close tries a bounded number of times.
THEOREM TypeCorrect == Spec => []TypeOK
<1>1. ConnInv => TypeOK
  BY DEF ConnInv
<1> QED BY InvariantHolds, <1>1, PTL

\* Whatever the network and the peer do: when Close has closed the peer
\* connection and the reader has come to the end, it has read all that was
\* written before Close, unless Close gave up.
THEOREM OnlyGivingUpLoses == Spec => []LostOnlyByGivingUp
<1>1. ConnInv => LostOnlyByGivingUp
  BY DEF ConnInv, TypeOK, DrainInv, LostOnlyByGivingUp, PCClosed
<1> QED BY InvariantHolds, <1>1, PTL
=============================================================================
