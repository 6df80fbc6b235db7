----------------------------- MODULE PipeProofs -----------------------------
(***************************************************************************)
(* What follows from Pipe alone, and so holds of every implementation of   *)
(* it.                                                                     *)
(***************************************************************************)
EXTENDS Pipe, TLAPS

LEMMA BeginsTransitive ==
  ASSUME NEW s \in Seq(Item), NEW t \in Seq(Item), NEW u \in Seq(Item),
         Begins(s, t), Begins(t, u)
  PROVE  Begins(s, u)
<1>1. /\ Len(s) \in Nat /\ Len(t) \in Nat /\ Len(u) \in Nat
      /\ Len(s) <= Len(t) /\ Len(t) <= Len(u)
  BY DEF Begins
<1>2. ASSUME NEW i \in 1..Len(s) PROVE s[i] = u[i]
  <2>1. i \in 1..Len(t)
    BY <1>1
  <2> QED BY <2>1 DEF Begins
<1> QED BY <1>1, <1>2 DEF Begins

LEMMA Inductive ==
  /\ Init => TypeOK /\ Prefix
  /\ TypeOK /\ Prefix /\ [Next]_vars => TypeOK' /\ Prefix'
<1>1. ASSUME Init PROVE TypeOK /\ Prefix
  <2>1. over \in BOOLEAN
    BY <1>1 DEF Init
  <2>2. <<>> \in Seq(Item) /\ Begins(<<>>, <<>>)
    BY DEF Begins
  <2> QED BY <1>1, <2>1, <2>2 DEF Init, TypeOK, Prefix
<1>2. ASSUME TypeOK, Prefix, [Next]_vars PROVE TypeOK' /\ Prefix'
  <2>1. CASE Write
    BY <1>2, <2>1, BeginsTransitive DEF Write, TypeOK, Prefix
  <2>2. CASE Read
    BY <1>2, <2>2 DEF Read, TypeOK, Prefix
  <2>3. CASE End
    <3>1. over' \in BOOLEAN
      BY <2>3 DEF End
    <3> QED BY <1>2, <2>3, <3>1 DEF End, TypeOK, Prefix
  <2>4. CASE UNCHANGED vars
    BY <1>2, <2>4 DEF vars, TypeOK, Prefix
  <2> QED BY <1>2, <2>1, <2>2, <2>3, <2>4 DEF Next
<1> QED BY <1>1, <1>2

\* Nothing is added, left out or repeated: what the reader has is a beginning
\* of what was written.
THEOREM ReaderHasPrefix == Spec => []Prefix
  BY Inductive, PTL DEF Spec
=============================================================================
