------------------------ MODULE WebRTCConnPipeProofs ------------------------
(***************************************************************************)
(* One direction of a WebRTCConn implements Pipe, and the bytes of         *)
(* concurrent calls of Write do not mix, for any number and sizes of calls,*)
(* chunks and buffers.                                                     *)
(*                                                                         *)
(* The stream is FlattenSeq(sent), a recursive function.  What it does to  *)
(* one message more is proved by induction, in the form that every         *)
(* non-empty set of naturals has a least element: that form takes no       *)
(* operator as its parameter, so that the provers can use it.              *)
(***************************************************************************)
EXTENDS WebRTCConnProofs, WellFoundedInduction

-----------------------------------------------------------------------------
(* FlattenSeq *)

\* Every non-empty set of naturals has a least element.
LEMMA LeastNumber ==
  ASSUME NEW T \in SUBSET Nat, T # {}
  PROVE  \E m \in T : \A k \in T : m <= k
<1> DEFINE R == {p \in Nat \X Nat : p[1] < p[2]}
<1>1. IsWellFoundedOn(R, Nat)
  BY NatLessThanWellFounded DEF OpToRel
<1>2. \A x, y \in Nat : x < y => <<x, y>> \in R
  OBVIOUS
<1> HIDE DEF R
<1>3. PICK m \in T : \A k \in T : ~ (<<k, m>> \in R)
  BY <1>1, WFMin
<1>4. \A k \in T : ~(k < m)
  BY <1>2, <1>3
<1> QED BY <1>4

\* f[i] is the concatenation of the first i of the n sequences in s.
Partial(B, s, f, n) ==
  /\ f \in [1..n -> Seq(B)]
  /\ \A i \in 1..n : f[i] = IF i = 1 THEN s[i] ELSE f[i - 1] \o s[i]

LEMMA PartialGrows ==
  ASSUME NEW B, NEW s \in Seq(Seq(B)), NEW n \in Nat, n < Len(s), NEW f, Partial(B, s, f, n)
  PROVE  \E g : Partial(B, s, g, n + 1)
<1> DEFINE e == IF n = 0 THEN s[1] ELSE f[n] \o s[n + 1]
           g == [i \in 1..n + 1 |-> IF i = n + 1 THEN e ELSE f[i]]
<1>1. n + 1 \in 1..Len(s)
  OBVIOUS
<1>2. s[n + 1] \in Seq(B)
  BY <1>1
<1>3. e \in Seq(B)
  <2>1. n # 0 => f[n] \in Seq(B)
    BY DEF Partial
  <2> QED BY <1>2, <2>1
<1>4. g \in [1..n + 1 -> Seq(B)]
  <2> HIDE DEF e
  <2> QED BY <1>3 DEF Partial
<1>5. \A i \in 1..n : g[i] = f[i]
  OBVIOUS
<1>6. g[n + 1] = e
  OBVIOUS
<1> HIDE DEF g
<1>7. ASSUME NEW i \in 1..n + 1 PROVE g[i] = IF i = 1 THEN s[i] ELSE g[i - 1] \o s[i]
  <2>1. CASE i = n + 1
    BY <1>5, <1>6, <2>1
  <2>2. CASE i \in 1..n
    <3>1. i # 1 => i - 1 \in 1..n
      BY <2>2
    <3> QED BY <1>5, <2>2, <3>1 DEF Partial
  <2> QED BY <2>1, <2>2
<1> QED BY <1>4, <1>7 DEF Partial

LEMMA PartialExists ==
  ASSUME NEW B, NEW s \in Seq(Seq(B)), NEW n \in 0..Len(s)
  PROVE  \E f : Partial(B, s, f, n)
<1> DEFINE T == {m \in 0..Len(s) : ~ \E f : Partial(B, s, f, m)}
<1> SUFFICES ASSUME T # {} PROVE FALSE
  OBVIOUS
<1>1. PICK m \in T : \A k \in T : m <= k
  <2>1. T \in SUBSET Nat
    OBVIOUS
  <2> HIDE DEF T
  <2> QED BY <2>1, LeastNumber
<1>2. m \in 0..Len(s) /\ ~ \E f : Partial(B, s, f, m)
  OBVIOUS
<1>3. m # 0
  <2>1. [i \in 1..0 |-> <<>>] \in [1..0 -> Seq(B)]
    OBVIOUS
  <2>2. Partial(B, s, [i \in 1..0 |-> <<>>], 0)
    BY <2>1 DEF Partial
  <2> QED BY <1>2, <2>2
<1>4. PICK f : Partial(B, s, f, m - 1)
  <2>1. m - 1 \in 0..Len(s) /\ ~(m <= m - 1)
    BY <1>2, <1>3
  <2>2. m - 1 \notin T
    BY <1>1, <2>1
  <2> QED BY <2>1, <2>2
<1>5. \E g : Partial(B, s, g, (m - 1) + 1)
  BY <1>2, <1>3, <1>4, PartialGrows
<1> QED BY <1>2, <1>5

LEMMA PartialUnique ==
  ASSUME NEW B, NEW s, NEW n \in Nat, NEW f, Partial(B, s, f, n), NEW g, Partial(B, s, g, n),
         NEW i \in 1..n
  PROVE  f[i] = g[i]
<1> DEFINE T == {m \in 1..n : f[m] # g[m]}
<1> SUFFICES ASSUME T # {} PROVE FALSE
  OBVIOUS
<1>1. PICK m \in T : \A k \in T : m <= k
  <2>1. T \in SUBSET Nat
    OBVIOUS
  <2> HIDE DEF T
  <2> QED BY <2>1, LeastNumber
<1>2. m \in 1..n /\ f[m] # g[m]
  OBVIOUS
<1>3. m # 1
  BY <1>2 DEF Partial
<1>4. m - 1 \in 1..n /\ f[m - 1] = g[m - 1]
  BY <1>1, <1>2, <1>3
<1> QED BY <1>2, <1>3, <1>4 DEF Partial

LEMMA FlattenIsLast ==
  ASSUME NEW B, NEW s \in Seq(Seq(B)), s # <<>>
  PROVE  \E f : Partial(B, s, f, Len(s)) /\ FlattenSeq(s) = f[Len(s)]
<1> DEFINE Step(f) == [i \in 1..Len(s) |-> IF i = 1 THEN s[i] ELSE f[i - 1] \o s[i]]
           F == CHOOSE f : f = Step(f)
<1>1. PICK g : Partial(B, s, g, Len(s))
  BY PartialExists
<1>2. g = Step(g)
  BY <1>1 DEF Partial
<1>3. F = Step(F)
  <2> HIDE DEF Step
  <2> QED BY <1>2
<1>4. FlattenSeq(s) = F[Len(s)]
  BY DEF FlattenSeq
<1> HIDE DEF F
<1>5. \A i \in 1..Len(s) : F[i] = IF i = 1 THEN s[i] ELSE F[i - 1] \o s[i]
  BY <1>3
<1>6. DOMAIN F = 1..Len(s) /\ F = [i \in 1..Len(s) |-> F[i]]
  BY <1>3
<1>7. \A i \in 1..Len(s) : F[i] \in Seq(B)
  <2> DEFINE T == {m \in 1..Len(s) : F[m] \notin Seq(B)}
  <2> SUFFICES ASSUME T # {} PROVE FALSE
    OBVIOUS
  <2>1. PICK m \in T : \A k \in T : m <= k
    <3>1. T \in SUBSET Nat
      OBVIOUS
    <3> HIDE DEF T
    <3> QED BY <3>1, LeastNumber
  <2>2. m \in 1..Len(s) /\ F[m] \notin Seq(B) /\ s[m] \in Seq(B)
    OBVIOUS
  <2>3. m # 1
    BY <1>5, <2>2
  <2>4. m - 1 \in 1..Len(s) /\ F[m - 1] \in Seq(B)
    <3>1. m - 1 \in 1..Len(s) /\ ~(m <= m - 1)
      BY <2>2, <2>3
    <3>2. m - 1 \notin T
      BY <2>1, <3>1
    <3> QED BY <3>1, <3>2
  <2>5. F[m] = F[m - 1] \o s[m]
    BY <1>5, <2>2, <2>3
  <2> QED BY <2>2, <2>4, <2>5
<1>8. Partial(B, s, F, Len(s))
  BY <1>5, <1>6, <1>7 DEF Partial
<1> QED BY <1>4, <1>8

LEMMA FlattenType ==
  ASSUME NEW B, NEW s \in Seq(Seq(B))
  PROVE  FlattenSeq(s) \in Seq(B)
<1>1. CASE s = <<>>
  BY <1>1 DEF FlattenSeq
<1>2. CASE s # <<>>
  <2>1. PICK f : Partial(B, s, f, Len(s)) /\ FlattenSeq(s) = f[Len(s)]
    BY <1>2, FlattenIsLast
  <2>2. Len(s) \in 1..Len(s)
    BY <1>2
  <2> QED BY <2>1, <2>2 DEF Partial
<1> QED BY <1>1, <1>2

LEMMA FlattenAppend ==
  ASSUME NEW B, NEW s \in Seq(Seq(B)), NEW e \in Seq(B)
  PROVE  FlattenSeq(Append(s, e)) = FlattenSeq(s) \o e
<1> DEFINE t == Append(s, e)
           n == Len(s)
<1>1. /\ n \in Nat /\ Len(t) = n + 1 /\ t[n + 1] = e
      /\ \A i \in 1..n : t[i] = s[i]
  OBVIOUS
<1>6. t \in Seq(Seq(B)) /\ t # <<>>
  <2>1. t \in Seq(Seq(B))
    OBVIOUS
  <2> HIDE DEF t
  <2> QED BY <1>1, <2>1
<1>5. \A i \in 1..n : i \in 1..(n + 1) /\ (i # 1 => i - 1 \in 1..n)
  BY <1>1
<1> HIDE DEF t
<1>2. PICK g : Partial(B, t, g, n + 1) /\ FlattenSeq(t) = g[n + 1]
  BY <1>1, <1>6, FlattenIsLast
<1>3. CASE s = <<>>
  <2>1. n = 0 /\ FlattenSeq(s) = <<>>
    BY <1>3 DEF FlattenSeq
  <2>2. g[n + 1] = t[n + 1]
    BY <1>2, <2>1 DEF Partial
  <2>3. FlattenSeq(t) = e
    BY <1>1, <1>2, <2>2
  <2> QED BY <2>1, <2>3 DEF t
<1>4. CASE s # <<>>
  <2>1. PICK f : Partial(B, s, f, n) /\ FlattenSeq(s) = f[n]
    BY <1>4, FlattenIsLast
  <2>2. n \in 1..n /\ n + 1 # 1
    BY <1>1, <1>4
  <2>3. Partial(B, s, [i \in 1..n |-> g[i]], n)
    <3>1. \A i \in 1..n : g[i] \in Seq(B)
      BY <1>2, <1>5 DEF Partial
    <3>2. \A i \in 1..n : g[i] = IF i = 1 THEN s[i] ELSE g[i - 1] \o s[i]
      BY <1>1, <1>2, <1>5 DEF Partial
    <3> QED BY <1>5, <3>1, <3>2 DEF Partial
  <2>4. f[n] = [i \in 1..n |-> g[i]][n]
    <3> DEFINE h == [i \in 1..n |-> g[i]]
    <3> HIDE DEF h
    <3>1. n \in Nat /\ Partial(B, s, h, n)
      BY <1>1, <2>3 DEF h
    <3>2. f[n] = h[n]
      <4> HIDE DEF n
      <4> QED BY <2>1, <2>2, <3>1, PartialUnique
    <3> QED BY <3>2 DEF h
  <2>5. g[n] = FlattenSeq(s)
    BY <2>1, <2>2, <2>4
  <2>6. g[n + 1] = g[n] \o t[n + 1]
    <3>1. n + 1 \in 1..(n + 1) /\ (n + 1) - 1 = n
      BY <1>1
    <3> QED BY <1>2, <2>2, <3>1 DEF Partial
  <2> QED BY <1>1, <1>2, <2>5, <2>6 DEF t
<1> QED BY <1>3, <1>4

\* The first n of the sequences in s.
First(s, n) == SubSeq(s, 1, n)

LEMMA FirstGrows ==
  ASSUME NEW B, NEW s \in Seq(B), NEW n \in 0..(Len(s) - 1)
  PROVE  /\ First(s, n) \in Seq(B) /\ s[n + 1] \in B
         /\ First(s, n + 1) = Append(First(s, n), s[n + 1])
<1>1. n + 1 \in 1..Len(s)
  OBVIOUS
<1>2. First(s, n) \in Seq(B) /\ Len(First(s, n)) = n /\ s[n + 1] \in B
  BY <1>1 DEF First
<1>3. Len(First(s, n + 1)) = n + 1 /\ First(s, n + 1) \in Seq(B)
  BY <1>1 DEF First
<1>4. \A i \in 1..n + 1 : First(s, n + 1)[i] = Append(First(s, n), s[n + 1])[i]
  BY <1>1, <1>2 DEF First
<1> QED BY <1>2, <1>3, <1>4

LEMMA FlattenFirst ==
  ASSUME NEW B, NEW s \in Seq(Seq(B)), NEW n \in 0..Len(s)
  PROVE  Stream!Begins(FlattenSeq(First(s, n)), FlattenSeq(s))
<1> DEFINE T == {k \in Nat : k <= Len(s) /\ ~Stream!Begins(FlattenSeq(First(s, Len(s) - k)), FlattenSeq(s))}
<1> SUFFICES ASSUME T # {} PROVE FALSE
  <2>1. Len(s) - n \in Nat /\ Len(s) - n <= Len(s) /\ Len(s) - (Len(s) - n) = n
    OBVIOUS
  <2>2. Len(s) - n \notin T
    OBVIOUS
  <2> QED BY <2>1, <2>2
<1>1. PICK m \in T : \A k \in T : m <= k
  <2>1. T \in SUBSET Nat
    OBVIOUS
  <2> HIDE DEF T
  <2> QED BY <2>1, LeastNumber
<1>2. m \in 0..Len(s) /\ ~Stream!Begins(FlattenSeq(First(s, Len(s) - m)), FlattenSeq(s))
  OBVIOUS
<1>3. m # 0
  <2>1. First(s, Len(s) - 0) = s
    BY DEF First
  <2> QED BY <1>2, <2>1, FlattenType DEF Stream!Begins
<1> DEFINE l == Len(s) - m
<1>4. l \in 0..(Len(s) - 1) /\ m - 1 \in Nat /\ ~(m <= m - 1) /\ Len(s) - (m - 1) = l + 1
  BY <1>2, <1>3
<1>5. Stream!Begins(FlattenSeq(First(s, l + 1)), FlattenSeq(s))
  <2>1. m - 1 \notin T
    BY <1>1, <1>4
  <2>2. m - 1 <= Len(s)
    BY <1>4
  <2> QED BY <1>4, <2>1, <2>2
<1> HIDE DEF l, T
<1>6. FlattenSeq(First(s, l + 1)) = FlattenSeq(First(s, l)) \o s[l + 1]
  BY <1>4, FirstGrows, FlattenAppend
<1>7. /\ FlattenSeq(First(s, l)) \in Seq(B) /\ s[l + 1] \in Seq(B)
      /\ FlattenSeq(s) \in Seq(B)
  BY <1>4, FirstGrows, FlattenType
<1>8. Stream!Begins(FlattenSeq(First(s, l)), FlattenSeq(s))
  BY <1>5, <1>6, <1>7 DEF Stream!Begins
<1> QED BY <1>2, <1>8 DEF l

-----------------------------------------------------------------------------
(* The bytes of the calls *)

USE DEF wvars, rvars, cvars

Bytes == FlattenSeq(sent)

LEMMA BytesType == TypeOK => Bytes \in Seq(Byte) /\ sent \in Seq(Seq(Byte))
  BY FlattenType DEF TypeOK, Bytes

\* r is s followed by t, element by element.
IsConcat(r, s, t) ==
  /\ Len(r) = Len(s) + Len(t)
  /\ \A i \in 1..Len(s) : r[i] = s[i]
  /\ \A i \in 1..Len(t) : r[Len(s) + i] = t[i]

LEMMA Concat ==
  ASSUME NEW B, NEW s \in Seq(B), NEW t \in Seq(B)
  PROVE  /\ s \o t \in Seq(B) /\ Len(s) \in Nat /\ Len(t) \in Nat
         /\ IsConcat(s \o t, s, t)
<1>1. /\ s \o t \in Seq(B) /\ Len(s) \in Nat /\ Len(t) \in Nat /\ Len(s \o t) = Len(s) + Len(t)
      /\ \A i \in 1..Len(s) : (s \o t)[i] = s[i]
      /\ \A i \in 1..Len(t) : (s \o t)[Len(s) + i] = t[i]
  OBVIOUS
<1> QED BY <1>1, Zenon DEF IsConcat

\* Two sequences with the same elements.
LEMMA SameSeq ==
  ASSUME NEW B, NEW s \in Seq(B), NEW t \in Seq(B), Len(s) = Len(t),
         \A i \in 1..Len(s) : s[i] = t[i]
  PROVE  s = t
  OBVIOUS

LEMMA AssocOf ==
  ASSUME NEW B, NEW s \in Seq(B), NEW t \in Seq(B), NEW u \in Seq(B),
         NEW a \in Seq(B), NEW b \in Seq(B), NEW l \in Seq(B), NEW r \in Seq(B),
         IsConcat(a, s, t), IsConcat(b, t, u), IsConcat(l, a, u), IsConcat(r, s, b)
  PROVE  l = r
<1>1. /\ Len(s) \in Nat /\ Len(t) \in Nat /\ Len(u) \in Nat
      /\ Len(a) = Len(s) + Len(t) /\ Len(b) = Len(t) + Len(u)
      /\ Len(l) = Len(a) + Len(u) /\ Len(r) = Len(s) + Len(b)
  BY DEF IsConcat
<1>2. ASSUME NEW i \in 1..Len(l) PROVE l[i] = r[i]
  <2>1. CASE i <= Len(s)
    <3>1. i \in 1..Len(s) /\ i \in 1..Len(a)
      BY <1>1, <2>1
    <3> QED BY <3>1 DEF IsConcat
  <2>2. CASE i > Len(s) /\ i <= Len(a)
    <3> DEFINE j == i - Len(s)
    <3>1. j \in 1..Len(t) /\ j \in 1..Len(b) /\ i \in 1..Len(a) /\ i = Len(s) + j
      BY <1>1, <2>2
    <3> HIDE DEF j
    <3>2. l[i] = a[i] /\ a[i] = t[j]
      BY <3>1 DEF IsConcat
    <3>3. r[i] = b[j] /\ b[j] = t[j]
      BY <3>1 DEF IsConcat
    <3> QED BY <3>2, <3>3
  <2>3. CASE i > Len(a)
    <3> DEFINE j == i - Len(a)
               k == Len(t) + j
    <3>1. j \in 1..Len(u) /\ k \in 1..Len(b) /\ i = Len(a) + j /\ i = Len(s) + k
      BY <1>1, <2>3
    <3>2. k = Len(t) + j
      OBVIOUS
    <3> HIDE DEF j, k
    <3>3. l[i] = u[j]
      BY <3>1 DEF IsConcat
    <3>4. r[i] = b[k] /\ b[k] = u[j]
      BY <3>1, <3>2 DEF IsConcat
    <3> QED BY <3>3, <3>4
  <2>4. Len(a) \in Nat /\ i \in Nat
    BY <1>1
  <2> QED BY <1>1, <2>1, <2>2, <2>3, <2>4
<1>3. Len(l) = Len(r)
  BY <1>1
<1> QED BY <1>2, <1>3, SameSeq

LEMMA ConcatAssoc ==
  ASSUME NEW B, NEW s \in Seq(B), NEW t \in Seq(B), NEW u \in Seq(B)
  PROVE  (s \o t) \o u = s \o (t \o u)
<1>1. s \o t \in Seq(B) /\ t \o u \in Seq(B)
  BY Concat, Zenon
<1>2. (s \o t) \o u \in Seq(B) /\ s \o (t \o u) \in Seq(B)
  BY <1>1, Concat, Zenon
<1>3. IsConcat(s \o t, s, t) /\ IsConcat(t \o u, t, u)
  BY Concat, Zenon
<1>4. IsConcat((s \o t) \o u, s \o t, u) /\ IsConcat(s \o (t \o u), s, t \o u)
  BY <1>1, Concat, Zenon
<1> QED BY <1>1, <1>2, <1>3, <1>4, AssocOf, Zenon

\* A chunk follows what its call has sent before.
LEMMA WholeGrows ==
  ASSUME NEW s \in Seq(Byte), Whole(s), NEW c, NEW d \in Nat, NEW k \in Nat, NEW m \in Seq(Byte),
         Len(m) = k, \A i \in 1..k : m[i] = [call |-> c, n |-> d + i],
         d > 0 => s # <<>> /\ s[Len(s)] = [call |-> c, n |-> d]
  PROVE  Whole(s \o m)
<1> DEFINE t == s \o m
<1>1. /\ Len(s) \in Nat /\ Len(t) = Len(s) + k
      /\ \A i \in 1..Len(s) : t[i] = s[i]
      /\ \A i \in 1..k : t[Len(s) + i] = m[i]
  <2>1. Len(s) \in Nat /\ IsConcat(t, s, m)
    BY Concat, Zenon
  <2> HIDE DEF t
  <2> QED BY <2>1 DEF IsConcat
<1>2. s # <<>> => Len(s) \in 1..Len(s)
  <2>1. s # <<>> => Len(s) # 0
    OBVIOUS
  <2> QED BY <1>1, <2>1
<1> HIDE DEF t
<1>3. ASSUME NEW i \in 1..Len(t), t[i].n > 1
      PROVE  i > 1 /\ t[i - 1] = [t[i] EXCEPT !.n = @ - 1]
  <2>1. CASE i <= Len(s)
    <3>1. i \in 1..Len(s) /\ (i > 1 => i - 1 \in 1..Len(s))
      BY <1>1, <2>1
    <3>2. t[i] = s[i] /\ (i > 1 => t[i - 1] = s[i - 1])
      BY <1>1, <3>1
    <3> QED BY <1>3, <3>1, <3>2 DEF Whole
  <2>2. CASE ~(i <= Len(s))
    <3> DEFINE j == i - Len(s)
    <3>1. j \in 1..k /\ i = Len(s) + j
      BY <1>1, <2>2
    <3> HIDE DEF j
    <3>2. t[i] = [call |-> c, n |-> d + j]
      BY <1>1, <3>1
    <3>3. CASE j = 1
      <4>1. d > 0
        BY <1>3, <3>2, <3>3
      <4>2. s # <<>> /\ s[Len(s)] = [call |-> c, n |-> d] /\ i - 1 = Len(s)
        BY <1>1, <3>1, <3>3, <4>1
      <4>3. i > 1 /\ t[i - 1] = s[Len(s)]
        BY <1>1, <1>2, <3>1, <3>3, <4>2
      <4> QED BY <3>2, <3>3, <4>2, <4>3
    <3>4. CASE j # 1
      <4>1. j - 1 \in 1..k /\ i - 1 = Len(s) + (j - 1) /\ i > 1
        BY <1>1, <3>1, <3>4
      <4>2. t[i - 1] = [call |-> c, n |-> d + (j - 1)]
        BY <1>1, <4>1
      <4> QED BY <3>1, <3>2, <4>1, <4>2
    <3> QED BY <3>3, <3>4
  <2> QED BY <2>1, <2>2
<1> QED BY <1>3 DEF t, Whole

\* What was read stays the same when more is written.
LEMMA FirstOfMore ==
  ASSUME NEW B, NEW s \in Seq(B), NEW e \in B, NEW n \in 0..Len(s)
  PROVE  SubSeq(Append(s, e), 1, n) = SubSeq(s, 1, n)
  OBVIOUS

LEMMA WriteBytes ==
  ASSUME ConnInv, BytesInv, NEW c \in Call, WriteChunk(c)
  PROVE  BytesInv' /\ Stream!Begins(Bytes, Bytes')
<1>1. PICK k \in Nat, m \in Seq(Byte) :
        /\ done[c] + k <= size[c] /\ done' = [done EXCEPT ![c] = done[c] + k]
        /\ Len(m) = k /\ \A i \in 1..k : m[i] = [call |-> c, n |-> done[c] + i]
        /\ sent' = Append(sent, m)
  BY ChunkFacts
<1>2. /\ sent \in Seq(Seq(Byte)) /\ Bytes \in Seq(Byte) /\ done \in [Call -> 0..Length]
      /\ pc \in [Call -> {"idle", "write", "flow", "done", "error"}]
      /\ rd \in 0..Len(sent) /\ Length \in Nat
  BY BytesType, ConnAssumption DEF ConnInv, TypeOK
<1>3. done[c] \in Nat
  BY <1>2
<1>4. Bytes' = Bytes \o m
  BY <1>1, <1>2, FlattenAppend DEF Bytes
<1>5. /\ Writing(c) /\ \A d \in Call : Writing(d)' => Writing(d)
  BY <1>2 DEF WriteChunk, Writing
<1>6. done[c] > 0 => Bytes # <<>> /\ Bytes[Len(Bytes)] = [call |-> c, n |-> done[c]]
  BY <1>5 DEF BytesInv, WriterAtEnd, Bytes
<1>7. Whole(Bytes')
  <2>1. Whole(Bytes)
    BY DEF BytesInv, Bytes
  <2>2. Whole(Bytes \o m)
    BY <1>1, <1>2, <1>3, <1>6, <2>1, WholeGrows
  <2> QED BY <1>4, <2>2
<1>8. OneWriter'
  BY <1>5 DEF BytesInv, OneWriter
<1>9. ASSUME NEW d \in Call, Writing(d)', done'[d] > 0
      PROVE  /\ Bytes' # <<>> /\ Bytes'[Len(Bytes')] = [call |-> d, n |-> done'[d]]
  <2>1. d = c
    BY <1>5, <1>9 DEF BytesInv, OneWriter
  <2>2. done'[d] = done[c] + k
    BY <1>1, <1>2, <2>1
  <2>3. CASE k = 0
    <3>1. Bytes \o m = Bytes
      BY <1>1, <1>2, <2>3
    <3> QED BY <1>3, <1>4, <1>6, <1>9, <2>1, <2>2, <2>3, <3>1
  <2>4. CASE k # 0
    <3>1. k \in 1..k /\ Len(Bytes \o m) = Len(Bytes) + k /\ (Bytes \o m)[Len(Bytes) + k] = m[k]
      <4>1. k \in 1..k
        BY <2>4
      <4>2. m \in Seq(Byte)
        BY <1>1
      <4>3. IsConcat(Bytes \o m, Bytes, m)
        BY <1>2, <4>2, Concat, Zenon
      <4> QED BY <1>1, <4>1, <4>3 DEF IsConcat
    <3>2. Len(Bytes) + k # 0 /\ Len(<<>>) = 0
      BY <1>2, <2>4
    <3> QED BY <1>1, <1>4, <2>1, <2>2, <3>1, <3>2
  <2> QED BY <2>3, <2>4
<1>10. WriterAtEnd'
  BY <1>9 DEF WriterAtEnd, Bytes
<1>11. ReaderPlace'
  <2>1. SubSeq(sent', 1, rd) = SubSeq(sent, 1, rd)
    BY <1>1, <1>2, FirstOfMore
  <2>2. UNCHANGED <<rd, rest, got, over>>
    BY DEF WriteChunk
  <2> QED BY <2>1, <2>2 DEF BytesInv, ReaderPlace
<1>12. Stream!Begins(Bytes, Bytes')
  BY <1>1, <1>2, <1>4 DEF Stream!Begins
<1> QED BY <1>7, <1>8, <1>10, <1>11, <1>12 DEF BytesInv, Bytes

\* What is left of a message and what is copied from it are the message.
LEMMA Cut ==
  ASSUME NEW B, NEW s \in Seq(B), NEW n \in 0..Len(s)
  PROVE  /\ SubSeq(s, 1, n) \in Seq(B) /\ SubSeq(s, n + 1, Len(s)) \in Seq(B)
         /\ SubSeq(s, 1, n) \o SubSeq(s, n + 1, Len(s)) = s
<1> DEFINE a == SubSeq(s, 1, n)
           b == SubSeq(s, n + 1, Len(s))
           p == a \o b
<1>1. /\ a \in Seq(B) /\ b \in Seq(B) /\ Len(s) \in Nat /\ n \in Nat
      /\ Len(a) = n /\ Len(b) = Len(s) - n
      /\ \A i \in 1..n : a[i] = s[i]
      /\ \A i \in 1..Len(b) : b[i] = s[n + i]
  OBVIOUS
<1> HIDE DEF a, b
<1>2. p \in Seq(B) /\ IsConcat(p, a, b)
  BY <1>1, Concat, Zenon
<1> HIDE DEF p
<1>3. Len(p) = Len(s)
  BY <1>1, <1>2 DEF IsConcat
<1>4. ASSUME NEW i \in 1..Len(p) PROVE p[i] = s[i]
  <2>1. CASE i <= n
    <3>1. i \in 1..n
      BY <2>1
    <3> QED BY <1>1, <1>2, <3>1 DEF IsConcat
  <2>2. CASE i > n
    <3> DEFINE j == i - n
    <3>1. j \in 1..Len(b) /\ i = n + j
      BY <1>1, <1>3, <2>2
    <3> HIDE DEF j
    <3>2. p[i] = b[j] /\ b[j] = s[i]
      BY <1>1, <1>2, <3>1 DEF IsConcat
    <3> QED BY <3>2
  <2>3. i \in Nat /\ n \in Nat
    BY <1>1
  <2> QED BY <2>1, <2>2, <2>3
<1>5. p = s
  BY <1>2, <1>3, <1>4, SameSeq
<1> QED BY <1>1, <1>5 DEF a, b, p

LEMMA ReadBytes ==
  ASSUME ConnInv, BytesInv, NEW k \in 1..Buffer, Read(k)
  PROVE  /\ ReaderPlace'
         /\ got' \in Seq(Byte) /\ Stream!Begins(got, got')
         /\ UNCHANGED <<pc, done, sent, over>>
<1> DEFINE n == Least(k, Len(Source))
           a == SubSeq(Source, 1, n)
           b == SubSeq(Source, n + 1, Len(Source))
<1>1. Source \in Seq(Byte) /\ got \in Seq(Byte) /\ rest \in Seq(Byte)
  BY SourceType DEF Read, ConnInv, TypeOK
<1>2. n \in 0..Len(Source)
  BY <1>1, ConnAssumption DEF Least
<1>3. got' = got \o a /\ rest' = b /\ UNCHANGED <<pc, done, sent, over>>
  BY DEF Read
<1>4. a \in Seq(Byte) /\ b \in Seq(Byte) /\ a \o b = Source
  <2> HIDE DEF n
  <2> QED BY <1>1, <1>2, Cut
<1> HIDE DEF a, b
<1>5. got' \o rest' = got \o Source
  <2>1. (got \o a) \o b = got \o (a \o b)
    <3>1. got \in Seq(Byte)
      BY <1>1
    <3>2. a \in Seq(Byte)
      BY <1>4
    <3>3. b \in Seq(Byte)
      BY <1>4
    <3> QED BY <3>1, <3>2, <3>3, ConcatAssoc
  <2> QED BY <1>3, <1>4, <2>1
<1>6. got \o rest = FlattenSeq(SubSeq(sent, 1, rd)) /\ (over => rest = <<>>)
  BY DEF BytesInv, ReaderPlace
<1>7. ~over
  BY <1>6 DEF Read, ConnInv, DrainInv, TypeOK, HasMessage
<1>8. got' \o rest' = FlattenSeq(SubSeq(sent, 1, rd'))
  <2>1. CASE rest # <<>>
    BY <1>5, <1>6, <2>1 DEF Read, Source
  <2>2. CASE rest = <<>>
    <3>1. Source = sent[rd + 1] /\ rd' = rd + 1
      BY <2>2 DEF Read, Source
    <3>2. sent \in Seq(Seq(Byte)) /\ rd \in 0..(Len(sent) - 1)
      BY <2>2 DEF Read, HasMessage, ConnInv, TypeOK
    <3>3. FlattenSeq(SubSeq(sent, 1, rd + 1)) = FlattenSeq(SubSeq(sent, 1, rd)) \o sent[rd + 1]
      BY <3>2, FirstGrows, FlattenAppend DEF First
    <3>4. got \o rest = got
      BY <1>1, <2>2
    <3> QED BY <1>5, <1>6, <3>1, <3>3, <3>4
  <2> QED BY <2>1, <2>2
<1>9. ReaderPlace'
  BY <1>3, <1>7, <1>8 DEF ReaderPlace
<1>10. got' \in Seq(Byte) /\ Stream!Begins(got, got')
  BY <1>1, <1>3, <1>4 DEF Stream!Begins
<1> QED BY <1>3, <1>9, <1>10

\* What Read has returned is a beginning of what was written.
LEMMA GotBegins ==
  ASSUME TypeOK, ReaderPlace
  PROVE  Stream!Begins(got, Bytes)
<1>1. /\ got \in Seq(Byte) /\ rest \in Seq(Byte) /\ sent \in Seq(Seq(Byte))
      /\ rd \in 0..Len(sent) /\ Bytes \in Seq(Byte)
  BY BytesType DEF TypeOK
<1>2. Stream!Begins(got \o rest, Bytes)
  BY <1>1, FlattenFirst DEF ReaderPlace, First, Bytes
<1>3. got \o rest \in Seq(Byte) /\ Stream!Begins(got, got \o rest)
  BY <1>1 DEF Stream!Begins
<1>4. /\ Len(got) \in Nat /\ Len(got \o rest) \in Nat /\ Len(Bytes) \in Nat
  BY <1>1, <1>3
<1> HIDE DEF Bytes
<1>5. ASSUME NEW i \in 1..Len(got) PROVE got[i] = Bytes[i]
  <2>1. i \in 1..Len(got \o rest)
    BY <1>3, <1>4 DEF Stream!Begins
  <2> QED BY <1>2, <1>3, <2>1 DEF Stream!Begins
<1> QED BY <1>2, <1>3, <1>4, <1>5 DEF Stream!Begins

LEMMA BytesInit == Init => BytesInv
<1> SUFFICES ASSUME Init PROVE BytesInv
  OBVIOUS
<1>1. sent = <<>> /\ FlattenSeq(<<>>) = <<>> /\ Len(<<>>) = 0
  BY DEF Init, FlattenSeq
<1>2. OneWriter /\ WriterAtEnd
  BY DEF Init, OneWriter, WriterAtEnd, Writing
<1>3. Whole(FlattenSeq(sent))
  BY <1>1 DEF Whole
<1>4. SubSeq(sent, 1, 0) = <<>>
  BY <1>1
<1>5. <<>> \o <<>> = <<>>
  OBVIOUS
<1>6. ReaderPlace
  BY <1>1, <1>4, <1>5 DEF Init, ReaderPlace
<1> QED BY <1>2, <1>3, <1>6 DEF BytesInv

\* A step that writes nothing, reads nothing and begins no call.
LEMMA BytesFrame ==
  ASSUME BytesInv, \A c \in Call : Writing(c)' => Writing(c),
         UNCHANGED <<done, sent, rd, rest, got, over>>
  PROVE  BytesInv'
  BY DEF BytesInv, OneWriter, WriterAtEnd, ReaderPlace, Whole

\* What a step does to the stream and to the reader.
LEMMA StreamCases ==
  ASSUME ConnInv, [Next]_vars
  PROVE  \/ \E c \in Call : Begin(c) \/ WriteChunk(c)
         \/ \E k \in 1..Buffer : Read(k)
         \/ ReadEnd
         \/ /\ \A c \in Call : Writing(c)' => Writing(c)
            /\ UNCHANGED <<done, sent, rd, rest, got, over>>
<1>1. ASSUME NEW c \in Call, WriteFails(c) \/ Flow(c)
      PROVE  /\ \A d \in Call : Writing(d)' => Writing(d)
             /\ UNCHANGED <<done, sent, rd, rest, got, over>>
  <2>1. Writing(c) /\ \E p : pc' = [pc EXCEPT ![c] = p]
    BY <1>1 DEF WriteFails, Flow, Writing
  <2>2. \A d \in Call : Writing(d)' => Writing(d)
    BY <2>1 DEF Writing, ConnInv, TypeOK
  <2> QED BY <1>1, <2>2 DEF WriteFails, Flow
<1>2. ASSUME NEW e \in End, Close(e) \/ Closing(e) \/ DeleteEnds(e) \/ LinkDown(e)
      PROVE  UNCHANGED <<wvars, sent, rvars>>
  BY <1>2 DEF Close, Closing, Drained, DrainTry, ClosePC, DeleteEnds, LinkDown
<1>3. CASE Deliver \/ NetworkCut \/ UNCHANGED vars
  BY <1>3 DEF Deliver, NetworkCut, vars, Writing
<1>4. UNCHANGED pc => \A c \in Call : Writing(c)' => Writing(c)
  BY DEF Writing
<1> QED BY <1>1, <1>2, <1>3, <1>4 DEF Next, Sending, Reading

LEMMA BytesStep == ConnInv /\ BytesInv /\ [Next]_vars => BytesInv'
<1> SUFFICES ASSUME ConnInv, BytesInv, [Next]_vars PROVE BytesInv'
  OBVIOUS
<1>1. ASSUME NEW c \in Call, Begin(c) PROVE BytesInv'
  <2>1. /\ pc[c] = "idle" /\ \A d \in Call : ~Writing(d)
        /\ pc' = [pc EXCEPT ![c] = "write"] /\ UNCHANGED <<done, sent, rd, rest, got, over>>
    BY <1>1 DEF Begin
  <2>2. done[c] = 0
    BY <2>1 DEF ConnInv, Counts
  <2>3. \A d \in Call : Writing(d)' => d = c
    BY <2>1 DEF Writing, ConnInv, TypeOK
  <2> QED BY <2>1, <2>2, <2>3 DEF BytesInv, OneWriter, WriterAtEnd, ReaderPlace, Whole
<1>2. ASSUME NEW c \in Call, WriteChunk(c) PROVE BytesInv'
  BY <1>2, WriteBytes
<1>3. ASSUME NEW k \in 1..Buffer, Read(k) PROVE BytesInv'
  <2>1. ReaderPlace' /\ UNCHANGED <<pc, done, sent>>
    BY <1>3, ReadBytes
  <2> QED BY <2>1 DEF BytesInv, OneWriter, WriterAtEnd, Writing, Whole
<1>4. CASE ReadEnd
  <2>1. rest = <<>> /\ UNCHANGED <<pc, done, sent, rd, rest, got>>
    BY <1>4 DEF ReadEnd
  <2> QED BY <2>1 DEF BytesInv, OneWriter, WriterAtEnd, ReaderPlace, Writing, Whole
<1>5. CASE (\A c \in Call : Writing(c)' => Writing(c)) /\ UNCHANGED <<done, sent, rd, rest, got, over>>
  BY <1>5, BytesFrame
<1> QED BY <1>1, <1>2, <1>3, <1>4, <1>5, StreamCases

-----------------------------------------------------------------------------
(* Results *)

\* The inductive invariant of the stream of bytes: who holds the mutex, where
\* the stream of bytes ends, and what the reader has of it.
THEOREM BytesInvariant == Spec => []BytesInv
  BY InitEstablishes, Inductive, BytesInit, BytesStep, PTL DEF Spec

LEMMA BytesImplyWhole == TypeOK /\ BytesInv => WritesWhole
<1> SUFFICES ASSUME TypeOK, BytesInv PROVE Whole(got)
  BY DEF WritesWhole
<1>1. Stream!Begins(got, Bytes) /\ Whole(Bytes)
  BY GotBegins DEF BytesInv, Bytes
<1>2. Len(got) \in Nat /\ Len(Bytes) \in Nat
  BY BytesType DEF TypeOK
<1> HIDE DEF Bytes
<1>3. ASSUME NEW i \in 1..Len(got), got[i].n > 1
      PROVE  i > 1 /\ got[i - 1] = [got[i] EXCEPT !.n = @ - 1]
  <2>1. i \in 1..Len(Bytes) /\ got[i] = Bytes[i]
    BY <1>1, <1>2 DEF Stream!Begins
  <2>2. i > 1 /\ Bytes[i - 1] = [Bytes[i] EXCEPT !.n = @ - 1]
    BY <1>1, <1>3, <2>1 DEF Whole
  <2>3. i - 1 \in 1..Len(got)
    BY <1>2, <2>2
  <2> QED BY <1>1, <2>1, <2>2, <2>3 DEF Stream!Begins
<1> QED BY <1>3 DEF Whole

\* However many goroutines call Write, and however the reader's buffer cuts
\* the messages: the bytes of each call are returned together and in order.
THEOREM CallsDoNotMix == Spec => []WritesWhole
<1>1. ConnInv /\ BytesInv => WritesWhole
  BY BytesImplyWhole DEF ConnInv
<1> QED BY InvariantHolds, BytesInvariant, <1>1, PTL

LEMMA StreamInit == Init => Stream!Init
  BY DEF Init, Stream!Init, FlattenSeq

LEMMA StreamStep ==
  ConnInv /\ BytesInv /\ ConnInv' /\ BytesInv' /\ [Next]_vars => [Stream!Next]_(Stream!vars)
<1> SUFFICES ASSUME ConnInv, BytesInv, ConnInv', BytesInv', [Next]_vars
             PROVE  [Stream!Next]_(Stream!vars)
  OBVIOUS
<1>1. UNCHANGED <<sent, got, over>> => UNCHANGED Stream!vars
  BY DEF Stream!vars
<1>2. ASSUME NEW c \in Call, Begin(c) PROVE [Stream!Next]_(Stream!vars)
  BY <1>1, <1>2 DEF Begin
<1>3. ASSUME NEW c \in Call, WriteChunk(c) PROVE [Stream!Next]_(Stream!vars)
  <2>1. Stream!Begins(Bytes, Bytes')
    BY <1>3, WriteBytes
  <2>2. Bytes' \in Seq(Byte)
    <3>1. (TypeOK => Bytes \in Seq(Byte))'
      BY BytesType, PTL
    <3> QED BY <3>1 DEF ConnInv
  <2>3. UNCHANGED <<got, over>>
    BY <1>3 DEF WriteChunk
  <2> QED BY <2>1, <2>2, <2>3 DEF Stream!Next, Stream!Write, Bytes
<1>4. ASSUME NEW k \in 1..Buffer, Read(k) PROVE [Stream!Next]_(Stream!vars)
  <2>1. /\ ReaderPlace' /\ got' \in Seq(Byte) /\ Stream!Begins(got, got')
        /\ UNCHANGED <<sent, over>>
    BY <1>4, ReadBytes
  <2>2. Stream!Begins(got, Bytes)'
    BY GotBegins, PTL DEF ConnInv, BytesInv
  <2>3. Stream!Begins(got', Bytes)
    BY <2>1, <2>2 DEF Bytes
  <2>4. ~over
    BY <1>4 DEF Read, BytesInv, ReaderPlace, ConnInv, DrainInv, TypeOK, HasMessage
  <2> QED BY <2>1, <2>3, <2>4 DEF Stream!Next, Stream!Read, Bytes
<1>5. CASE ReadEnd
  BY <1>5 DEF ReadEnd, Stream!Next, Stream!End
<1> QED BY <1>1, <1>2, <1>3, <1>4, <1>5, StreamCases

\* Through chunks, concurrent calls, partial reads, Close at either end and a
\* network that goes silent, a direction of a connection is a Pipe.
THEOREM ConnImplementsPipe == Spec => StreamIsPipe
  BY InitEstablishes, Inductive, BytesInit, BytesStep, StreamInit, StreamStep, PTL
     DEF Spec, StreamIsPipe, Stream!Spec
=============================================================================
