--------------------------- MODULE MensajesProofs ---------------------------
(***************************************************************************)
(* Proofs about Mensajes: what one program writes on a socket is what the  *)
(* other reads, for any PCB and any instructions.                          *)
(*                                                                         *)
(* The recursive functions are followed by induction over the naturals,    *)
(* in the form of the least element of a set of counterexamples.           *)
(***************************************************************************)
EXTENDS Mensajes, WellFoundedInduction, SequenceTheorems, TLAPS

-----------------------------------------------------------------------------
(* Induction.                                                              *)

LEMMA Menor ==
  ASSUME NEW T, T \subseteq Nat, T # {}
  PROVE  \E n \in T : \A m \in T : n <= m
<1>. DEFINE R == OpToRel(<, Nat)
<1>1. \A x \in Nat, y \in Nat : y < x => <<y, x>> \in R
  BY DEF OpToRel
<1>2. IsWellFoundedOn(R, Nat)
  BY NatLessThanWellFounded
<1>. HIDE DEF R
<1>3. PICK n \in T : \A y \in T : ~(<<y, n>> \in R)
  BY <1>2, WFMin
<1>4. \A y \in T : ~(y < n)
  BY <1>1, <1>3
<1>5. n \in Nat /\ \A y \in T : y \in Nat
  OBVIOUS
<1>6. \A y \in T : n <= y
  BY <1>4, <1>5
<1>. QED
  BY <1>6

\* A set of the numbers from 0 to n that has 0 and, with a number, the next, has
\* them all.
LEMMA Subiendo ==
  ASSUME NEW n \in Nat, NEW B, 0 \in B, \A m \in 0..n : m < n /\ m \in B => m + 1 \in B
  PROVE  0..n \subseteq B
<1>. DEFINE T == {m \in 0..n : m \notin B}
<1>. SUFFICES ASSUME T # {} PROVE FALSE
  OBVIOUS
<1>0. T \subseteq Nat
  OBVIOUS
<1>. HIDE DEF T
<1>1. PICK m \in T : \A k \in T : m <= k
  BY <1>0, Menor
<1>2. m \in 0..n /\ m # 0 /\ m \notin B
  BY DEF T
<1>3. m - 1 \in 0..n /\ m - 1 < n /\ (m - 1) + 1 = m /\ ~(m <= m - 1)
  BY <1>2
<1>4. m - 1 \in B
  BY <1>1, <1>3 DEF T
<1>. QED
  BY <1>2, <1>3, <1>4

\* ... and one that has n and, with a number, the one before.
LEMMA Bajando ==
  ASSUME NEW n \in Nat, NEW B, n \in B, \A m \in 0..n : m > 0 /\ m \in B => m - 1 \in B
  PROVE  0..n \subseteq B
<1>. DEFINE C == {m \in 0..n : n - m \in B}
<1>1. 0 \in C
  OBVIOUS
<1>2. \A m \in 0..n : m < n /\ m \in C => m + 1 \in C
  <2>. TAKE m \in 0..n
  <2>. HAVE m < n /\ m \in C
  <2>1. n - m \in 0..n /\ n - m > 0 /\ (n - m) - 1 = n - (m + 1) /\ m + 1 \in 0..n
    OBVIOUS
  <2>. QED
    BY <2>1
<1>. HIDE DEF C
<1>3. 0..n \subseteq C
  BY <1>1, <1>2, Subiendo
<1>. QED
  <2>. SUFFICES ASSUME NEW m \in 0..n PROVE m \in B
    OBVIOUS
  <2>1. n - m \in 0..n /\ n - (n - m) = m
    OBVIOUS
  <2>. QED
    BY <1>3, <2>1 DEF C

\* The same from the top, where all the larger ones may be used.
LEMMA DesdeArriba ==
  ASSUME NEW n \in Nat, NEW B,
         \A m \in 0..n : (\A k \in 0..n : k > m => k \in B) => m \in B
  PROVE  0..n \subseteq B
<1>. DEFINE T == {m \in 0..n : n - m \notin B}
<1>. SUFFICES ASSUME NEW a \in 0..n, a \notin B PROVE FALSE
  OBVIOUS
<1>1. n - a \in T
  <2>1. n - a \in 0..n /\ n - (n - a) = a
    OBVIOUS
  <2>. QED
    BY <2>1
<1>0. T \subseteq Nat
  OBVIOUS
<1>. HIDE DEF T
<1>2. PICK m \in T : \A k \in T : m <= k
  BY <1>0, <1>1, Menor
<1>3. m \in 0..n /\ n - m \in 0..n /\ n - m \notin B
  BY <1>2 DEF T
<1>4. ASSUME NEW k \in 0..n, k > n - m PROVE k \in B
  <2>1. n - k \in 0..n /\ ~(m <= n - k) /\ n - (n - k) = k
    BY <1>3, <1>4
  <2>. QED
    BY <1>2, <2>1 DEF T
<1>. QED
  BY <1>3, <1>4

-----------------------------------------------------------------------------
(* FlattenSeq: the prefixes of the result.                                 *)

\* P are the prefixes of the flattened ss.
Prefijos(P, ss) ==
  /\ P[0] = <<>>
  /\ \A i \in 1..Len(ss) : P[i] = P[i - 1] \o ss[i]

LEMMA HayPrefijos ==
  ASSUME NEW S, NEW ss \in Seq(Seq(S))
  PROVE  \E P \in [0..Len(ss) -> Seq(S)] : Prefijos(P, ss)
<1>. DEFINE n == Len(ss)
            Bien(P, m) == P[0] = <<>> /\ \A i \in 1..m : P[i] = P[i - 1] \o ss[i]
            B == {m \in 0..n : \E P \in [0..m -> Seq(S)] : Bien(P, m)}
<1>1. 0 \in B
  <2>. DEFINE P == [i \in 0..0 |-> <<>>]
  <2>1. P \in [0..0 -> Seq(S)] /\ Bien(P, 0)
    OBVIOUS
  <2>2. 0 \in 0..n
    OBVIOUS
  <2>. QED
    BY <2>1, <2>2
<1>2. ASSUME NEW m \in 0..n, m < n, m \in B
      PROVE  m + 1 \in B
  <2>1. PICK P \in [0..m -> Seq(S)] : Bien(P, m)
    BY <1>2
  <2>. DEFINE Q == [i \in 0..(m + 1) |-> IF i = m + 1 THEN P[m] \o ss[m + 1] ELSE P[i]]
  <2>2. P[m] \in Seq(S) /\ ss[m + 1] \in Seq(S)
    BY <1>2
  <2>3. Q \in [0..(m + 1) -> Seq(S)]
    BY <1>2, <2>2
  <2>4. Bien(Q, m + 1)
    <3>1. Q[0] = <<>>
      BY <1>2, <2>1
    <3>2. ASSUME NEW i \in 1..(m + 1) PROVE Q[i] = Q[i - 1] \o ss[i]
      <4>1. CASE i = m + 1
        <5>1. Q[i] = P[m] \o ss[m + 1]
          BY <4>1
        <5>2. i - 1 \in 0..(m + 1) /\ i - 1 # m + 1 /\ i - 1 = m
          BY <1>2, <4>1
        <5>3. Q[i - 1] = P[m]
          BY <5>2
        <5>. QED
          BY <4>1, <5>1, <5>3
      <4>2. CASE i # m + 1
        <5>1. /\ i \in 0..(m + 1) /\ i - 1 \in 0..(m + 1) /\ i \in 1..m
              /\ i - 1 # m + 1
          BY <1>2, <4>2
        <5>2. Q[i] = P[i] /\ Q[i - 1] = P[i - 1]
          BY <4>2, <5>1
        <5>. QED
          BY <2>1, <5>1, <5>2
      <4>. QED
        BY <4>1, <4>2
    <3>. QED
      BY <3>1, <3>2
  <2>5. m + 1 \in 0..n
    BY <1>2
  <2>. QED
    BY <2>3, <2>4, <2>5
<1>3. n \in Nat
  OBVIOUS
<1>. HIDE DEF B
<1>4. 0..n \subseteq B
  BY <1>1, <1>2, <1>3, Subiendo
<1>5. n \in B
  BY <1>3, <1>4
<1>. QED
  BY <1>5 DEF B, Prefijos

LEMMA IndiceSiguiente ==
  ASSUME NEW n \in Nat, NEW m \in 0..n, m < n
  PROVE  m + 1 \in 1..n /\ m + 1 \in 0..n /\ (m + 1) - 1 = m /\ (m = 0 <=> m + 1 = 1)
  OBVIOUS

\* FlattenSeq returns the last of them.
LEMMA AplanarEsPrefijo ==
  ASSUME NEW S, NEW ss \in Seq(Seq(S))
  PROVE  \E P \in [0..Len(ss) -> Seq(S)] : Prefijos(P, ss) /\ FlattenSeq(ss) = P[Len(ss)]
<1>. DEFINE n == Len(ss)
<1>1. PICK P \in [0..n -> Seq(S)] : Prefijos(P, ss)
  BY HayPrefijos
<1>2. /\ n \in Nat /\ P[0] = <<>>
      /\ \A i \in 1..n : P[i] = P[i - 1] \o ss[i] /\ ss[i] \in Seq(S)
  BY <1>1 DEF Prefijos
<1>3. n > 0 => P[1] = ss[1]
  <2>. SUFFICES ASSUME n > 0 PROVE P[1] = ss[1]
    OBVIOUS
  <2>1. 1 \in 1..n /\ 1 - 1 = 0
    BY <1>2
  <2>2. P[1] = <<>> \o ss[1] /\ ss[1] \in Seq(S)
    BY <1>2, <2>1
  <2>. QED
    BY <2>2, ConcatEmptySeq
<1>4. CASE n = 0
  BY <1>1, <1>2, <1>4 DEF FlattenSeq
<1>5. CASE n # 0
  <2>. DEFINE Es(f) == f = [i \in 1..n |-> IF i = 1 THEN ss[i] ELSE f[i - 1] \o ss[i]]
              F == CHOOSE f : Es(f)
              G == [i \in 1..n |-> P[i]]
              B == {i \in 0..n : i = 0 \/ F[i] = P[i]}
  <2>1. FlattenSeq(ss) = F[n]
    BY <1>5 DEF FlattenSeq
  <2>2. Es(G)
    <3>1. ASSUME NEW i \in 1..n
          PROVE  P[i] = IF i = 1 THEN ss[i] ELSE G[i - 1] \o ss[i]
      <4>1. CASE i = 1
        BY <1>3, <4>1
      <4>2. CASE i # 1
        <5>1. i - 1 \in 1..n
          BY <4>2
        <5>. QED
          BY <1>2, <4>2, <5>1
      <4>. QED
        BY <4>1, <4>2
    <3>. QED
      BY <3>1
  <2>3. Es(F)
    BY <2>2
  <2>. HIDE DEF F
  <2>4. \A i \in 1..n : F[i] = IF i = 1 THEN ss[i] ELSE F[i - 1] \o ss[i]
    BY <2>3
  <2>5. \A m \in 0..n : m < n /\ m \in B => m + 1 \in B
    <3>. SUFFICES ASSUME NEW m \in 0..n, m < n, m \in B PROVE m + 1 \in B
      OBVIOUS
    <3>1. m + 1 \in 1..n /\ m + 1 \in 0..n /\ (m + 1) - 1 = m /\ (m = 0 <=> m + 1 = 1)
      BY <1>2, IndiceSiguiente
    <3>2. P[m + 1] = P[m] \o ss[m + 1]
      BY <1>2, <3>1
    <3>3. F[m + 1] = IF m = 0 THEN ss[m + 1] ELSE F[m] \o ss[m + 1]
      BY <2>4, <3>1
    <3>4. F[m + 1] = P[m + 1]
      <4>1. CASE m = 0
        BY <1>3, <3>3, <4>1
      <4>2. CASE m # 0
        <5>1. F[m] = P[m]
          BY <4>2
        <5>. QED
          BY <3>2, <3>3, <4>2, <5>1
      <4>. QED
        BY <4>1, <4>2
    <3>. QED
      BY <3>1, <3>4
  <2>6. 0 \in B
    BY <1>2
  <2>. HIDE DEF B
  <2>7. 0..n \subseteq B
    BY <1>2, <2>5, <2>6, Subiendo
  <2>8. n \in B
    BY <1>2, <2>7
  <2>9. F[n] = P[n]
    BY <1>5, <2>8 DEF B
  <2>. QED
    BY <1>1, <2>1, <2>9
<1>. QED
  BY <1>2, <1>4, <1>5

LEMMA AplanarTipo ==
  ASSUME NEW S, NEW ss \in Seq(Seq(S))
  PROVE  FlattenSeq(ss) \in Seq(S)
<1>1. PICK P \in [0..Len(ss) -> Seq(S)] : FlattenSeq(ss) = P[Len(ss)]
  BY AplanarEsPrefijo
<1>. QED
  BY <1>1

-----------------------------------------------------------------------------
(* Instrucciones: the function behind it exists and has its type.          *)

\* The function of Instrucciones(s).
Desde(f, s) ==
  f = [k \in 0..Len(s) |->
         IF HayInstruccion(s, k)
         THEN <<SubSeq(s, k + 2, k + s[k + 1])>> \o f[k + 1 + s[k + 1]]
         ELSE <<>>]

\* What it reads at k.
Texto(s, k) == SubSeq(s, k + 2, k + s[k + 1])
Tras(s, k)  == k + 1 + s[k + 1]

LEMMA TextoTipo ==
  ASSUME NEW S \in SUBSET Int, NEW s \in Seq(S), NEW k \in 0..Len(s), HayInstruccion(s, k)
  PROVE  Texto(s, k) \in Seq(S) /\ Tras(s, k) \in 0..Len(s) /\ Tras(s, k) > k
<1>0. Len(s) \in Nat /\ k + 1 \in 1..Len(s) /\ s[k + 1] > 0 /\ k + 1 + s[k + 1] <= Len(s)
  BY DEF HayInstruccion
<1>1. /\ Len(s) \in Nat /\ k + 1 \in 1..Len(s)
      /\ s[k + 1] \in Int /\ s[k + 1] > 0 /\ k + 1 + s[k + 1] <= Len(s)
  BY <1>0, ElementOfSeq
<1>2. \A i \in (k + 2)..(k + s[k + 1]) : i \in 1..Len(s)
  BY <1>1
<1>. DEFINE d == k + 2
            h == k + s[k + 1]
<1>. HIDE DEF d, h
<1>3. \A i \in d..h : s[i] \in S
  BY <1>2, ElementOfSeq DEF d, h
<1>4. d \in Int /\ h \in Int
  BY <1>1 DEF d, h
<1>5. SubSeq(s, d, h) \in Seq(S)
  BY <1>3, <1>4, SubSeqProperties
<1>. QED
  BY <1>1, <1>5 DEF Texto, Tras, d, h

LEMMA HayDesde ==
  ASSUME NEW S \in SUBSET Int, NEW s \in Seq(S)
  PROVE  \E f \in [0..Len(s) -> Seq(Seq(S))] : Desde(f, s)
<1>. DEFINE n == Len(s)
            Bien(f, k) == f[k] = IF HayInstruccion(s, k) THEN <<Texto(s, k)>> \o f[Tras(s, k)]
                                                         ELSE <<>>
            B == {m \in 0..n : \E f \in [m..n -> Seq(Seq(S))] : \A k \in m..n : Bien(f, k)}
<1>1. n \in Nat
  OBVIOUS
<1>2. n \in B
  <2>. DEFINE f == [k \in n..n |-> <<>>]
  <2>1. f \in [n..n -> Seq(Seq(S))]
    OBVIOUS
  <2>2. ASSUME NEW k \in n..n PROVE Bien(f, k)
    <3>1. k = n
      BY <1>1
    <3>2. ~HayInstruccion(s, k)
      BY <1>1, <3>1 DEF HayInstruccion
    <3>. QED
      BY <3>2
  <2>3. n \in 0..n
    BY <1>1
  <2>. HIDE DEF f
  <2>. QED
    BY <2>1, <2>2, <2>3
<1>3. ASSUME NEW m \in 0..n, m > 0, m \in B
      PROVE  m - 1 \in B
  <2>. DEFINE j == m - 1
  <2>1. PICK f \in [m..n -> Seq(Seq(S))] : \A k \in m..n : Bien(f, k)
    BY <1>3
  <2>. DEFINE v == IF HayInstruccion(s, j) THEN <<Texto(s, j)>> \o f[Tras(s, j)] ELSE <<>>
              g == [k \in j..n |-> IF k = j THEN v ELSE f[k]]
  <2>2. j \in 0..n /\ (\A k \in j..n : k # j => k \in m..n) /\ \A k \in m..n : k \in j..n /\ k # j
    BY <1>1, <1>3
  <2>3. HayInstruccion(s, j) => Tras(s, j) \in m..n /\ Texto(s, j) \in Seq(S)
    <3>1. HayInstruccion(s, j) => Tras(s, j) \in 0..n /\ Tras(s, j) > j /\ Texto(s, j) \in Seq(S)
      BY <2>2, TextoTipo
    <3>. QED
      BY <1>1, <1>3, <3>1
  <2>. HIDE DEF j
  <2>4. v \in Seq(Seq(S))
    <3>1. CASE HayInstruccion(s, j)
      <4>1. f[Tras(s, j)] \in Seq(Seq(S)) /\ <<Texto(s, j)>> \in Seq(Seq(S))
        BY <2>3, <3>1
      <4>2. <<Texto(s, j)>> \o f[Tras(s, j)] \in Seq(Seq(S))
        BY <4>1, ConcatProperties
      <4>. QED
        BY <3>1, <4>2
    <3>2. CASE ~HayInstruccion(s, j)
      BY <3>2, EmptySeq
    <3>. QED
      BY <3>1, <3>2
  <2>. HIDE DEF v
  <2>5. g \in [j..n -> Seq(Seq(S))]
    BY <2>2, <2>4
  <2>6. g[j] = v /\ \A k \in m..n : g[k] = f[k]
    BY <1>1, <2>2
  <2>. HIDE DEF g
  <2>7. ASSUME NEW k \in j..n PROVE Bien(g, k)
    <3>1. CASE k = j
      BY <2>3, <2>6, <3>1 DEF v
    <3>2. CASE k # j
      <4>1. k \in m..n /\ k \in 0..n
        BY <1>1, <1>3, <2>2, <3>2
      <4>2. HayInstruccion(s, k) => Tras(s, k) \in m..n
        <5>1. HayInstruccion(s, k) => Tras(s, k) \in 0..n /\ Tras(s, k) > k
          BY <4>1, TextoTipo
        <5>. QED
          BY <1>1, <4>1, <5>1
      <4>3. Bien(f, k) /\ g[k] = f[k] /\ (HayInstruccion(s, k) => g[Tras(s, k)] = f[Tras(s, k)])
        BY <2>1, <2>6, <4>1, <4>2
      <4>. QED
        BY <4>3
    <3>. QED
      BY <3>1, <3>2
  <2>8. j \in B
    BY <2>2, <2>5, <2>7
  <2>. QED
    BY <2>8 DEF j
<1>. HIDE DEF B
<1>4. 0..n \subseteq B
  BY <1>1, <1>2, <1>3, Bajando
<1>5. 0 \in B
  BY <1>1, <1>4
<1>6. PICK f \in [0..n -> Seq(Seq(S))] : \A k \in 0..n : Bien(f, k)
  BY <1>5 DEF B
<1>7. f = [k \in 0..n |-> f[k]]
  OBVIOUS
<1>8. Desde(f, s)
  BY <1>6, <1>7 DEF Desde, Texto, Tras
<1>. QED
  BY <1>8

\* Whatever follows that equation returns what Instrucciones returns.
LEMMA DesdeUnico ==
  ASSUME NEW S \in SUBSET Int, NEW s \in Seq(S), NEW f, Desde(f, s), NEW g, Desde(g, s)
  PROVE  f = g
<1>. DEFINE n == Len(s)
            B == {k \in 0..n : f[k] = g[k]}
<1>1. n \in Nat
  OBVIOUS
<1>2. \A k \in 0..n : f[k] = (IF HayInstruccion(s, k) THEN <<Texto(s, k)>> \o f[Tras(s, k)]
                                                      ELSE <<>>)
  BY DEF Desde, Texto, Tras
<1>3. \A k \in 0..n : g[k] = (IF HayInstruccion(s, k) THEN <<Texto(s, k)>> \o g[Tras(s, k)]
                                                      ELSE <<>>)
  BY DEF Desde, Texto, Tras
<1>4. ASSUME NEW m \in 0..n, \A k \in 0..n : k > m => k \in B
      PROVE  m \in B
  <2>1. HayInstruccion(s, m) => Tras(s, m) \in 0..n /\ Tras(s, m) > m
    BY TextoTipo
  <2>2. HayInstruccion(s, m) => f[Tras(s, m)] = g[Tras(s, m)]
    BY <1>4, <2>1
  <2>3. f[m] = g[m]
    BY <1>2, <1>3, <2>2
  <2>. QED
    BY <2>3
<1>. HIDE DEF B
<1>5. 0..n \subseteq B
  BY <1>1, <1>4, DesdeArriba
<1>6. \A k \in 0..n : f[k] = g[k]
  BY <1>5 DEF B
<1>7. f = [k \in 0..n |-> f[k]] /\ g = [k \in 0..n |-> g[k]]
  BY DEF Desde
<1>. QED
  BY <1>6, <1>7

LEMMA InstruccionesDef ==
  ASSUME NEW S \in SUBSET Int, NEW s \in Seq(S), NEW f, Desde(f, s)
  PROVE  Instrucciones(s) = f[0]
<1>. DEFINE g == CHOOSE h : Desde(h, s)
<1>1. Instrucciones(s) = g[0]
  BY DEF Instrucciones, Desde
<1>2. Desde(g, s)
  OBVIOUS
<1>. HIDE DEF g
<1>3. f = g
  BY <1>2, DesdeUnico
<1>. QED
  BY <1>1, <1>3

LEMMA InstruccionesTipo ==
  ASSUME NEW S \in SUBSET Int, NEW s \in Seq(S)
  PROVE  Instrucciones(s) \in Seq(Seq(S))
<1>1. PICK f \in [0..Len(s) -> Seq(Seq(S))] : Desde(f, s)
  BY HayDesde
<1>2. Instrucciones(s) = f[0]
  BY <1>1, InstruccionesDef
<1>3. 0 \in 0..Len(s)
  OBVIOUS
<1>. QED
  BY <1>1, <1>2, <1>3

-----------------------------------------------------------------------------
(* A stream is read as it was written.                                     *)

LEMMA Pegar ==
  ASSUME NEW S, NEW a \in Seq(S), NEW b \in Seq(S)
  PROVE  /\ a \o b \in Seq(S) /\ Len(a \o b) = Len(a) + Len(b)
         /\ \A i \in 1..Len(a) : (a \o b)[i] = a[i]
         /\ \A i \in 1..Len(b) : (a \o b)[Len(a) + i] = b[i]
<1>1. /\ a \o b \in Seq(S) /\ Len(a \o b) = Len(a) + Len(b)
      /\ \A i \in 1..(Len(a) + Len(b)) : (a \o b)[i] = IF i <= Len(a) THEN a[i] ELSE b[i - Len(a)]
      /\ Len(a) \in Nat /\ Len(b) \in Nat
  BY ConcatProperties, LenProperties
<1>2. ASSUME NEW i \in 1..Len(a) PROVE (a \o b)[i] = a[i]
  <2>1. i \in 1..(Len(a) + Len(b)) /\ i <= Len(a)
    BY <1>1
  <2>. QED
    BY <1>1, <2>1
<1>3. ASSUME NEW i \in 1..Len(b) PROVE (a \o b)[Len(a) + i] = b[i]
  <2>1. /\ Len(a) + i \in 1..(Len(a) + Len(b)) /\ ~(Len(a) + i <= Len(a))
        /\ (Len(a) + i) - Len(a) = i
    BY <1>1
  <2>. QED
    BY <1>1, <2>1
<1>. QED
  BY <1>1, <1>2, <1>3

LEMMA InstruccionSon ==
  ASSUME NEW S \in SUBSET Int, Nat \subseteq S, NEW t \in Seq(S)
  PROVE  /\ Instruccion(t) \in Seq(S)
         /\ Len(Instruccion(t)) = Len(t) + 2
         /\ Instruccion(t)[1] = Len(t) + 1
         /\ \A i \in 1..Len(t) : Instruccion(t)[i + 1] = t[i]
<1>. DEFINE a == <<Len(t) + 1>>
            b == a \o t
            c == <<Nulo>>
<1>1. Len(t) \in Nat /\ Len(t) + 1 \in S /\ Nulo \in S
  BY DEF Nulo
<1>2. a \in Seq(S) /\ Len(a) = 1 /\ a[1] = Len(t) + 1 /\ c \in Seq(S) /\ Len(c) = 1
  BY <1>1
<1>3. Instruccion(t) = b \o c
  BY DEF Instruccion
<1>. HIDE DEF a, c
<1>4. /\ b \in Seq(S) /\ Len(b) = Len(a) + Len(t)
      /\ \A i \in 1..Len(a) : b[i] = a[i]
      /\ \A i \in 1..Len(t) : b[Len(a) + i] = t[i]
  BY <1>2, Pegar
<1>. HIDE DEF b
<1>5. /\ b \o c \in Seq(S) /\ Len(b \o c) = Len(b) + Len(c)
      /\ \A i \in 1..Len(b) : (b \o c)[i] = b[i]
  <2>1. b \in Seq(S) /\ c \in Seq(S)
    BY <1>2, <1>4
  <2>. QED
    BY <2>1, Pegar
<1>6. Len(Instruccion(t)) = Len(t) + 2
  BY <1>1, <1>2, <1>3, <1>4, <1>5
<1>7. Instruccion(t)[1] = Len(t) + 1
  BY <1>1, <1>2, <1>3, <1>4, <1>5
<1>8. ASSUME NEW i \in 1..Len(t) PROVE Instruccion(t)[i + 1] = t[i]
  <2>1. i + 1 \in 1..Len(b) /\ i + 1 = Len(a) + i
    BY <1>1, <1>2, <1>4
  <2>. QED
    BY <1>3, <1>4, <1>5, <2>1
<1>. QED
  BY <1>3, <1>5, <1>6, <1>7, <1>8

\* The cells of an int at least.
Celdas(S) == S \in SUBSET Int /\ Nat \subseteq S

LEMMA StreamTipo ==
  ASSUME NEW S, Celdas(S), NEW x \in Seq(Seq(S))
  PROVE  /\ [j \in DOMAIN x |-> Instruccion(x[j])] \in Seq(Seq(S))
         /\ Len([j \in DOMAIN x |-> Instruccion(x[j])]) = Len(x)
         /\ Stream(x) \in Seq(S)
<1>. DEFINE ss == [j \in DOMAIN x |-> Instruccion(x[j])]
<1>1. DOMAIN x = 1..Len(x) /\ Len(x) \in Nat /\ \A j \in 1..Len(x) : x[j] \in Seq(S)
  BY ElementOfSeq, LenProperties
<1>2. \A j \in 1..Len(x) : Instruccion(x[j]) \in Seq(S)
  BY <1>1, InstruccionSon DEF Celdas
<1>3. ss \in [1..Len(x) -> Seq(S)]
  BY <1>1, <1>2
<1>4. ss \in Seq(Seq(S)) /\ Len(ss) = Len(x)
  BY <1>1, <1>3
<1>. HIDE DEF ss
<1>5. FlattenSeq(ss) \in Seq(S)
  BY <1>4, AplanarTipo
<1>. QED
  BY <1>4, <1>5 DEF Stream, ss

\* P[i] is a prefix of P[n].
Empieza(P, i, n) ==
  Len(P[i]) <= Len(P[n]) /\ \A q \in 1..Len(P[i]) : P[n][q] = P[i][q]

LEMMA PrefijosDelTodo ==
  ASSUME NEW S, NEW ss \in Seq(Seq(S)), NEW P \in [0..Len(ss) -> Seq(S)], Prefijos(P, ss)
  PROVE  \A i \in 0..Len(ss) : Empieza(P, i, Len(ss))
<1>. DEFINE n == Len(ss)
            T == P[n]
            B == {i \in 0..n : Len(P[i]) <= Len(T) /\ \A q \in 1..Len(P[i]) : T[q] = P[i][q]}
<1>1. n \in Nat /\ (\A i \in 1..n : ss[i] \in Seq(S)) /\ \A i \in 0..n : P[i] \in Seq(S)
  BY ElementOfSeq, LenProperties
<1>. HIDE DEF n
<1>2. n \in B
  <2>1. n \in 0..n /\ Len(T) \in Nat
    BY <1>1
  <2>. QED
    BY <2>1
<1>3. ASSUME NEW m \in 0..n, m > 0, m \in B
      PROVE  m - 1 \in B
  <2>1. m \in 1..n /\ m - 1 \in 0..n
    BY <1>1, <1>3
  <2>2. P[m] = P[m - 1] \o ss[m]
    BY <2>1 DEF Prefijos, n
  <2>. DEFINE a == P[m - 1]
              c == ss[m]
  <2>3. a \in Seq(S) /\ c \in Seq(S) /\ P[m] = a \o c
    BY <1>1, <2>1, <2>2
  <2>. HIDE DEF a, c
  <2>4. /\ Len(P[m]) = Len(a) + Len(c) /\ Len(a) \in Nat /\ Len(c) \in Nat
        /\ \A q \in 1..Len(a) : P[m][q] = a[q]
    BY <2>3, Pegar, LenProperties
  <2>5. Len(T) \in Nat /\ Len(P[m]) <= Len(T) /\ \A q \in 1..Len(P[m]) : T[q] = P[m][q]
    BY <1>1, <1>3
  <2>. HIDE DEF T
  <2>6. Len(a) <= Len(T)
    BY <2>4, <2>5
  <2>7. ASSUME NEW q \in 1..Len(a) PROVE T[q] = a[q]
    <3>1. q \in 1..Len(P[m])
      BY <2>4
    <3>. QED
      BY <2>4, <2>5, <3>1
  <2>. QED
    BY <2>1, <2>6, <2>7 DEF a
<1>. HIDE DEF B
<1>4. 0..n \subseteq B
  BY <1>1, <1>2, <1>3, Bajando
<1>. QED
  BY <1>4 DEF B, n, Empieza

\* What the stream puts together.
Cadenas(x) == [j \in DOMAIN x |-> Instruccion(x[j])]

\* Where its prefix ends, the i-th instruction is read, and all of it.
Leida(x, P, i) ==
  /\ HayInstruccion(Stream(x), Len(P[i - 1]))
  /\ Texto(Stream(x), Len(P[i - 1])) = x[i]
  /\ Tras(Stream(x), Len(P[i - 1])) = Len(P[i])

\* The i-th instruction of a stream begins where the prefix of the others ends.
LEMMA InstruccionEnStream ==
  ASSUME NEW S, Celdas(S), NEW x \in Seq(Seq(S)), NEW P,
         P \in [0..Len(x) -> Seq(S)],
         Prefijos(P, Cadenas(x)), Stream(x) = P[Len(x)], NEW i \in 1..Len(x)
  PROVE  Leida(x, P, i)
<1>. DEFINE ss == Cadenas(x)
            T  == Stream(x)
            b  == Len(P[i - 1])
<1>1. ss \in Seq(Seq(S)) /\ Len(ss) = Len(x) /\ T \in Seq(S)
  BY StreamTipo DEF Cadenas
<1>2. DOMAIN x = 1..Len(x) /\ Len(x) \in Nat /\ x[i] \in Seq(S)
  BY ElementOfSeq, LenProperties
<1>3. ss[i] = Instruccion(x[i])
  BY <1>2 DEF Cadenas
<1>. HIDE DEF ss
<1>4. /\ ss[i] \in Seq(S) /\ Len(ss[i]) = Len(x[i]) + 2 /\ ss[i][1] = Len(x[i]) + 1
      /\ \A q \in 1..Len(x[i]) : ss[i][q + 1] = x[i][q]
  BY <1>2, <1>3, InstruccionSon DEF Celdas
<1>5. i \in 0..Len(x) /\ i - 1 \in 0..Len(x) /\ Len(x[i]) \in Nat
  BY <1>2
<1>6. P[i] \in Seq(S) /\ P[i - 1] \in Seq(S) /\ P[i] = P[i - 1] \o ss[i] /\ b \in Nat
  <2>1. P[i] \in Seq(S) /\ P[i - 1] \in Seq(S)
    BY <1>5
  <2>2. Prefijos(P, ss)
    BY DEF ss
  <2>3. i \in 1..Len(ss)
    BY <1>1
  <2>4. P[i] = P[i - 1] \o ss[i]
    BY <2>2, <2>3 DEF Prefijos
  <2>5. b \in Nat
    BY <2>1, LenProperties
  <2>. QED
    BY <2>1, <2>4, <2>5
<1>7. /\ Len(P[i]) = b + Len(x[i]) + 2
      /\ \A q \in 1..(Len(x[i]) + 2) : P[i][b + q] = ss[i][q]
  <2>. DEFINE a == P[i - 1]
              c == ss[i]
  <2>1. a \in Seq(S) /\ c \in Seq(S) /\ P[i] = a \o c
    BY <1>4, <1>6
  <2>. HIDE DEF a, c
  <2>2. /\ Len(P[i]) = Len(a) + Len(c)
        /\ \A q \in 1..Len(c) : P[i][Len(a) + q] = c[q]
    BY <2>1, Pegar
  <2>3. Len(c) = Len(x[i]) + 2 /\ Len(a) = b /\ c = ss[i]
    BY <1>4 DEF a, c
  <2>. HIDE DEF b
  <2>4. Len(x[i]) \in Nat
    BY <1>5
  <2>. QED
    <3>1. Len(P[i]) = b + (Len(x[i]) + 2)
      BY <2>2, <2>3
    <3>2. \A q \in 1..(Len(x[i]) + 2) : P[i][b + q] = ss[i][q]
      BY <2>2, <2>3
    <3>3. b + (Len(x[i]) + 2) = b + Len(x[i]) + 2
      BY <2>4, <1>6
    <3>. QED
      BY <3>1, <3>2, <3>3
<1>8. Len(P[i]) <= Len(T) /\ \A q \in 1..Len(P[i]) : T[q] = P[i][q]
  <2>1. P \in [0..Len(ss) -> Seq(S)] /\ i \in 0..Len(ss) /\ T = P[Len(ss)]
    BY <1>1, <1>5
  <2>0. Prefijos(P, ss)
    BY DEF ss
  <2>2. Empieza(P, i, Len(ss))
    <3>1. ss \in Seq(Seq(S))
      BY <1>1
    <3>2. P \in [0..Len(ss) -> Seq(S)]
      BY <2>1
    <3>. QED
      BY <3>1, <3>2, <2>0, <2>1, PrefijosDelTodo
  <2>. HIDE DEF T
  <2>3. P[Len(ss)] = T
    BY <2>1
  <2>. QED
    BY <2>2, <2>3 DEF Empieza
<1>9. Len(T) \in Nat
  BY <1>1
<1>. HIDE DEF T, b
<1>10. \A q \in 1..(Len(x[i]) + 2) : T[b + q] = ss[i][q]
  <2>. TAKE q \in 1..(Len(x[i]) + 2)
  <2>1. b + q \in 1..Len(P[i])
    BY <1>5, <1>6, <1>7
  <2>. QED
    BY <1>7, <1>8, <2>1
<1>11. T[b + 1] = Len(x[i]) + 1
  <2>1. 1 \in 1..(Len(x[i]) + 2)
    BY <1>5
  <2>. QED
    BY <1>4, <1>10, <2>1
<1>12. HayInstruccion(T, b) /\ Tras(T, b) = Len(P[i])
  <2>. DEFINE l == T[b + 1]
              e == Len(T)
              m == Len(x[i])
  <2>1. l = m + 1 /\ m \in Nat /\ e \in Nat /\ b \in Nat /\ b + m + 2 <= e /\ Len(P[i]) = b + m + 2
    BY <1>5, <1>6, <1>7, <1>8, <1>9, <1>11
  <2>. HIDE DEF l, e, m
  <2>2. b < e /\ l > 0 /\ b + 1 + l <= e /\ b + 1 + l = Len(P[i])
    BY <2>1
  <2>. QED
    BY <2>2 DEF HayInstruccion, Tras, l, e
<1>13. Texto(T, b) = x[i]
  <2>. DEFINE h == b + Len(x[i]) + 1
              u == SubSeq(T, b + 2, h)
  <2>1. Texto(T, b) = u
    <3>1. b + T[b + 1] = h
      BY <1>5, <1>6, <1>11
    <3>. QED
      BY <3>1 DEF Texto
  <2>2. \A q \in 1..Len(x[i]) : (b + 2) + q - 1 \in (b + 2)..h /\ T[(b + 2) + q - 1] = x[i][q]
    <3>. TAKE q \in 1..Len(x[i])
    <3>1. /\ (b + 2) + q - 1 \in (b + 2)..h /\ (b + 2) + q - 1 = b + (q + 1)
          /\ q + 1 \in 1..(Len(x[i]) + 2)
      BY <1>5, <1>6
    <3>2. T[b + (q + 1)] = ss[i][q + 1]
      BY <1>10, <3>1
    <3>. QED
      BY <1>4, <3>1, <3>2
  <2>3. \A r \in (b + 2)..h : T[r] \in S
    <3>1. \A r \in (b + 2)..h : r \in 1..Len(T)
      BY <1>5, <1>6, <1>7, <1>8, <1>9
    <3>. QED
      BY <1>1, <3>1, ElementOfSeq DEF T
  <2>4. b + 2 \in Int /\ h \in Int /\ h - (b + 2) + 1 = Len(x[i]) /\ (b + 2 <= h <=> Len(x[i]) > 0)
    BY <1>5, <1>6
  <2>5. /\ u \in Seq(S)
        /\ Len(u) = IF b + 2 <= h THEN h - (b + 2) + 1 ELSE 0
        /\ \A q \in 1..(h - (b + 2) + 1) : u[q] = T[(b + 2) + q - 1]
    <3>. DEFINE d == b + 2
    <3>. HIDE DEF d, h
    <3>1. d \in Int /\ h \in Int /\ \A r \in d..h : T[r] \in S
      BY <2>3, <2>4 DEF d
    <3>2. /\ SubSeq(T, d, h) \in Seq(S)
          /\ Len(SubSeq(T, d, h)) = IF d <= h THEN h - d + 1 ELSE 0
          /\ \A q \in 1..(h - d + 1) : SubSeq(T, d, h)[q] = T[d + q - 1]
      BY <3>1, SubSeqProperties
    <3>. QED
      BY <3>2 DEF d
  <2>. HIDE DEF h, u
  <2>6. Len(u) = Len(x[i])
    <3>1. Len(x[i]) > 0 \/ Len(x[i]) = 0
      BY <1>5
    <3>. QED
      BY <3>1, <2>4, <2>5
  <2>8. \A q \in 1..Len(x[i]) : u[q] = x[i][q]
    <3>1. \A q \in 1..Len(x[i]) : u[q] = T[(b + 2) + q - 1]
      BY <2>4, <2>5
    <3>. QED
      BY <2>2, <3>1
  <2>7. u = x[i]
    BY <1>2, <2>5, <2>6, <2>8, SeqEqual
  <2>. QED
    BY <2>1, <2>7
<1>. QED
  BY <1>12, <1>13 DEF T, b, Leida

\* recibir_instrucciones returns what cargar_buffer was given, whatever it was:
\* no instruction is lost, and none begins in the middle of another
\* (clientServ.c:167-185, 417-433, utils_kernel.c:80-98).
THEOREM InstruccionesDelStream ==
  ASSUME NEW S, Celdas(S), NEW x \in Seq(Seq(S))
  PROVE  Instrucciones(Stream(x)) = x
<1>. DEFINE n  == Len(x)
            ss == [j \in DOMAIN x |-> Instruccion(x[j])]
            T  == Stream(x)
<1>1. ss \in Seq(Seq(S)) /\ Len(ss) = n /\ T \in Seq(S) /\ T = FlattenSeq(ss)
  BY StreamTipo DEF Stream
<1>2. n \in Nat
  BY LenProperties
<1>. HIDE DEF T
<1>3. PICK P \in [0..n -> Seq(S)] : Prefijos(P, ss) /\ T = P[n]
  <2>. HIDE DEF ss
  <2>1. \E P \in [0..Len(ss) -> Seq(S)] : Prefijos(P, ss) /\ FlattenSeq(ss) = P[Len(ss)]
    BY <1>1, AplanarEsPrefijo
  <2>. QED
    BY <1>1, <2>1
<1>4. \A i \in 1..n : /\ HayInstruccion(T, Len(P[i - 1]))
                      /\ Texto(T, Len(P[i - 1])) = x[i]
                      /\ Tras(T, Len(P[i - 1])) = Len(P[i])
  <2>1. P \in [0..Len(x) -> Seq(S)] /\ Prefijos(P, Cadenas(x)) /\ Stream(x) = P[Len(x)]
    BY <1>3 DEF T, Cadenas
  <2>2. \A i \in 1..Len(x) : Leida(x, P, i)
    BY <2>1, InstruccionEnStream
  <2>. QED
    BY <2>2 DEF T, Leida
<1>5. P[0] = <<>>
  BY <1>3 DEF Prefijos
<1>. HIDE DEF ss
<1>6. S \in SUBSET Int
  BY DEF Celdas
<1>7. PICK f \in [0..Len(T) -> Seq(Seq(S))] : Desde(f, T)
  BY <1>1, <1>6, HayDesde
<1>8. Instrucciones(T) = f[0]
  BY <1>1, <1>6, <1>7, InstruccionesDef
<1>9. Len(T) \in Nat /\ \A i \in 0..n : Len(P[i]) \in Nat
  BY <1>1, LenProperties
<1>10. \A k \in 0..Len(T) : f[k] = (IF HayInstruccion(T, k) THEN <<Texto(T, k)>> \o f[Tras(T, k)]
                                                            ELSE <<>>)
  BY <1>7 DEF Desde, Texto, Tras
<1>. DEFINE B == {i \in 0..n : f[Len(P[i])] = SubSeq(x, i + 1, n)}
<1>11. n \in B
  <2>1. Len(P[n]) = Len(T) /\ ~HayInstruccion(T, Len(T)) /\ Len(T) \in 0..Len(T)
    BY <1>3, <1>9 DEF HayInstruccion
  <2>2. f[Len(P[n])] = <<>>
    BY <1>10, <2>1
  <2>3. SubSeq(x, n + 1, n) = <<>>
    BY <1>2, SubSeqEmpty
  <2>4. n \in 0..n /\ f[Len(P[n])] = SubSeq(x, n + 1, n)
    BY <1>2, <2>2, <2>3
  <2>. HIDE DEF n
  <2>. QED
    BY <2>4
<1>12. ASSUME NEW m \in 0..n, m > 0, m \in B
       PROVE  m - 1 \in B
  <2>1. m \in 1..n /\ m - 1 \in 0..n /\ (m - 1) + 1 = m
    BY <1>2, <1>12
  <2>. DEFINE k == Len(P[m - 1])
  <2>2. HayInstruccion(T, k) /\ Texto(T, k) = x[m] /\ Tras(T, k) = Len(P[m])
    BY <1>4, <2>1
  <2>3. k \in 0..Len(T)
    <3>1. k \in Nat
      BY <1>9, <2>1
    <3>. HIDE DEF k
    <3>. QED
      BY <1>9, <2>2, <3>1 DEF HayInstruccion
  <2>4. f[k] = <<x[m]>> \o f[Len(P[m])]
    BY <1>10, <2>2, <2>3
  <2>5. f[Len(P[m])] = SubSeq(x, m + 1, n)
    BY <1>12
  <2>6. n \in m..Len(x) /\ m \in 1..Len(x)
    BY <1>2, <2>1
  <2>7. SubSeq(x, m, n) = <<x[m]>> \o SubSeq(x, m + 1, n)
    BY <2>6, SubSeqRecursiveFirst
  <2>. QED
    BY <2>1, <2>4, <2>5, <2>7
<1>. HIDE DEF B
<1>13. 0..n \subseteq B
  BY <1>2, <1>11, <1>12, Bajando
<1>14. f[Len(P[0])] = SubSeq(x, 0 + 1, n)
  <2>1. 0 \in 0..n
    BY <1>2
  <2>2. 0 \in B
    BY <1>13, <2>1
  <2>. HIDE DEF n
  <2>. QED
    BY <2>2 DEF B
<1>15. Len(P[0]) = 0
  BY <1>5
<1>16. SubSeq(x, 1, Len(x)) = x
  BY SubSeqFull
<1>. QED
  BY <1>8, <1>14, <1>15, <1>16 DEF T

\* A stream that was written as one is taken for one.
LEMMA StreamEsStream ==
  ASSUME NEW S, Celdas(S), NEW x \in Seq(Seq(S))
  PROVE  EsStream(Stream(x))
<1>1. Instrucciones(Stream(x)) = x
  BY InstruccionesDelStream
<1>. QED
  BY <1>1 DEF EsStream

-----------------------------------------------------------------------------
(* Messages: what is before the buffer, the buffer, and who reads them.    *)

LEMMA BufferSon ==
  ASSUME NEW S, Celdas(S), NEW x \in Seq(Seq(S))
  PROVE  Buffer(x) \in Seq(S) /\ Len(Buffer(x)) = Len(Stream(x)) + 1
         /\ Buffer(x)[1] = Len(Stream(x))
         /\ \A q \in 1..Len(Stream(x)) : Buffer(x)[q + 1] = Stream(x)[q]
<1>. DEFINE t == Stream(x)
            a == <<Len(t)>>
<1>1. t \in Seq(S) /\ Len(t) \in Nat
  BY StreamTipo, LenProperties
<1>2. Buffer(x) = a \o t
  BY DEF Buffer
<1>. HIDE DEF t
<1>3. a \in Seq(S) /\ Len(a) = 1 /\ a[1] = Len(t)
  BY <1>1 DEF Celdas
<1>. HIDE DEF a
<1>4. /\ a \o t \in Seq(S) /\ Len(a \o t) = Len(a) + Len(t)
      /\ \A i \in 1..Len(a) : (a \o t)[i] = a[i]
      /\ \A i \in 1..Len(t) : (a \o t)[Len(a) + i] = t[i]
  <2>1. a \in Seq(S) /\ t \in Seq(S)
    BY <1>1, <1>3
  <2>. QED
    BY <2>1, Pegar
<1>5. Len(Buffer(x)) = Len(t) + 1
  BY <1>1, <1>2, <1>3, <1>4
<1>6. Buffer(x)[1] = Len(t)
  <2>1. 1 \in 1..Len(a)
    BY <1>3
  <2>. QED
    BY <1>2, <1>3, <1>4, <2>1
<1>7. ASSUME NEW q \in 1..Len(t) PROVE Buffer(x)[q + 1] = t[q]
  <2>1. q + 1 = Len(a) + q
    BY <1>1, <1>3
  <2>. QED
    BY <1>2, <1>4, <2>1
<1>. QED
  BY <1>2, <1>4, <1>5, <1>6, <1>7 DEF t

\* What is read of a message that ends with a buffer.
LEMMA ConBuffer ==
  ASSUME NEW S, Celdas(S), NEW h \in Seq(S), NEW x \in Seq(Seq(S))
  PROVE  /\ h \o Buffer(x) \in Seq(S)
         /\ Len(h \o Buffer(x)) = Len(h) + 1 + Len(Stream(x))
         /\ \A i \in 1..Len(h) : (h \o Buffer(x))[i] = h[i]
         /\ (h \o Buffer(x))[Len(h) + 1] = Len(Stream(x))
         /\ SubSeq(h \o Buffer(x), Len(h) + 2, Len(h) + 1 + Len(Stream(x))) = Stream(x)
         /\ RecibirInstrucciones(h \o Buffer(x), Len(h) + 1) = x
<1>. DEFINE b == Buffer(x)
            t == Stream(x)
            m == h \o b
<1>1. /\ b \in Seq(S) /\ Len(b) = Len(t) + 1 /\ b[1] = Len(t)
      /\ \A q \in 1..Len(t) : b[q + 1] = t[q]
  BY BufferSon
<1>2. t \in Seq(S) /\ Len(t) \in Nat /\ Len(h) \in Nat
  BY StreamTipo, LenProperties
<1>. HIDE DEF b, t
<1>3. /\ m \in Seq(S) /\ Len(m) = Len(h) + Len(b)
      /\ \A i \in 1..Len(h) : m[i] = h[i]
      /\ \A i \in 1..Len(b) : m[Len(h) + i] = b[i]
  <2>1. h \in Seq(S) /\ b \in Seq(S)
    BY <1>1
  <2>. QED
    BY <2>1, Pegar
<1>. HIDE DEF m
<1>4. Len(m) = Len(h) + 1 + Len(t)
  BY <1>1, <1>2, <1>3
<1>5. m[Len(h) + 1] = Len(t)
  <2>1. 1 \in 1..Len(b)
    BY <1>1, <1>2
  <2>. QED
    BY <1>1, <1>3, <2>1
<1>. DEFINE d == Len(h) + 2
            e == Len(h) + 1 + Len(t)
            u == SubSeq(m, d, e)
<1>6. d \in Int /\ e \in Int /\ (d <= e <=> Len(t) > 0) /\ e - d + 1 = Len(t)
  BY <1>2
<1>7. \A q \in 1..Len(t) : d + q - 1 \in 1..Len(m) /\ m[d + q - 1] = t[q]
  <2>. TAKE q \in 1..Len(t)
  <2>1. /\ d + q - 1 = Len(h) + (q + 1) /\ q + 1 \in 1..Len(b) /\ d + q - 1 \in 1..Len(m)
    BY <1>1, <1>2, <1>4
  <2>2. m[Len(h) + (q + 1)] = b[q + 1]
    BY <1>3, <2>1
  <2>. QED
    BY <1>1, <2>1, <2>2
<1>8. \A r \in d..e : m[r] \in S
  <2>1. \A r \in d..e : r \in 1..Len(m)
    BY <1>2, <1>4
  <2>. QED
    BY <1>3, <2>1, ElementOfSeq
<1>. HIDE DEF d, e
<1>9. /\ u \in Seq(S)
      /\ Len(u) = IF d <= e THEN e - d + 1 ELSE 0
      /\ \A q \in 1..(e - d + 1) : u[q] = m[d + q - 1]
  BY <1>6, <1>8, SubSeqProperties
<1>. HIDE DEF u
<1>10. Len(u) = Len(t)
  BY <1>2, <1>6, <1>9
<1>11. \A q \in 1..Len(t) : u[q] = t[q]
  <2>1. \A q \in 1..Len(t) : u[q] = m[d + q - 1]
    BY <1>6, <1>9
  <2>. QED
    BY <1>7, <2>1
<1>12. u = t
  BY <1>2, <1>9, <1>10, <1>11, SeqEqual
<1>13. RecibirInstrucciones(m, Len(h) + 1) = Instrucciones(u)
  <2>1. (Len(h) + 1) + 1 = d /\ (Len(h) + 1) + Len(t) = e
    BY <1>2 DEF d, e
  <2>. QED
    BY <1>5, <2>1 DEF RecibirInstrucciones, u
<1>14. Instrucciones(t) = x
  BY InstruccionesDelStream DEF t
<1>. QED
  BY <1>3, <1>4, <1>5, <1>12, <1>13, <1>14 DEF m, b, t, u, d, e

\* Taking off the first cell, the operation.
LEMMA ColaDePegar ==
  ASSUME NEW S, NEW a \in Seq(S), NEW b \in Seq(S), a # <<>>
  PROVE  Tail(a \o b) = Tail(a) \o b /\ (a \o b)[1] = a[1]
<1>1. Len(a) \in Nat /\ Len(b) \in Nat /\ Len(a) > 0
  BY EmptySeq, LenProperties
<1>. DEFINE m == a \o b
            c == Tail(a)
            d == c \o b
<1>2. /\ m \in Seq(S) /\ Len(m) = Len(a) + Len(b)
      /\ \A i \in 1..Len(a) : m[i] = a[i]
      /\ \A i \in 1..Len(b) : m[Len(a) + i] = b[i]
  BY Pegar
<1>3. c \in Seq(S) /\ Len(c) = Len(a) - 1 /\ \A i \in 1..Len(c) : c[i] = a[i + 1]
  BY HeadTailProperties
<1>. HIDE DEF c, m
<1>4. /\ d \in Seq(S) /\ Len(d) = Len(c) + Len(b)
      /\ \A i \in 1..Len(c) : d[i] = c[i]
      /\ \A i \in 1..Len(b) : d[Len(c) + i] = b[i]
  <2>1. c \in Seq(S) /\ b \in Seq(S)
    BY <1>3
  <2>. QED
    BY <2>1, Pegar
<1>. HIDE DEF d
<1>5. m # <<>>
  BY <1>1, <1>2
<1>6. Tail(m) \in Seq(S) /\ Len(Tail(m)) = Len(m) - 1 /\ \A i \in 1..Len(Tail(m)) : Tail(m)[i] = m[i + 1]
  <2>1. m \in Seq(S) /\ m # <<>>
    BY <1>2, <1>5
  <2>. QED
    BY <2>1, HeadTailProperties
<1>. DEFINE r == Tail(m)
<1>7. r \in Seq(S) /\ Len(r) = Len(m) - 1 /\ \A i \in 1..Len(r) : r[i] = m[i + 1]
  BY <1>6
<1>. HIDE DEF r
<1>8. Len(r) = Len(d)
  BY <1>1, <1>2, <1>3, <1>4, <1>7
<1>9. ASSUME NEW i \in 1..Len(r) PROVE r[i] = d[i]
  <2>1. CASE i < Len(a)
    <3>1. i \in 1..Len(c) /\ i + 1 \in 1..Len(a)
      BY <1>1, <1>3, <2>1
    <3>. QED
      BY <1>2, <1>3, <1>4, <1>7, <3>1
  <2>2. CASE i >= Len(a)
    <3>. DEFINE j == i - Len(c)
    <3>1. j \in 1..Len(b) /\ i = Len(c) + j /\ i + 1 = Len(a) + j
      BY <1>1, <1>2, <1>3, <1>4, <1>7, <2>2
    <3>. HIDE DEF j
    <3>. QED
      BY <1>2, <1>4, <1>7, <3>1
  <2>. QED
    BY <1>1, <2>1, <2>2
<1>10. r = d
  BY <1>4, <1>7, <1>8, <1>9, SeqEqual
<1>. QED
  BY <1>1, <1>2, <1>10 DEF r, d, m, c

LEMMA PegarUno ==
  ASSUME NEW u \in Seq(Int), NEW e \in Int
  PROVE  /\ u \o <<e>> \in Seq(Int) /\ Len(u \o <<e>>) = Len(u) + 1
         /\ \A i \in 1..Len(u) : (u \o <<e>>)[i] = u[i]
         /\ (u \o <<e>>)[Len(u) + 1] = e
<1>. DEFINE d == <<e>>
<1>1. d \in Seq(Int) /\ Len(d) = 1 /\ d[1] = e
  OBVIOUS
<1>. HIDE DEF d
<1>2. /\ u \o d \in Seq(Int) /\ Len(u \o d) = Len(u) + Len(d)
      /\ \A i \in 1..Len(u) : (u \o d)[i] = u[i]
      /\ \A i \in 1..Len(d) : (u \o d)[Len(u) + i] = d[i]
  <2>1. d \in Seq(Int)
    BY <1>1
  <2>. QED
    BY <2>1, Pegar
<1>3. 1 \in 1..Len(d)
  BY <1>1
<1>. QED
  BY <1>1, <1>2, <1>3 DEF d

LEMMA PegarDoble ==
  ASSUME NEW u \in Seq(Int), NEW e \in Int
  PROVE  /\ u \o Doble(e) \in Seq(Int) /\ Len(u \o Doble(e)) = Len(u) + 2
         /\ \A i \in 1..Len(u) : (u \o Doble(e))[i] = u[i]
         /\ (u \o Doble(e))[Len(u) + 1] = e
         /\ (u \o Doble(e))[Len(u) + 2] = -e
<1>. DEFINE d == Doble(e)
<1>1. d \in Seq(Int) /\ Len(d) = 2 /\ d[1] = e /\ d[2] = -e
  BY DEF Doble
<1>. HIDE DEF d
<1>2. /\ u \o d \in Seq(Int) /\ Len(u \o d) = Len(u) + Len(d)
      /\ \A i \in 1..Len(u) : (u \o d)[i] = u[i]
      /\ \A i \in 1..Len(d) : (u \o d)[Len(u) + i] = d[i]
  <2>1. d \in Seq(Int)
    BY <1>1
  <2>. QED
    BY <2>1, Pegar
<1>3. 1 \in 1..Len(d) /\ 2 \in 1..Len(d)
  BY <1>1
<1>. QED
  BY <1>1, <1>2, <1>3 DEF d

\* The fields of a PCB between the integers, in a, and the instructions.
Cabecera(a, e, t, i, r, x) ==
  a \o Doble(e) \o <<t>> \o Doble(i) \o Doble(r) \o Doble(x)

EsCabecera(h, a, n, e, t, i, r, x) ==
  /\ h \in Seq(Int) /\ Len(h) = n + 9
  /\ \A q \in 1..n : h[q] = a[q]
  /\ h[n + 1] = e /\ h[n + 2] = -e /\ h[n + 3] = t
  /\ h[n + 4] = i /\ h[n + 5] = -i /\ h[n + 6] = r /\ h[n + 7] = -r
  /\ h[n + 8] = x /\ h[n + 9] = -x

LEMMA CabeceraSon ==
  ASSUME NEW a \in Seq(Int), NEW n \in Nat, Len(a) = n, NEW e \in Int, NEW t \in Int,
         NEW i \in Int, NEW r \in Int, NEW x \in Int
  PROVE  EsCabecera(Cabecera(a, e, t, i, r, x), a, n, e, t, i, r, x)
<1>. DEFINE h == Cabecera(a, e, t, i, r, x)
            u == a \o Doble(e)
            v == u \o <<t>>
            w == v \o Doble(i)
            y == w \o Doble(r)
            z == y \o Doble(x)
<1>1. h = z
  BY DEF Cabecera
<1>. HIDE DEF h
<1>2. /\ u \in Seq(Int) /\ Len(u) = n + 2 /\ \A q \in 1..n : u[q] = a[q]
      /\ u[n + 1] = e /\ u[n + 2] = -e
  BY PegarDoble
<1>. HIDE DEF u
<1>3. /\ v \in Seq(Int) /\ Len(v) = n + 3 /\ \A q \in 1..(n + 2) : v[q] = u[q]
      /\ v[n + 3] = t
  <2>1. u \in Seq(Int)
    BY <1>2
  <2>2. /\ v \in Seq(Int) /\ Len(v) = Len(u) + 1
        /\ \A q \in 1..Len(u) : v[q] = u[q]
        /\ v[Len(u) + 1] = t
    BY <2>1, PegarUno
  <2>. QED
    BY <1>2, <2>2
<1>. HIDE DEF v
<1>4. /\ w \in Seq(Int) /\ Len(w) = n + 5 /\ \A q \in 1..(n + 3) : w[q] = v[q]
      /\ w[n + 4] = i /\ w[n + 5] = -i
  <2>1. v \in Seq(Int)
    BY <1>3
  <2>2. /\ w \in Seq(Int) /\ Len(w) = Len(v) + 2
        /\ \A q \in 1..Len(v) : w[q] = v[q]
        /\ w[Len(v) + 1] = i /\ w[Len(v) + 2] = -i
    BY <2>1, PegarDoble
  <2>. QED
    BY <1>3, <2>2
<1>. HIDE DEF w
<1>5. /\ y \in Seq(Int) /\ Len(y) = n + 7 /\ \A q \in 1..(n + 5) : y[q] = w[q]
      /\ y[n + 6] = r /\ y[n + 7] = -r
  <2>1. w \in Seq(Int)
    BY <1>4
  <2>2. /\ y \in Seq(Int) /\ Len(y) = Len(w) + 2
        /\ \A q \in 1..Len(w) : y[q] = w[q]
        /\ y[Len(w) + 1] = r /\ y[Len(w) + 2] = -r
    BY <2>1, PegarDoble
  <2>. QED
    BY <1>4, <2>2
<1>. HIDE DEF y
<1>6. /\ h \in Seq(Int) /\ Len(h) = n + 9 /\ \A q \in 1..(n + 7) : h[q] = y[q]
      /\ h[n + 8] = x /\ h[n + 9] = -x
  <2>1. y \in Seq(Int)
    BY <1>5
  <2>2. /\ z \in Seq(Int) /\ Len(z) = Len(y) + 2
        /\ \A q \in 1..Len(y) : z[q] = y[q]
        /\ z[Len(y) + 1] = x /\ z[Len(y) + 2] = -x
    BY <2>1, PegarDoble
  <2>. HIDE DEF z
  <2>. QED
    BY <1>1, <1>5, <2>2
<1>7. \A q \in 1..n : h[q] = a[q]
  BY <1>2, <1>3, <1>4, <1>5, <1>6
<1>8. h[n + 1] = e /\ h[n + 2] = -e /\ h[n + 3] = t
  <2>1. /\ {n + 1, n + 2} \subseteq 1..(n + 2) /\ {n + 1, n + 2, n + 3} \subseteq 1..(n + 3)
        /\ {n + 1, n + 2, n + 3} \subseteq 1..(n + 5)
        /\ {n + 1, n + 2, n + 3} \subseteq 1..(n + 7)
    OBVIOUS
  <2>. QED
    BY <1>2, <1>3, <1>4, <1>5, <1>6, <2>1
<1>9. h[n + 4] = i /\ h[n + 5] = -i /\ h[n + 6] = r /\ h[n + 7] = -r
  BY <1>4, <1>5, <1>6
<1>. QED
  BY <1>6, <1>7, <1>8, <1>9 DEF EsCabecera, h

\* A PCB is a record of numbers and instructions.
Pcbs ==
  [id : Int, socket : Int, tamanio_proceso : Int, program_counter : Int,
   estimacion_rafaga : Int, tablas_paginas : Int, inicio_rafaga : Int, restante : Int,
   tiempo_ejecucion : Int, instrucciones : Seq(Seq(Nat))]

LEMMA SeqMasAncha ==
  ASSUME NEW x \in Seq(Seq(Nat)) PROVE x \in Seq(Seq(Int))
<1>1. ASSUME NEW s \in Seq(Nat) PROVE s \in Seq(Int)
  BY SeqMonotonic
<1>2. Seq(Nat) \subseteq Seq(Int)
  BY <1>1
<1>. QED
  BY <1>2, SeqMonotonic

LEMMA EnterosSonCeldas == Celdas(Int) /\ Celdas(Nat)
  BY DEF Celdas

\* A message: the integers in a, then the doubles and the instructions of a PCB.
Mensaje(a, p) ==
  Cabecera(a, p.estimacion_rafaga, p.tablas_paginas, p.inicio_rafaga, p.restante,
           p.tiempo_ejecucion) \o Buffer(p.instrucciones)

\* Whoever reads s, what is left of m after its first cell, finds all of p in it,
\* and m ends there.
SeLee(m, s, a, n, p) ==
  /\ m \in Seq(Int) /\ m # <<>> /\ m[1] = a[1]
  /\ Len(m) = 1 + LargoPcb(s, n + 1)
  /\ \A q \in 1..(n - 1) : s[q] = a[q + 1]
  /\ LeerDoble(s, n) = p.estimacion_rafaga
  /\ s[n + 2] = p.tablas_paginas
  /\ LeerDoble(s, n + 3) = p.inicio_rafaga
  /\ LeerDoble(s, n + 5) = p.restante
  /\ LeerDoble(s, n + 7) = p.tiempo_ejecucion
  /\ RecibirInstrucciones(s, n + 9) = p.instrucciones

LEMMA LeerMensaje ==
  ASSUME NEW p \in Pcbs, NEW a \in Seq(Int), NEW n \in Nat, n > 0, Len(a) = n
  PROVE  SeLee(Mensaje(a, p), Tail(Mensaje(a, p)), a, n, p)
<1>. DEFINE m == Mensaje(a, p)
            h == Cabecera(a, p.estimacion_rafaga, p.tablas_paginas, p.inicio_rafaga,
                          p.restante, p.tiempo_ejecucion)
            b == Buffer(p.instrucciones)
            e == p.estimacion_rafaga
            t == p.tablas_paginas
            i == p.inicio_rafaga
            r == p.restante
            x == p.tiempo_ejecucion
            ins == p.instrucciones
            L == Len(Stream(ins))
<1>1. e \in Int /\ t \in Int /\ i \in Int /\ r \in Int /\ x \in Int /\ ins \in Seq(Seq(Nat))
  BY DEF Pcbs
<1>2. ins \in Seq(Seq(Int)) /\ Celdas(Int)
  BY <1>1, SeqMasAncha, EnterosSonCeldas
<1>3. b \in Seq(Int) /\ L \in Nat
  <2>. HIDE DEF ins
  <2>1. Buffer(ins) \in Seq(Int) /\ Stream(ins) \in Seq(Int)
    BY <1>2, BufferSon, StreamTipo
  <2>. QED
    BY <2>1, LenProperties DEF ins
<1>. HIDE DEF e, t, i, r, x, ins
<1>4. /\ h \in Seq(Int) /\ Len(h) = n + 9
      /\ \A q \in 1..n : h[q] = a[q]
      /\ h[n + 1] = e /\ h[n + 2] = -e /\ h[n + 3] = t
      /\ h[n + 4] = i /\ h[n + 5] = -i /\ h[n + 6] = r /\ h[n + 7] = -r
      /\ h[n + 8] = x /\ h[n + 9] = -x
  <2>1. EsCabecera(Cabecera(a, e, t, i, r, x), a, n, e, t, i, r, x)
    BY <1>1, CabeceraSon
  <2>2. h = Cabecera(a, e, t, i, r, x)
    BY DEF e, t, i, r, x
  <2>. HIDE DEF h
  <2>. QED
    BY <2>1, <2>2 DEF EsCabecera
<1>5. m = h \o b
  BY DEF Mensaje
<1>. HIDE DEF m
<1>. HIDE DEF h
<1>. DEFINE k == Tail(h)
            c == k \o b
<1>6. h # <<>>
  BY <1>4
<1>7. Tail(h \o b) = k \o b /\ (h \o b)[1] = h[1]
  <2>1. h \in Seq(Int) /\ b \in Seq(Int) /\ h # <<>>
    BY <1>3, <1>4, <1>6
  <2>. HIDE DEF b
  <2>. QED
    BY <2>1, ColaDePegar
<1>8. k \in Seq(Int) /\ Len(k) = n + 8 /\ \A q \in 1..(n + 8) : k[q] = h[q + 1]
  <2>1. h \in Seq(Int) /\ h # <<>>
    BY <1>4, <1>6
  <2>2. k \in Seq(Int) /\ Len(k) = Len(h) - 1 /\ \A q \in 1..Len(k) : k[q] = h[q + 1]
    BY <2>1, HeadTailProperties
  <2>. HIDE DEF k
  <2>. QED
    BY <1>4, <2>2
<1>. HIDE DEF k
<1>9. /\ c \in Seq(Int)
      /\ Len(c) = Len(k) + 1 + L
      /\ \A q \in 1..Len(k) : c[q] = k[q]
      /\ c[Len(k) + 1] = L
      /\ RecibirInstrucciones(c, Len(k) + 1) = ins
  <2>1. k \in Seq(Int)
    BY <1>8
  <2>2. /\ k \o Buffer(ins) \in Seq(Int)
        /\ Len(k \o Buffer(ins)) = Len(k) + 1 + Len(Stream(ins))
        /\ \A q \in 1..Len(k) : (k \o Buffer(ins))[q] = k[q]
        /\ (k \o Buffer(ins))[Len(k) + 1] = Len(Stream(ins))
        /\ RecibirInstrucciones(k \o Buffer(ins), Len(k) + 1) = ins
    BY <1>2, <2>1, ConBuffer
  <2>. QED
    BY <2>2 DEF ins
<1>10. m \in Seq(Int) /\ Len(m) = n + 10 + L
  <2>1. h \in Seq(Int)
    BY <1>4
  <2>2. /\ h \o Buffer(ins) \in Seq(Int)
        /\ Len(h \o Buffer(ins)) = Len(h) + 1 + Len(Stream(ins))
    BY <1>2, <2>1, ConBuffer
  <2>. QED
    BY <1>3, <1>4, <1>5, <2>2 DEF ins
<1>11. m[1] = a[1]
  BY <1>4, <1>5, <1>7
<1>12. c = Tail(m)
  BY <1>5, <1>7
<1>. HIDE DEF c, b, L
<1>13. /\ Len(c) = n + 9 + L /\ c[n + 9] = L /\ RecibirInstrucciones(c, n + 9) = ins
       /\ \A q \in 1..(n + 8) : c[q] = h[q + 1]
  <2>1. Len(k) + 1 = n + 9
    BY <1>8
  <2>. QED
    BY <1>8, <1>9, <2>1
<1>14. /\ c[n] = e /\ c[n + 1] = -e /\ c[n + 2] = t /\ c[n + 3] = i /\ c[n + 3 + 1] = -i
       /\ c[n + 5] = r /\ c[n + 5 + 1] = -r /\ c[n + 7] = x /\ c[n + 7 + 1] = -x
  <2>1. /\ n \in 1..(n + 8) /\ n + 1 \in 1..(n + 8) /\ n + 2 \in 1..(n + 8)
        /\ n + 3 \in 1..(n + 8) /\ n + 4 \in 1..(n + 8) /\ n + 5 \in 1..(n + 8)
        /\ n + 6 \in 1..(n + 8) /\ n + 7 \in 1..(n + 8) /\ n + 8 \in 1..(n + 8)
    OBVIOUS
  <2>2. /\ c[n] = h[n + 1] /\ c[n + 1] = h[(n + 1) + 1] /\ c[n + 2] = h[(n + 2) + 1]
        /\ c[n + 3] = h[(n + 3) + 1] /\ c[n + 4] = h[(n + 4) + 1]
        /\ c[n + 5] = h[(n + 5) + 1] /\ c[n + 6] = h[(n + 6) + 1]
        /\ c[n + 7] = h[(n + 7) + 1] /\ c[n + 8] = h[(n + 8) + 1]
    BY <1>13, <2>1
  <2>3. /\ (n + 1) + 1 = n + 2 /\ (n + 2) + 1 = n + 3 /\ (n + 3) + 1 = n + 4
        /\ (n + 4) + 1 = n + 5 /\ (n + 5) + 1 = n + 6 /\ (n + 6) + 1 = n + 7
        /\ (n + 7) + 1 = n + 8 /\ (n + 8) + 1 = n + 9
    OBVIOUS
  <2>. QED
    BY <1>4, <2>2, <2>3
<1>15. /\ LeerDoble(c, n) = e /\ LeerDoble(c, n + 3) = i
       /\ LeerDoble(c, n + 5) = r /\ LeerDoble(c, n + 7) = x
  BY <1>14 DEF LeerDoble
<1>16. \A q \in 1..(n - 1) : c[q] = a[q + 1]
  BY <1>4, <1>13
<1>17. Len(m) = 1 + LargoPcb(c, n + 1)
  <2>1. (n + 1) + 8 = n + 9
    OBVIOUS
  <2>2. LargoPcb(c, n + 1) = n + 9 + L
    BY <1>13, <2>1 DEF LargoPcb
  <2>. QED
    BY <1>3, <1>10, <2>2 DEF L
<1>18. m # <<>>
  BY <1>3, <1>10 DEF L
<1>. QED
  BY <1>10, <1>11, <1>12, <1>13, <1>14, <1>15, <1>16, <1>17, <1>18
     DEF SeLee, e, t, i, r, x, ins, m

\* What enviar_pcb of the kernel writes, recibir_pcb of the CPU reads, field by
\* field, and no more: the next message begins where this one ends
\* (utils_kernel.c:147-188, clientServ.c:150-165).
THEOREM PcbLlegaALaCpu ==
  ASSUME NEW p \in Pcbs
  PROVE  LET m == PcbDelKernel(p) IN
         /\ m \in Seq(Int) /\ m # <<>> /\ m[1] = PCB
         /\ Len(m) = 1 + LargoPcb(Tail(m), 6)
         /\ PcbEnCpu(Tail(m)) = p
<1>. DEFINE a == <<PCB, p.id, p.socket, p.tamanio_proceso, p.program_counter>>
            m == PcbDelKernel(p)
            s == Tail(m)
<1>1. /\ p.id \in Int /\ p.socket \in Int /\ p.tamanio_proceso \in Int
      /\ p.program_counter \in Int
      /\ p = [id |-> p.id, socket |-> p.socket, tamanio_proceso |-> p.tamanio_proceso,
              program_counter |-> p.program_counter,
              estimacion_rafaga |-> p.estimacion_rafaga, tablas_paginas |-> p.tablas_paginas,
              inicio_rafaga |-> p.inicio_rafaga, restante |-> p.restante,
              tiempo_ejecucion |-> p.tiempo_ejecucion, instrucciones |-> p.instrucciones]
  BY DEF Pcbs
<1>2. a \in Seq(Int) /\ Len(a) = 5 /\ a[1] = PCB
  BY <1>1 DEF PCB, OpCpu
<1>3. m = Mensaje(a, p)
  BY DEF PcbDelKernel, Mensaje, Cabecera
<1>4. a[2] = p.id /\ a[3] = p.socket /\ a[4] = p.tamanio_proceso /\ a[5] = p.program_counter
  OBVIOUS
<1>. HIDE DEF a, m
<1>5. SeLee(m, s, a, 5, p)
  <2>1. a \in Seq(Int) /\ 5 \in Nat /\ 5 > 0 /\ Len(a) = 5
    BY <1>2
  <2>2. SeLee(Mensaje(a, p), Tail(Mensaje(a, p)), a, 5, p)
    BY <2>1, LeerMensaje
  <2>. QED
    BY <1>3, <2>2
<1>. HIDE DEF s
<1>6. /\ LeerDoble(s, 5) = p.estimacion_rafaga /\ s[7] = p.tablas_paginas
      /\ LeerDoble(s, 8) = p.inicio_rafaga /\ LeerDoble(s, 10) = p.restante
      /\ LeerDoble(s, 12) = p.tiempo_ejecucion
      /\ RecibirInstrucciones(s, 14) = p.instrucciones
      /\ Len(m) = 1 + LargoPcb(s, 6)
  BY <1>5 DEF SeLee
<1>7. s[1] = p.id /\ s[2] = p.socket /\ s[3] = p.tamanio_proceso /\ s[4] = p.program_counter
  BY <1>4, <1>5 DEF SeLee
<1>8. PcbEnCpu(s) = p
  BY <1>1, <1>6, <1>7 DEF PcbEnCpu
<1>. QED
  BY <1>2, <1>5, <1>6, <1>8 DEF SeLee, m, s

\* A PCB that the CPU sends back, with the reason before it, is the one that the
\* kernel receives (clientServ.c:313-353, utils_kernel.c:222-237).
THEOREM PcbVuelveAlKernel ==
  ASSUME NEW op \in Int, NEW p \in Pcbs
  PROVE  LET m == PcbDeLaCpu(op, p) IN
         /\ m \in Seq(Int) /\ m # <<>> /\ m[1] = op
         /\ Len(m) = 1 + LargoPcb(Tail(m), 6)
         /\ PcbEnKernel(Tail(m)) = p
<1>. DEFINE a == <<op, p.id, p.socket, p.tamanio_proceso, p.program_counter>>
            m == PcbDeLaCpu(op, p)
            s == Tail(m)
<1>1. /\ p.id \in Int /\ p.socket \in Int /\ p.tamanio_proceso \in Int
      /\ p.program_counter \in Int
      /\ p = [id |-> p.id, socket |-> p.socket, tamanio_proceso |-> p.tamanio_proceso,
              program_counter |-> p.program_counter,
              estimacion_rafaga |-> p.estimacion_rafaga, tablas_paginas |-> p.tablas_paginas,
              inicio_rafaga |-> p.inicio_rafaga, restante |-> p.restante,
              tiempo_ejecucion |-> p.tiempo_ejecucion, instrucciones |-> p.instrucciones]
  BY DEF Pcbs
<1>2. a \in Seq(Int) /\ Len(a) = 5 /\ a[1] = op
  BY <1>1 DEF PCB, OpCpu
<1>3. m = Mensaje(a, p)
  BY DEF PcbDeLaCpu, Mensaje, Cabecera
<1>4. a[2] = p.id /\ a[3] = p.socket /\ a[4] = p.tamanio_proceso /\ a[5] = p.program_counter
  OBVIOUS
<1>. HIDE DEF a, m
<1>5. SeLee(m, s, a, 5, p)
  <2>1. a \in Seq(Int) /\ 5 \in Nat /\ 5 > 0 /\ Len(a) = 5
    BY <1>2
  <2>2. SeLee(Mensaje(a, p), Tail(Mensaje(a, p)), a, 5, p)
    BY <2>1, LeerMensaje
  <2>. QED
    BY <1>3, <2>2
<1>. HIDE DEF s
<1>6. /\ LeerDoble(s, 5) = p.estimacion_rafaga /\ s[7] = p.tablas_paginas
      /\ LeerDoble(s, 8) = p.inicio_rafaga /\ LeerDoble(s, 10) = p.restante
      /\ LeerDoble(s, 12) = p.tiempo_ejecucion
      /\ RecibirInstrucciones(s, 14) = p.instrucciones
      /\ Len(m) = 1 + LargoPcb(s, 6)
  BY <1>5 DEF SeLee
<1>7. s[1] = p.id /\ s[2] = p.socket /\ s[3] = p.tamanio_proceso /\ s[4] = p.program_counter
  BY <1>4, <1>5 DEF SeLee
<1>8. PcbEnKernel(s) = p
  BY <1>1, <1>6, <1>7 DEF PcbEnKernel
<1>. QED
  BY <1>2, <1>5, <1>6, <1>8 DEF SeLee, m, s

\* So is one that goes to I/O, with the time it asked for: enviar_pcb_bloqueado
\* writes one cell more and recibir_pcb_bloqueado reads it first
\* (clientServ.c:355-411, utils_kernel.c:239-258).
THEOREM BloqueadoVuelveAlKernel ==
  ASSUME NEW t \in Int, NEW p \in Pcbs
  PROVE  LET m == PcbBloqueadoDeLaCpu(t, p) IN
         /\ m \in Seq(Int) /\ m # <<>> /\ m[1] = OpCpu.BLOQUEO_IO
         /\ Len(m) = 1 + LargoPcb(Tail(m), 7)
         /\ PcbBloqueadoEnKernel(Tail(m)) = [tiempo_de_bloqueo |-> t, proceso |-> p]
<1>. DEFINE a == <<OpCpu.BLOQUEO_IO, t, p.id, p.socket, p.tamanio_proceso, p.program_counter>>
            m == PcbBloqueadoDeLaCpu(t, p)
            s == Tail(m)
<1>1. /\ p.id \in Int /\ p.socket \in Int /\ p.tamanio_proceso \in Int
      /\ p.program_counter \in Int
      /\ p = [id |-> p.id, socket |-> p.socket, tamanio_proceso |-> p.tamanio_proceso,
              program_counter |-> p.program_counter,
              estimacion_rafaga |-> p.estimacion_rafaga, tablas_paginas |-> p.tablas_paginas,
              inicio_rafaga |-> p.inicio_rafaga, restante |-> p.restante,
              tiempo_ejecucion |-> p.tiempo_ejecucion, instrucciones |-> p.instrucciones]
  BY DEF Pcbs
<1>2. a \in Seq(Int) /\ Len(a) = 6 /\ a[1] = OpCpu.BLOQUEO_IO /\ a[2] = t
  BY <1>1 DEF PCB, OpCpu
<1>3. m = Mensaje(a, p)
  BY DEF PcbBloqueadoDeLaCpu, Mensaje, Cabecera
<1>4. a[3] = p.id /\ a[4] = p.socket /\ a[5] = p.tamanio_proceso /\ a[6] = p.program_counter
  OBVIOUS
<1>. HIDE DEF a, m
<1>5. SeLee(m, s, a, 6, p)
  <2>1. a \in Seq(Int) /\ 6 \in Nat /\ 6 > 0 /\ Len(a) = 6
    BY <1>2
  <2>2. SeLee(Mensaje(a, p), Tail(Mensaje(a, p)), a, 6, p)
    BY <2>1, LeerMensaje
  <2>. QED
    BY <1>3, <2>2
<1>. HIDE DEF s
<1>6. /\ LeerDoble(s, 6) = p.estimacion_rafaga /\ s[8] = p.tablas_paginas
      /\ LeerDoble(s, 9) = p.inicio_rafaga /\ LeerDoble(s, 11) = p.restante
      /\ LeerDoble(s, 13) = p.tiempo_ejecucion
      /\ RecibirInstrucciones(s, 15) = p.instrucciones
      /\ Len(m) = 1 + LargoPcb(s, 7)
  BY <1>5 DEF SeLee
<1>7. s[2] = p.id /\ s[3] = p.socket /\ s[4] = p.tamanio_proceso /\ s[5] = p.program_counter
  BY <1>4, <1>5 DEF SeLee
<1>8. PcbBloqueadoEnKernel(s) = [tiempo_de_bloqueo |-> t, proceso |-> p]
  <2>1. s[1] = t
    BY <1>2, <1>5 DEF SeLee
  <2>2. [id |-> s[2], socket |-> s[3], tamanio_proceso |-> s[4], program_counter |-> s[5],
         estimacion_rafaga |-> LeerDoble(s, 6), tablas_paginas |-> s[8],
         inicio_rafaga |-> LeerDoble(s, 9), restante |-> LeerDoble(s, 11),
         tiempo_ejecucion |-> LeerDoble(s, 13),
         instrucciones |-> RecibirInstrucciones(s, 15)] = p
    BY <1>1, <1>6, <1>7
  <2>. QED
    BY <2>1, <2>2 DEF PcbBloqueadoEnKernel
<1>. QED
  BY <1>2, <1>5, <1>6, <1>8 DEF SeLee, m, s
=============================================================================
