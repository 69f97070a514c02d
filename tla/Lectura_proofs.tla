---- MODULE Lectura_proofs ----
(***************************************************************************)
(* Theorems of Lectura for any sizes of the fields and of the blocks, any  *)
(* keys and timestamps, and any records.                                   *)
(***************************************************************************)
EXTENDS Lectura, SequenceTheorems, WellFoundedInduction, TLAPS

Bytes == {"timestamp", "key", "value", ";", "\n", "\\0", "otro"} \X (Keys \cup Nat) \X Nat

-----------------------------------------------------------------------------
(* Numbers.                                                                *)

LEMMA Minimo ==
  ASSUME NEW S \in SUBSET Nat, S # {}
  PROVE  \E i \in S : \A j \in S : i <= j
<1> DEFINE R == OpToRel(<, Nat)
<1>1. ASSUME NEW i \in Nat, NEW j \in Nat, j < i PROVE <<j, i>> \in R
  BY <1>1 DEF OpToRel
<1>2. IsWellFoundedOn(R, Nat)
  BY NatLessThanWellFounded
<1> HIDE DEF R
<1>3. PICK i \in S : \A j \in S : <<j, i>> \notin R
  BY <1>2, WFMin, Zenon
<1>4. ASSUME NEW j \in S PROVE i <= j
  <2>1. i \in Nat /\ j \in Nat /\ ~(j < i)
    BY <1>1, <1>3, Zenon
  <2>2. QED
    BY ONLY <2>1
<1>5. QED
  BY <1>4

\* What a number leaves when it is divided is one.
LEMMA RestoUnico ==
  ASSUME NEW b \in Nat \ {0}, NEW c \in Nat, NEW d \in Nat,
         NEW r \in 0..b - 1, NEW s \in 0..b - 1, b * c + r = b * d + s
  PROVE  r = s
<1>1. b * (c - d) = s - r
  BY SMT
<1>2. c - d >= 1 => b * (c - d) >= b
  BY SMT
<1>3. c - d <= -1 => b * (c - d) <= -b
  BY SMT
<1>4. c = d
  BY <1>1, <1>2, <1>3
<1>5. QED
  BY <1>4

LEMMA RestoEs ==
  ASSUME NEW b \in Nat \ {0}, NEW n \in Nat, NEW q \in 1..b, NEW x \in Nat, x + q = n * b
  PROVE  x % b = b - q
<1>1. x % b \in 0..b - 1 /\ x \div b \in Nat
  BY SMT
<1>2. x = b * (x \div b) + (x % b)
  BY SMT
<1>3. n >= 1
  BY SMT
<1>4. x = b * (n - 1) + (b - q)
  BY SMT
<1>5. b - q \in 0..b - 1 /\ n - 1 \in Nat
  BY <1>3
<1>6. QED
  BY <1>1, <1>2, <1>4, <1>5, RestoUnico

-----------------------------------------------------------------------------
(* What FlattenSeq gives: each of these is the one before and a sequence.  *)

Prefijo(f, s) ==
  \A i \in DOMAIN f : f[i] = IF i = 1 THEN s[1] ELSE f[i - 1] \o s[i]

LEMMA HayPrefijo ==
  ASSUME NEW B, NEW s \in Seq(Seq(B))
  PROVE  \E f \in [1..Len(s) -> Seq(B)] : Prefijo(f, s)
<1> DEFINE Hay(n) == \E f \in [1..n -> Seq(B)] : Prefijo(f, s)
           S == {n \in 0..Len(s) : ~Hay(n)}
<1>1. Hay(0)
  <2>1. [i \in 1..0 |-> s] \in [1..0 -> Seq(B)] /\ Prefijo([i \in 1..0 |-> s], s)
    BY DEF Prefijo
  <2>2. QED
    BY <2>1
<1>2. ASSUME NEW n \in 1..Len(s), Hay(n - 1) PROVE Hay(n)
  <2>1. PICK f \in [1..n - 1 -> Seq(B)] : Prefijo(f, s)
    BY <1>2
  <2> DEFINE g == [i \in 1..n |-> IF i < n THEN f[i] ELSE IF n = 1 THEN s[1] ELSE f[n - 1] \o s[n]]
  <2>2. s[n] \in Seq(B) /\ s[1] \in Seq(B)
    BY <1>2
  <2>3. n # 1 => f[n - 1] \o s[n] \in Seq(B)
    BY <2>2
  <2>4. g \in [1..n -> Seq(B)]
    BY <2>2, <2>3
  <2>5. ASSUME NEW i \in 1..n PROVE g[i] = IF i = 1 THEN s[1] ELSE g[i - 1] \o s[i]
    <3>1. CASE i = n
      BY <3>1
    <3>2. CASE i < n
      <4>1. f[i] = IF i = 1 THEN s[1] ELSE f[i - 1] \o s[i]
        <5>1. i \in DOMAIN f
          BY <3>2
        <5>2. QED
          BY <2>1, <5>1 DEF Prefijo
      <4>2. g[i] = f[i] /\ (i # 1 => g[i - 1] = f[i - 1])
        BY <3>2
      <4>3. QED
        BY <4>1, <4>2
    <3>3. QED
      BY <3>1, <3>2
  <2>6. QED
    BY <2>4, <2>5 DEF Prefijo
<1>3. S = {}
  <2> HIDE DEF Hay
  <2>1. SUFFICES ASSUME S # {} PROVE FALSE
    OBVIOUS
  <2>2. S \in SUBSET Nat
    OBVIOUS
  <2>3. PICK n \in S : \A m \in S : n <= m
    <3> HIDE DEF S
    <3>1. QED
      BY <2>1, <2>2, Minimo
  <2>4. n \in 0..Len(s) /\ n # 0
    BY <1>1
  <2>5. n - 1 \in 0..Len(s) /\ n - 1 \notin S
    BY <2>3, <2>4
  <2>6. Hay(n - 1) /\ n \in 1..Len(s)
    BY <2>4, <2>5
  <2>7. QED
    BY <1>2, <2>6
<1>4. QED
  BY <1>3

\* flatten, of n sequences, is a function like this, if there is one.
Aplanada(f, s, n) == f = [i \in 1..n |-> IF i = 1 THEN s[i] ELSE f[i - 1] \o s[i]]

LEMMA AplanarDef ==
  ASSUME NEW s, NEW n, NEW f, Len(s) = n, n # 0, Aplanada(f, s, n)
  PROVE  \E h : Aplanada(h, s, n) /\ FlattenSeq(s) = h[n]
<1> DEFINE h == CHOOSE g : g = [i \in 1..n |-> IF i = 1 THEN s[i] ELSE g[i - 1] \o s[i]]
<1>1. FlattenSeq(s) = h[n]
  BY DEF FlattenSeq
<1>2. Aplanada(CHOOSE g : Aplanada(g, s, n), s, n)
  BY Zenon
<1>3. Aplanada(h, s, n)
  BY <1>2, Zenon DEF Aplanada
<1> HIDE DEF h
<1>4. QED
  BY <1>1, <1>3

LEMMA AplanarEs ==
  ASSUME NEW B, NEW s \in Seq(Seq(B)), NEW f \in [1..Len(s) -> Seq(B)], Prefijo(f, s),
         NEW n \in 1..Len(s)
  PROVE  FlattenSeq([i \in 1..n |-> s[i]]) = f[n]
<1> DEFINE t == [i \in 1..n |-> s[i]]
           e == [i \in 1..n |-> f[i]]
<1>1. Len(t) = n /\ (\A i \in 1..n : t[i] = s[i])
  OBVIOUS
<1>2. ASSUME NEW i \in 1..n PROVE f[i] = IF i = 1 THEN s[i] ELSE f[i - 1] \o s[i]
  <2>1. i \in DOMAIN f
    OBVIOUS
  <2>2. QED
    BY <2>1 DEF Prefijo
<1>3. Aplanada(e, t, n)
  BY <1>1, <1>2 DEF Aplanada
<1> HIDE DEF t, e
<1>4. PICK h : Aplanada(h, t, n) /\ FlattenSeq(t) = h[n]
  <2>1. n # 0
    OBVIOUS
  <2>2. QED
    BY <2>1, <1>1, <1>3, AplanarDef
<1> DEFINE S == {i \in 1..n : h[i] # f[i]}
<1>5. S = {}
  <2>1. SUFFICES ASSUME S # {} PROVE FALSE
    OBVIOUS
  <2>2. S \in SUBSET Nat
    OBVIOUS
  <2>3. PICK i \in S : \A j \in S : i <= j
    <3> HIDE DEF S
    <3>1. QED
      BY <2>1, <2>2, Minimo
  <2>4. i \in 1..n /\ h[i] = IF i = 1 THEN s[i] ELSE h[i - 1] \o s[i]
    BY <1>1, <1>4 DEF Aplanada
  <2>5. i # 1 => i - 1 \in 1..n /\ i - 1 \notin S
    BY <2>3, <2>4
  <2>6. i # 1 => h[i - 1] = f[i - 1]
    BY <2>5
  <2>7. QED
    BY <1>2, <2>4, <2>6
<1>6. FlattenSeq(t) = f[n]
  BY <1>4, <1>5
<1>7. QED
  BY ONLY <1>6 DEF t

-----------------------------------------------------------------------------
(* Where each byte of a file is.                                           *)

\* How many bytes the i-th record has, and how many the records before it.
Tam(i) == TamTimestamp + TamKey + 3 + archivo[i].largo
Desde(i) == Len(Textos(i - 1))

LEMMA BytesEs ==
  /\ PuntoYComa \in Bytes /\ BarraN \in Bytes /\ Nulo \in Bytes /\ Otro \in Bytes
  /\ \A t \in Timestamps, p \in Nat : <<"timestamp", t, p>> \in Bytes
  /\ \A k \in Keys, p \in Nat : <<"key", k, p>> \in Bytes
  /\ \A i \in Nat, p \in Nat : <<"value", i, p>> \in Bytes
<1>1. Timestamps \subseteq Nat
  BY LecturaAssumption
<1>2. PuntoYComa \in Bytes
  BY DEF Bytes, PuntoYComa
<1>3. BarraN \in Bytes
  BY DEF Bytes, BarraN
<1>4. Nulo \in Bytes
  BY DEF Bytes, Nulo
<1>5. Otro \in Bytes
  BY DEF Bytes, Otro
<1>6. \A t \in Timestamps, p \in Nat : <<"timestamp", t, p>> \in Bytes
  BY <1>1 DEF Bytes
<1>7. \A k \in Keys, p \in Nat : <<"key", k, p>> \in Bytes
  BY DEF Bytes
<1>8. \A i \in Nat, p \in Nat : <<"value", i, p>> \in Bytes
  BY DEF Bytes
<1>9. QED
  BY <1>2, <1>3, <1>4, <1>5, <1>6, <1>7, <1>8

LEMMA CamposSon ==
  ASSUME archivo \in Seq(Registros), NEW i \in 1..Len(archivo)
  PROVE  /\ BytesTimestamp(archivo[i].timestamp) \in Seq(Bytes)
         /\ Len(BytesTimestamp(archivo[i].timestamp)) = TamTimestamp
         /\ BytesKey(archivo[i].key) \in Seq(Bytes) /\ Len(BytesKey(archivo[i].key)) = TamKey
         /\ BytesValue(i) \in Seq(Bytes) /\ Len(BytesValue(i)) = archivo[i].largo
         /\ archivo[i].timestamp \in Timestamps /\ archivo[i].key \in Keys
         /\ archivo[i].largo \in 1..TamanioValue
<1> USE LecturaAssumption
<1>1. archivo[i] \in Registros
  OBVIOUS
<1>2. /\ archivo[i].timestamp \in Timestamps /\ archivo[i].key \in Keys
      /\ archivo[i].largo \in 1..TamanioValue
  BY <1>1 DEF Registros
<1>3. \A p \in 1..TamTimestamp :
        (IF p = 1 THEN <<"timestamp", archivo[i].timestamp, p>> ELSE Nulo) \in Bytes
  BY <1>2, BytesEs
<1>4. \A p \in 1..TamKey : <<"key", archivo[i].key, p>> \in Bytes
  BY <1>2, BytesEs
<1>5. \A p \in 1..archivo[i].largo : <<"value", i, p>> \in Bytes
  BY <1>2, BytesEs
<1>6. QED
  BY <1>2, <1>3, <1>4, <1>5 DEF BytesTimestamp, BytesKey, BytesValue

\* u is s and then t
Pegado(s, t, u) ==
  /\ u \in Seq(Bytes) /\ Len(u) = Len(s) + Len(t)
  /\ \A p \in 1..Len(s) : u[p] = s[p]
  /\ \A p \in 1..Len(t) : u[Len(s) + p] = t[p]

LEMMA PegarEs ==
  ASSUME NEW s \in Seq(Bytes), NEW t \in Seq(Bytes)
  PROVE  Pegado(s, t, s \o t)
BY ConcatProperties DEF Pegado

LEMMA TextoEs ==
  ASSUME archivo \in Seq(Registros), NEW i \in 1..Len(archivo)
  PROVE  /\ Texto(i) \in Seq(Bytes) /\ Len(Texto(i)) = Tam(i)
         /\ \A p \in 1..TamTimestamp :
              Texto(i)[p] = BytesTimestamp(archivo[i].timestamp)[p]
         /\ \A p \in 1..TamKey :
              Texto(i)[TamTimestamp + 1 + p] = BytesKey(archivo[i].key)[p]
         /\ \A p \in 1..archivo[i].largo :
              Texto(i)[TamTimestamp + TamKey + 2 + p] = BytesValue(i)[p]
         /\ Texto(i)[Tam(i)] = BarraN
<1> DEFINE A == BytesTimestamp(archivo[i].timestamp)
           K == BytesKey(archivo[i].key)
           V == BytesValue(i)
           P == <<PuntoYComa>>
           N == <<BarraN>>
           L == archivo[i].largo
<1>1. /\ A \in Seq(Bytes) /\ Len(A) = TamTimestamp /\ TamTimestamp \in Nat \ {0}
      /\ K \in Seq(Bytes) /\ Len(K) = TamKey /\ TamKey \in Nat \ {0}
      /\ V \in Seq(Bytes) /\ Len(V) = L /\ L \in Nat \ {0}
  BY CamposSon, LecturaAssumption
<1>2. P \in Seq(Bytes) /\ Len(P) = 1 /\ N \in Seq(Bytes) /\ Len(N) = 1 /\ N[1] = BarraN
  BY BytesEs
<1>3. Texto(i) = A \o P \o K \o P \o V \o N
  BY DEF Texto
<1> HIDE DEF A, K, V, P, N, L
<1> DEFINE n2 == TamTimestamp + 1
           n3 == n2 + TamKey
           n4 == n3 + 1
           n5 == n4 + L
           S2 == A \o P
           S3 == S2 \o K
           S4 == S3 \o P
           S5 == S4 \o V
           S6 == S5 \o N
<1>4. Texto(i) = S6
  BY <1>3
<1>5. n2 \in Nat /\ n3 \in Nat /\ n4 \in Nat /\ n5 \in Nat
  BY <1>1
<1>6. TamTimestamp \in Nat /\ TamKey \in Nat /\ L \in Nat
  BY <1>1
<1>7. Pegado(A, P, S2) /\ S2 \in Seq(Bytes) /\ Len(S2) = n2
  <2>1. Pegado(A, P, S2)
    BY <1>1, <1>2, PegarEs
  <2>2. QED
    BY ONLY <2>1, <1>1, <1>2 DEF Pegado
<1> HIDE DEF S2, n2
<1>8. Pegado(S2, K, S3) /\ S3 \in Seq(Bytes) /\ Len(S3) = n3
  <2>1. Pegado(S2, K, S3)
    BY <1>1, <1>7, PegarEs
  <2>2. QED
    BY ONLY <2>1, <1>1, <1>7 DEF Pegado
<1> HIDE DEF S3, n3
<1>9. Pegado(S3, P, S4) /\ S4 \in Seq(Bytes) /\ Len(S4) = n4
  <2>1. Pegado(S3, P, S4)
    BY <1>2, <1>8, PegarEs
  <2>2. QED
    BY ONLY <2>1, <1>2, <1>8 DEF Pegado
<1> HIDE DEF S4, n4
<1>10. Pegado(S4, V, S5) /\ S5 \in Seq(Bytes) /\ Len(S5) = n5
  <2>1. Pegado(S4, V, S5)
    BY <1>1, <1>9, PegarEs
  <2>2. QED
    BY ONLY <2>1, <1>1, <1>9 DEF Pegado
<1> HIDE DEF S5, n5
<1>11. Pegado(S5, N, S6) /\ S6 \in Seq(Bytes) /\ Len(S6) = n5 + 1
  <2>1. Pegado(S5, N, S6)
    BY <1>2, <1>10, PegarEs
  <2>2. QED
    BY ONLY <2>1, <1>2, <1>10 DEF Pegado
<1> HIDE DEF S6
<1>12. /\ n2 = TamTimestamp + 1 /\ n3 = TamTimestamp + 1 + TamKey
       /\ n4 = TamTimestamp + TamKey + 2 /\ n5 = TamTimestamp + TamKey + 2 + L
  BY <1>6 DEF n2, n3, n4, n5
<1>13. ASSUME NEW p \in 1..TamTimestamp PROVE S6[p] = A[p]
  <2>1. p \in 1..n2 /\ p \in 1..n3 /\ p \in 1..n4 /\ p \in 1..n5
    BY <1>6, <1>12
  <2>2. S6[p] = S5[p] /\ S5[p] = S4[p]
    BY ONLY <2>1, <1>9, <1>10, <1>11 DEF Pegado
  <2>3. S4[p] = S3[p] /\ S3[p] = S2[p]
    BY ONLY <2>1, <1>7, <1>8, <1>9 DEF Pegado
  <2>4. S2[p] = A[p]
    BY ONLY <1>1, <1>7, p \in 1..TamTimestamp DEF Pegado
  <2>5. QED
    BY <2>2, <2>3, <2>4
<1>14. ASSUME NEW p \in 1..TamKey PROVE S6[TamTimestamp + 1 + p] = K[p]
  <2>1. n2 + p \in 1..n3 /\ n2 + p \in 1..n4 /\ n2 + p \in 1..n5
    BY <1>6, <1>12
  <2>2. S6[n2 + p] = K[p]
    <3>1. S6[n2 + p] = S5[n2 + p] /\ S5[n2 + p] = S4[n2 + p]
      BY ONLY <2>1, <1>9, <1>10, <1>11 DEF Pegado
    <3>2. S4[n2 + p] = S3[n2 + p]
      BY ONLY <2>1, <1>8, <1>9 DEF Pegado
    <3>3. S3[n2 + p] = K[p]
      BY ONLY <1>1, <1>7, <1>8, p \in 1..TamKey DEF Pegado
    <3>4. QED
      BY <3>1, <3>2, <3>3
  <2>3. QED
    BY <1>12, <2>2
<1>15. ASSUME NEW p \in 1..L PROVE S6[TamTimestamp + TamKey + 2 + p] = V[p]
  <2>1. n4 + p \in 1..n5
    BY <1>6, <1>12
  <2>2. S6[n4 + p] = V[p]
    BY <2>1, <1>1, <1>9, <1>10, <1>11 DEF Pegado
  <2>3. QED
    BY <1>12, <2>2
<1>16. Len(S6) = TamTimestamp + TamKey + 3 + L /\ S6[TamTimestamp + TamKey + 3 + L] = BarraN
  <2>1. n5 + 1 = TamTimestamp + TamKey + 3 + L
    BY <1>6, <1>12
  <2>2. QED
    BY <2>1, <1>2, <1>10, <1>11 DEF Pegado
<1>17. QED
  BY <1>4, <1>11, <1>13, <1>14, <1>15, <1>16 DEF A, K, V, L, Tam

LEMMA TextosSon ==
  ASSUME archivo \in Seq(Registros)
  PROVE  /\ Textos(0) = << >>
         /\ \A n \in 1..Len(archivo) : /\ Textos(n) \in Seq(Bytes) /\ Textos(n - 1) \in Seq(Bytes)
                                       /\ Textos(n) = Textos(n - 1) \o Texto(n)
<1> DEFINE s == [i \in 1..Len(archivo) |-> Texto(i)]
<1>1. s \in Seq(Seq(Bytes)) /\ Len(s) = Len(archivo) /\ Len(archivo) \in Nat
      /\ \A i \in 1..Len(archivo) : s[i] = Texto(i)
  BY TextoEs
<1>2. Textos(0) = << >>
  <2> DEFINE t == [i \in 1..0 |-> Texto(i)]
  <2>1. t = << >>
    OBVIOUS
  <2>2. FlattenSeq(<< >>) = << >>
    BY DEF FlattenSeq
  <2>3. QED
    BY <2>1, <2>2 DEF Textos
<1>3. ASSUME NEW n \in 1..Len(archivo) PROVE [i \in 1..n |-> Texto(i)] = [i \in 1..n |-> s[i]]
  BY <1>1
<1> HIDE DEF s
<1>4. PICK f \in [1..Len(s) -> Seq(Bytes)] : Prefijo(f, s)
  BY <1>1, HayPrefijo
<1>5. ASSUME NEW n \in 1..Len(archivo) PROVE Textos(n) = f[n] /\ f[n] \in Seq(Bytes)
  <2>1. n \in 1..Len(s)
    BY <1>1
  <2>2. FlattenSeq([i \in 1..n |-> s[i]]) = f[n]
    BY ONLY <1>1, <1>4, <2>1, AplanarEs, ZenonT(40)
  <2>3. QED
    BY <1>3, <2>1, <2>2, <1>4 DEF Textos
<1>6. ASSUME NEW n \in 1..Len(archivo)
      PROVE  /\ Textos(n) \in Seq(Bytes) /\ Textos(n - 1) \in Seq(Bytes)
             /\ Textos(n) = Textos(n - 1) \o Texto(n)
  <2>1. f[n] = IF n = 1 THEN s[1] ELSE f[n - 1] \o s[n]
    <3>1. n \in DOMAIN f
      BY <1>1, <1>4
    <3>2. QED
      BY <1>4, <3>1 DEF Prefijo
  <2>2. CASE n = 1
    <3>1. Textos(n - 1) = << >>
      BY <1>2, <2>2
    <3>2. Texto(n) \in Seq(Bytes)
      BY TextoEs
    <3>3. << >> \o Texto(n) = Texto(n) /\ << >> \in Seq(Bytes)
      BY <3>2, ConcatEmptySeq
    <3>4. QED
      BY <1>1, <1>5, <2>1, <2>2, <3>1, <3>3
  <2>3. CASE n # 1
    <3>1. n - 1 \in 1..Len(archivo)
      BY <1>1, <2>3
    <3>2. QED
      BY <1>1, <1>5, <2>1, <2>3, <3>1
  <2>4. QED
    BY <2>2, <2>3
<1>7. QED
  BY <1>2, <1>6

\* u begins with s
Empieza(u, s) == Len(s) <= Len(u) /\ \A p \in 1..Len(s) : u[p] = s[p]

LEMMA TextosTipo ==
  ASSUME archivo \in Seq(Registros), NEW n \in 0..Len(archivo)
  PROVE  Textos(n) \in Seq(Bytes) /\ Len(Textos(n)) \in Nat
<1>1. CASE n = 0
  <2>1. << >> \in Seq(Bytes) /\ Len(<< >>) = 0
    OBVIOUS
  <2>2. QED
    BY <1>1, <2>1, TextosSon
<1>2. CASE n \in 1..Len(archivo)
  BY <1>2, TextosSon
<1>3. QED
  BY <1>1, <1>2

LEMMA TextosEmpiezan ==
  ASSUME archivo \in Seq(Registros), NEW n \in 0..Len(archivo), NEW m \in n..Len(archivo)
  PROVE  Empieza(Textos(m), Textos(n))
<1> DEFINE S == {k \in n..Len(archivo) : ~Empieza(Textos(k), Textos(n))}
<1>1. SUFFICES ASSUME S # {} PROVE FALSE
  OBVIOUS
<1>2. S \in SUBSET Nat
  OBVIOUS
<1>3. PICK k \in S : \A j \in S : k <= j
  <2> HIDE DEF S
  <2>1. QED
    BY <1>1, <1>2, Minimo
<1>4. k \in n..Len(archivo) /\ ~Empieza(Textos(k), Textos(n))
  OBVIOUS
<1>5. Textos(n) \in Seq(Bytes) /\ Len(Textos(n)) \in Nat
  BY TextosTipo
<1>6. k # n
  BY <1>4, <1>5 DEF Empieza
<1>7. k \in 1..Len(archivo) /\ k - 1 \in n..Len(archivo) /\ k - 1 \notin S
  BY <1>3, <1>4, <1>6
<1>8. Empieza(Textos(k - 1), Textos(n))
  BY <1>7
<1> HIDE DEF S
<1>9. Textos(k) = Textos(k - 1) \o Texto(k) /\ Textos(k - 1) \in Seq(Bytes)
  BY <1>7, TextosSon
<1>10. Texto(k) \in Seq(Bytes) /\ Len(Texto(k)) \in Nat /\ Len(Textos(k - 1)) \in Nat
  BY <1>7, <1>9, TextoEs
<1>11. Pegado(Textos(k - 1), Texto(k), Textos(k))
  BY <1>9, <1>10, PegarEs
<1>12. Empieza(Textos(k), Textos(n))
  BY <1>5, <1>8, <1>10, <1>11 DEF Empieza, Pegado
<1>13. QED
  BY <1>4, <1>12

LEMMA BufferEs ==
  ASSUME archivo \in Seq(Registros)
  PROVE  /\ Buffer \in Seq(Bytes) /\ Len(Buffer) = tam_total /\ tam_total \in Nat
         /\ Desde(1) = 0 /\ Desde(Len(archivo) + 1) = tam_total
<1>1. Len(archivo) \in Nat /\ Len(archivo) \in 0..Len(archivo)
  OBVIOUS
<1>2. Buffer \in Seq(Bytes) /\ Len(Buffer) \in Nat
  BY <1>1, TextosTipo DEF Buffer
<1>3. Desde(1) = 0
  <2>1. 1 - 1 = 0 /\ Len(<< >>) = 0
    OBVIOUS
  <2>2. QED
    BY <2>1, TextosSon DEF Desde
<1>4. Len(archivo) + 1 - 1 = Len(archivo)
  BY <1>1
<1>5. QED
  BY <1>2, <1>3, <1>4 DEF Desde, Buffer, tam_total

\* Each byte of a record is after the records before it.
LEMMA Lugares ==
  ASSUME archivo \in Seq(Registros), NEW i \in 1..Len(archivo)
  PROVE  /\ Desde(i) \in Nat /\ Desde(i + 1) = Desde(i) + Tam(i)
         /\ Desde(i) + Tam(i) <= tam_total /\ Tam(i) \in Nat
         /\ \A p \in 1..Tam(i) : Buffer[Desde(i) + p] = Texto(i)[p]
<1>1. Textos(i) = Textos(i - 1) \o Texto(i) /\ Textos(i) \in Seq(Bytes) /\ Textos(i - 1) \in Seq(Bytes)
  BY TextosSon
<1>2. Texto(i) \in Seq(Bytes) /\ Len(Texto(i)) = Tam(i) /\ Len(Texto(i)) \in Nat /\ Tam(i) \in Nat
  BY TextoEs
<1>3. Pegado(Textos(i - 1), Texto(i), Textos(i))
  BY <1>1, <1>2, PegarEs
<1>4. Empieza(Buffer, Textos(i))
  <2>1. i \in 0..Len(archivo) /\ Len(archivo) \in i..Len(archivo)
    OBVIOUS
  <2>2. QED
    BY <2>1, TextosEmpiezan DEF Buffer
<1>5. i + 1 - 1 = i
  OBVIOUS
<1>6. Desde(i) \in Nat /\ Desde(i) = Len(Textos(i - 1)) /\ Desde(i + 1) = Len(Textos(i))
  BY <1>1, <1>5 DEF Desde
<1>7. Desde(i + 1) = Desde(i) + Tam(i)
  BY <1>2, <1>3, <1>6 DEF Pegado
<1>8. Desde(i) + Tam(i) <= tam_total
  BY <1>4, <1>6, <1>7 DEF Empieza, tam_total
<1>9. ASSUME NEW p \in 1..Tam(i) PROVE Buffer[Desde(i) + p] = Texto(i)[p]
  <2>1. Textos(i)[Desde(i) + p] = Texto(i)[p]
    BY <1>2, <1>3, <1>6 DEF Pegado
  <2>2. Desde(i) + p \in 1..Len(Textos(i))
    BY <1>2, <1>6, <1>7
  <2>3. QED
    BY <1>4, <2>1, <2>2 DEF Empieza
<1>10. QED
  BY <1>2, <1>6, <1>7, <1>8, <1>9

-----------------------------------------------------------------------------
(* The inductive invariant. The types...                                   *)

Leible == [timestamp : Seq(Bytes), key : Seq(Bytes), value : Seq(Bytes)]

Fijos ==
  /\ archivo \in Seq(Registros) /\ block_size \in BlockSizes
  /\ buscada \in Keys \cup {Todas} /\ es_unica \in BOOLEAN
  /\ es_unica => EsUnica(archivo) /\ buscada # Todas

Tipos ==
  /\ estado \in Estados /\ anterior \in Estados \ {"leer", "fin"}
  /\ bloques_leidos \in 0..CantidadBloques
  /\ offset_campo \in Posiciones /\ num_separador \in 0..2
  /\ aux_campo_leyendo \in [Posiciones -> Bytes] /\ aux_value \in [Posiciones -> Bytes]
  /\ registro \in Leible /\ registros_leidos \in Seq(Leible) /\ retval \in Leible
  /\ buscada # Todas => registros_leidos = << >>

(* ... that the offsets are in the block that was read last...             *)
EnBloques ==
  /\ offset_bloque \in Nat /\ tam_bloque \in Nat /\ offset_total \in Nat
  /\ offset_bloque <= tam_bloque /\ tam_bloque <= block_size
  /\ bloques_leidos = 0 => tam_bloque = 0 /\ offset_total = 0 /\ estado = "leer"
  /\ bloques_leidos > 0 =>
       /\ offset_total = (bloques_leidos - 1) * block_size + offset_bloque
       /\ (bloques_leidos - 1) * block_size + tam_bloque = Menor(bloques_leidos * block_size, tam_total)
  /\ estado = "leer" => offset_bloque = tam_bloque

(* ... and either that the machine is at a field of the i-th record, of    *)
(* which it has read what is before, and has put out the records before... *)
Campo == IF estado = "leer" THEN anterior ELSE estado

EnCampo(desde, tam) ==
  /\ offset_total = desde + offset_campo /\ offset_campo < tam
  /\ \A p \in 0..offset_campo - 1 : aux_campo_leyendo[p] = Buffer[desde + p + 1]

ConTimestamp(i) == registro.timestamp = BytesTimestamp(archivo[i].timestamp)
ConKey(i) == registro.key = BytesKey(archivo[i].key)

EnTimestamp(i) ==
  /\ Campo = "timestamp" /\ num_separador = 0 /\ EnCampo(Desde(i), TamTimestamp)
  /\ i = Len(archivo) + 1 => offset_campo = 0

TrasTimestamp(i) ==
  /\ Campo = "separador" /\ num_separador = 0 /\ offset_total = Desde(i) + TamTimestamp
  /\ ConTimestamp(i)

EnKey(i) ==
  /\ Campo = "key" /\ num_separador = 1 /\ EnCampo(Desde(i) + TamTimestamp + 1, TamKey)
  /\ ConTimestamp(i)

TrasKey(i) ==
  /\ Campo = "separador" /\ num_separador = 1
  /\ offset_total = Desde(i) + TamTimestamp + 1 + TamKey
  /\ ConTimestamp(i) /\ ConKey(i)

EnValue(i) ==
  /\ Campo = "value" /\ num_separador = 2 /\ EnCampo(Inicio(i), TamanioValue)
  /\ offset_campo <= archivo[i].largo
  /\ \A p \in 0..offset_campo - 1 : aux_value[p] # BarraN
  /\ offset_campo > 0 => offset_campo = EnBloque(i) /\ (estado = "value" => offset_bloque = 0)
  /\ ConTimestamp(i) /\ ConKey(i)

TrasValue(i) ==
  /\ Campo \in {"separador", "fin"} /\ num_separador = 2
  /\ offset_total = Inicio(i) + archivo[i].largo
  /\ Campo = "fin" => es_unica /\ archivo[i].key = buscada

\* of the first n records, those of the key; m is the one that is wanted of the set s
Suyos(n) == {j \in 1..n : archivo[j].key = buscada}
Elegido(m, s) ==
  \A j \in s : /\ archivo[m].timestamp >= archivo[j].timestamp
               /\ archivo[m].timestamp = archivo[j].timestamp => m <= j

\* what was put out is of the first n records
Salidos(n) ==
  /\ buscada = Todas => registros_leidos = [j \in 1..n |-> Registro(j)]
  /\ buscada # Todas => IF Suyos(n) = {} THEN retval = Vacio
                        ELSE \E m \in Suyos(n) : retval = Registro(m) /\ Elegido(m, Suyos(n))

Escritos ==
  /\ registro.timestamp \in {BytesTimestamp(t) : t \in Timestamps} \cup {<< >>}
  /\ registro.key \in {BytesKey(k) : k \in Keys} \cup {<< >>}

Leyendo(i) ==
  \/ TrasTimestamp(i) \/ EnKey(i) \/ TrasKey(i) \/ EnValue(i)

Bien(i) ==
  /\ i \in 1..Len(archivo) + 1
  /\ Escritos
  /\ \/ EnTimestamp(i) /\ Salidos(i - 1)
     \/ i # Len(archivo) + 1 /\ Leyendo(i) /\ Salidos(i - 1)
     \/ i # Len(archivo) + 1 /\ TrasValue(i) /\ Salidos(i)

(* ... or that the m-th record was cut, and what is read is of the last    *)
(* block, wherever it is.                                                  *)
Roto(m) ==
  /\ m \in 1..Len(archivo) /\ Cortado(m)
  /\ offset_total + (tam_bloque - offset_bloque) = tam_total
  /\ buscada = Todas => /\ m - 1 <= Len(registros_leidos)
                        /\ \A j \in 1..m - 1 : registros_leidos[j] = Registro(j)
  /\ estado \in {"timestamp", "key", "value"} => offset_campo = 0

Inductivo == Fijos /\ Tipos /\ EnBloques /\ ((\E i : Bien(i)) \/ (\E m : Roto(m)))

-----------------------------------------------------------------------------
(* What the file says stays.                                               *)

LEMMA TextosIguales ==
  ASSUME archivo' = archivo
  PROVE  /\ \A n : Textos(n)' = Textos(n)
         /\ Buffer' = Buffer /\ tam_total' = tam_total
         /\ \A i : /\ Desde(i)' = Desde(i) /\ Inicio(i)' = Inicio(i) /\ Registro(i)' = Registro(i)
<1>1. ASSUME NEW i PROVE BytesValue(i)' = BytesValue(i)
  BY DEF BytesValue
<1>2. ASSUME NEW i PROVE Texto(i)' = Texto(i)
  BY <1>1 DEF Texto
<1>3. ASSUME NEW n PROVE Textos(n)' = Textos(n)
  <2>1. [i \in 1..n |-> Texto(i)'] = [i \in 1..n |-> Texto(i)]
    BY <1>2
  <2>2. QED
    BY ONLY <2>1 DEF Textos
<1>4. Buffer' = Buffer
  BY <1>3 DEF Buffer
<1>5. tam_total' = tam_total
  BY <1>4 DEF tam_total
<1>6. ASSUME NEW i PROVE Desde(i)' = Desde(i) /\ Inicio(i)' = Inicio(i)
  BY <1>3 DEF Desde, Inicio
<1>7. ASSUME NEW i PROVE Registro(i)' = Registro(i)
  BY <1>1 DEF Registro
<1>8. QED
  BY <1>3, <1>4, <1>5, <1>6, <1>7

LEMMA FijosSiguen ==
  ASSUME Fijos, UNCHANGED entrada
  PROVE  Fijos'
BY DEF Fijos, entrada, EsUnica

LEMMA CortadosIguales ==
  ASSUME UNCHANGED entrada
  PROVE  /\ CantidadBloques' = CantidadBloques
         /\ \A i : EnBloque(i)' = EnBloque(i) /\ EnElSiguiente(i)' = EnElSiguiente(i)
         /\ \A i : Cortado(i)' = Cortado(i)
<1>1. archivo' = archivo /\ block_size' = block_size
  BY DEF entrada
<1>2. tam_total' = tam_total /\ \A i : Inicio(i)' = Inicio(i)
  BY <1>1, TextosIguales
<1>3. CantidadBloques' = CantidadBloques
  BY <1>1, <1>2 DEF CantidadBloques
<1>4. ASSUME NEW i PROVE EnBloque(i)' = EnBloque(i) /\ EnElSiguiente(i)' = EnElSiguiente(i)
  BY <1>1, <1>2 DEF EnBloque, EnElSiguiente, Menor
<1>5. ASSUME NEW i PROVE Cortado(i)' = Cortado(i)
  BY <1>1, <1>4 DEF Cortado
<1>6. QED
  BY <1>3, <1>4, <1>5

-----------------------------------------------------------------------------
(* What is copied.                                                         *)

LEMMA Tamanios ==
  ASSUME Fijos
  PROVE  /\ TamTimestamp \in Nat \ {0} /\ TamKey \in Nat \ {0} /\ TamanioValue \in Nat \ {0}
         /\ TamTimestamp <= TamanioValue + 1 /\ TamKey <= TamanioValue + 1
         /\ block_size \in Nat \ {0} /\ TamanioValue <= block_size
         /\ Len(archivo) \in Nat
BY LecturaAssumption DEF Fijos

LEMMA CopiarEs ==
  ASSUME NEW v \in [Posiciones -> Bytes], NEW s \in Seq(Bytes), NEW desde \in Int
  PROVE  /\ Copiar(v, desde, s) \in [Posiciones -> Bytes]
         /\ \A p \in Posiciones :
              Copiar(v, desde, s)[p] = IF p - desde + 1 \in 1..Len(s) THEN s[p - desde + 1] ELSE v[p]
<1>1. DOMAIN s = 1..Len(s) /\ \A j \in 1..Len(s) : s[j] \in Bytes
  OBVIOUS
<1>2. DOMAIN v = Posiciones /\ \A p \in Posiciones : v[p] \in Bytes
  OBVIOUS
<1>3. QED
  BY <1>1, <1>2 DEF Copiar

LEMMA PrimerosEs ==
  ASSUME NEW v \in [Posiciones -> Bytes], NEW n \in 0..TamanioValue + 1
  PROVE  /\ Primeros(v, n) \in Seq(Bytes) /\ Len(Primeros(v, n)) = n
         /\ \A p \in 1..n : Primeros(v, n)[p] = v[p - 1]
<1>1. TamanioValue \in Nat
  BY LecturaAssumption
<1>2. \A p \in 1..n : p - 1 \in Posiciones /\ v[p - 1] \in Bytes
  BY <1>1 DEF Posiciones
<1>3. QED
  BY <1>1, <1>2 DEF Primeros

\* The block that was read last.
LEMMA BloqueEs ==
  ASSUME Fijos, Tipos, EnBloques, bloques_leidos > 0
  PROVE  /\ Bloque(bloques_leidos) \in Seq(Bytes) /\ Len(Bloque(bloques_leidos)) = tam_bloque
         /\ \A p \in 1..tam_bloque :
              Bloque(bloques_leidos)[p] = Buffer[offset_total - offset_bloque + p]
         /\ offset_total - offset_bloque + tam_bloque <= tam_total
<1> DEFINE base == (bloques_leidos - 1) * block_size
           m == Menor(bloques_leidos * block_size, tam_total)
<1>1. bloques_leidos \in Nat
  BY DEF Tipos
<1>2. block_size \in Nat
  BY Tamanios
<1>3. base \in Nat
  BY <1>1, <1>2, bloques_leidos > 0
<1>4. bloques_leidos * block_size \in Nat
  BY <1>1, <1>2
<1>5. Buffer \in Seq(Bytes) /\ Len(Buffer) = tam_total /\ tam_total \in Nat
  BY BufferEs DEF Fijos
<1>6. m \in Nat /\ m <= tam_total
  BY <1>4, <1>5 DEF Menor
<1>7. /\ base + tam_bloque = m /\ offset_total = base + offset_bloque
      /\ tam_bloque \in Nat /\ offset_bloque \in Nat
  BY DEF EnBloques
<1>8. Bloque(bloques_leidos) = SubSeq(Buffer, base + 1, m)
  BY DEF Bloque
<1> HIDE DEF base, m
<1>9. /\ SubSeq(Buffer, base + 1, m) \in Seq(Bytes)
      /\ Len(SubSeq(Buffer, base + 1, m)) = IF base + 1 <= m THEN m - (base + 1) + 1 ELSE 0
      /\ \A p \in 1..m - (base + 1) + 1 : SubSeq(Buffer, base + 1, m)[p] = Buffer[base + 1 + p - 1]
  <2>1. \A p \in base + 1..m : Buffer[p] \in Bytes
    BY <1>3, <1>5, <1>6
  <2>2. base + 1 \in Int /\ m \in Int
    BY <1>3, <1>6
  <2>3. QED
    BY <2>1, <2>2, SubSeqProperties
<1>10. Len(SubSeq(Buffer, base + 1, m)) = tam_bloque /\ m - (base + 1) + 1 = tam_bloque
  BY <1>3, <1>6, <1>7, <1>9
<1>11. ASSUME NEW p \in 1..tam_bloque
       PROVE  SubSeq(Buffer, base + 1, m)[p] = Buffer[offset_total - offset_bloque + p]
  <2>1. base + 1 + p - 1 = offset_total - offset_bloque + p
    BY <1>3, <1>7
  <2>2. QED
    BY <1>9, <1>10, <2>1
<1>12. offset_total - offset_bloque + tam_bloque <= tam_total
  BY <1>3, <1>6, <1>7
<1>13. QED
  BY <1>8, <1>9, <1>10, <1>11, <1>12

\* The next n bytes of the file, at the place of the field.
LEMMA LeidosEs ==
  ASSUME Fijos, Tipos, EnBloques, bloques_leidos > 0, NEW n \in 0..Quedan
  PROVE  /\ Leidos(n) \in [Posiciones -> Bytes]
         /\ \A p \in Posiciones :
              Leidos(n)[p] = IF offset_campo <= p /\ p < offset_campo + n
                             THEN Buffer[offset_total + (p - offset_campo) + 1]
                             ELSE aux_campo_leyendo[p]
         /\ offset_total + n <= tam_total
<1> DEFINE b == Bloque(bloques_leidos)
           s == SubSeq(b, offset_bloque + 1, offset_bloque + n)
<1>1. /\ b \in Seq(Bytes) /\ Len(b) = tam_bloque
      /\ \A p \in 1..tam_bloque : b[p] = Buffer[offset_total - offset_bloque + p]
      /\ offset_total - offset_bloque + tam_bloque <= tam_total
  BY BloqueEs
<1> HIDE DEF b
<1>2. /\ offset_bloque \in Nat /\ tam_bloque \in Nat /\ offset_total \in Nat
      /\ offset_bloque + n <= tam_bloque /\ n \in Nat
  BY DEF EnBloques, Quedan
<1>3. /\ s \in Seq(Bytes) /\ Len(s) = n
      /\ \A p \in 1..n : s[p] = b[offset_bloque + p]
  <2> DEFINE u == offset_bloque + 1
             w == offset_bloque + n
  <2>1. u \in Int /\ w \in Int /\ w - u + 1 = n /\ (u <= w <=> n # 0)
    BY <1>2
  <2>2. \A p \in u..w : b[p] \in Bytes
    BY <1>1, <1>2
  <2>3. ASSUME NEW p \in 1..n PROVE u + p - 1 = offset_bloque + p
    BY <1>2
  <2>4. s = SubSeq(b, u, w)
    OBVIOUS
  <2> HIDE DEF s, u, w
  <2>5. /\ SubSeq(b, u, w) \in Seq(Bytes)
        /\ Len(SubSeq(b, u, w)) = IF u <= w THEN w - u + 1 ELSE 0
        /\ \A p \in 1..w - u + 1 : SubSeq(b, u, w)[p] = b[u + p - 1]
    BY <2>1, <2>2, SubSeqProperties
  <2>6. QED
    BY <1>2, <2>1, <2>3, <2>4, <2>5
<1>4. Leidos(n) = Copiar(aux_campo_leyendo, offset_campo, s)
  BY DEF Leidos, b
<1> HIDE DEF s
<1>5. offset_campo \in Nat /\ aux_campo_leyendo \in [Posiciones -> Bytes] /\ Posiciones \subseteq Nat
  BY DEF Tipos, Posiciones
<1>6. /\ Leidos(n) \in [Posiciones -> Bytes]
      /\ \A p \in Posiciones :
           Leidos(n)[p] = IF p - offset_campo + 1 \in 1..n THEN s[p - offset_campo + 1]
                          ELSE aux_campo_leyendo[p]
  <2>1. offset_campo \in Int
    BY <1>5
  <2>2. QED
    BY <1>3, <1>4, <1>5, <2>1, CopiarEs
<1>7. ASSUME NEW p \in Posiciones
      PROVE  Leidos(n)[p] = IF offset_campo <= p /\ p < offset_campo + n
                            THEN Buffer[offset_total + (p - offset_campo) + 1]
                            ELSE aux_campo_leyendo[p]
  <2>1. p \in Nat
    BY <1>5
  <2>2. CASE offset_campo <= p /\ p < offset_campo + n
    <3>1. p - offset_campo + 1 \in 1..n
      BY <1>2, <1>5, <2>1, <2>2
    <3>2. offset_bloque + (p - offset_campo + 1) \in 1..tam_bloque
      BY <1>2, <1>5, <2>1, <3>1
    <3>3. offset_total - offset_bloque + (offset_bloque + (p - offset_campo + 1))
            = offset_total + (p - offset_campo) + 1
      BY <1>2, <1>5, <2>1
    <3>4. s[p - offset_campo + 1] = Buffer[offset_total + (p - offset_campo) + 1]
      BY <1>1, <1>3, <3>1, <3>2, <3>3
    <3>5. QED
      BY <1>6, <2>2, <3>1, <3>4
  <2>3. CASE ~(offset_campo <= p /\ p < offset_campo + n)
    <3>1. ~(p - offset_campo + 1 \in 1..n)
      BY <1>2, <1>5, <2>1, <2>3
    <3>2. QED
      BY <1>6, <2>3, <3>1
  <2>4. QED
    BY <2>2, <2>3
<1>8. offset_total + n <= tam_total
  <2>1. tam_total \in Nat
    BY BufferEs DEF Fijos
  <2>2. QED
    BY <1>1, <1>2, <2>1
<1>9. QED
  BY <1>6, <1>7, <1>8

\* How long a string is, and what string_split gives.
LEMMA LargoEs ==
  ASSUME NEW v \in [Posiciones -> Bytes], NEW m \in Posiciones, v[m] = Nulo
  PROVE  /\ Largo(v) \in 0..m /\ v[Largo(v)] = Nulo
         /\ \A p \in 0..Largo(v) - 1 : v[p] # Nulo
<1> DEFINE S == {n \in Posiciones : v[n] = Nulo}
           Primero(n) == v[n] = Nulo /\ \A p \in 0..n - 1 : v[p] # Nulo
<1>1. TamanioValue \in Nat
  BY LecturaAssumption
<1>2. S \in SUBSET Nat /\ S # {}
  BY <1>1 DEF Posiciones
<1>3. PICK n \in S : \A j \in S : n <= j
  <2> HIDE DEF S
  <2>1. QED
    BY <1>2, Minimo
<1>4. n \in Posiciones /\ v[n] = Nulo
  OBVIOUS
<1>5. ASSUME NEW p \in 0..n - 1 PROVE v[p] # Nulo
  <2>1. p \in Posiciones /\ ~(n <= p)
    BY <1>1, <1>4 DEF Posiciones
  <2>2. QED
    BY <1>3, <2>1
<1>6. DOMAIN v = Posiciones
  OBVIOUS
<1> DEFINE l == CHOOSE k \in Posiciones : Primero(k)
<1>7. Largo(v) = l
  BY <1>6 DEF Largo
<1>8. l \in Posiciones /\ Primero(l)
  <2>1. \E k \in Posiciones : Primero(k)
    BY <1>4, <1>5
  <2> HIDE DEF Primero
  <2>2. QED
    BY <2>1
<1> HIDE DEF l
<1>9. l <= m
  <2>1. SUFFICES ASSUME ~(l <= m) PROVE FALSE
    OBVIOUS
  <2>2. m \in 0..l - 1
    BY <1>1, <1>8, <2>1 DEF Posiciones
  <2>3. QED
    BY <1>8, <2>2
<1>10. QED
  BY <1>1, <1>7, <1>8, <1>9 DEF Posiciones

LEMMA CorteEs ==
  ASSUME NEW v \in [Posiciones -> Bytes], NEW m \in Posiciones, v[m] = Nulo
  PROVE  /\ Corte(v) \in 0..m
         /\ FinesDeLinea(v) = {} => Corte(v) = Largo(v)
         /\ FinesDeLinea(v) # {} => /\ v[Corte(v)] = BarraN
                                    /\ \A p \in 0..Corte(v) - 1 : v[p] # BarraN
<1>1. Largo(v) \in 0..m /\ m \in Nat
  BY LargoEs, LecturaAssumption DEF Posiciones
<1> DEFINE F == FinesDeLinea(v)
           Primero(p) == \A q \in F : p <= q
           c == CHOOSE p \in F : Primero(p)
<1>2. F \in SUBSET Nat /\ \A p : p \in F <=> p \in 0..Largo(v) - 1 /\ v[p] = BarraN
  BY <1>1 DEF FinesDeLinea
<1>3. Corte(v) = IF F = {} THEN Largo(v) ELSE c
  BY DEF Corte
<1> HIDE DEF F
<1>4. ASSUME F # {} PROVE c \in F /\ \A q \in F : c <= q
  <2>1. \E p \in F : Primero(p)
    BY <1>2, <1>4, Minimo
  <2>2. c \in F /\ Primero(c)
    <3> HIDE DEF Primero
    <3>1. QED
      BY <2>1
  <2>3. QED
    BY <2>2
<1> HIDE DEF c
<1>5. ASSUME F # {} PROVE /\ c \in 0..m /\ v[c] = BarraN
                          /\ \A p \in 0..c - 1 : v[p] # BarraN
  <2>1. c \in 0..Largo(v) - 1 /\ v[c] = BarraN
    BY <1>2, <1>4, <1>5
  <2>2. ASSUME NEW p \in 0..c - 1 PROVE v[p] # BarraN
    <3>1. p \in 0..Largo(v) - 1 /\ ~(c <= p)
      BY <1>1, <2>1
    <3>2. p \notin F
      BY <1>4, <1>5, <3>1
    <3>3. QED
      BY <1>2, <3>1, <3>2
  <2>3. QED
    BY <1>1, <2>1, <2>2
<1>6. QED
  BY <1>1, <1>3, <1>5 DEF F

\* The value ends at the first \n, or at the end of the string, if it has no \n.
LEMMA CorteDeValor ==
  ASSUME NEW v \in [Posiciones -> Bytes], NEW l \in Posiciones, NEW m \in Posiciones,
         v[m] = Nulo, l <= m, \A p \in 0..l - 1 : v[p] # BarraN /\ v[p] # Nulo
  PROVE  /\ v[l] = BarraN => FinesDeLinea(v) # {} /\ Corte(v) = l
         /\ v[l] = Nulo => FinesDeLinea(v) = {} /\ Corte(v) = l
<1>1. l \in Nat /\ m \in Nat /\ Largo(v) \in 0..m /\ v[Largo(v)] = Nulo
  BY LargoEs, LecturaAssumption DEF Posiciones
<1>2. Largo(v) >= l
  BY <1>1
<1>3. BarraN # Nulo
  BY DEF BarraN, Nulo
<1>4. ASSUME v[l] = BarraN PROVE FinesDeLinea(v) # {} /\ Corte(v) = l
  <2>1. Largo(v) # l
    BY <1>1, <1>3, <1>4
  <2>2. l \in FinesDeLinea(v)
    BY <1>1, <1>2, <1>4, <2>1 DEF FinesDeLinea
  <2>3. v[Corte(v)] = BarraN /\ Corte(v) \in 0..m /\ \A p \in 0..Corte(v) - 1 : v[p] # BarraN
    BY <2>2, CorteEs
  <2>4. QED
    BY <1>1, <1>4, <2>2, <2>3
<1>5. ASSUME v[l] = Nulo PROVE FinesDeLinea(v) = {} /\ Corte(v) = l
  <2>1. Largo(v) = l
    <3>1. \A p \in 0..Largo(v) - 1 : v[p] # Nulo
      BY LargoEs
    <3>2. QED
      BY <1>1, <1>2, <1>5, <3>1
  <2>2. FinesDeLinea(v) = {}
    BY <2>1 DEF FinesDeLinea
  <2>3. QED
    BY <2>1, <2>2, CorteEs
<1>6. QED
  BY <1>4, <1>5

-----------------------------------------------------------------------------
(* The steps.                                                              *)

LEMMA HayBloque ==
  ASSUME Tipos, EnBloques, estado # "leer"
  PROVE  bloques_leidos > 0
BY DEF Tipos, EnBloques

LEMMA AvanzarSigue ==
  ASSUME Fijos, Tipos, EnBloques, estado # "leer", UNCHANGED <<entrada, bloque>>,
         NEW n \in 0..Quedan, AvanzarBloque(n), estado' = "leer" => n = Quedan
  PROVE  EnBloques'
<1>1. bloques_leidos > 0
  BY HayBloque
<1>2. archivo' = archivo /\ block_size' = block_size /\ bloques_leidos' = bloques_leidos
      /\ tam_bloque' = tam_bloque
  BY DEF entrada, bloque
<1>3. tam_total' = tam_total
  BY <1>2, TextosIguales
<1>4. offset_bloque' = offset_bloque + n /\ offset_total' = offset_total + n
  BY DEF AvanzarBloque
<1>5. /\ offset_bloque \in Nat /\ tam_bloque \in Nat /\ offset_total \in Nat
      /\ offset_bloque <= tam_bloque /\ tam_bloque <= block_size
      /\ n \in Nat /\ offset_bloque + n <= tam_bloque
  BY DEF EnBloques, Quedan
<1> DEFINE base == (bloques_leidos - 1) * block_size
<1>6. offset_total = base + offset_bloque
      /\ base + tam_bloque = Menor(bloques_leidos * block_size, tam_total)
  BY <1>1 DEF EnBloques
<1>7. base \in Int
  BY Tamanios DEF Tipos
<1>8. estado' = "leer" => offset_bloque' = tam_bloque'
  BY <1>2, <1>4, <1>5 DEF Quedan
<1>9. base' = base
  BY <1>2
<1> HIDE DEF base
<1>10. offset_total' = base' + offset_bloque'
       /\ base' + tam_bloque' = Menor(bloques_leidos' * block_size', tam_total')
  BY <1>2, <1>3, <1>4, <1>5, <1>6, <1>7, <1>9
<1>11. /\ offset_bloque' \in Nat /\ tam_bloque' \in Nat /\ offset_total' \in Nat
       /\ offset_bloque' <= tam_bloque' /\ tam_bloque' <= block_size'
  BY <1>2, <1>4, <1>5
<1>12. ~(bloques_leidos' = 0)
  BY <1>1, <1>2
<1>13. QED
  BY <1>8, <1>10, <1>11, <1>12 DEF EnBloques, base, Menor

\* What is read of a number goes after what was read of it, until all of it is there.
NumeroLeido(e, tam) ==
  /\ estado' = "separador" /\ registro' = [registro EXCEPT ![e] = registro'[e]]
  /\ \A desde \in Nat : EnCampo(desde, tam) =>
       /\ offset_total' = desde + tam /\ Len(registro'[e]) = tam
       /\ \A p \in 1..tam : registro'[e][p] = Buffer[desde + p]

NumeroCortado(e, tam) ==
  /\ estado' = "leer" /\ anterior' = e /\ registro' = registro
  /\ \A desde \in Nat : EnCampo(desde, tam) => EnCampo(desde, tam)'

LEMMA NumeroLee ==
  ASSUME Fijos, Tipos, EnBloques, NEW e \in {"timestamp", "key"}, NEW tam \in Nat \ {0},
         tam <= TamanioValue + 1, offset_campo < tam, LeerNumero(e, tam)
  PROVE  /\ Fijos' /\ Tipos' /\ EnBloques'
         /\ estado = e /\ UNCHANGED <<entrada, bloque, num_separador, aux_value, salida>>
         /\ \E k \in 0..Quedan : AvanzarBloque(k)
         /\ NumeroLeido(e, tam) \/ NumeroCortado(e, tam)
<1> DEFINE falta == tam - offset_campo
<1>1. /\ estado = e /\ UNCHANGED <<entrada, bloque, num_separador, aux_value, salida>>
      /\ bloques_leidos > 0 /\ estado # "leer"
  <2>1. estado = e /\ UNCHANGED <<entrada, bloque, num_separador, aux_value, salida>>
    BY DEF LeerNumero
  <2>2. QED
    BY <2>1, HayBloque
<1>2. /\ offset_campo \in Nat /\ falta \in Nat /\ offset_campo \in Posiciones
      /\ Posiciones = 0..TamanioValue /\ TamanioValue \in Nat
  BY Tamanios DEF Tipos, Posiciones
<1>3. /\ offset_bloque \in Nat /\ tam_bloque \in Nat /\ offset_total \in Nat /\ Quedan \in Nat
  BY DEF EnBloques, Quedan
<1>4. Fijos'
  BY <1>1, FijosSiguen
<1>5. Buffer' = Buffer /\ CantidadBloques' = CantidadBloques
  BY <1>1, TextosIguales, CortadosIguales DEF entrada
<1>6. CASE falta <= Quedan
  <2>1. /\ aux_campo_leyendo' = Leidos(falta) /\ AvanzarBloque(falta)
        /\ registro' = [registro EXCEPT ![e] = Primeros(aux_campo_leyendo', tam)]
        /\ estado' = "separador" /\ anterior' = e /\ offset_campo' = offset_campo
    BY <1>1, <1>6 DEF LeerNumero, Pasar
  <2>2. falta \in 0..Quedan
    BY <1>2, <1>3, <1>6
  <2> HIDE DEF falta
  <2>3. EnBloques'
    BY <1>1, <2>1, <2>2, AvanzarSigue
  <2>4. /\ Leidos(falta) \in [Posiciones -> Bytes]
        /\ \A p \in Posiciones :
             Leidos(falta)[p] = IF offset_campo <= p /\ p < offset_campo + falta
                                THEN Buffer[offset_total + (p - offset_campo) + 1]
                                ELSE aux_campo_leyendo[p]
    BY <1>1, <2>2, LeidosEs
  <2> DEFINE r == Primeros(aux_campo_leyendo', tam)
  <2>5. r \in Seq(Bytes) /\ Len(r) = tam /\ \A p \in 1..tam : r[p] = aux_campo_leyendo'[p - 1]
    <3>1. tam \in 0..TamanioValue + 1
      BY <1>2
    <3>2. QED
      BY <2>1, <2>4, <3>1, PrimerosEs
  <2> HIDE DEF r
  <2>6. registro' = [registro EXCEPT ![e] = r] /\ registro \in Leible
    BY <2>1 DEF r, Tipos
  <2>7. registro' \in Leible /\ registro'[e] = r
    BY <2>5, <2>6 DEF Leible
  <2>8. Tipos'
    BY <1>1, <1>2, <1>5, <2>1, <2>4, <2>7 DEF Tipos, Estados, Posiciones, entrada, bloque, salida
  <2>9. offset_total' = offset_total + falta /\ offset_bloque' = offset_bloque + falta
    BY <2>1 DEF AvanzarBloque
  <2>10. ASSUME NEW desde \in Nat, EnCampo(desde, tam)
         PROVE  offset_total' = desde + tam /\ \A p \in 1..tam : r[p] = Buffer[desde + p]
    <3>1. offset_total = desde + offset_campo
      BY <2>10 DEF EnCampo
    <3>2. offset_total' = desde + tam
      BY <1>2, <2>9, <3>1 DEF falta
    <3>3. ASSUME NEW p \in 1..tam PROVE r[p] = Buffer[desde + p]
      <4>1. p - 1 \in Posiciones /\ p - 1 < offset_campo + falta
        BY <1>2 DEF falta
      <4>2. CASE p - 1 < offset_campo
        <5>1. aux_campo_leyendo[p - 1] = Buffer[desde + (p - 1) + 1]
          BY <1>2, <2>10, <4>2 DEF EnCampo
        <5>2. ~(offset_campo <= p - 1) /\ desde + (p - 1) + 1 = desde + p
          BY <1>2, <4>2
        <5>3. QED
          BY <2>1, <2>4, <2>5, <4>1, <5>1, <5>2
      <4>3. CASE offset_campo <= p - 1
        <5>1. offset_total + ((p - 1) - offset_campo) + 1 = desde + p
          BY <1>2, <3>1
        <5>2. QED
          BY <2>1, <2>4, <2>5, <4>1, <4>3, <5>1
      <4>4. QED
        BY <1>2, <4>2, <4>3
    <3>4. QED
      BY <3>2, <3>3
  <2>11. NumeroLeido(e, tam)
    <3>1. /\ estado' = "separador" /\ registro' = [registro EXCEPT ![e] = registro'[e]]
          /\ Len(registro'[e]) = tam
      BY <2>1, <2>5, <2>6, <2>7
    <3>2. \A desde \in Nat : EnCampo(desde, tam) =>
            offset_total' = desde + tam /\ \A p \in 1..tam : registro'[e][p] = Buffer[desde + p]
      BY <2>7, <2>10
    <3>3. QED
      BY <3>1, <3>2 DEF NumeroLeido
  <2>12. QED
    BY <1>1, <1>4, <2>1, <2>2, <2>3, <2>8, <2>11
<1>7. CASE ~(falta <= Quedan)
  <2>1. /\ aux_campo_leyendo' = Leidos(Quedan) /\ AvanzarBloque(Quedan)
        /\ offset_campo' = offset_campo + Quedan
        /\ estado' = "leer" /\ anterior' = e /\ registro' = registro
    BY <1>1, <1>7 DEF LeerNumero, Pasar
  <2>2. Quedan \in 0..Quedan
    BY <1>3
  <2>3. EnBloques'
    BY <1>1, <2>1, <2>2, AvanzarSigue
  <2>4. /\ Leidos(Quedan) \in [Posiciones -> Bytes]
        /\ \A p \in Posiciones :
             Leidos(Quedan)[p] = IF offset_campo <= p /\ p < offset_campo + Quedan
                                 THEN Buffer[offset_total + (p - offset_campo) + 1]
                                 ELSE aux_campo_leyendo[p]
    BY <1>1, <2>2, LeidosEs
  <2>5. offset_campo' \in Posiciones /\ offset_campo' < tam
    BY <1>2, <1>3, <1>7, <2>1
  <2>6. Tipos'
    BY <1>1, <1>2, <1>5, <2>1, <2>4, <2>5 DEF Tipos, Estados, Posiciones, entrada, bloque, salida
  <2>7. offset_total' = offset_total + Quedan /\ offset_bloque' = offset_bloque + Quedan
    BY <2>1 DEF AvanzarBloque
  <2>8. ASSUME NEW desde \in Nat, EnCampo(desde, tam) PROVE EnCampo(desde, tam)'
    <3>1. offset_total = desde + offset_campo
      BY <2>8 DEF EnCampo
    <3>2. offset_total' = desde + offset_campo'
      BY <1>2, <1>3, <2>1, <2>7, <3>1
    <3>3. ASSUME NEW p \in 0..offset_campo' - 1 PROVE aux_campo_leyendo'[p] = Buffer[desde + p + 1]
      <4>1. p \in Posiciones /\ p < offset_campo + Quedan
        BY <1>2, <1>3, <2>1, <2>5
      <4>2. CASE p < offset_campo
        <5>1. aux_campo_leyendo[p] = Buffer[desde + p + 1] /\ ~(offset_campo <= p)
          BY <1>2, <2>8, <4>1, <4>2 DEF EnCampo
        <5>2. QED
          BY <2>1, <2>4, <4>1, <5>1
      <4>3. CASE offset_campo <= p
        <5>1. offset_total + (p - offset_campo) + 1 = desde + p + 1
          BY <1>2, <3>1, <4>1
        <5>2. QED
          BY <2>1, <2>4, <4>1, <4>3, <5>1
      <4>4. QED
        BY <1>2, <4>1, <4>2, <4>3
    <3>4. QED
      BY <1>5, <2>5, <3>2, <3>3 DEF EnCampo
  <2>9. NumeroCortado(e, tam)
    BY <2>1, <2>8 DEF NumeroCortado
  <2>10. QED
    BY <1>1, <1>4, <2>1, <2>2, <2>3, <2>6, <2>9
<1>8. QED
  BY <1>6, <1>7

LEMMA SalidosSiguen ==
  ASSUME UNCHANGED <<entrada, salida>>
  PROVE  \A n : Salidos(n)' = Salidos(n)
<1>1. /\ archivo' = archivo /\ buscada' = buscada /\ registros_leidos' = registros_leidos
      /\ retval' = retval
  BY DEF entrada, salida
<1>2. \A j : Registro(j)' = Registro(j)
  BY <1>1, TextosIguales
<1>3. ASSUME NEW n PROVE Salidos(n)' = Salidos(n)
  <2>1. Suyos(n)' = Suyos(n)
    BY <1>1 DEF Suyos
  <2>2. ASSUME NEW m, NEW s PROVE Elegido(m, s)' = Elegido(m, s)
    BY <1>1 DEF Elegido
  <2>3. [j \in 1..n |-> Registro(j)'] = [j \in 1..n |-> Registro(j)]
    BY <1>2
  <2>4. QED
    BY <1>1, <1>2, <2>1, <2>2, <2>3 DEF Salidos
<1>4. QED
  BY <1>3

\* What was cut goes on being read while nothing is put out.
LEMMA RotoSigue ==
  ASSUME EnBloques, UNCHANGED <<entrada, salida>>, NEW m, Roto(m), tam_bloque' = tam_bloque,
         NEW k \in 0..Quedan, AvanzarBloque(k),
         estado' \in {"timestamp", "key", "value"} => offset_campo' = 0
  PROVE  Roto(m)'
<1>1. /\ archivo' = archivo /\ buscada' = buscada /\ registros_leidos' = registros_leidos
  BY DEF entrada, salida
<1>2. Cortado(m)' = Cortado(m)
  BY CortadosIguales
<1>3. tam_total' = tam_total /\ \A j : Registro(j)' = Registro(j)
  BY <1>1, TextosIguales
<1>4. offset_total' + (tam_bloque' - offset_bloque') = offset_total + (tam_bloque - offset_bloque)
  <2>1. offset_total \in Nat /\ offset_bloque \in Nat /\ tam_bloque \in Nat /\ k \in Nat
    BY DEF EnBloques, Quedan
  <2>2. offset_total' = offset_total + k /\ offset_bloque' = offset_bloque + k
    BY DEF AvanzarBloque
  <2>3. QED
    BY <2>1, <2>2
<1>5. QED
  BY <1>1, <1>2, <1>3, <1>4 DEF Roto

\* If the machine goes on, there is a record to be read.
LEMMA HayRegistro ==
  ASSUME Fijos, Seguir, NEW i, Bien(i)
  PROVE  /\ i \in 1..Len(archivo) /\ Desde(i) \in Nat /\ Inicio(i) \in Nat
         /\ Inicio(i) = Desde(i) + TamTimestamp + TamKey + 2
         /\ Desde(i) + Tam(i) <= tam_total /\ Tam(i) \in Nat /\ Desde(i + 1) = Desde(i) + Tam(i)
         /\ Tam(i) = TamTimestamp + TamKey + 3 + archivo[i].largo
         /\ archivo[i].largo \in 1..TamanioValue /\ archivo[i].largo \in Nat
<1>1. i # Len(archivo) + 1
  <2>1. SUFFICES ASSUME i = Len(archivo) + 1 PROVE FALSE
    OBVIOUS
  <2>2. EnTimestamp(i)
    BY <2>1 DEF Bien
  <2>3. offset_total = Desde(i) + 0
    BY <2>1, <2>2 DEF EnTimestamp, EnCampo
  <2>4. Desde(i) = tam_total /\ tam_total \in Nat
    BY <2>1, BufferEs DEF Fijos
  <2>5. QED
    BY <2>3, <2>4 DEF Seguir
<1>2. i \in 1..Len(archivo)
  BY <1>1, Tamanios DEF Bien
<1>3. archivo[i].largo \in 1..TamanioValue /\ archivo[i].largo \in Nat
  <2>1. archivo[i].largo \in 1..TamanioValue
    BY <1>2, CamposSon DEF Fijos
  <2>2. QED
    BY <2>1
<1>4. Inicio(i) = Desde(i) + TamTimestamp + TamKey + 2
  BY DEF Inicio, Desde
<1>5. Desde(i) \in Nat /\ Desde(i + 1) = Desde(i) + Tam(i) /\ Desde(i) + Tam(i) <= tam_total
      /\ Tam(i) \in Nat
  BY <1>2, Lugares DEF Fijos
<1>6. Tam(i) = TamTimestamp + TamKey + 3 + archivo[i].largo
  BY DEF Tam
<1>7. Inicio(i) \in Nat
  BY <1>4, <1>5, Tamanios
<1>8. QED
  BY <1>2, <1>3, <1>4, <1>5, <1>6, <1>7

LEMMA LeerBloqueSigue ==
  ASSUME Inductivo, Seguir, LeerBloque
  PROVE  Inductivo'
<1>1. /\ Fijos /\ Tipos /\ EnBloques
  BY DEF Inductivo
<1>2. /\ estado = "leer" /\ bloques_leidos < CantidadBloques
      /\ bloques_leidos' = bloques_leidos + 1 /\ tam_bloque' = Len(Bloque(bloques_leidos + 1))
      /\ offset_bloque' = 0 /\ estado' = anterior
      /\ UNCHANGED <<entrada, anterior, offset_campo, offset_total, num_separador, auxiliares, registro,
                     salida>>
  BY DEF LeerBloque
<1>3. /\ archivo' = archivo /\ block_size' = block_size /\ anterior' = anterior
      /\ offset_campo' = offset_campo /\ offset_total' = offset_total
      /\ num_separador' = num_separador /\ aux_campo_leyendo' = aux_campo_leyendo
      /\ aux_value' = aux_value /\ registro' = registro /\ buscada' = buscada
      /\ es_unica' = es_unica /\ registros_leidos' = registros_leidos /\ retval' = retval
  BY <1>2 DEF entrada, auxiliares, salida
<1>4. /\ Buffer' = Buffer /\ tam_total' = tam_total /\ CantidadBloques' = CantidadBloques
      /\ \A i : Desde(i)' = Desde(i) /\ Inicio(i)' = Inicio(i) /\ EnBloque(i)' = EnBloque(i)
      /\ \A n : Salidos(n)' = Salidos(n)
  BY <1>2, <1>3, TextosIguales, CortadosIguales, SalidosSiguen
<1>5. Fijos'
  BY <1>1, <1>2, FijosSiguen
<1>6. bloques_leidos \in Nat /\ bloques_leidos' \in 0..CantidadBloques
  <2>1. CantidadBloques \in Int
    BY <1>1, BufferEs, Tamanios DEF Fijos, CantidadBloques
  <2>2. QED
    BY <1>1, <1>2, <2>1 DEF Tipos
<1>7. Tipos'
  BY <1>1, <1>2, <1>3, <1>4, <1>6 DEF Tipos, Estados
<1>8. /\ block_size \in Nat \ {0} /\ tam_total \in Nat /\ Buffer \in Seq(Bytes)
      /\ Len(Buffer) = tam_total /\ offset_total \in Nat /\ offset_total < tam_total
  BY <1>1, BufferEs, Tamanios DEF Fijos, EnBloques, Seguir
<1> DEFINE base == bloques_leidos * block_size
           m == Menor(base + block_size, tam_total)
<1>9. base \in Nat /\ (bloques_leidos + 1) * block_size = base + block_size
      /\ (bloques_leidos - 1) * block_size = base - block_size
  BY <1>6, <1>8
<1>10. offset_total = base
  <2>1. CASE bloques_leidos = 0
    BY <1>1, <1>8, <2>1 DEF EnBloques
  <2>2. CASE bloques_leidos > 0
    <3>1. /\ offset_total = (bloques_leidos - 1) * block_size + offset_bloque
          /\ (bloques_leidos - 1) * block_size + tam_bloque = Menor(base, tam_total)
          /\ offset_bloque = tam_bloque /\ tam_bloque \in Nat
      BY <1>1, <1>2, <2>2 DEF EnBloques
    <3> HIDE DEF base
    <3>2. offset_total = Menor(base, tam_total)
      BY <1>9, <3>1
    <3>3. QED
      BY <1>8, <1>9, <3>2 DEF Menor
  <2>3. QED
    BY <1>6, <2>1, <2>2
<1>11. Bloque(bloques_leidos + 1) = SubSeq(Buffer, base + 1, m)
  <2> DEFINE b == bloques_leidos + 1
  <2>1. b - 1 = bloques_leidos /\ b * block_size = base + block_size
    BY <1>6, <1>9
  <2> HIDE DEF b
  <2>2. Bloque(b) = SubSeq(Buffer, (b - 1) * block_size + 1, Menor(b * block_size, tam_total))
    BY DEF Bloque
  <2>3. (b - 1) * block_size = base
    BY <2>1
  <2> HIDE DEF base
  <2>4. Menor(b * block_size, tam_total) = m
    BY <2>1
  <2> HIDE DEF m
  <2>5. QED
    BY <2>2, <2>3, <2>4 DEF b
<1>12. bloques_leidos' - 1 = bloques_leidos /\ bloques_leidos' # 0
       /\ bloques_leidos' * block_size = base + block_size
  BY <1>2, <1>6, <1>9
<1> HIDE DEF base
<1>13. m \in Nat /\ base < m /\ m <= base + block_size /\ m <= tam_total
  BY <1>8, <1>9, <1>10 DEF Menor
<1> HIDE DEF m
<1>14. Len(SubSeq(Buffer, base + 1, m)) = m - base
  <2> DEFINE u == base + 1
  <2>1. \A p \in u..m : Buffer[p] \in Bytes
    BY <1>8, <1>9, <1>13
  <2>2. u \in Int /\ m \in Int /\ u <= m /\ m - u + 1 = m - base
    BY <1>9, <1>13
  <2> HIDE DEF u
  <2>3. Len(SubSeq(Buffer, u, m)) = IF u <= m THEN m - u + 1 ELSE 0
    BY <2>1, <2>2, SubSeqProperties
  <2>4. QED
    BY <2>2, <2>3 DEF u
<1>15. tam_bloque' = m - base
  BY <1>2, <1>11, <1>14
<1>16. EnBloques'
  <2>1. /\ offset_bloque' \in Nat /\ tam_bloque' \in Nat /\ offset_total' \in Nat
        /\ offset_bloque' <= tam_bloque' /\ tam_bloque' <= block_size'
    BY <1>2, <1>3, <1>8, <1>9, <1>13, <1>15
  <2>2. /\ offset_total' = (bloques_leidos' - 1) * block_size' + offset_bloque'
        /\ (bloques_leidos' - 1) * block_size' = base
    BY <1>2, <1>3, <1>9, <1>10, <1>12 DEF base
  <2>3. base + tam_bloque' = Menor(bloques_leidos' * block_size', tam_total')
    BY <1>3, <1>4, <1>9, <1>12, <1>13, <1>15 DEF m
  <2>4. estado' # "leer"
    BY <1>1, <1>2 DEF Tipos
  <2>5. QED
    BY <1>12, <2>1, <2>2, <2>3, <2>4 DEF EnBloques, Menor
<1>17. ASSUME NEW i, Bien(i) PROVE Bien(i)'
  <2>1. Campo' = Campo
    BY <1>1, <1>2 DEF Campo, Tipos
  <2>2. \A desde, tam : EnCampo(desde, tam)' = EnCampo(desde, tam)
    BY <1>3, <1>4 DEF EnCampo
  <2>3. ConTimestamp(i)' = ConTimestamp(i) /\ ConKey(i)' = ConKey(i)
    BY <1>3 DEF ConTimestamp, ConKey
  <2>4. EnTimestamp(i) => EnTimestamp(i)'
    BY <1>3, <1>4, <2>1, <2>2 DEF EnTimestamp
  <2>5. TrasTimestamp(i) => TrasTimestamp(i)'
    BY <1>3, <1>4, <2>1, <2>3 DEF TrasTimestamp
  <2>6. EnKey(i) => EnKey(i)'
    BY <1>3, <1>4, <2>1, <2>2, <2>3 DEF EnKey
  <2>7. TrasKey(i) => TrasKey(i)'
    BY <1>3, <1>4, <2>1, <2>3 DEF TrasKey
  <2>8. EnValue(i) => EnValue(i)'
    BY <1>2, <1>3, <1>4, <2>1, <2>2, <2>3 DEF EnValue
  <2>9. TrasValue(i) => TrasValue(i)'
    BY <1>3, <1>4, <2>1 DEF TrasValue
  <2>10. Escritos => Escritos'
    BY <1>3 DEF Escritos
  <2>11. QED
    BY <1>3, <1>4, <1>17, <2>4, <2>5, <2>6, <2>7, <2>8, <2>9, <2>10 DEF Bien, Leyendo
<1>18. ASSUME NEW i, Roto(i) PROVE FALSE
  BY <1>1, <1>2, <1>8, <1>18 DEF Roto, EnBloques
<1>19. QED
  BY <1>5, <1>7, <1>16, <1>17, <1>18 DEF Inductivo

LEMMA TimestampSigue ==
  ASSUME Inductivo, Seguir, LeerNumero("timestamp", TamTimestamp)
  PROVE  Inductivo'
<1>1. /\ Fijos /\ Tipos /\ EnBloques /\ TamTimestamp \in Nat \ {0} /\ TamTimestamp <= TamanioValue + 1
      /\ estado = "timestamp" /\ Campo = "timestamp"
  BY Tamanios DEF Inductivo, LeerNumero, Campo
<1>2. offset_campo < TamTimestamp
  <2>1. ASSUME NEW i, Bien(i) PROVE offset_campo < TamTimestamp
    BY <1>1, <2>1 DEF Bien, Leyendo, EnTimestamp, TrasTimestamp, EnKey, TrasKey, EnValue, TrasValue,
                      EnCampo
  <2>2. ASSUME NEW m, Roto(m) PROVE offset_campo < TamTimestamp
    BY <1>1, <2>2 DEF Roto
  <2>3. QED
    BY <2>1, <2>2 DEF Inductivo
<1>3. /\ Fijos' /\ Tipos' /\ EnBloques'
      /\ UNCHANGED <<entrada, bloque, num_separador, aux_value, salida>>
      /\ \E k \in 0..Quedan : AvanzarBloque(k)
      /\ NumeroLeido("timestamp", TamTimestamp) \/ NumeroCortado("timestamp", TamTimestamp)
  BY <1>1, <1>2, NumeroLee
<1>4. /\ archivo' = archivo /\ num_separador' = num_separador
      /\ tam_bloque' = tam_bloque
  BY <1>3 DEF entrada, bloque
<1>5. /\ \A i : Desde(i)' = Desde(i) /\ Inicio(i)' = Inicio(i)
      /\ \A n : Salidos(n)' = Salidos(n)
  BY <1>3, <1>4, TextosIguales, SalidosSiguen
<1>6. ASSUME NEW i, Bien(i) PROVE Bien(i)'
  <2>1. EnTimestamp(i) /\ Salidos(i - 1) /\ Escritos
    BY <1>1, <1>6 DEF Bien, Leyendo, TrasTimestamp, EnKey, TrasKey, EnValue, TrasValue
  <2>2. i \in 1..Len(archivo) /\ Desde(i) \in Nat /\ Tam(i) \in Nat
        /\ Tam(i) = TamTimestamp + TamKey + 3 + archivo[i].largo /\ archivo[i].largo \in Nat
    BY <1>1, <1>6, HayRegistro, Zenon
  <2>3. i # Len(archivo) + 1 /\ i \in 1..Len(archivo) + 1
    BY <1>1, <2>2, Tamanios
  <2>4. num_separador = 0 /\ EnCampo(Desde(i), TamTimestamp)
    BY <2>1 DEF EnTimestamp
  <2>5. CASE NumeroLeido("timestamp", TamTimestamp)
    <3>1. /\ estado' = "separador" /\ registro' = [registro EXCEPT !.timestamp = registro'.timestamp]
          /\ offset_total' = Desde(i) + TamTimestamp /\ Len(registro'.timestamp) = TamTimestamp
          /\ \A p \in 1..TamTimestamp : registro'.timestamp[p] = Buffer[Desde(i) + p]
      BY <2>2, <2>4, <2>5 DEF NumeroLeido
    <3> DEFINE s == BytesTimestamp(archivo[i].timestamp)
    <3>2. registro'.timestamp = s
      <4>1. s \in Seq(Bytes) /\ Len(s) = TamTimestamp
            /\ \A p \in 1..TamTimestamp : Texto(i)[p] = s[p]
        BY <1>1, <2>2, CamposSon, TextoEs DEF Fijos
      <4>2. registro'.timestamp \in Seq(Bytes)
        BY <1>3 DEF Tipos, Leible
      <4> HIDE DEF s
      <4>3. ASSUME NEW p \in 1..TamTimestamp PROVE registro'.timestamp[p] = s[p]
        <5>1. p \in 1..Tam(i)
          <6>1. TamTimestamp \in Nat /\ TamKey \in Nat /\ archivo[i].largo \in Nat
                /\ Tam(i) = TamTimestamp + TamKey + 3 + archivo[i].largo
            BY <1>1, <2>2, Tamanios
          <6>2. QED
            BY ONLY <6>1, p \in 1..TamTimestamp
        <5>2. Buffer[Desde(i) + p] = Texto(i)[p]
          BY <1>1, <2>2, <5>1, Lugares DEF Fijos
        <5>3. QED
          BY <3>1, <4>1, <5>2
      <4>4. QED
        BY <3>1, <4>1, <4>2, <4>3, SeqEqual
    <3>3. TrasTimestamp(i)'
      BY <1>4, <1>5, <2>4, <3>1, <3>2 DEF TrasTimestamp, ConTimestamp, Campo
    <3>4. Escritos'
      <4>1. archivo[i].timestamp \in Timestamps
        BY <1>1, <2>2, CamposSon DEF Fijos
      <4>2. registro'.key = registro.key
        BY <1>1, <3>1 DEF Tipos, Leible
      <4>3. QED
        BY <2>1, <3>2, <4>1, <4>2 DEF Escritos
    <3>5. QED
      BY <1>4, <1>5, <2>1, <2>3, <3>3, <3>4 DEF Bien, Leyendo
  <2>6. CASE NumeroCortado("timestamp", TamTimestamp)
    <3>1. /\ estado' = "leer" /\ anterior' = "timestamp" /\ registro' = registro
      BY <2>6 DEF NumeroCortado
    <3> PICK n \in Nat : n = Desde(i)
      BY <2>2
    <3>2. EnCampo(n, TamTimestamp)'
      <4>1. EnCampo(n, TamTimestamp)
        BY <2>4 DEF EnCampo
      <4>2. QED
        BY <2>6, <4>1 DEF NumeroCortado
    <3>3. EnCampo(Desde(i), TamTimestamp)'
      BY <1>5, <3>2 DEF EnCampo
    <3>4. EnTimestamp(i)'
      BY <1>4, <2>3, <2>4, <3>1, <3>3 DEF EnTimestamp, Campo
    <3>5. QED
      BY <1>4, <1>5, <2>1, <2>3, <3>1, <3>4 DEF Bien, Escritos
  <2>7. QED
    BY <1>3, <2>5, <2>6
<1>7. ASSUME NEW m, Roto(m) PROVE Roto(m)'
  <2>1. estado' \notin {"timestamp", "key", "value"}
    BY <1>3 DEF NumeroLeido, NumeroCortado
  <2>2. PICK k \in 0..Quedan : AvanzarBloque(k)
    BY <1>3
  <2>3. QED
    BY <1>1, <1>3, <1>4, <1>7, <2>1, <2>2, RotoSigue
<1>8. QED
  BY <1>3, <1>6, <1>7 DEF Inductivo

LEMMA KeySigue ==
  ASSUME Inductivo, Seguir, LeerNumero("key", TamKey)
  PROVE  Inductivo'
<1>1. /\ Fijos /\ Tipos /\ EnBloques /\ TamKey \in Nat \ {0} /\ TamKey <= TamanioValue + 1
      /\ TamTimestamp \in Nat /\ estado = "key" /\ Campo = "key"
  BY Tamanios DEF Inductivo, LeerNumero, Campo
<1>2. offset_campo < TamKey
  <2>1. ASSUME NEW i, Bien(i) PROVE offset_campo < TamKey
    BY <1>1, <2>1 DEF Bien, Leyendo, EnTimestamp, TrasTimestamp, EnKey, TrasKey, EnValue, TrasValue,
                      EnCampo
  <2>2. ASSUME NEW m, Roto(m) PROVE offset_campo < TamKey
    BY <1>1, <2>2 DEF Roto
  <2>3. QED
    BY <2>1, <2>2 DEF Inductivo
<1>3. /\ Fijos' /\ Tipos' /\ EnBloques'
      /\ UNCHANGED <<entrada, bloque, num_separador, aux_value, salida>>
      /\ \E k \in 0..Quedan : AvanzarBloque(k)
      /\ NumeroLeido("key", TamKey) \/ NumeroCortado("key", TamKey)
  BY <1>1, <1>2, NumeroLee
<1>4. /\ archivo' = archivo /\ num_separador' = num_separador
      /\ tam_bloque' = tam_bloque
  BY <1>3 DEF entrada, bloque
<1>5. /\ \A i : Desde(i)' = Desde(i) /\ Inicio(i)' = Inicio(i)
      /\ \A n : Salidos(n)' = Salidos(n)
  BY <1>3, <1>4, TextosIguales, SalidosSiguen
<1>6. ASSUME NEW i, Bien(i) PROVE Bien(i)'
  <2>1. EnKey(i) /\ Salidos(i - 1) /\ Escritos
    BY <1>1, <1>6 DEF Bien, Leyendo, EnTimestamp, TrasTimestamp, TrasKey, EnValue, TrasValue
  <2>2. i \in 1..Len(archivo) /\ Desde(i) \in Nat /\ Tam(i) \in Nat
        /\ Tam(i) = TamTimestamp + TamKey + 3 + archivo[i].largo /\ archivo[i].largo \in Nat
    BY <1>1, <1>6, HayRegistro, Zenon
  <2>3. i # Len(archivo) + 1 /\ i \in 1..Len(archivo) + 1
    BY <1>1, <2>2, Tamanios
  <2> DEFINE d == TamTimestamp + 1
             desde == Desde(i) + d
  <2>4. /\ num_separador = 1 /\ EnCampo(desde, TamKey) /\ ConTimestamp(i)
        /\ desde \in Nat /\ d \in Nat
    <3>1. Desde(i) + TamTimestamp + 1 = desde
      BY <1>1, <2>2
    <3>2. QED
      BY <1>1, <2>1, <2>2, <3>1 DEF EnKey
  <2>5. CASE NumeroLeido("key", TamKey)
    <3> HIDE DEF desde
    <3>1. /\ estado' = "separador" /\ registro' = [registro EXCEPT !.key = registro'.key]
          /\ offset_total' = desde + TamKey /\ Len(registro'.key) = TamKey
          /\ \A p \in 1..TamKey : registro'.key[p] = Buffer[desde + p]
      BY <2>4, <2>5 DEF NumeroLeido
    <3> DEFINE s == BytesKey(archivo[i].key)
    <3>2. registro'.key = s
      <4>1. s \in Seq(Bytes) /\ Len(s) = TamKey
            /\ \A p \in 1..TamKey : Texto(i)[TamTimestamp + 1 + p] = s[p]
        BY <1>1, <2>2, CamposSon, TextoEs DEF Fijos
      <4>2. registro'.key \in Seq(Bytes)
        BY <1>3 DEF Tipos, Leible
      <4> HIDE DEF s
      <4>3. ASSUME NEW p \in 1..TamKey PROVE registro'.key[p] = s[p]
        <5>1. d + p \in 1..Tam(i)
          <6>1. TamTimestamp \in Nat /\ TamKey \in Nat /\ archivo[i].largo \in Nat
                /\ Tam(i) = TamTimestamp + TamKey + 3 + archivo[i].largo
            BY <1>1, <2>2
          <6>2. QED
            BY ONLY <6>1, p \in 1..TamKey
        <5>2. desde + p = Desde(i) + (d + p)
          BY <1>1, <2>2 DEF desde
        <5>3. d + p = TamTimestamp + 1 + p
          BY <1>1
        <5> DEFINE q == d + p
        <5> HIDE DEF d
        <5>4. q \in 1..Tam(i)
          BY <5>1
        <5> HIDE DEF q
        <5>5. Buffer[Desde(i) + q] = Texto(i)[q]
          BY <1>1, <2>2, <5>4, Lugares DEF Fijos
        <5>6. Buffer[desde + p] = Texto(i)[TamTimestamp + 1 + p]
          BY <5>2, <5>3, <5>5 DEF q
        <5>7. QED
          BY <3>1, <4>1, <5>6
      <4>4. QED
        BY <3>1, <4>1, <4>2, <4>3, SeqEqual
    <3>3. offset_total' = Desde(i) + TamTimestamp + 1 + TamKey
      BY <1>1, <2>2, <3>1 DEF desde
    <3>4. registro'.timestamp = registro.timestamp
      BY <1>1, <3>1 DEF Tipos, Leible
    <3>5. TrasKey(i)'
      BY <1>4, <1>5, <2>4, <3>1, <3>2, <3>3, <3>4 DEF TrasKey, ConTimestamp, ConKey, Campo
    <3>6. Escritos'
      <4>1. archivo[i].key \in Keys
        BY <1>1, <2>2, CamposSon DEF Fijos
      <4>2. QED
        BY <2>1, <3>2, <3>4, <4>1 DEF Escritos
    <3>7. QED
      BY <1>4, <1>5, <2>1, <2>3, <3>5, <3>6 DEF Bien, Leyendo
  <2>6. CASE NumeroCortado("key", TamKey)
    <3>1. /\ estado' = "leer" /\ anterior' = "key" /\ registro' = registro
      BY <2>6 DEF NumeroCortado
    <3> HIDE DEF desde
    <3> PICK n \in Nat : n = desde
      BY <2>4
    <3>2. EnCampo(n, TamKey)'
      <4>1. EnCampo(n, TamKey)
        BY <2>4 DEF EnCampo
      <4>2. QED
        BY <2>6, <4>1 DEF NumeroCortado
    <3>3. Desde(i)' + TamTimestamp + 1 = n
      BY <1>1, <1>5, <2>2 DEF desde
    <3>4. EnCampo(Desde(i) + TamTimestamp + 1, TamKey)'
      BY <3>2, <3>3 DEF EnCampo
    <3>5. EnKey(i)'
      BY <1>4, <2>4, <3>1, <3>4 DEF EnKey, Campo, ConTimestamp
    <3>6. QED
      BY <1>4, <1>5, <2>1, <2>3, <3>1, <3>5 DEF Bien, Leyendo, Escritos
  <2>7. QED
    BY <1>3, <2>5, <2>6
<1>7. ASSUME NEW m, Roto(m) PROVE Roto(m)'
  <2>1. estado' \notin {"timestamp", "key", "value"}
    BY <1>3 DEF NumeroLeido, NumeroCortado
  <2>2. PICK k \in 0..Quedan : AvanzarBloque(k)
    BY <1>3
  <2>3. QED
    BY <1>1, <1>3, <1>4, <1>7, <2>1, <2>2, RotoSigue
<1>8. QED
  BY <1>3, <1>6, <1>7 DEF Inductivo

LEMMA SeparadorSigue ==
  ASSUME Inductivo, Seguir, LeerSeparador
  PROVE  Inductivo'
<1>1. /\ Fijos /\ Tipos /\ EnBloques /\ estado = "separador" /\ Campo = "separador"
      /\ TamTimestamp \in Nat \ {0} /\ TamKey \in Nat \ {0} /\ TamanioValue \in Nat \ {0}
      /\ UNCHANGED <<entrada, bloque, auxiliares, registro, salida>>
  BY Tamanios DEF Inductivo, LeerSeparador, Campo
<1>2. /\ archivo' = archivo /\ tam_bloque' = tam_bloque /\ bloques_leidos' = bloques_leidos
      /\ aux_campo_leyendo' = aux_campo_leyendo /\ aux_value' = aux_value /\ registro' = registro
      /\ buscada' = buscada /\ es_unica' = es_unica
      /\ registros_leidos' = registros_leidos /\ retval' = retval
  BY <1>1 DEF entrada, bloque, auxiliares, salida
<1>3. /\ \A i : Desde(i)' = Desde(i) /\ Inicio(i)' = Inicio(i)
      /\ \A n : Salidos(n)' = Salidos(n)
      /\ CantidadBloques' = CantidadBloques
  BY <1>1, <1>2, TextosIguales, CortadosIguales, SalidosSiguen
<1>4. Fijos'
  BY <1>1, FijosSiguen
<1>5. \A i : ConTimestamp(i)' = ConTimestamp(i) /\ ConKey(i)' = ConKey(i)
  BY <1>2 DEF ConTimestamp, ConKey
<1>6. Escritos' = Escritos
  BY <1>2 DEF Escritos
<1>7. /\ offset_bloque \in Nat /\ tam_bloque \in Nat /\ offset_total \in Nat
      /\ offset_bloque <= tam_bloque /\ Quedan \in Nat
  BY <1>1 DEF EnBloques, Quedan
<1>8. CASE Quedan = 0
  <2>1. /\ estado' = "leer" /\ anterior' = "separador" /\ offset_bloque' = offset_bloque
        /\ offset_campo' = offset_campo /\ offset_total' = offset_total
        /\ num_separador' = num_separador
    BY <1>1, <1>8 DEF LeerSeparador, Pasar, offsets
  <2>2. AvanzarBloque(0) /\ 0 \in 0..Quedan
    BY <1>7, <1>8, <2>1 DEF AvanzarBloque
  <2>3. EnBloques'
    BY <1>1, <1>8, <2>2, AvanzarSigue
  <2>4. Tipos'
    BY <1>1, <1>2, <1>3, <2>1 DEF Tipos, Estados
  <2>5. ASSUME NEW i, Bien(i) PROVE Bien(i)'
    <3>1. Campo' = "separador"
      BY <2>1 DEF Campo
    <3>2. TrasTimestamp(i) => TrasTimestamp(i)'
      BY <1>3, <1>5, <2>1, <3>1 DEF TrasTimestamp
    <3>3. TrasKey(i) => TrasKey(i)'
      BY <1>3, <1>5, <2>1, <3>1 DEF TrasKey
    <3>4. TrasValue(i) => TrasValue(i)'
      BY <1>2, <1>3, <2>1, <3>1 DEF TrasValue
    <3>5. ~EnTimestamp(i) /\ ~EnKey(i) /\ ~EnValue(i)
      BY <1>1 DEF EnTimestamp, EnKey, EnValue
    <3>6. QED
      BY <1>2, <1>3, <1>6, <2>5, <3>2, <3>3, <3>4, <3>5 DEF Bien, Leyendo
  <2>6. ASSUME NEW m, Roto(m) PROVE Roto(m)'
    BY <1>1, <1>2, <2>1, <2>2, <2>6, RotoSigue
  <2>7. QED
    BY <1>1, <1>4, <2>3, <2>4, <2>5, <2>6 DEF Inductivo
<1>9. CASE Quedan # 0
  <2>1. /\ AvanzarBloque(1) /\ offset_campo' = 0 /\ num_separador' = (num_separador + 1) % 3
        /\ estado' = CASE num_separador = 0 -> "key" [] num_separador = 1 -> "value"
                       [] OTHER -> "timestamp"
        /\ anterior' = "separador"
    BY <1>1, <1>9 DEF LeerSeparador, Pasar
  <2>2. /\ num_separador = 0 => num_separador' = 1 /\ estado' = "key"
        /\ num_separador = 1 => num_separador' = 2 /\ estado' = "value"
        /\ num_separador = 2 => num_separador' = 0 /\ estado' = "timestamp"
    BY <2>1
  <2>3. num_separador \in 0..2
    BY <1>1 DEF Tipos
  <2>4. estado' \in {"key", "value", "timestamp"} /\ num_separador' \in 0..2 /\ Campo' = estado'
    BY <2>2, <2>3 DEF Campo
  <2>5. 1 \in 0..Quedan
    BY <1>7, <1>9
  <2>6. EnBloques'
    BY <1>1, <2>1, <2>4, <2>5, AvanzarSigue
  <2>7. Tipos'
    BY <1>1, <1>2, <1>3, <2>1, <2>4 DEF Tipos, Estados, Posiciones
  <2>8. offset_total' = offset_total + 1
    BY <2>1 DEF AvanzarBloque
  <2>9. ASSUME NEW i, Bien(i) PROVE \E j : Bien(j)'
    <3>1. /\ i \in 1..Len(archivo) /\ Len(archivo) \in Nat
          /\ Desde(i) \in Nat /\ Inicio(i) \in Nat
          /\ Inicio(i) = Desde(i) + TamTimestamp + TamKey + 2
          /\ Desde(i + 1) = Desde(i) + Tam(i)
          /\ Tam(i) = TamTimestamp + TamKey + 3 + archivo[i].largo
          /\ archivo[i].largo \in 1..TamanioValue
      BY <1>1, <2>9, HayRegistro, Tamanios
    <3>2. /\ i # Len(archivo) + 1 /\ i \in 1..Len(archivo) + 1 /\ i + 1 \in 1..Len(archivo) + 1
          /\ i + 1 - 1 = i
      BY <3>1
    <3>3. Escritos /\ (TrasTimestamp(i) \/ TrasKey(i) => Salidos(i - 1)) /\ (TrasValue(i) => Salidos(i))
      <4>1. TrasTimestamp(i) \/ TrasKey(i) => ~TrasValue(i)
        BY DEF TrasTimestamp, TrasKey, TrasValue
      <4>2. ~EnTimestamp(i)
        BY <1>1 DEF EnTimestamp
      <4>3. TrasValue(i) => ~Leyendo(i)
        BY <1>1 DEF TrasTimestamp, TrasKey, TrasValue, Leyendo, EnKey, EnValue
      <4>4. QED
        BY <2>9, <4>1, <4>2, <4>3 DEF Bien
    <3>4. CASE TrasTimestamp(i)
      <4>1. num_separador = 0 /\ offset_total = Desde(i) + TamTimestamp /\ ConTimestamp(i)
        BY <3>4 DEF TrasTimestamp
      <4>2. EnCampo(Desde(i) + TamTimestamp + 1, TamKey)'
        <5>1. offset_total' = Desde(i)' + TamTimestamp + 1 + offset_campo'
          <6>1. offset_total + 1 = Desde(i) + TamTimestamp + 1 /\ Desde(i) \in Nat
            BY <1>1, <3>1, <4>1
          <6>2. Desde(i)' = Desde(i) /\ offset_campo' = 0
            BY <1>3, <2>1
          <6>3. QED
            BY <1>1, <2>8, <6>1, <6>2
        <5>2. QED
          BY <1>1, <2>1, <5>1 DEF EnCampo
      <4>3. EnKey(i)'
        BY <1>5, <2>2, <2>4, <4>1, <4>2 DEF EnKey
      <4>4. Bien(i)'
        BY <1>2, <1>3, <1>6, <3>2, <3>3, <3>4, <4>3 DEF Bien, Leyendo
      <4>5. QED
        BY <4>4
    <3>5. CASE TrasKey(i)
      <4>1. /\ num_separador = 1 /\ offset_total = Desde(i) + TamTimestamp + 1 + TamKey
            /\ ConTimestamp(i) /\ ConKey(i)
        BY <3>5 DEF TrasKey
      <4>2. EnCampo(Inicio(i), TamanioValue)'
        <5>1. offset_total' = Inicio(i)' + offset_campo'
          <6>1. offset_total + 1 = Inicio(i) /\ Inicio(i) \in Nat
            <7>1. /\ offset_total = Desde(i) + TamTimestamp + 1 + TamKey
                  /\ Inicio(i) = Desde(i) + TamTimestamp + TamKey + 2
                  /\ Desde(i) \in Nat /\ TamTimestamp \in Nat /\ TamKey \in Nat /\ Inicio(i) \in Nat
              BY <1>1, <3>1, <4>1
            <7>2. QED
              BY ONLY <7>1
          <6>2. Inicio(i)' = Inicio(i) /\ offset_campo' = 0
            BY <1>3, <2>1
          <6>3. QED
            BY <1>1, <2>8, <6>1, <6>2
        <5>2. QED
          BY <1>1, <2>1, <5>1 DEF EnCampo
      <4>3. /\ offset_campo' <= archivo'[i].largo /\ ~(offset_campo' > 0)
            /\ \A p \in 0..offset_campo' - 1 : aux_value'[p] # BarraN
        BY <1>2, <2>1, <3>1
      <4>4. EnValue(i)'
        BY <1>5, <2>2, <2>4, <4>1, <4>2, <4>3 DEF EnValue
      <4>5. Bien(i)'
        BY <1>2, <1>3, <1>6, <3>2, <3>3, <3>5, <4>4 DEF Bien, Leyendo
      <4>6. QED
        BY <4>5
    <3>6. CASE TrasValue(i)
      <4>1. num_separador = 2 /\ offset_total = Inicio(i) + archivo[i].largo
        BY <3>6 DEF TrasValue
      <4>2. EnCampo(Desde(i + 1), TamTimestamp)'
        <5>1. offset_total' = Desde(i + 1)' + offset_campo'
          <6>1. offset_total + 1 = Desde(i + 1) /\ Desde(i + 1) \in Nat
            <7>1. /\ offset_total = Desde(i) + TamTimestamp + TamKey + 2 + archivo[i].largo
                  /\ Desde(i + 1) = Desde(i) + (TamTimestamp + TamKey + 3 + archivo[i].largo)
                  /\ Desde(i) \in Nat /\ TamTimestamp \in Nat /\ TamKey \in Nat
                  /\ archivo[i].largo \in Nat
              <8>1. offset_total = Inicio(i) + archivo[i].largo
                BY <4>1
              <8>2. Inicio(i) = Desde(i) + TamTimestamp + TamKey + 2 /\ archivo[i].largo \in Nat
                BY <3>1
              <8>3. Desde(i) \in Nat /\ TamTimestamp \in Nat /\ TamKey \in Nat
                BY <1>1, <3>1
              <8>4. QED
                BY <3>1, <8>1, <8>2, <8>3
            <7>2. QED
              BY ONLY <7>1
          <6>2. Desde(i + 1)' = Desde(i + 1) /\ offset_campo' = 0
            BY <1>3, <2>1
          <6>3. QED
            BY <1>1, <2>8, <6>1, <6>2
        <5>2. QED
          BY <1>1, <2>1, <5>1 DEF EnCampo
      <4>3. EnTimestamp(i + 1)'
        BY <2>1, <2>2, <2>4, <4>1, <4>2 DEF EnTimestamp
      <4> DEFINE j == i + 1
      <4>4. j \in 1..Len(archivo') + 1 /\ EnTimestamp(j)' /\ Salidos(j - 1)'
        BY <1>2, <1>3, <3>2, <3>3, <3>6, <4>3
      <4>5. Bien(j)'
        BY <1>6, <3>3, <4>4 DEF Bien
      <4>6. QED
        BY <4>5
    <3>7. QED
      BY <1>1, <2>9, <3>4, <3>5, <3>6
        DEF Bien, Leyendo, EnTimestamp, EnKey, EnValue
  <2>10. ASSUME NEW m, Roto(m) PROVE Roto(m)'
    BY <1>1, <1>2, <2>1, <2>5, <2>10, RotoSigue
  <2>11. QED
    BY <1>4, <2>6, <2>7, <2>9, <2>10 DEF Inductivo
<1>10. QED
  BY <1>8, <1>9

\* The bytes of a value, which none of them ends, and its \n.
LEMMA ValorEs ==
  ASSUME Fijos, NEW i \in 1..Len(archivo)
  PROVE  /\ Inicio(i) \in Nat /\ archivo[i].largo \in 1..TamanioValue
         /\ Inicio(i) + archivo[i].largo + 1 <= tam_total
         /\ \A p \in 0..archivo[i].largo - 1 :
              /\ Buffer[Inicio(i) + p + 1] = BytesValue(i)[p + 1]
              /\ Buffer[Inicio(i) + p + 1] # BarraN /\ Buffer[Inicio(i) + p + 1] # Nulo
         /\ Buffer[Inicio(i) + archivo[i].largo + 1] = BarraN
<1> DEFINE L == archivo[i].largo
           d == TamTimestamp + TamKey + 2
<1>1. L \in 1..TamanioValue
  BY CamposSon DEF Fijos
<1>2. /\ Desde(i) \in Nat /\ Desde(i) + Tam(i) <= tam_total /\ Tam(i) \in Nat
      /\ \A p \in 1..Tam(i) : Buffer[Desde(i) + p] = Texto(i)[p]
  BY Lugares DEF Fijos
<1>3. /\ \A p \in 1..L : Texto(i)[d + p] = BytesValue(i)[p]
      /\ Texto(i)[Tam(i)] = BarraN
  BY TextoEs DEF Fijos
<1>4. TamTimestamp \in Nat /\ TamKey \in Nat /\ TamanioValue \in Nat
  BY Tamanios
<1>5. d \in Nat
  BY <1>4
<1>6. Tam(i) = d + 1 + L
  BY <1>1, <1>4 DEF Tam
<1>7. Inicio(i) = Desde(i) + d
  <2>1. Inicio(i) = Desde(i) + TamTimestamp + TamKey + 2
    BY DEF Inicio, Desde
  <2>2. QED
    BY <1>2, <1>4, <2>1
<1>8. BytesValue(i) = [p \in 1..L |-> <<"value", i, p>>]
  BY DEF BytesValue
<1> HIDE DEF L, d
<1>9. L \in Nat /\ tam_total \in Nat /\ L >= 1
  BY <1>1, BufferEs DEF Fijos
<1> DEFINE D == Desde(i)
<1>a. /\ D \in Nat /\ d \in Nat /\ L \in Nat /\ L >= 1 /\ tam_total \in Nat /\ D = Desde(i)
       /\ D + (d + 1 + L) <= tam_total /\ Inicio(i) = D + d /\ Tam(i) = d + 1 + L
  BY <1>2, <1>5, <1>6, <1>7, <1>9
<1> HIDE DEF D
<1>10. Inicio(i) \in Nat /\ Inicio(i) + L + 1 <= tam_total
  BY ONLY <1>a
<1>11. ASSUME NEW p \in 0..L - 1
       PROVE  /\ Buffer[Inicio(i) + p + 1] = BytesValue(i)[p + 1]
              /\ Buffer[Inicio(i) + p + 1] # BarraN /\ Buffer[Inicio(i) + p + 1] # Nulo
  <2> DEFINE r == p + 1
  <2>1. r \in 1..L
    BY <1>9
  <2>2. Inicio(i) + p + 1 = Desde(i) + (d + r)
    BY ONLY <1>a, p \in 0..L - 1
  <2>3. d + r \in 1..Tam(i)
    BY <1>5, <1>6, <1>9
  <2> HIDE DEF r
  <2>4. Buffer[Inicio(i) + p + 1] = BytesValue(i)[r]
    BY <1>2, <1>3, <2>1, <2>2, <2>3
  <2>5. BytesValue(i)[r] = <<"value", i, r>>
    BY <1>8, <2>1
  <2>6. <<"value", i, r>> # BarraN /\ <<"value", i, r>> # Nulo
    BY DEF BarraN, Nulo
  <2>7. QED
    BY <2>4, <2>5, <2>6 DEF r
<1>12. Buffer[Inicio(i) + L + 1] = BarraN
  <2>1. Inicio(i) + L + 1 = Desde(i) + Tam(i) /\ Tam(i) \in 1..Tam(i)
    BY ONLY <1>a
  <2>2. QED
    BY <1>2, <1>3, <2>1
<1>13. QED
  BY <1>1, <1>10, <1>11, <1>12 DEF L

\* how many bytes are read of a value
Leer == IF ValueEntra THEN TamanioValue - offset_campo ELSE Quedan

\* What is in the buffers after a value is read.
LEMMA ValueLeidoEs ==
  ASSUME Fijos, Tipos, EnBloques, LeerValue
  PROVE  /\ estado = "value" /\ bloques_leidos > 0
         /\ Leer \in 0..Quedan /\ Quedan \in Nat /\ offset_campo \in Nat
         /\ offset_campo + Leer \in Posiciones /\ offset_total + Leer <= tam_total
         /\ aux_campo_leyendo' \in [Posiciones -> Bytes] /\ aux_value' \in [Posiciones -> Bytes]
         /\ \A p \in Posiciones :
              aux_campo_leyendo'[p] = IF offset_campo <= p /\ p < offset_campo + Leer
                                      THEN Buffer[offset_total + (p - offset_campo) + 1]
                                      ELSE aux_campo_leyendo[p]
         /\ aux_value'[offset_campo + Leer] = Nulo
         /\ ValueEntra => /\ offset_campo + Leer = TamanioValue
                          /\ \A p \in 0..TamanioValue - 1 : aux_value'[p] = aux_campo_leyendo'[p]
         /\ ~ValueEntra => /\ Leer = Quedan /\ offset_campo + Quedan < TamanioValue
                           /\ \A p \in 0..Quedan - 1 : aux_value'[p] = aux_campo_leyendo'[p]
                           /\ \A p \in Quedan..offset_campo + Quedan - 1 : aux_value'[p] = aux_value[p]
<1>1. estado = "value" /\ bloques_leidos > 0
  <2>1. estado = "value"
    BY DEF LeerValue
  <2>2. QED
    BY <2>1, HayBloque
<1>2. aux_campo_leyendo' = Leidos(Leer) /\ aux_value' = ValueLeido
  BY DEF LeerValue, Leer
<1>3. /\ offset_campo \in 0..TamanioValue /\ TamanioValue \in Nat /\ Posiciones = 0..TamanioValue
      /\ aux_value \in [Posiciones -> Bytes]
  BY Tamanios DEF Tipos, Posiciones
<1>4. Quedan \in Nat
  BY DEF Quedan, EnBloques
<1>5. /\ ValueEntra <=> TamanioValue - offset_campo <= Quedan
      /\ Leer = IF ValueEntra THEN TamanioValue - offset_campo ELSE Quedan
  BY DEF ValueEntra, Leer
<1>6. /\ Leer \in 0..Quedan /\ offset_campo + Leer \in Posiciones
      /\ ValueEntra => offset_campo + Leer = TamanioValue
      /\ ~ValueEntra => Leer = Quedan /\ offset_campo + Quedan < TamanioValue
  BY <1>3, <1>4, <1>5
<1>7. /\ Leidos(Leer) \in [Posiciones -> Bytes]
      /\ \A p \in Posiciones :
           Leidos(Leer)[p] = IF offset_campo <= p /\ p < offset_campo + Leer
                             THEN Buffer[offset_total + (p - offset_campo) + 1]
                             ELSE aux_campo_leyendo[p]
      /\ offset_total + Leer <= tam_total
  <2> DEFINE k == Leer
  <2>1. k \in 0..Quedan
    BY <1>6
  <2> HIDE DEF k
  <2>2. /\ Leidos(k) \in [Posiciones -> Bytes]
        /\ \A p \in Posiciones :
             Leidos(k)[p] = IF offset_campo <= p /\ p < offset_campo + k
                            THEN Buffer[offset_total + (p - offset_campo) + 1]
                            ELSE aux_campo_leyendo[p]
        /\ offset_total + k <= tam_total
    BY <1>1, <2>1, LeidosEs
  <2>3. QED
    BY <2>2 DEF k
<1> DEFINE a == aux_campo_leyendo'
<1>8. a \in [Posiciones -> Bytes]
  BY <1>2, <1>7
<1>9. Nulo \in Bytes
  BY BytesEs
<1>10. CASE ValueEntra
  <2> DEFINE u == Primeros(a, TamanioValue)
             w == Append(u, Nulo)
  <2>1. aux_value' = Copiar(aux_value, 0, w)
    BY <1>2, <1>10 DEF ValueLeido
  <2> HIDE DEF a
  <2>2. u \in Seq(Bytes) /\ Len(u) = TamanioValue /\ \A p \in 1..TamanioValue : u[p] = a[p - 1]
    <3>1. TamanioValue \in 0..TamanioValue + 1
      BY <1>3
    <3>2. QED
      BY <1>8, <3>1, PrimerosEs
  <2> HIDE DEF u
  <2>3. /\ w \in Seq(Bytes) /\ Len(w) = TamanioValue + 1 /\ w[TamanioValue + 1] = Nulo
        /\ \A p \in 1..TamanioValue : w[p] = u[p]
    BY <1>3, <1>9, <2>2, AppendProperties
  <2> HIDE DEF w
  <2>4. /\ aux_value' \in [Posiciones -> Bytes]
        /\ \A p \in Posiciones :
             aux_value'[p] = IF p - 0 + 1 \in 1..TamanioValue + 1 THEN w[p - 0 + 1] ELSE aux_value[p]
    <3>1. aux_value \in [Posiciones -> Bytes] /\ w \in Seq(Bytes) /\ 0 \in Int
      BY <1>3, <2>3
    <3>2. /\ Copiar(aux_value, 0, w) \in [Posiciones -> Bytes]
          /\ \A p \in Posiciones : Copiar(aux_value, 0, w)[p] =
               IF p - 0 + 1 \in 1..Len(w) THEN w[p - 0 + 1] ELSE aux_value[p]
      BY ONLY <3>1, CopiarEs
    <3>3. QED
      BY <2>1, <2>3, <3>2
  <2>5. ASSUME NEW p \in 0..TamanioValue - 1 PROVE aux_value'[p] = a[p]
    <3>1. p \in Posiciones /\ p - 0 + 1 = p + 1 /\ p + 1 \in 1..TamanioValue /\ p + 1 - 1 = p
          /\ p + 1 \in 1..TamanioValue + 1
      BY <1>3
    <3>2. QED
      BY <2>2, <2>3, <2>4, <3>1
  <2>6. aux_value'[TamanioValue] = Nulo
    <3>1. TamanioValue \in Posiciones /\ TamanioValue - 0 + 1 = TamanioValue + 1
          /\ TamanioValue + 1 \in 1..TamanioValue + 1
      BY <1>3
    <3>2. QED
      BY <2>3, <2>4, <3>1
  <2>7. QED
    BY <1>1, <1>2, <1>3, <1>4, <1>6, <1>7, <1>10, <2>4, <2>5, <2>6 DEF a
<1>11. CASE ~ValueEntra
  <2> DEFINE q == Quedan
             u == Primeros(a, q)
             v == Copiar(aux_value, 0, u)
             e == offset_campo + q
             w == <<Nulo>>
  <2>1. aux_value' = Copiar(v, e, w)
    BY <1>2, <1>11 DEF ValueLeido
  <2>2. q \in Nat /\ e \in Posiciones /\ q <= e /\ e < TamanioValue /\ e \in Nat
    BY <1>3, <1>4, <1>6, <1>11
  <2> HIDE DEF a, q
  <2>3. u \in Seq(Bytes) /\ Len(u) = q /\ \A p \in 1..q : u[p] = a[p - 1]
    <3>1. q \in 0..TamanioValue + 1
      BY <1>3, <2>2
    <3>2. QED
      BY <1>8, <3>1, PrimerosEs
  <2> HIDE DEF u
  <2>4. /\ v \in [Posiciones -> Bytes]
        /\ \A p \in Posiciones : v[p] = IF p - 0 + 1 \in 1..q THEN u[p - 0 + 1] ELSE aux_value[p]
    BY <1>3, <2>3, CopiarEs
  <2> HIDE DEF v, e
  <2>5. w \in Seq(Bytes) /\ Len(w) = 1 /\ w[1] = Nulo
    BY <1>9
  <2> HIDE DEF w
  <2>6. /\ aux_value' \in [Posiciones -> Bytes]
        /\ \A p \in Posiciones :
             aux_value'[p] = IF p - e + 1 \in 1..1 THEN w[p - e + 1] ELSE v[p]
    <3>1. v \in [Posiciones -> Bytes] /\ w \in Seq(Bytes) /\ e \in Int
      BY <2>2, <2>4, <2>5
    <3>2. /\ Copiar(v, e, w) \in [Posiciones -> Bytes]
          /\ \A p \in Posiciones :
               Copiar(v, e, w)[p] = IF p - e + 1 \in 1..Len(w) THEN w[p - e + 1] ELSE v[p]
      BY ONLY <3>1, CopiarEs
    <3>3. QED
      BY <2>1, <2>5, <3>2
  <2>7. aux_value'[e] = Nulo
    <3>1. e - e + 1 = 1
      BY <2>2
    <3>2. QED
      BY <2>2, <2>5, <2>6, <3>1
  <2>8. ASSUME NEW p \in 0..q - 1 PROVE aux_value'[p] = a[p]
    <3>1. p \in Posiciones /\ p - 0 + 1 = p + 1 /\ p + 1 \in 1..q /\ p + 1 - 1 = p
          /\ ~(p - e + 1 \in 1..1)
      BY <1>3, <2>2
    <3>2. QED
      BY <2>3, <2>4, <2>6, <3>1
  <2>9. ASSUME NEW p \in q..e - 1 PROVE aux_value'[p] = aux_value[p]
    <3>1. p \in Posiciones /\ ~(p - 0 + 1 \in 1..q) /\ ~(p - e + 1 \in 1..1)
      BY <1>3, <2>2
    <3>2. QED
      BY <2>4, <2>6, <3>1
  <2>10. QED
    BY <1>1, <1>2, <1>3, <1>4, <1>6, <1>7, <1>11, <2>6, <2>7, <2>8, <2>9 DEF a, e, q
<1>12. QED
  BY <1>10, <1>11

-----------------------------------------------------------------------------
(* What is put out.                                                        *)

LEMMA NumeroDeEs ==
  ASSUME NEW t \in Timestamps
  PROVE  NumeroDe(BytesTimestamp(t)) = t
<1> DEFINE De(u) == BytesTimestamp(t) = BytesTimestamp(u)
           n == CHOOSE u \in Timestamps : De(u)
<1>1. NumeroDe(BytesTimestamp(t)) = n
  BY DEF NumeroDe
<1>2. n \in Timestamps /\ De(n)
  <2>1. De(t)
    BY Zenon
  <2> HIDE DEF De
  <2>2. QED
    BY <2>1, Zenon
<1>3. BytesTimestamp(t) = BytesTimestamp(n)
  BY <1>2, Zenon
<1> HIDE DEF n, De
<1>4. 1 \in 1..TamTimestamp
  BY LecturaAssumption
<1>5. BytesTimestamp(t)[1] = <<"timestamp", t, 1>> /\ BytesTimestamp(n)[1] = <<"timestamp", n, 1>>
  BY <1>4 DEF BytesTimestamp
<1>6. t = n
  BY <1>3, <1>5
<1>7. QED
  BY <1>1, <1>6

LEMMA BytesKeyUnica ==
  ASSUME NEW k, NEW l, BytesKey(k) = BytesKey(l)
  PROVE  k = l
<1>1. 1 \in 1..TamKey
  BY LecturaAssumption
<1>2. BytesKey(k)[1] = <<"key", k, 1>> /\ BytesKey(l)[1] = <<"key", l, 1>>
  BY <1>1 DEF BytesKey
<1>3. QED
  BY <1>2

LEMMA RegistroEs ==
  ASSUME Fijos, NEW i \in 1..Len(archivo)
  PROVE  /\ Registro(i) \in Leible /\ Registro(i) # Vacio /\ Registro(i).value # << >>
         /\ Registro(i).key = BytesKey(archivo[i].key)
         /\ Registro(i).timestamp = BytesTimestamp(archivo[i].timestamp)
         /\ NumeroDe(Registro(i).timestamp) = archivo[i].timestamp
         /\ archivo[i].timestamp \in Nat /\ archivo[i].key \in Keys
<1>1. /\ BytesTimestamp(archivo[i].timestamp) \in Seq(Bytes)
      /\ BytesKey(archivo[i].key) \in Seq(Bytes)
      /\ BytesValue(i) \in Seq(Bytes) /\ Len(BytesValue(i)) = archivo[i].largo
      /\ archivo[i].timestamp \in Timestamps /\ archivo[i].key \in Keys
      /\ archivo[i].largo \in 1..TamanioValue
  BY CamposSon DEF Fijos
<1>2. BytesValue(i) # << >>
  BY <1>1
<1>3. Registro(i) \in Leible
  BY <1>1 DEF Registro, Leible
<1>4. Registro(i) # Vacio
  BY <1>2 DEF Registro, Vacio
<1>5. archivo[i].timestamp \in Nat
  BY <1>1, LecturaAssumption
<1>6. QED
  BY <1>1, <1>2, <1>3, <1>4, <1>5, NumeroDeEs DEF Registro

LEMMA AgregarSigue ==
  ASSUME Fijos, Tipos, UNCHANGED entrada, NEW i \in 1..Len(archivo), Salidos(i - 1),
         Agregar(Registro(i))
  PROVE  /\ Salidos(i)'
         /\ estado' \in {"separador", "fin"} /\ anterior' = estado
         /\ estado' = "fin" => es_unica /\ archivo[i].key = buscada
         /\ buscada = Todas => registros_leidos' = Append(registros_leidos, Registro(i))
<1>1. archivo' = archivo /\ buscada' = buscada /\ es_unica' = es_unica
  BY DEF entrada
<1>2. \A j : Registro(j)' = Registro(j)
  BY <1>1, TextosIguales
<1>3. Suyos(i)' = Suyos(i)
  BY <1>1 DEF Suyos
<1>4. \A m, s : Elegido(m, s)' = Elegido(m, s)
  BY <1>1 DEF Elegido
<1>5. CASE buscada = Todas
  <2>1. registros_leidos' = Append(registros_leidos, Registro(i)) /\ estado' = "separador"
        /\ anterior' = estado
    BY <1>5 DEF Agregar, Pasar
  <2>2. registros_leidos = [j \in 1..i - 1 |-> Registro(j)]
    BY <1>5 DEF Salidos
  <2> DEFINE r == registros_leidos
  <2>3. r \in Seq(Leible) /\ Registro(i) \in Leible
    BY RegistroEs DEF Tipos
  <2>4. Len(r) = i - 1 /\ i \in Nat /\ i >= 1
    BY <2>2
  <2> HIDE DEF r
  <2>5. /\ Append(r, Registro(i)) \in Seq(Leible) /\ Len(Append(r, Registro(i))) = Len(r) + 1
        /\ \A j \in 1..Len(r) : Append(r, Registro(i))[j] = r[j]
        /\ Append(r, Registro(i))[Len(r) + 1] = Registro(i)
    BY <2>3, AppendProperties
  <2> DEFINE a == Append(r, Registro(i))
  <2>6. DOMAIN a = 1..i /\ a = [j \in 1..i |-> a[j]]
    <3>1. a \in Seq(Leible) /\ Len(a) = i
      BY <2>4, <2>5
    <3> HIDE DEF a
    <3>2. QED
      BY <3>1
  <2>7. \A j \in 1..i : a[j] = Registro(j)
    <3>1. ASSUME NEW j \in 1..i PROVE a[j] = Registro(j)
      <4>1. CASE j = i
        BY <2>4, <2>5, <4>1
      <4>2. CASE j # i
        <5>1. j \in 1..i - 1 /\ j \in 1..Len(r)
          BY <2>4, <4>2
        <5>2. QED
          BY <2>2, <2>5, <5>1 DEF r
      <4>3. QED
        BY <4>1, <4>2
    <3>2. QED
      BY <3>1
  <2>8. a = [j \in 1..i |-> Registro(j)]
    <3> HIDE DEF a
    <3>1. QED
      BY <2>6, <2>7
  <2>9. registros_leidos' = [j \in 1..i |-> Registro(j)']
    BY <1>2, <2>1, <2>8 DEF r
  <2>10. Salidos(i)'
    BY <1>1, <1>5, <2>9 DEF Salidos
  <2>11. QED
    BY <1>5, <2>1, <2>10
<1>6. CASE buscada # Todas
  <2> DEFINE k == archivo[i].key
  <2>1. /\ retval' = IF BytesKey(k) = BytesKey(buscada) /\ (es_unica \/ MasNuevo(Registro(i)))
                     THEN Registro(i) ELSE retval
        /\ estado' = IF BytesKey(k) = BytesKey(buscada) /\ es_unica THEN "fin" ELSE "separador"
        /\ anterior' = estado
    BY <1>6, RegistroEs DEF Agregar, Pasar
  <2>2. BytesKey(k) = BytesKey(buscada) <=> k = buscada
    BY BytesKeyUnica
  <2>3. /\ i \in Nat /\ Len(archivo) \in Nat
        /\ \A j \in 1..Len(archivo) : archivo[j].timestamp \in Nat
    BY RegistroEs DEF Fijos
  <2> DEFINE T(j) == archivo[j].timestamp
             viejos == Suyos(i - 1)
             todos == Suyos(i)
  <2>4. \A j \in 1..i : j \in 1..Len(archivo) /\ T(j) \in Nat
    BY <2>3
  <2>5. /\ \A j : j \in viejos <=> j \in 1..i - 1 /\ archivo[j].key = buscada
        /\ \A j : j \in todos <=> j \in 1..i /\ archivo[j].key = buscada
    BY DEF Suyos
  <2>6. /\ \A m, s : Elegido(m, s) <=> \A j \in s : T(m) >= T(j) /\ (T(m) = T(j) => m <= j)
    BY DEF Elegido
  <2>7. IF viejos = {} THEN retval = Vacio
        ELSE \E m \in viejos : retval = Registro(m) /\ Elegido(m, viejos)
    BY <1>6 DEF Salidos
  <2>8. SUFFICES IF todos = {} THEN retval' = Vacio
                 ELSE \E m \in todos : retval' = Registro(m) /\ Elegido(m, todos)
    <3>1. IF Suyos(i)' = {} THEN retval' = Vacio
          ELSE \E m \in Suyos(i)' : retval' = Registro(m)' /\ Elegido(m, Suyos(i))'
      BY <1>2, <1>3, <1>4, <2>8
    <3>2. Salidos(i)'
      BY <1>1, <1>6, <3>1 DEF Salidos
    <3>3. QED
      BY <1>6, <2>1, <2>2, <3>2
  <2> HIDE DEF T, viejos, todos
  <2>9. CASE k # buscada
    <3>1. retval' = retval
      BY <2>1, <2>2, <2>9
    <3>2. todos = viejos
      <4>1. \A j : j \in todos <=> j \in viejos
        BY <2>3, <2>5, <2>9
      <4>2. QED
        BY <4>1
    <3>3. QED
      BY <2>7, <3>1, <3>2
  <2>10. CASE k = buscada /\ viejos = {}
    <3>1. retval' = Registro(i)
      BY <2>1, <2>2, <2>7, <2>10 DEF MasNuevo
    <3>2. i \in todos /\ \A j \in todos : j = i
      BY <2>3, <2>5, <2>10
    <3>3. Elegido(i, todos)
      <4>1. T(i) \in Nat
        BY <2>4, <3>2, <2>5
      <4>2. \A j \in todos : T(i) >= T(j) /\ (T(i) = T(j) => i <= j)
        BY <2>3, <3>2, <4>1
      <4>3. QED
        BY <2>6, <4>2
    <3>4. QED
      BY <3>1, <3>2, <3>3
  <2>11. CASE k = buscada /\ viejos # {}
    <3>1. PICK m \in viejos : retval = Registro(m) /\ Elegido(m, viejos)
      BY <2>7, <2>11
    <3>2. m \in 1..i - 1 /\ m \in 1..Len(archivo) /\ archivo[m].key = k /\ m # i
          /\ T(m) \in Nat /\ T(i) \in Nat
      BY <2>3, <2>4, <2>5, <2>11
    <3>3. ~es_unica
      BY <3>2 DEF Fijos, EsUnica
    <3>4. MasNuevo(Registro(i)) <=> T(i) > T(m)
      BY <3>1, <3>2, RegistroEs DEF MasNuevo, T
    <3>5. i \in todos /\ \A j \in todos : j \in viejos \/ j = i
      BY <2>3, <2>5, <2>11
    <3>6. \A j \in todos : T(j) \in Nat /\ j \in Nat
      BY <2>3, <2>4, <2>5
    <3>7. \A j \in viejos : T(m) >= T(j) /\ (T(m) = T(j) => m <= j)
      BY <2>6, <3>1
    <3>8. CASE T(i) > T(m)
      <4>1. retval' = Registro(i)
        BY <2>1, <2>2, <2>11, <3>4, <3>8
      <4>2. ASSUME NEW j \in todos PROVE T(i) >= T(j) /\ (T(i) = T(j) => i <= j)
        <5>1. CASE j = i
          BY <3>2, <3>6, <5>1
        <5>2. CASE j \in viejos
          <6>1. T(m) >= T(j) /\ T(j) \in Nat
            BY <3>6, <3>7, <5>2
          <6>2. QED
            BY <3>2, <3>8, <6>1
        <5>3. QED
          BY <3>5, <5>1, <5>2
      <4>3. Elegido(i, todos)
        BY <2>6, <4>2
      <4>4. QED
        BY <3>5, <4>1, <4>3
    <3>9. CASE ~(T(i) > T(m))
      <4>1. retval' = Registro(m)
        BY <2>1, <2>2, <2>11, <3>1, <3>3, <3>4, <3>9
      <4>2. ASSUME NEW j \in todos PROVE T(m) >= T(j) /\ (T(m) = T(j) => m <= j)
        <5>1. CASE j = i
          BY <2>3, <3>2, <3>9, <5>1
        <5>2. CASE j \in viejos
          BY <3>7, <5>2
        <5>3. QED
          BY <3>5, <5>1, <5>2
      <4>3. Elegido(m, todos)
        BY <2>6, <4>2
      <4>4. m \in todos
        BY <2>3, <2>5, <3>2, <2>11
      <4>5. QED
        BY <4>1, <4>3, <4>4
    <3>10. QED
      BY <3>8, <3>9
  <2>12. QED
    BY <2>9, <2>10, <2>11
<1>7. QED
  BY <1>5, <1>6

-----------------------------------------------------------------------------
(* A value is put out, ...                                                 *)

\* the value is there: it was read up to the size a value may have, or to a \n
Hallado == ValueEntra \/ FinesDeLinea(aux_value') # {}

LEMMA HalladoEs ==
  ASSUME Fijos, Tipos, EnBloques, LeerValue, Hallado, Corte(aux_value') >= offset_campo
  PROVE  /\ Fijos' /\ Tipos' /\ EnBloques'
         /\ UNCHANGED <<entrada, bloque, num_separador, offset_campo>>
         /\ \E k \in 0..Quedan : k = Corte(aux_value') - offset_campo /\ AvanzarBloque(k)
         /\ registro' = [registro EXCEPT !.value = registro'.value] /\ Agregar(registro')
         /\ Len(registro'.value) = Corte(aux_value')
         /\ \A p \in 1..Corte(aux_value') : registro'.value[p] = aux_value'[p - 1]
         /\ estado' \in {"separador", "fin"}
<1> DEFINE v == aux_value'
           n == Corte(v)
           u == Primeros(v, n)
           r == [registro EXCEPT !.value = u]
<1>1. /\ estado = "value" /\ bloques_leidos > 0
      /\ Leer \in 0..Quedan /\ Quedan \in Nat /\ offset_campo \in Nat
      /\ offset_campo + Leer \in Posiciones
      /\ aux_campo_leyendo' \in [Posiciones -> Bytes] /\ v \in [Posiciones -> Bytes]
      /\ v[offset_campo + Leer] = Nulo
  BY ValueLeidoEs
<1>2. /\ AvanzarBloque(n - offset_campo) /\ registro' = r /\ Agregar(r)
      /\ UNCHANGED <<entrada, bloque, num_separador, offset_campo>>
  BY DEF LeerValue, Hallado
<1> HIDE DEF v
<1>3. n \in 0..offset_campo + Leer
  BY <1>1, CorteEs
<1>4. TamanioValue \in Nat /\ Posiciones = 0..TamanioValue
  BY Tamanios DEF Posiciones
<1> HIDE DEF n
<1>5. n \in 0..TamanioValue + 1 /\ n - offset_campo \in 0..Quedan /\ n \in Nat
  <2>1. n >= offset_campo
    BY DEF n, v
  <2>2. QED
    BY <1>1, <1>3, <1>4, <2>1
<1>6. u \in Seq(Bytes) /\ Len(u) = n /\ \A p \in 1..n : u[p] = v[p - 1]
  BY <1>1, <1>5, PrimerosEs
<1> HIDE DEF u
<1>7. registro \in Leible /\ r \in Leible /\ r.value = u
  <2>1. registro \in Leible
    BY DEF Tipos
  <2>2. QED
    BY <1>6, <2>1 DEF Leible
<1>8. r = [registro EXCEPT !.value = r.value]
  BY <1>7
<1> HIDE DEF r
<1>9. /\ estado' \in {"separador", "fin"} /\ anterior' = "value"
      /\ IF buscada = Todas THEN registros_leidos' = Append(registros_leidos, r) /\ retval' = retval
         ELSE retval' \in {r, retval} /\ registros_leidos' = registros_leidos
  BY <1>1, <1>2 DEF Agregar, Pasar
<1>10. /\ archivo' = archivo /\ block_size' = block_size /\ buscada' = buscada
       /\ bloques_leidos' = bloques_leidos
       /\ num_separador' = num_separador /\ offset_campo' = offset_campo
  BY <1>2 DEF entrada, bloque
<1>11. CantidadBloques' = CantidadBloques
  BY <1>2, CortadosIguales
<1>12. /\ registros_leidos' \in Seq(Leible) /\ retval' \in Leible
       /\ buscada' # Todas => registros_leidos' = << >>
  <2>1. registros_leidos \in Seq(Leible) /\ retval \in Leible
        /\ (buscada # Todas => registros_leidos = << >>)
    BY DEF Tipos
  <2>2. Append(registros_leidos, r) \in Seq(Leible)
    BY <1>7, <2>1, AppendProperties
  <2>3. QED
    BY <1>7, <1>9, <1>10, <2>1, <2>2
<1>13. Tipos'
  <2>1. estado' \in Estados /\ anterior' \in Estados \ {"leer", "fin"}
    BY <1>9 DEF Estados
  <2>2. aux_value' \in [Posiciones -> Bytes] /\ registro' \in Leible
    BY <1>1, <1>2, <1>7 DEF v
  <2>3. bloques_leidos' \in 0..CantidadBloques' /\ offset_campo' \in Posiciones
        /\ num_separador' \in 0..2
    BY <1>10, <1>11 DEF Tipos
  <2>4. QED
    BY <1>1, <1>12, <2>1, <2>2, <2>3 DEF Tipos
<1>14. Fijos'
  BY <1>2, FijosSiguen
<1>15. EnBloques'
  <2> DEFINE k == n - offset_campo
  <2>1. k \in 0..Quedan /\ AvanzarBloque(k) /\ estado # "leer" /\ estado' # "leer"
    BY <1>1, <1>2, <1>5, <1>9
  <2> HIDE DEF k
  <2>2. QED
    BY <1>2, <2>1, AvanzarSigue
<1>16. \E k \in 0..Quedan : k = n - offset_campo /\ AvanzarBloque(k)
  BY <1>2, <1>5
<1>17. QED
  BY <1>2, <1>6, <1>7, <1>8, <1>9, <1>13, <1>14, <1>15, <1>16 DEF v, n

\* ... or goes on in the next block.
LEMMA NoHalladoEs ==
  ASSUME Fijos, Tipos, EnBloques, LeerValue, ~Hallado
  PROVE  /\ Fijos' /\ Tipos' /\ EnBloques'
         /\ UNCHANGED <<entrada, bloque, num_separador, registro, salida>>
         /\ Quedan \in 0..Quedan /\ AvanzarBloque(Quedan)
         /\ offset_campo' = offset_campo + Quedan
         /\ estado' = "leer" /\ anterior' = "value"
<1>1. /\ estado = "value" /\ ~ValueEntra /\ Quedan \in Nat /\ offset_campo \in Nat
      /\ offset_campo + Leer \in Posiciones /\ Leer = Quedan
      /\ aux_campo_leyendo' \in [Posiciones -> Bytes] /\ aux_value' \in [Posiciones -> Bytes]
  BY ValueLeidoEs DEF Hallado
<1>2. /\ AvanzarBloque(Quedan) /\ offset_campo' = offset_campo + Quedan
      /\ estado' = "leer" /\ anterior' = "value"
      /\ UNCHANGED <<entrada, bloque, num_separador, registro, salida>>
  BY <1>1 DEF LeerValue, Hallado, Pasar
<1>3. Quedan \in 0..Quedan
  BY <1>1
<1>4. Fijos' /\ CantidadBloques' = CantidadBloques
  BY <1>2, FijosSiguen, CortadosIguales
<1>5. /\ buscada' = buscada /\ bloques_leidos' = bloques_leidos
      /\ num_separador' = num_separador /\ registro' = registro
      /\ registros_leidos' = registros_leidos /\ retval' = retval
  BY <1>2 DEF entrada, bloque, salida
<1>6. Tipos'
  BY <1>1, <1>2, <1>4, <1>5 DEF Tipos, Estados
<1>7. EnBloques'
  BY <1>1, <1>2, <1>3, AvanzarSigue
<1>8. QED
  BY <1>2, <1>3, <1>4, <1>6, <1>7

\* The value of the i-th record is put out as it was written...
Entero(i) ==
  /\ Hallado /\ Corte(aux_value') = archivo[i].largo
  /\ \A p \in 0..archivo[i].largo - 1 : aux_value'[p] = BytesValue(i)[p + 1]

\* ... or its block ends before its \n, ...
Sigue(i) ==
  /\ ~Hallado /\ offset_campo = 0 /\ Quedan <= archivo[i].largo /\ Quedan < TamanioValue
  /\ \A p \in 0..Quedan - 1 :
       aux_value'[p] # BarraN /\ aux_campo_leyendo'[p] = Buffer[Inicio(i) + p + 1]
  /\ Quedan > 0 => Quedan = EnBloque(i)

\* ... or it is one that is cut.
Corta(i) ==
  /\ Cortado(i) /\ offset_total + Quedan = tam_total
  /\ Hallado => Corte(aux_value') >= offset_campo

\* The block where a value starts, if the value goes on in another.
LEMMA EnBloqueEs ==
  ASSUME Fijos, Tipos, EnBloques, bloques_leidos > 0, NEW i \in 1..Len(archivo),
         offset_total = Inicio(i), Quedan > 0, Quedan <= archivo[i].largo
  PROVE  Quedan = EnBloque(i)
<1> DEFINE x == Inicio(i)
           L == archivo[i].largo
           base == (bloques_leidos - 1) * block_size
           techo == bloques_leidos * block_size
<1>1. x \in Nat /\ L \in Nat /\ x + L + 1 <= tam_total
  BY ValorEs
<1>2. bloques_leidos \in Nat /\ block_size \in Nat \ {0} /\ tam_total \in Nat
  BY Tamanios, BufferEs DEF Tipos, Fijos
<1>3. base \in Nat /\ techo \in Nat
  BY <1>2, bloques_leidos > 0
<1>4. /\ offset_bloque \in Nat /\ tam_bloque \in Nat /\ tam_bloque <= block_size
      /\ x = base + offset_bloque /\ base + tam_bloque = Menor(techo, tam_total)
      /\ Quedan = tam_bloque - offset_bloque
  BY DEF EnBloques, Quedan
<1> HIDE DEF x, L, base, techo
<1>5. Quedan \in 1..block_size /\ x + Quedan = base + tam_bloque
  BY <1>2, <1>3, <1>4
<1>6. x + Quedan < tam_total
  <2>1. Quedan <= L
    BY DEF L
  <2>2. QED
    BY <1>1, <1>2, <1>5, <2>1
<1>7. x + Quedan = techo
  BY <1>2, <1>3, <1>4, <1>5, <1>6 DEF Menor
<1>8. x % block_size = block_size - Quedan
  <2>1. /\ block_size \in Nat \ {0} /\ bloques_leidos \in Nat /\ Quedan \in 1..block_size /\ x \in Nat
        /\ x + Quedan = bloques_leidos * block_size
    BY <1>1, <1>2, <1>5, <1>7 DEF techo
  <2>2. QED
    BY ONLY <2>1, RestoEs, ZenonT(40)
<1>9. QED
  <2>1. EnBloque(i) = block_size - (x % block_size)
    BY DEF EnBloque, x
  <2>2. QED
    BY <1>2, <1>5, <1>8, <2>1

\* The block where it goes on.
LEMMA EnElSiguienteEs ==
  ASSUME Fijos, Tipos, EnBloques, bloques_leidos > 0, NEW i \in 1..Len(archivo),
         offset_total = Inicio(i) + EnBloque(i), offset_bloque = 0, EnBloque(i) \in Nat
  PROVE  /\ Quedan = tam_bloque /\ Quedan = EnElSiguiente(i)
         /\ Quedan < block_size => offset_total + Quedan = tam_total
<1> DEFINE x == Inicio(i)
           q == EnBloque(i)
           base == (bloques_leidos - 1) * block_size
           techo == bloques_leidos * block_size
<1>1. x \in Nat /\ q \in Nat
  BY ValorEs
<1>2. bloques_leidos \in Nat /\ block_size \in Nat \ {0} /\ tam_total \in Nat
  BY Tamanios, BufferEs DEF Tipos, Fijos
<1>3. base \in Nat /\ techo = base + block_size
  BY <1>2, bloques_leidos > 0
<1>4. /\ tam_bloque \in Nat /\ tam_bloque <= block_size /\ offset_total = base
      /\ base + tam_bloque = Menor(techo, tam_total)
      /\ Quedan = tam_bloque
  <2>1. /\ tam_bloque \in Nat /\ tam_bloque <= block_size /\ offset_total = base + 0
        /\ base + tam_bloque = Menor(techo, tam_total)
        /\ Quedan = tam_bloque - 0
    BY DEF EnBloques, Quedan
  <2> HIDE DEF base, techo
  <2>2. QED
    BY <1>3, <2>1
<1>5. offset_total = x + q
  OBVIOUS
<1>6. EnElSiguiente(i) = Menor(block_size, tam_total - x - q)
  BY DEF EnElSiguiente
<1> HIDE DEF x, q, base, techo
<1>7. tam_bloque = Menor(block_size, tam_total - x - q)
  BY <1>1, <1>2, <1>3, <1>4, <1>5 DEF Menor
<1>8. tam_bloque < block_size => base + tam_bloque = tam_total
  BY <1>2, <1>3, <1>4 DEF Menor
<1>9. QED
  BY <1>4, <1>6, <1>7, <1>8

LEMMA ValorLeido ==
  ASSUME Fijos, Tipos, EnBloques, LeerValue, NEW i \in 1..Len(archivo), EnValue(i)
  PROVE  Entero(i) \/ Sigue(i) \/ Corta(i)
<1> DEFINE x == Inicio(i)
           L == archivo[i].largo
           c == offset_campo
           q == Quedan
           k == Leer
           v == aux_value'
           a == aux_campo_leyendo'
           V == TamanioValue
<1>1. /\ estado = "value" /\ bloques_leidos > 0 /\ k \in 0..q /\ q \in Nat /\ c \in Nat
      /\ c + k \in Posiciones /\ v \in [Posiciones -> Bytes] /\ a \in [Posiciones -> Bytes]
      /\ v[c + k] = Nulo
  BY ValueLeidoEs
<1>2. \A p \in Posiciones : a[p] = IF c <= p /\ p < c + k THEN Buffer[offset_total + (p - c) + 1]
                                   ELSE aux_campo_leyendo[p]
  BY ValueLeidoEs
<1>3. /\ ValueEntra => c + k = V /\ \A p \in 0..V - 1 : v[p] = a[p]
      /\ ~ValueEntra => /\ k = q /\ c + q < V
                        /\ \A p \in 0..q - 1 : v[p] = a[p]
                        /\ \A p \in q..c + q - 1 : v[p] = aux_value[p]
  BY ValueLeidoEs
<1>4. /\ x \in Nat /\ L \in 1..V /\ V \in Nat /\ Posiciones = 0..V
      /\ \A p \in 0..L - 1 : /\ Buffer[x + p + 1] = BytesValue(i)[p + 1]
                             /\ Buffer[x + p + 1] # BarraN /\ Buffer[x + p + 1] # Nulo
      /\ Buffer[x + L + 1] = BarraN
  BY ValorEs, Tamanios DEF Posiciones
<1>5. /\ offset_total = x + c /\ c < V /\ c <= L
      /\ \A p \in 0..c - 1 : aux_campo_leyendo[p] = Buffer[x + p + 1]
      /\ \A p \in 0..c - 1 : aux_value[p] # BarraN
      /\ c > 0 => c = EnBloque(i) /\ offset_bloque = 0
  BY <1>1 DEF EnValue, EnCampo
<1>6. Hallado <=> ValueEntra \/ FinesDeLinea(v) # {}
  BY DEF Hallado
<1>7. /\ Entero(i) <=> Hallado /\ Corte(v) = L /\ \A p \in 0..L - 1 : v[p] = BytesValue(i)[p + 1]
      /\ Sigue(i) <=> /\ ~Hallado /\ c = 0 /\ q <= L /\ q < V
                      /\ \A p \in 0..q - 1 : v[p] # BarraN /\ a[p] = Buffer[x + p + 1]
                      /\ q > 0 => q = EnBloque(i)
      /\ Corta(i) <=> Cortado(i) /\ offset_total + q = tam_total /\ (Hallado => Corte(v) >= c)
  BY DEF Entero, Sigue, Corta
<1>8. /\ bloques_leidos > 0 /\ offset_total = x /\ q > 0 /\ q <= L => q = EnBloque(i)
      /\ offset_total = x + EnBloque(i) /\ offset_bloque = 0 /\ EnBloque(i) \in Nat =>
           /\ q = EnElSiguiente(i)
           /\ q < block_size => offset_total + q = tam_total
  BY <1>1, EnBloqueEs, EnElSiguienteEs
<1>9. V <= block_size /\ block_size \in Nat
  BY Tamanios
<1>10. Cortado(i) <=> /\ EnBloque(i) < V /\ EnBloque(i) <= L
                      /\ EnElSiguiente(i) < V - EnBloque(i) /\ EnElSiguiente(i) <= L
  BY DEF Cortado
<1> HIDE DEF x, L, c, q, k, v, a, V
\* What is read of the field are its bytes.
<1>11. ASSUME NEW p \in 0..c + k - 1 PROVE a[p] = Buffer[x + p + 1] /\ p \in Posiciones
  <2>1. p \in Posiciones /\ p \in Nat /\ k \in Nat
    BY <1>1, <1>4
  <2>2. CASE p < c
    <3>1. ~(c <= p) /\ p \in 0..c - 1
      BY <1>1, <2>1, <2>2
    <3>2. QED
      BY <1>2, <1>5, <2>1, <3>1
  <2>3. CASE c <= p
    <3>1. offset_total + (p - c) + 1 = x + p + 1 /\ p < c + k
      BY <1>1, <1>4, <1>5, <2>1
    <3>2. QED
      BY <1>2, <2>1, <2>3, <3>1
  <2>4. QED
    BY <1>1, <2>1, <2>2, <2>3
\* The \n of the value is where the value ends.
<1>12. ASSUME NEW n \in Nat, n <= c + k, L < n \/ (n = V /\ c + k = V),
              \A p \in 0..n - 1 : v[p] = a[p], Hallado \/ L < n
       PROVE  Entero(i)
  <2> DEFINE h == c + k
  <2>1. /\ n <= V /\ L <= n /\ L \in Posiciones /\ L \in Nat /\ n <= h
        /\ c \in Nat /\ k \in Nat /\ h \in Nat /\ h = c + k
    BY <1>1, <1>4, <1>12
  <2> HIDE DEF h
  <2>2. ASSUME NEW p \in 0..L - 1
        PROVE  v[p] = BytesValue(i)[p + 1] /\ v[p] # BarraN /\ v[p] # Nulo
    <3>1. p \in 0..n - 1 /\ p \in 0..h - 1
      BY <2>1
    <3>2. p \in 0..c + k - 1
      BY <2>1, <3>1
    <3>3. a[p] = Buffer[x + p + 1]
      BY <1>11, <3>2
    <3>4. v[p] = a[p]
      BY <1>12, <3>1
    <3>5. QED
      BY <1>4, <3>3, <3>4
  <2>3. CASE L < n
    <3>1. L \in 0..n - 1 /\ L \in 0..h - 1 /\ L <= h
      BY <2>1, <2>3
    <3>2. v[L] = BarraN
      <4>1. L \in 0..c + k - 1
        BY <2>1, <3>1
      <4>2. a[L] = Buffer[x + L + 1]
        BY <1>11, <4>1
      <4>3. v[L] = a[L]
        BY <1>12, <3>1
      <4>4. QED
        BY <1>4, <4>2, <4>3
    <3>3. FinesDeLinea(v) # {} /\ Corte(v) = L
      BY <1>1, <2>1, <2>2, <3>1, <3>2, CorteDeValor
    <3>4. QED
      BY <1>6, <1>7, <2>2, <3>3
  <2>4. CASE ~(L < n)
    <3>1. L = c + k /\ Hallado
      BY <1>4, <1>12, <2>1, <2>4
    <3>2. v[L] = Nulo /\ L <= c + k
      BY <1>1, <2>1, <3>1
    <3>3. Corte(v) = L
      BY <1>1, <2>1, <2>2, <3>2, CorteDeValor
    <3>4. QED
      BY <1>7, <2>2, <3>1, <3>3
  <2>5. QED
    BY <2>3, <2>4
<1>13. CASE ValueEntra
  <2>1. c + k = V /\ Hallado /\ V \in Nat /\ \A p \in 0..V - 1 : v[p] = a[p]
    BY <1>3, <1>4, <1>6, <1>13
  <2>2. QED
    BY <1>12, <2>1
<1>14. CASE ~ValueEntra /\ q > L
  <2>1. k = q /\ q <= c + k /\ (\A p \in 0..q - 1 : v[p] = a[p])
    BY <1>1, <1>3, <1>14
  <2>2. L < q /\ q \in Nat
    BY <1>1, <1>4, <1>14
  <2>3. QED
    BY <1>12, <2>1, <2>2
<1>15. CASE ~ValueEntra /\ q <= L /\ c = 0
  <2>1. k = q /\ c + k = q /\ q < V /\ \A p \in 0..q - 1 : v[p] = a[p]
    BY <1>1, <1>3, <1>15
  <2>2. ASSUME NEW p \in 0..q - 1
        PROVE  a[p] = Buffer[x + p + 1] /\ v[p] # BarraN /\ v[p] # Nulo
    <3>1. p \in 0..c + k - 1 /\ p \in 0..L - 1
      BY <1>1, <1>4, <1>15, <2>1
    <3>2. QED
      BY <1>4, <1>11, <2>1, <3>1
  <2>3. q \in Posiciones /\ v[q] = Nulo /\ q <= q
    BY <1>1, <2>1
  <2>4. FinesDeLinea(v) = {}
    BY <1>1, <2>2, <2>3, CorteDeValor
  <2>5. ~Hallado
    BY <1>6, <1>15, <2>4
  <2>6. offset_total = x
    BY <1>4, <1>5, <1>15
  <2>7. q > 0 => q = EnBloque(i)
    BY <1>1, <1>8, <1>15, <2>6
  <2>8. QED
    BY <1>7, <1>15, <2>1, <2>2, <2>5, <2>7
<1>16. CASE ~ValueEntra /\ q <= L /\ c # 0
  <2>1. c > 0 /\ c = EnBloque(i) /\ offset_bloque = 0 /\ EnBloque(i) \in Nat
    BY <1>1, <1>5, <1>16
  <2>2. q = EnElSiguiente(i) /\ (q < block_size => offset_total + q = tam_total)
    BY <1>5, <1>8, <2>1
  <2>3. /\ k = q /\ c + q < V
        /\ \A p \in 0..q - 1 : v[p] = a[p]
        /\ \A p \in q..c + q - 1 : v[p] = aux_value[p]
    BY <1>3, <1>16
  <2>4. q < block_size /\ q < V - c
    BY <1>1, <1>4, <1>9, <2>3
  <2>5. Cortado(i)
    BY <1>5, <1>10, <1>16, <2>1, <2>2, <2>4
  <2>6. ASSUME Hallado, ~(Corte(v) >= c) PROVE FALSE
    <3>1. FinesDeLinea(v) # {}
      BY <1>6, <1>16, <2>6
    <3>2. Corte(v) \in 0..c + k /\ v[Corte(v)] = BarraN
      BY <1>1, <3>1, CorteEs
    <3> DEFINE p == Corte(v)
    <3> HIDE DEF p
    <3>3. p \in 0..c - 1 /\ v[p] = BarraN
      BY <1>1, <2>6, <3>2 DEF p
    <3>4. CASE p < q
      <4>1. p \in 0..q - 1 /\ p \in 0..c + k - 1 /\ p \in 0..L - 1
        BY <1>1, <1>4, <1>16, <2>3, <3>3, <3>4
      <4>2. QED
        BY <1>4, <1>11, <2>3, <3>3, <4>1
    <3>5. CASE ~(p < q)
      <4>1. p \in q..c + q - 1
        BY <1>1, <3>3, <3>5
      <4>2. QED
        BY <1>5, <2>3, <3>3, <4>1
    <3>6. QED
      BY <3>4, <3>5
  <2>7. QED
    BY <1>7, <2>2, <2>4, <2>5, <2>6
<1>17. QED
  <2>1. q > L \/ q <= L
    BY <1>1, <1>4
  <2>2. QED
    BY <1>13, <1>14, <1>15, <1>16, <2>1

\* The records before the m-th are the first that were put out.
Anteriores(m) ==
  buscada = Todas => /\ m - 1 <= Len(registros_leidos)
                     /\ \A j \in 1..m - 1 : registros_leidos[j] = Registro(j)

LEMMA RotoEs ==
  ASSUME Fijos, Tipos, EnBloques, UNCHANGED <<entrada, bloque>>,
         NEW m \in 1..Len(archivo), Cortado(m), Anteriores(m),
         offset_total + Quedan = tam_total,
         NEW k \in 0..Quedan, AvanzarBloque(k),
         estado' \notin {"timestamp", "key", "value"},
         \/ registros_leidos' = registros_leidos
         \/ \E r \in Leible : registros_leidos' = Append(registros_leidos, r)
  PROVE  Roto(m)'
<1>1. archivo' = archivo /\ buscada' = buscada /\ tam_bloque' = tam_bloque
  BY DEF entrada, bloque
<1>2. Cortado(m)' = Cortado(m)
  BY CortadosIguales
<1>3. tam_total' = tam_total /\ \A j : Registro(j)' = Registro(j)
  BY <1>1, TextosIguales
<1>4. offset_total' + (tam_bloque' - offset_bloque') = tam_total
  <2>1. offset_total \in Nat /\ offset_bloque \in Nat /\ tam_bloque \in Nat /\ k \in Nat
        /\ Quedan = tam_bloque - offset_bloque
    BY DEF EnBloques, Quedan
  <2>2. offset_total' = offset_total + k /\ offset_bloque' = offset_bloque + k
    BY DEF AvanzarBloque
  <2>3. QED
    BY <1>1, <2>1, <2>2
<1>5. ASSUME buscada = Todas
      PROVE  /\ m - 1 <= Len(registros_leidos')
             /\ \A j \in 1..m - 1 : registros_leidos'[j] = Registro(j)
  <2> DEFINE s == registros_leidos
  <2>1. /\ s \in Seq(Leible) /\ m - 1 <= Len(s) /\ Len(s) \in Nat
        /\ \A j \in 1..m - 1 : s[j] = Registro(j)
    BY <1>5 DEF Tipos, Anteriores
  <2>2. CASE registros_leidos' = s
    BY <2>1, <2>2
  <2>3. CASE \E r \in Leible : registros_leidos' = Append(s, r)
    <3>1. PICK r \in Leible : registros_leidos' = Append(s, r)
      BY <2>3
    <3> HIDE DEF s
    <3>2. Len(Append(s, r)) = Len(s) + 1 /\ \A j \in 1..Len(s) : Append(s, r)[j] = s[j]
      BY <2>1, AppendProperties
    <3>3. \A j \in 1..m - 1 : j \in 1..Len(s)
      BY <2>1
    <3>4. m - 1 <= Len(s) + 1
      BY <2>1
    <3>5. QED
      BY <2>1, <3>1, <3>2, <3>3, <3>4
  <2>4. QED
    BY <2>2, <2>3
<1>6. QED
  BY <1>1, <1>2, <1>3, <1>4, <1>5 DEF Roto

LEMMA ValueSigue ==
  ASSUME Inductivo, Seguir, LeerValue
  PROVE  Inductivo'
<1>1. /\ Fijos /\ Tipos /\ EnBloques /\ estado = "value" /\ Campo = "value"
  BY DEF Inductivo, LeerValue, Campo
<1>2. /\ Leer \in 0..Quedan /\ Quedan \in Nat /\ offset_campo \in Nat
      /\ offset_campo + Leer \in Posiciones /\ aux_value' \in [Posiciones -> Bytes]
      /\ aux_value'[offset_campo + Leer] = Nulo
  BY <1>1, ValueLeidoEs
<1>3. /\ UNCHANGED <<entrada, bloque>> /\ num_separador' = num_separador
      /\ archivo' = archivo /\ buscada' = buscada /\ es_unica' = es_unica
  <2>1. UNCHANGED <<entrada, bloque, num_separador>>
    BY DEF LeerValue
  <2>2. QED
    BY <2>1 DEF entrada
<1>4. /\ Buffer' = Buffer
      /\ \A i : /\ Desde(i)' = Desde(i) /\ Inicio(i)' = Inicio(i)
                /\ EnBloque(i)' = EnBloque(i)
  BY <1>3, TextosIguales, CortadosIguales
\* The m-th record was cut, before or now.
<1>5. ASSUME NEW m \in 1..Len(archivo), Cortado(m), Anteriores(m), offset_total + Quedan = tam_total,
             Hallado => Corte(aux_value') >= offset_campo
      PROVE  Inductivo'
  <2>1. CASE Hallado
    <3>1. /\ Fijos' /\ Tipos' /\ EnBloques' /\ Agregar(registro')
          /\ estado' \in {"separador", "fin"}
      BY <1>1, <1>5, <2>1, HalladoEs
    <3>2. PICK k \in 0..Quedan : AvanzarBloque(k)
      BY <1>1, <1>5, <2>1, HalladoEs
    <3>3. \/ registros_leidos' = registros_leidos
          \/ \E r \in Leible : registros_leidos' = Append(registros_leidos, r)
      <4>1. registro' \in Leible
        BY <3>1 DEF Tipos
      <4>2. QED
        BY <3>1, <4>1 DEF Agregar
    <3>4. Roto(m)'
      BY <1>1, <1>3, <1>5, <3>1, <3>2, <3>3, RotoEs
    <3>5. QED
      BY <3>1, <3>4 DEF Inductivo
  <2>2. CASE ~Hallado
    <3>1. /\ Fijos' /\ Tipos' /\ EnBloques' /\ estado' = "leer"
          /\ Quedan \in 0..Quedan /\ AvanzarBloque(Quedan) /\ registros_leidos' = registros_leidos
      BY <1>1, <2>2, NoHalladoEs DEF salida
    <3>2. PICK k \in 0..Quedan : AvanzarBloque(k)
      BY <3>1
    <3>3. Roto(m)'
      BY <1>1, <1>3, <1>5, <3>1, <3>2, RotoEs
    <3>4. QED
      BY <3>1, <3>3 DEF Inductivo
  <2>3. QED
    BY <2>1, <2>2
<1>6. ASSUME NEW i, Bien(i) PROVE Inductivo'
  <2>1. EnValue(i) /\ Salidos(i - 1) /\ Escritos
    BY <1>1, <1>6 DEF Bien, Leyendo, EnTimestamp, TrasTimestamp, EnKey, TrasKey, TrasValue
  <2>2. i \in 1..Len(archivo) /\ Len(archivo) \in Nat
    BY <1>1, <1>6, HayRegistro, Tamanios
  <2>3. i # Len(archivo) + 1 /\ i \in 1..Len(archivo) + 1
    BY <2>2
  <2>4. /\ Inicio(i) \in Nat /\ archivo[i].largo \in 1..TamanioValue
        /\ BytesValue(i) \in Seq(Bytes) /\ Len(BytesValue(i)) = archivo[i].largo
    BY <1>1, <2>2, ValorEs, CamposSon DEF Fijos
  <2>5. /\ num_separador = 2 /\ offset_total = Inicio(i) + offset_campo
        /\ offset_campo <= archivo[i].largo /\ ConTimestamp(i) /\ ConKey(i)
    BY <2>1 DEF EnValue, EnCampo
  <2>6. CASE Entero(i)
    <3>1. /\ Hallado /\ Corte(aux_value') = archivo[i].largo
          /\ \A p \in 0..archivo[i].largo - 1 : aux_value'[p] = BytesValue(i)[p + 1]
      BY <2>6 DEF Entero
    <3>2. /\ Fijos' /\ Tipos' /\ EnBloques'
          /\ registro' = [registro EXCEPT !.value = registro'.value] /\ Agregar(registro')
          /\ Len(registro'.value) = archivo[i].largo
          /\ \A p \in 1..archivo[i].largo : registro'.value[p] = aux_value'[p - 1]
      BY <1>1, <2>5, <3>1, HalladoEs
    <3>3. PICK k \in 0..Quedan : k = archivo[i].largo - offset_campo /\ AvanzarBloque(k)
      BY <1>1, <2>5, <3>1, HalladoEs
    <3>4. registro' \in Leible /\ registro \in Leible
      BY <1>1, <3>2 DEF Tipos
    <3>5. registro'.value = BytesValue(i)
      <4>1. ASSUME NEW p \in 1..archivo[i].largo PROVE registro'.value[p] = BytesValue(i)[p]
        <5>1. p - 1 \in 0..archivo[i].largo - 1 /\ p - 1 + 1 = p
          BY <2>4
        <5>2. QED
          BY <3>1, <3>2, <5>1
      <4>2. registro'.value \in Seq(Bytes)
        BY <3>4 DEF Leible
      <4>3. QED
        BY <2>4, <3>2, <4>1, <4>2, SeqEqual
    <3>6. registro'.timestamp = registro.timestamp /\ registro'.key = registro.key
      BY <3>2, <3>4 DEF Leible
    <3>7. registro' = Registro(i)
      BY <2>5, <3>4, <3>5, <3>6 DEF Leible, Registro, ConTimestamp, ConKey
    <3>8. /\ Salidos(i)' /\ estado' \in {"separador", "fin"}
          /\ estado' = "fin" => es_unica /\ archivo[i].key = buscada
      BY <1>1, <1>3, <2>1, <2>2, <3>2, <3>7, AgregarSigue
    <3>9. offset_total' = Inicio(i) + archivo[i].largo
      <4>1. offset_total' = offset_total + k
        BY <3>3 DEF AvanzarBloque
      <4>2. QED
        BY <1>2, <2>4, <2>5, <3>3, <4>1
    <3>10. TrasValue(i)'
      <4>1. Campo' = estado'
        BY <3>8 DEF Campo
      <4>2. QED
        BY <1>3, <1>4, <2>5, <3>8, <3>9, <4>1 DEF TrasValue
    <3>11. Escritos'
      BY <2>1, <3>6 DEF Escritos
    <3>12. Bien(i)'
      BY <1>3, <2>3, <3>8, <3>10, <3>11 DEF Bien
    <3>13. QED
      BY <3>2, <3>12 DEF Inductivo
  <2>7. CASE Sigue(i)
    <3>1. /\ ~Hallado /\ offset_campo = 0 /\ Quedan <= archivo[i].largo /\ Quedan < TamanioValue
          /\ \A p \in 0..Quedan - 1 :
               aux_value'[p] # BarraN /\ aux_campo_leyendo'[p] = Buffer[Inicio(i) + p + 1]
          /\ Quedan > 0 => Quedan = EnBloque(i)
      BY <2>7 DEF Sigue
    <3>2. /\ Fijos' /\ Tipos' /\ EnBloques' /\ UNCHANGED <<registro, salida>>
          /\ AvanzarBloque(Quedan) /\ offset_campo' = offset_campo + Quedan
          /\ estado' = "leer" /\ anterior' = "value"
      BY <1>1, <3>1, NoHalladoEs
    <3> DEFINE q == Quedan
    <3>3. offset_campo' = q /\ offset_total' = Inicio(i) + q
      <4>1. offset_total' = offset_total + q
        BY <3>2 DEF AvanzarBloque
      <4>2. QED
        BY <1>2, <2>4, <2>5, <3>1, <3>2, <4>1
    <3>4. Campo' = "value"
      BY <3>2 DEF Campo
    <3>5. ConTimestamp(i)' /\ ConKey(i)' /\ Escritos' /\ Salidos(i - 1)'
      <4>1. Salidos(i - 1)' = Salidos(i - 1)
        BY <1>3, <3>2, SalidosSiguen
      <4>2. QED
        BY <1>3, <2>1, <2>5, <3>2, <4>1 DEF ConTimestamp, ConKey, Escritos
    <3> HIDE DEF q
    <3>6. /\ q <= archivo[i].largo /\ q < TamanioValue
          /\ \A p \in 0..q - 1 :
               aux_value'[p] # BarraN /\ aux_campo_leyendo'[p] = Buffer[Inicio(i) + p + 1]
          /\ q > 0 => q = EnBloque(i)
      BY <3>1 DEF q
    <3>7. EnCampo(Inicio(i), TamanioValue)'
      BY <1>4, <3>3, <3>6 DEF EnCampo
    <3>8. EnValue(i)'
      BY <1>3, <1>4, <2>5, <3>2, <3>3, <3>4, <3>5, <3>6, <3>7 DEF EnValue
    <3>9. Bien(i)'
      BY <1>3, <2>3, <3>5, <3>8 DEF Bien, Leyendo
    <3>10. QED
      BY <3>2, <3>9 DEF Inductivo
  <2>8. CASE Corta(i)
    <3>1. Anteriores(i)
      <4>1. SUFFICES ASSUME buscada = Todas
                     PROVE  /\ i - 1 <= Len(registros_leidos)
                            /\ \A j \in 1..i - 1 : registros_leidos[j] = Registro(j)
        BY DEF Anteriores
      <4>2. registros_leidos = [j \in 1..i - 1 |-> Registro(j)]
        BY <2>1, <4>1 DEF Salidos
      <4>3. Len(registros_leidos) = i - 1
        BY <2>2, <4>2
      <4>4. QED
        BY <2>2, <4>2, <4>3
    <3>2. QED
      BY <1>5, <2>2, <2>8, <3>1 DEF Corta
  <2>9. QED
    BY <1>1, <2>1, <2>2, <2>6, <2>7, <2>8, ValorLeido
<1>7. ASSUME NEW m, Roto(m) PROVE Inductivo'
  <2>1. /\ m \in 1..Len(archivo) /\ Cortado(m) /\ Anteriores(m)
        /\ offset_total + Quedan = tam_total /\ offset_campo = 0
    BY <1>1, <1>7 DEF Roto, Anteriores, Quedan
  <2>2. Corte(aux_value') \in 0..offset_campo + Leer
    BY <1>2, CorteEs
  <2>3. Corte(aux_value') >= offset_campo
    BY <1>2, <2>1, <2>2
  <2>4. QED
    BY <1>5, <2>1, <2>3
<1>8. QED
  BY <1>6, <1>7 DEF Inductivo

-----------------------------------------------------------------------------
(* The invariant.                                                          *)

LEMMA InductivoInicia == Init => Inductivo
<1> SUFFICES ASSUME Init PROVE Inductivo
  OBVIOUS
<1>1. /\ block_size \in BlockSizes /\ buscada \in Keys \cup {Todas} /\ es_unica \in BOOLEAN
      /\ (es_unica => (EsUnica(archivo) /\ buscada # Todas))
      /\ estado = "leer" /\ anterior = "timestamp"
      /\ bloques_leidos = 0 /\ tam_bloque = 0
      /\ offset_bloque = 0 /\ offset_campo = 0 /\ offset_total = 0 /\ num_separador = 0
      /\ aux_campo_leyendo = [p \in Posiciones |-> Otro]
      /\ registro = Vacio /\ registros_leidos = << >> /\ retval = Vacio
  BY DEF Init
<1>2. archivo \in Seq(Registros)
  <2>1. PICK n \in 0..MaxRegistros : archivo \in [1..n -> Registros]
    BY DEF Init
  <2>2. n \in Nat
    BY LecturaAssumption
  <2>3. QED
    BY <2>1, <2>2
<1>3. Fijos
  BY <1>1, <1>2 DEF Fijos
<1>4. Otro \in Bytes /\ Nulo \in Bytes /\ BarraN \in Bytes
  BY BytesEs
<1>5. aux_value \in [Posiciones -> Bytes]
  <2>1. PICK basura \in {Otro, Nulo, BarraN} : aux_value = [p \in Posiciones |-> basura]
    BY DEF Init
  <2>2. QED
    BY <1>4, <2>1
<1>6. /\ TamTimestamp \in Nat \ {0} /\ TamanioValue \in Nat \ {0}
      /\ block_size \in Nat \ {0} /\ Len(archivo) \in Nat
  BY <1>3, Tamanios
<1>7. /\ tam_total \in Nat /\ Desde(1) = 0
  BY <1>2, BufferEs
<1>8. 0 \in 0..CantidadBloques
  <2>1. tam_total + block_size - 1 \in Nat
    BY <1>6, <1>7
  <2> DEFINE t == tam_total + block_size - 1
  <2> HIDE DEF t
  <2>2. t \div block_size \in Nat
    <3>1. t \in Nat
      BY <2>1 DEF t
    <3>2. QED
      BY <1>6, <3>1
  <2>3. CantidadBloques = t \div block_size
    BY DEF CantidadBloques, t
  <2>4. QED
    BY <2>2, <2>3
<1>9. Vacio \in Leible
  BY DEF Vacio, Leible
<1>10. Tipos
  <2>1. 0 \in Posiciones
    BY <1>6 DEF Posiciones
  <2>2. registros_leidos \in Seq(Leible)
    BY <1>1
  <2>3. QED
    BY <1>1, <1>4, <1>5, <1>8, <1>9, <2>1, <2>2 DEF Tipos, Estados
<1>11. EnBloques
  BY <1>1, <1>6 DEF EnBloques
<1>12. Bien(1)
  <2>1. EnCampo(Desde(1), TamTimestamp)
    BY <1>1, <1>6, <1>7 DEF EnCampo
  <2>2. EnTimestamp(1)
    BY <1>1, <2>1 DEF EnTimestamp, Campo
  <2>3. Salidos(0)
    <3>1. Suyos(0) = {}
      BY DEF Suyos
    <3>2. << >> = [j \in 1..0 |-> Registro(j)]
      OBVIOUS
    <3>3. QED
      BY <1>1, <3>1, <3>2 DEF Salidos
  <2>4. Escritos
    BY <1>1 DEF Escritos, Vacio
  <2>5. 1 \in 1..Len(archivo) + 1 /\ 1 - 1 = 0
    BY <1>6
  <2>6. QED
    BY <2>2, <2>3, <2>4, <2>5 DEF Bien
<1>13. QED
  BY <1>3, <1>10, <1>11, <1>12 DEF Inductivo

LEMMA InductivoQuieto ==
  ASSUME Inductivo, UNCHANGED vars
  PROVE  Inductivo'
<1>1. UNCHANGED entrada /\ UNCHANGED salida
      /\ UNCHANGED <<estado, anterior, bloque, offsets, num_separador, auxiliares, registro>>
  BY DEF vars
<1>2. /\ archivo' = archivo /\ block_size' = block_size /\ buscada' = buscada /\ es_unica' = es_unica
      /\ estado' = estado /\ anterior' = anterior /\ bloques_leidos' = bloques_leidos
      /\ tam_bloque' = tam_bloque /\ offset_bloque' = offset_bloque /\ offset_campo' = offset_campo
      /\ offset_total' = offset_total /\ num_separador' = num_separador
      /\ aux_campo_leyendo' = aux_campo_leyendo /\ aux_value' = aux_value /\ registro' = registro
      /\ registros_leidos' = registros_leidos /\ retval' = retval
  BY <1>1 DEF entrada, salida, bloque, offsets, auxiliares
<1>3. /\ Buffer' = Buffer /\ tam_total' = tam_total /\ CantidadBloques' = CantidadBloques
      /\ \A i : /\ Desde(i)' = Desde(i) /\ Inicio(i)' = Inicio(i) /\ EnBloque(i)' = EnBloque(i)
                /\ Cortado(i)' = Cortado(i) /\ Registro(i)' = Registro(i)
      /\ \A n : Salidos(n)' = Salidos(n)
  BY <1>1, <1>2, TextosIguales, CortadosIguales, SalidosSiguen
<1>4. Fijos' /\ Tipos'
  BY <1>1, <1>2, <1>3, FijosSiguen DEF Inductivo, Tipos
<1>5. EnBloques'
  BY <1>2, <1>3 DEF Inductivo, EnBloques, Menor
<1>6. ASSUME NEW i, Bien(i) PROVE Bien(i)'
  <2>1. Campo' = Campo
    BY <1>2 DEF Campo
  <2>2. \A desde, tam : EnCampo(desde, tam)' = EnCampo(desde, tam)
    BY <1>2, <1>3 DEF EnCampo
  <2>3. ConTimestamp(i)' = ConTimestamp(i) /\ ConKey(i)' = ConKey(i) /\ Escritos' = Escritos
    BY <1>2 DEF ConTimestamp, ConKey, Escritos
  <2>4. EnTimestamp(i) => EnTimestamp(i)'
    BY <1>2, <1>3, <2>1, <2>2 DEF EnTimestamp
  <2>5. TrasTimestamp(i) => TrasTimestamp(i)'
    BY <1>2, <1>3, <2>1, <2>3 DEF TrasTimestamp
  <2>6. EnKey(i) => EnKey(i)'
    BY <1>2, <1>3, <2>1, <2>2, <2>3 DEF EnKey
  <2>7. TrasKey(i) => TrasKey(i)'
    BY <1>2, <1>3, <2>1, <2>3 DEF TrasKey
  <2>8. EnValue(i) => EnValue(i)'
    BY <1>2, <1>3, <2>1, <2>2, <2>3 DEF EnValue
  <2>9. TrasValue(i) => TrasValue(i)'
    BY <1>2, <1>3, <2>1 DEF TrasValue
  <2>10. QED
    BY <1>2, <1>3, <1>6, <2>3, <2>4, <2>5, <2>6, <2>7, <2>8, <2>9 DEF Bien, Leyendo
<1>7. ASSUME NEW m, Roto(m) PROVE Roto(m)'
  BY <1>2, <1>3, <1>7 DEF Roto
<1>8. QED
  BY <1>4, <1>5, <1>6, <1>7 DEF Inductivo

LEMMA InductivoSigue ==
  ASSUME Inductivo, [Next]_vars
  PROVE  Inductivo'
<1>1. CASE UNCHANGED vars
  BY <1>1, InductivoQuieto
<1>2. CASE Seguir /\ LeerBloque
  BY <1>2, LeerBloqueSigue
<1>3. CASE Seguir /\ LeerNumero("timestamp", TamTimestamp)
  BY <1>3, TimestampSigue
<1>4. CASE Seguir /\ LeerNumero("key", TamKey)
  BY <1>4, KeySigue
<1>5. CASE Seguir /\ LeerValue
  BY <1>5, ValueSigue
<1>6. CASE Seguir /\ LeerSeparador
  BY <1>6, SeparadorSigue
<1>7. QED
  BY <1>1, <1>2, <1>3, <1>4, <1>5, <1>6 DEF Next

LEMMA SiempreInductivo == Spec => []Inductivo
<1>1. Init => Inductivo
  BY InductivoInicia
<1>2. Inductivo /\ [Next]_vars => Inductivo'
  BY InductivoSigue
<1>3. QED
  BY <1>1, <1>2, PTL DEF Spec

-----------------------------------------------------------------------------
(* What follows from it.                                                   *)

LEMMA DondeEsta ==
  ASSUME Inductivo
  PROVE  offset_total \in 0..tam_total
<1>1. Fijos /\ Tipos /\ EnBloques
  BY DEF Inductivo
<1>2. tam_total \in Nat /\ block_size \in Nat /\ bloques_leidos \in Nat /\ offset_total \in Nat
  BY <1>1, BufferEs, Tamanios DEF Fijos, Tipos, EnBloques
<1>3. CASE bloques_leidos = 0
  BY <1>1, <1>2, <1>3 DEF EnBloques
<1>4. CASE bloques_leidos > 0
  <2> DEFINE base == (bloques_leidos - 1) * block_size
             techo == bloques_leidos * block_size
  <2>1. base \in Nat /\ techo \in Nat
    BY <1>2, <1>4
  <2>2. /\ offset_bloque \in Nat /\ tam_bloque \in Nat /\ offset_bloque <= tam_bloque
        /\ offset_total = base + offset_bloque /\ base + tam_bloque = Menor(techo, tam_total)
    BY <1>1, <1>4 DEF EnBloques
  <2> HIDE DEF base, techo
  <2>3. Menor(techo, tam_total) <= tam_total
    BY <1>2, <2>1 DEF Menor
  <2>4. QED
    BY <1>2, <2>1, <2>2, <2>3
<1>5. QED
  BY <1>2, <1>3, <1>4

LEMMA SalidosTienenValor ==
  ASSUME Fijos, Tipos, NEW n \in 0..Len(archivo), Salidos(n)
  PROVE  \A r \in Range(registros_leidos) : r.value # << >>
<1>1. CASE buscada = Todas
  <2>1. registros_leidos = [j \in 1..n |-> Registro(j)]
    BY <1>1 DEF Salidos
  <2>2. ASSUME NEW j \in 1..n PROVE Registro(j).value # << >>
    <3>1. j \in 1..Len(archivo)
      BY Tamanios
    <3>2. QED
      BY <3>1, RegistroEs
  <2>3. QED
    BY <2>1, <2>2 DEF Range
<1>2. CASE buscada # Todas
  BY <1>2 DEF Tipos, Range
<1>3. QED
  BY <1>1, <1>2

LEMMA InductivoTipo == Inductivo => TypeOK
<1> SUFFICES ASSUME Inductivo PROVE TypeOK
  OBVIOUS
<1>1. Fijos /\ Tipos /\ EnBloques
  BY DEF Inductivo
<1>2. offset_total \in 0..tam_total
  BY DondeEsta
<1>3. ASSUME SinCortes
      PROVE  Escritos /\ \A r \in Range(registros_leidos) : r.value # << >>
  <2>1. ASSUME NEW m, Roto(m) PROVE FALSE
    <3>1. m \in DOMAIN archivo
      BY <1>1, <2>1 DEF Roto, Fijos
    <3>2. QED
      BY <1>3, <2>1, <3>1 DEF Roto, SinCortes
  <2>2. PICK i : Bien(i)
    BY <2>1 DEF Inductivo
  <2>3. Len(archivo) \in Nat
    BY <1>1, Tamanios
  <2>4. \/ i - 1 \in 0..Len(archivo) /\ Salidos(i - 1)
        \/ i \in 0..Len(archivo) /\ Salidos(i)
    BY <2>2, <2>3 DEF Bien
  <2>5. \A r \in Range(registros_leidos) : r.value # << >>
    BY <1>1, <2>4, SalidosTienenValor
  <2>6. QED
    BY <2>2, <2>5 DEF Bien
<1>4. 0 <= offset_bloque
  BY <1>1 DEF EnBloques
<1>5. QED
  BY <1>1, <1>2, <1>3, <1>4 DEF TypeOK, Tipos, EnBloques, Escritos

(* The machine that reads the records of a file is never in a state, or at *)
(* an offset of its block and of the file, that there is not, whatever the *)
(* blocks cut; and while no value was cut so that the code loses it, the   *)
(* numbers it took are numbers that were written, and it has taken no      *)
(* empty value.                                                            *)
THEOREM TipoCorrecto == Spec => []TypeOK
<1>1. Inductivo => TypeOK
  BY InductivoTipo
<1>2. QED
  BY <1>1, SiempreInductivo, PTL

\* The one that is wanted is only one.
LEMMA BuscadoEs ==
  ASSUME Fijos, NEW m \in Suyos(Len(archivo)), Elegido(m, Suyos(Len(archivo)))
  PROVE  Buscado = Registro(m)
<1> DEFINE suyos == {i \in DOMAIN archivo : archivo[i].key = buscada}
           nuevos == {i \in suyos : \A j \in suyos : archivo[i].timestamp >= archivo[j].timestamp}
           Primero(i) == \A j \in nuevos : i <= j
           c == CHOOSE i \in nuevos : Primero(i)
<1>1. suyos = Suyos(Len(archivo))
  <2>1. DOMAIN archivo = 1..Len(archivo)
    BY DEF Fijos
  <2>2. QED
    BY <2>1 DEF Suyos
<1>2. m \in suyos /\ Elegido(m, suyos)
  BY <1>1
<1>3. Buscado = Registro(c)
  BY <1>2 DEF Buscado
<1>4. \A i \in suyos : i \in Nat /\ archivo[i].timestamp \in Nat
  <2>1. \A i \in suyos : i \in 1..Len(archivo)
    BY DEF Fijos
  <2>2. QED
    BY <2>1, RegistroEs, Tamanios
<1> DEFINE T(i) == archivo[i].timestamp
<1>5. /\ \A i \in nuevos : i \in suyos /\ \A j \in suyos : T(i) >= T(j)
      /\ \A i \in suyos : (\A j \in suyos : T(i) >= T(j)) => i \in nuevos
      /\ \A j \in suyos : T(m) >= T(j) /\ (T(m) = T(j) => m <= j)
      /\ \A i \in suyos : i \in Nat /\ T(i) \in Nat
  BY <1>2, <1>4 DEF Elegido
<1> HIDE DEF T, suyos, nuevos
<1>6. m \in nuevos
  BY <1>2, <1>5
<1>7. Primero(m)
  <2>1. ASSUME NEW j \in nuevos PROVE m <= j
    <3>1. T(m) >= T(j) /\ T(j) >= T(m) /\ T(m) \in Nat /\ T(j) \in Nat /\ j \in suyos
      BY <1>2, <1>5, <2>1
    <3>2. T(m) = T(j)
      BY <3>1
    <3>3. QED
      BY <1>5, <3>1, <3>2
  <2>2. QED
    BY <2>1
<1>8. c \in nuevos /\ Primero(c)
  <2> HIDE DEF Primero
  <2>1. QED
    BY <1>6, <1>7
<1> HIDE DEF c
<1>9. m <= c /\ c <= m /\ m \in Nat /\ c \in Nat
  BY <1>5, <1>6, <1>7, <1>8
<1>10. m = c
  BY <1>9
<1>11. QED
  BY <1>3, <1>10

\* All the records were put out, or the one that is wanted.
LEMMA TodosLeidos ==
  ASSUME Fijos, Salidos(Len(archivo))
  PROVE  LeidoHastaElCorte
<1>1. DOMAIN archivo = 1..Len(archivo)
  BY DEF Fijos
<1>2. CASE buscada = Todas
  <2>1. registros_leidos = [i \in 1..Len(archivo) |-> Registro(i)]
    BY <1>2 DEF Salidos
  <2>2. QED
    BY <1>1, <1>2, <2>1 DEF LeidoHastaElCorte
<1>3. CASE buscada # Todas
  <2>1. CASE Suyos(Len(archivo)) = {}
    <3>1. {i \in DOMAIN archivo : archivo[i].key = buscada} = {}
      BY <1>1, <2>1 DEF Suyos
    <3>2. Buscado = Vacio /\ retval = Vacio
      BY <1>3, <2>1, <3>1 DEF Buscado, Salidos
    <3>3. QED
      BY <1>3, <3>2 DEF LeidoHastaElCorte
  <2>2. CASE Suyos(Len(archivo)) # {}
    <3>1. PICK m \in Suyos(Len(archivo)) : retval = Registro(m) /\ Elegido(m, Suyos(Len(archivo)))
      BY <1>3, <2>2 DEF Salidos
    <3>2. retval = Buscado
      BY <3>1, BuscadoEs
    <3>3. QED
      BY <1>3, <3>2 DEF LeidoHastaElCorte
  <2>3. QED
    BY <2>1, <2>2
<1>4. QED
  BY <1>2, <1>3

\* In a partition, the first of the key is the only one.
LEMMA UnicoLeido ==
  ASSUME Fijos, NEW i \in 1..Len(archivo), es_unica, archivo[i].key = buscada, Salidos(i)
  PROVE  LeidoHastaElCorte
<1>1. buscada # Todas /\ EsUnica(archivo) /\ DOMAIN archivo = 1..Len(archivo) /\ Len(archivo) \in Nat
  BY DEF Fijos
<1>2. ASSUME NEW n \in i..Len(archivo) PROVE Suyos(n) = {i}
  <2>1. ASSUME NEW j \in Suyos(n) PROVE j = i
    <3>1. j \in DOMAIN archivo /\ archivo[j].key = archivo[i].key
      BY <1>1, <2>1 DEF Suyos
    <3>2. QED
      BY <1>1, <3>1 DEF EsUnica
  <2>2. i \in Suyos(n)
    BY <1>1 DEF Suyos
  <2>3. QED
    BY <2>1, <2>2
<1>3. i \in i..Len(archivo) /\ Len(archivo) \in i..Len(archivo)
  BY <1>1
<1>4. Suyos(i) = {i} /\ Suyos(Len(archivo)) = {i}
  BY <1>2, <1>3
<1>5. PICK m \in Suyos(i) : retval = Registro(m) /\ Elegido(m, Suyos(i))
  BY <1>1, <1>4 DEF Salidos
<1>6. Salidos(Len(archivo))
  BY <1>1, <1>4, <1>5 DEF Salidos
<1>7. QED
  BY <1>6, TodosLeidos

LEMMA InductivoLeido ==
  ASSUME Inductivo, Fin
  PROVE  LeidoHastaElCorte
<1>1. /\ Fijos /\ Tipos /\ EnBloques /\ DOMAIN archivo = 1..Len(archivo) /\ Len(archivo) \in Nat
      /\ registros_leidos \in Seq(Leible)
      /\ TamTimestamp \in Nat \ {0} /\ TamKey \in Nat \ {0} /\ TamanioValue \in Nat \ {0}
  BY Tamanios DEF Inductivo, Fijos, Tipos
<1>2. estado = "fin" \/ ~(offset_total < tam_total)
  BY DEF Fin, Seguir
<1>3. ASSUME NEW i, Bien(i) PROVE LeidoHastaElCorte
  <2>1. CASE i = Len(archivo) + 1
    <3>1. Salidos(i - 1) /\ i - 1 = Len(archivo)
      BY <1>1, <1>3, <2>1 DEF Bien
    <3>2. QED
      BY <1>1, <3>1, TodosLeidos
  <2>2. CASE i # Len(archivo) + 1
    <3>1. i \in 1..Len(archivo)
      BY <1>1, <1>3, <2>2 DEF Bien
    <3>2. /\ Desde(i) \in Nat /\ Inicio(i) = Desde(i) + TamTimestamp + TamKey + 2
          /\ archivo[i].largo \in Nat /\ tam_total \in Nat
          /\ Inicio(i) + archivo[i].largo + 1 <= tam_total
      <4>1. Desde(i) \in Nat /\ tam_total \in Nat
        BY <1>1, <3>1, Lugares, BufferEs DEF Fijos
      <4>2. Inicio(i) = Desde(i) + TamTimestamp + TamKey + 2
        BY DEF Inicio, Desde
      <4>3. QED
        BY <1>1, <3>1, <4>1, <4>2, ValorEs
    <3>3. offset_total \in Nat /\ offset_campo \in Nat
      BY <1>1 DEF EnBloques, Tipos, Posiciones
    <3>4. ASSUME Campo # "fin", offset_total <= Inicio(i) + archivo[i].largo PROVE FALSE
      <4>1. Inicio(i) \in Nat
        BY <1>1, <3>2
      <4>2. offset_total < tam_total
        BY <3>2, <3>3, <3>4, <4>1
      <4>3. QED
        BY <1>2, <3>4, <4>2 DEF Campo
    <3>5. ASSUME EnTimestamp(i) \/ Leyendo(i) PROVE FALSE
      <4>1. Campo # "fin"
        BY <3>5 DEF EnTimestamp, Leyendo, TrasTimestamp, EnKey, TrasKey, EnValue
      <4>2. \/ offset_total = Desde(i) + offset_campo /\ offset_campo < TamTimestamp
            \/ offset_total = Desde(i) + TamTimestamp
            \/ offset_total = Desde(i) + TamTimestamp + 1 + offset_campo /\ offset_campo < TamKey
            \/ offset_total = Desde(i) + TamTimestamp + 1 + TamKey
            \/ offset_total = Inicio(i) + offset_campo /\ offset_campo <= archivo[i].largo
        BY <3>5 DEF EnTimestamp, Leyendo, TrasTimestamp, EnKey, TrasKey, EnValue, EnCampo
      <4>3. offset_total <= Inicio(i) + archivo[i].largo
        <5> DEFINE d == Desde(i)
                   x == Inicio(i)
                   L == archivo[i].largo
        <5>1. /\ d \in Nat /\ L \in Nat /\ TamTimestamp \in Nat /\ TamKey \in Nat
              /\ offset_campo \in Nat /\ x = d + TamTimestamp + TamKey + 2
          BY <1>1, <3>2, <3>3
        <5> SUFFICES offset_total <= x + L
          OBVIOUS
        <5>2. \/ offset_total = d + offset_campo /\ offset_campo < TamTimestamp
              \/ offset_total = d + TamTimestamp
              \/ offset_total = d + TamTimestamp + 1 + offset_campo /\ offset_campo < TamKey
              \/ offset_total = d + TamTimestamp + 1 + TamKey
              \/ offset_total = x + offset_campo /\ offset_campo <= L
          BY <4>2
        <5> HIDE DEF d, x, L
        <5>3. QED
          BY <5>1, <5>2
      <4>4. QED
        BY <3>4, <4>1, <4>3
    <3>6. TrasValue(i) /\ Salidos(i)
      BY <1>3, <3>5 DEF Bien
    <3>7. Campo = "fin"
      <4>1. offset_total = Inicio(i) + archivo[i].largo
        BY <3>6 DEF TrasValue
      <4>2. Inicio(i) \in Nat
        BY <1>1, <3>2
      <4>3. offset_total <= Inicio(i) + archivo[i].largo
        BY <3>3, <4>1
      <4>4. QED
        BY <3>4, <4>3
    <3>8. es_unica /\ archivo[i].key = buscada
      BY <3>6, <3>7 DEF TrasValue
    <3>9. QED
      BY <1>1, <3>1, <3>6, <3>8, UnicoLeido
  <2>3. QED
    BY <2>1, <2>2
<1>4. ASSUME NEW m, Roto(m) PROVE LeidoHastaElCorte
  <2>1. m \in 1..Len(archivo) /\ Cortado(m)
    BY <1>4 DEF Roto
  <2>2. ~SinCortes
    BY <1>1, <2>1 DEF SinCortes
  <2>3. ASSUME buscada = Todas, NEW i \in DOMAIN archivo, \A j \in 1..i : ~Cortado(j)
        PROVE  i \in DOMAIN registros_leidos /\ registros_leidos[i] = Registro(i)
    <3>1. i \in 1..Len(archivo) /\ m \notin 1..i
      BY <1>1, <2>1, <2>3
    <3>2. i \in 1..m - 1
      BY <1>1, <2>1, <3>1
    <3>3. m - 1 <= Len(registros_leidos) /\ registros_leidos[i] = Registro(i)
      BY <1>4, <2>3, <3>2 DEF Roto
    <3>4. DOMAIN registros_leidos = 1..Len(registros_leidos) /\ Len(registros_leidos) \in Nat
      BY <1>1
    <3>5. QED
      BY <2>1, <3>2, <3>3, <3>4
  <2>4. QED
    BY <2>2, <2>3 DEF LeidoHastaElCorte
<1>5. QED
  BY <1>3, <1>4 DEF Inductivo

(* If the reading ends, it ends with every record that was written, in     *)
(* their order, or with the newest of the key and of those the first that  *)
(* was written, wherever the blocks cut the fields and the separators; and *)
(* with the records before it, in a file with a value that the code loses. *)
THEOREM LeidoAlTerminar == Spec => [](Fin => LeidoHastaElCorte)
<1>1. Inductivo => (Fin => LeidoHastaElCorte)
  BY InductivoLeido
<1>2. QED
  BY <1>1, SiempreInductivo, PTL
====
