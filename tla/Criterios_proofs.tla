---- MODULE Criterios_proofs ----
(***************************************************************************)
(* Theorems of Criterios for any memories, tables, threads and bounds.     *)
(***************************************************************************)
EXTENDS Criterios, FiniteSetTheorems, FunctionTheorems, SequenceTheorems, WellFoundedInduction,
        TLAPS

USE CriteriosAssumption

-----------------------------------------------------------------------------
(* What the prover needs besides TypeOK: the fields of a request, and what *)
(* a request has at each step.                                             *)

TipoDePedido ==
  [tipo : {"nada", "PAGINA", "CREATE", "DROP", "DESCRIBE", "JOURNAL", "ADD"},
   tabla : Tablas \cup {Nadie}, key : Keys \cup {0}, criterio : Nombres \cup {"no"},
   mem : Memorias \cup {Nadie}, lista : SUBSET Memorias, respuesta : SUBSET Entrada]

Pasos == {"libre", "elegir", "conectar", "enviar", "contar", "guardar", "sacar", "sacarCriterios",
          "sacarMetricas", "agregar", "vaciar", "asociar", "asociarMetricas"}

\* Steps that are about one memory.
ConMemoria == {"conectar", "enviar", "contar", "sacar", "sacarCriterios", "sacarMetricas",
               "agregar", "asociar", "asociarMetricas"}

\* Who holds the mutex of the criteria empties the memories of SHC.
Vacia(h) == pc[h] = "vaciar" /\ cerrojo = h

Completo(h) ==
  /\ pc[h] \in ConMemoria \/ Vacia(h) => op[h].mem \in Memorias
  /\ pc[h] \in {"conectar", "enviar"} /\ op[h].tipo = "CREATE" =>
       op[h].tabla \in Tablas /\ op[h].criterio \in Nombres
  /\ pc[h] = "elegir" => op[h].tipo = "PAGINA"
  /\ op[h].tipo = "PAGINA" => op[h].key \in Keys
  /\ Vacia(h) /\ op[h].tipo = "ADD" => op[h].mem \notin Range(shc)

(* The mutex is held across steps by who is emptying SHC, or is going to   *)
(* wait for itself.                                                        *)
DuenoVacia == cerrojo # Nadie => pc[cerrojo] \in {"vaciar", "sacar", "sacarCriterios"}

\* SC has at most one memory.
UnaDeSC == \A m, n \in sc : m = n

Tipos ==
  /\ TypeOK /\ UnaDeSC
  /\ op \in [Hilos -> TipoDePedido]
  /\ \A h \in Hilos : Completo(h)
  /\ DuenoVacia

\* A memory that is not of SHC has no key of SHC that it was not told to journal.
FueraDeSHC == \A m \in Memorias \ Range(shc) : sinJournal[m] = {}

\* Of those of SHC, while they are being emptied, only those that are left have.
PorVaciar ==
  \A h \in Hilos : Vacia(h) => \A m \in Range(shc) : sinJournal[m] = {} \/ m \in op[h].lista

Vaciado == FueraDeSHC /\ PorVaciar /\ SHCConJournal

-----------------------------------------------------------------------------
(* Sequences and sets.                                                     *)

\* Of a list without repetitions, all but the one that is taken out stay.
LEMMA QuitarDeja ==
  ASSUME NEW S, NEW s \in Seq(S), IsInjective(s), NEW x
  PROVE  /\ Quitar(s, x) \in Seq(S) /\ IsInjective(Quitar(s, x))
         /\ Range(Quitar(s, x)) = Range(s) \ {x}
<1>1. CASE ~Contains(s, x)
  BY <1>1 DEF Quitar, Contains, Range
<1>2. CASE Contains(s, x)
  <2>. DEFINE i == CHOOSE j \in DOMAIN s : s[j] = x
              r == RemoveAt(s, i)
  <2>1. i \in 1..Len(s) /\ s[i] = x /\ Len(s) \in Nat
    BY <1>2 DEF Contains
  <2>. HIDE DEF i
  <2>2. /\ r \in Seq(S) /\ Len(r) = Len(s) - 1
        /\ \A j \in 1..Len(s) - 1 : r[j] = IF j < i THEN s[j] ELSE s[j + 1]
    <3>. DEFINE a == SubSeq(s, 1, i - 1)
                b == SubSeq(s, i + 1, Len(s))
    <3>1. a \in Seq(S) /\ Len(a) = i - 1 /\ \A j \in 1..i - 1 : a[j] = s[j]
      BY <2>1
    <3>2. b \in Seq(S) /\ Len(b) = Len(s) - i /\ \A j \in 1..Len(s) - i : b[j] = s[i + j]
      BY <2>1
    <3>. HIDE DEF a, b
    <3>3. a \o b \in Seq(S) /\ Len(a \o b) = Len(a) + Len(b)
      BY ONLY <3>1, <3>2, ConcatProperties
    <3>4. \A j \in 1..Len(a) + Len(b) :
            (a \o b)[j] = IF j <= Len(a) THEN a[j] ELSE b[j - Len(a)]
      BY ONLY <3>1, <3>2, ConcatProperties, Zenon
    <3>5. \A j \in 1..Len(s) - 1 : (a \o b)[j] = IF j < i THEN s[j] ELSE s[j + 1]
      <4>. SUFFICES ASSUME NEW j \in 1..Len(s) - 1
                    PROVE  (a \o b)[j] = IF j < i THEN s[j] ELSE s[j + 1]
        OBVIOUS
      <4>1. j \in 1..Len(a) + Len(b) /\ Len(a) = i - 1 /\ i \in 1..Len(s) /\ Len(s) \in Nat
        BY <2>1, <3>1, <3>2
      <4>2. CASE j < i
        <5>1. j \in 1..i - 1 /\ j <= Len(a)
          BY <4>1, <4>2
        <5>. QED
          BY <4>2, <4>1, <5>1, <3>1, <3>4
      <4>3. CASE ~(j < i)
        <5>1. j - Len(a) \in 1..Len(s) - i /\ ~(j <= Len(a)) /\ i + (j - Len(a)) = j + 1
          BY <4>1, <4>3
        <5>. QED
          BY <4>3, <4>1, <5>1, <3>2, <3>4
      <4>. QED
        BY <4>2, <4>3
    <3>6. r = a \o b
      BY DEF RemoveAt, a, b
    <3>7. Len(a) + Len(b) = Len(s) - 1
      BY ONLY <2>1, <3>1, <3>2
    <3>. QED
      BY ONLY <3>3, <3>5, <3>6, <3>7
  <2>3. \A j, k \in 1..Len(s) : s[j] = s[k] => j = k
    BY DEF IsInjective
  <2>4. IsInjective(r)
    <3>. SUFFICES ASSUME NEW j \in 1..Len(r), NEW k \in 1..Len(r), r[j] = r[k] PROVE j = k
      BY <2>2 DEF IsInjective
    <3>. DEFINE a(n) == IF n < i THEN n ELSE n + 1
    <3>1. s[a(j)] = s[a(k)] /\ a(j) \in 1..Len(s) /\ a(k) \in 1..Len(s)
      BY <2>1, <2>2
    <3>2. a(j) = a(k)
      BY <3>1, <2>3
    <3>. QED
      BY <3>2, <2>1, <2>2
  <2>5. Range(r) \subseteq Range(s) \ {x}
    <3>. SUFFICES ASSUME NEW j \in 1..Len(r) PROVE r[j] \in Range(s) \ {x}
      BY <2>2 DEF Range
    <3>. DEFINE a == IF j < i THEN j ELSE j + 1
    <3>1. a \in 1..Len(s) /\ a # i /\ r[j] = s[a]
      BY <2>1, <2>2
    <3>. QED
      BY <3>1, <2>1, <2>3 DEF Range
  <2>6. Range(s) \ {x} \subseteq Range(r)
    <3>. SUFFICES ASSUME NEW j \in 1..Len(s), s[j] # x PROVE s[j] \in Range(r)
      BY DEF Range
    <3>. DEFINE a == IF j < i THEN j ELSE j - 1
    <3>1. a \in 1..Len(r) /\ r[a] = s[j]
      BY <2>1, <2>2
    <3>. QED
      BY <3>1, <2>2 DEF Range
  <2>. QED
    <3>1. Quitar(s, x) = r
      BY <1>2 DEF Quitar, i
    <3>. QED
      BY <2>2, <2>4, <2>5, <2>6, <3>1
<1>. QED
  BY <1>1, <1>2

LEMMA AgregarAlFinal ==
  ASSUME NEW S, NEW s \in Seq(S), IsInjective(s), NEW x \in S, x \notin Range(s)
  PROVE  /\ Append(s, x) \in Seq(S) /\ IsInjective(Append(s, x))
         /\ Range(Append(s, x)) = Range(s) \cup {x}
<1>. DEFINE r == Append(s, x)
            n == Len(s) + 1
<1>1. /\ Len(s) \in Nat /\ r \in Seq(S) /\ Len(r) = n /\ r[n] = x
      /\ \A j \in 1..Len(s) : r[j] = s[j]
  OBVIOUS
<1>2. \A j \in 1..Len(s) : s[j] # x
  BY DEF Range
<1>. HIDE DEF r
<1>3. \A j, k \in 1..n : r[j] = r[k] => j = k
  BY <1>1, <1>2 DEF IsInjective
<1>4. Range(r) = Range(s) \cup {x}
  <2>1. 1..n = (1..Len(s)) \cup {n}
    BY <1>1
  <2>. QED
    BY <1>1, <2>1 DEF Range
<1>. QED
  BY <1>1, <1>3, <1>4 DEF IsInjective, r

\* SetToSeq lists the set.
LEMMA ListaDe ==
  ASSUME NEW S, IsFiniteSet(S)
  PROVE  SetToSeq(S) \in Seq(S)
<1>1. Cardinality(S) \in Nat /\ ExistsBijection(1..Cardinality(S), S)
  BY FS_CardinalityType
<1>2. \E f \in [1..Cardinality(S) -> S] : IsInjective(f)
  BY <1>1, Zenon DEF ExistsBijection, Bijection, Injection
<1>3. SetToSeq(S) \in [1..Cardinality(S) -> S]
  BY <1>2 DEF SetToSeq
<1>. QED
  BY <1>1, <1>3

\* An answer has a finite number of entries.
LEMMA EntradasFinitas ==
  ASSUME NEW S \in SUBSET Entrada
  PROVE  IsFiniteSet(S)
<1>. DEFINE f == [p \in Tablas \X Nombres |-> [tabla |-> p[1], criterio |-> p[2]]]
<1>1. IsFiniteSet(Nombres)
  <2>1. IsFiniteSet({"SC"} \cup {"SHC"})
    BY FS_Singleton, FS_AddElement
  <2>2. IsFiniteSet(({"SC"} \cup {"SHC"}) \cup {"EC"})
    BY <2>1, FS_AddElement, Zenon
  <2>3. Nombres = ({"SC"} \cup {"SHC"}) \cup {"EC"}
    BY DEF Nombres
  <2>. QED
    BY ONLY <2>2, <2>3
<1>2. IsFiniteSet(Tablas \X Nombres)
  BY <1>1, FS_Product, Zenon DEF CriteriosAssumption
<1>3. f \in [Tablas \X Nombres -> Entrada]
  BY DEF Entrada
<1>4. \A e \in Entrada : \E p \in Tablas \X Nombres : f[p] = e
  <2>. SUFFICES ASSUME NEW e \in Entrada PROVE \E p \in Tablas \X Nombres : f[p] = e
    OBVIOUS
  <2>1. <<e.tabla, e.criterio>> \in Tablas \X Nombres /\ f[<<e.tabla, e.criterio>>] = e
    BY DEF Entrada
  <2>. QED
    BY <2>1
<1>. HIDE DEF f
<1>5. f \in Surjection(Tablas \X Nombres, Entrada)
  BY <1>3, <1>4, Fun_IsSurj, Zenon
<1>6. IsFiniteSet(Entrada)
  BY <1>2, <1>5, FS_Surjection, Zenon
<1>. QED
  BY <1>6, FS_Subset, Zenon

\* A table that is in the list has a first entry.
LEMMA PrimeraEntrada ==
  ASSUME NEW S \in SUBSET Nat, S # {}
  PROVE  \E i \in S : \A j \in S : i <= j
<1>. DEFINE R == OpToRel(<, Nat)
<1>1. ASSUME NEW i \in Nat, NEW j \in Nat, j < i PROVE <<j, i>> \in R
  BY <1>1 DEF OpToRel
<1>2. IsWellFoundedOn(R, Nat)
  BY NatLessThanWellFounded
<1>. HIDE DEF R
<1>3. PICK i \in S : \A j \in S : <<j, i>> \notin R
  BY <1>2, WFMin, Zenon
<1>4. ASSUME NEW j \in S PROVE i <= j
  <2>1. i \in Nat /\ j \in Nat /\ ~(j < i)
    BY <1>1, <1>3, Zenon
  <2>. QED
    BY ONLY <2>1
<1>. QED
  BY <1>4, Zenon

-----------------------------------------------------------------------------
(* Types.                                                                  *)

LEMMA TiposInit == Init => Tipos
<1>. SUFFICES ASSUME Init PROVE Tipos
  OBVIOUS
<1>1. \A h \in Hilos : op[h] = Pedido /\ pc[h] = "libre" /\ Pedido.tipo = "nada"
  BY DEF Init, Pedido
<1>2. Pedido \in TipoDePedido
  BY DEF Pedido, TipoDePedido
<1>3. shc \in Seq(Memorias) /\ IsInjective(shc) /\ tablas \in Seq(Entrada)
  BY DEF Init, IsInjective
<1>4. sc \subseteq Memorias /\ Cardinality(sc) <= 1
  BY FS_EmptySet DEF Init
<1>5. lfs \in [Tablas -> Nombres \cup {"no"}]
  BY DEF Init, CriteriosAssumption
<1>6. TypeOK
  BY <1>1, <1>3, <1>4, <1>5 DEF Init, TypeOK, Pedido, CriteriosAssumption
<1>. QED
  BY <1>1, <1>2, <1>6 DEF Tipos, Completo, Vacia, ConMemoria, DuenoVacia, UnaDeSC, Init

\* The types of what a step of a thread changes of its own.
Propio(h) ==
  /\ op' = [op EXCEPT ![h] = op'[h]] /\ op'[h] \in TipoDePedido
  /\ pc' = [pc EXCEPT ![h] = pc'[h]] /\ pc'[h] \in Pasos
  /\ Completo(h)'

\* The mutex, and the list of SHC, which only its owner changes.
ConCerrojo(h) ==
  /\ cerrojo' \in {cerrojo, h, Nadie}
  /\ cerrojo' = h => pc'[h] \in {"vaciar", "sacar", "sacarCriterios"}
  /\ shc' = shc \/ cerrojo' \in {h, Nadie}

\* What a step of one thread has to show of the others.
LEMMA PasoDeHilo ==
  ASSUME Tipos, NEW h \in Hilos, Propio(h), ConCerrojo(h)
  PROVE  /\ op' \in [Hilos -> TipoDePedido] /\ pc' \in [Hilos -> Pasos]
         /\ cerrojo' \in Hilos \cup {Nadie}
         /\ \A g \in Hilos : Completo(g)'
         /\ DuenoVacia'
<1>1. /\ op \in [Hilos -> TipoDePedido] /\ pc \in [Hilos -> Pasos]
      /\ cerrojo \in Hilos \cup {Nadie} /\ Nadie \notin Hilos
  BY DEF Tipos, TypeOK, Pasos, CriteriosAssumption
<1>2. \A g \in Hilos \ {h} : op'[g] = op[g] /\ pc'[g] = pc[g]
  BY <1>1 DEF Propio
<1>3. /\ op' \in [Hilos -> TipoDePedido] /\ pc' \in [Hilos -> Pasos]
      /\ cerrojo' \in Hilos \cup {Nadie}
  BY <1>1 DEF Propio, ConCerrojo
<1>4. ASSUME NEW g \in Hilos \ {h} PROVE Completo(g)'
  <2>1. Completo(g) /\ op'[g] = op[g] /\ pc'[g] = pc[g]
    BY <1>2 DEF Tipos
  <2>2. cerrojo' = g => cerrojo = g /\ shc' = shc
    BY <1>1 DEF ConCerrojo
  <2>3. Vacia(g)' => Vacia(g) /\ shc' = shc
    BY <2>1, <2>2 DEF Vacia
  <2>. QED
    BY <2>1, <2>3 DEF Completo
<1>5. DuenoVacia'
  <2>. SUFFICES ASSUME cerrojo' # Nadie, cerrojo' # h
                PROVE  pc'[cerrojo'] \in {"vaciar", "sacar", "sacarCriterios"}
    BY DEF DuenoVacia, ConCerrojo
  <2>1. cerrojo' = cerrojo /\ cerrojo \in Hilos \ {h}
    BY <1>1 DEF ConCerrojo
  <2>. QED
    BY <2>1, <1>2 DEF Tipos, DuenoVacia
<1>. QED
  BY <1>3, <1>4, <1>5 DEF Propio

\* The types of the lists, the counters and what is outside.
TipoDeListas ==
  /\ conocidas \subseteq Memorias /\ asociadas \subseteq Memorias
  /\ sc \subseteq Memorias /\ UnaDeSC
  /\ shc \in Seq(Memorias) /\ IsInjective(shc) /\ ec \subseteq Memorias
  /\ tablas \in Seq(Entrada)

TipoDeCuentas ==
  /\ metricas \in [Memorias -> Nat] /\ operaciones \in [Memorias -> Nat] /\ totales \in Nat
  /\ altas \in 0..MaxAltas /\ pedidos \in 0..MaxPedidos

TipoDeExternas ==
  /\ vivo \in BOOLEAN /\ arriba \subseteq Memorias /\ caidas \in 0..MaxCaidas
  /\ lfs \in [Tablas -> Nombres \cup {"no"}]
  /\ sinJournal \in [Memorias -> SUBSET Keys]

LEMMA TamanoDeSC ==
  ASSUME UnaDeSC
  PROVE  Cardinality(sc) <= 1
<1>1. sc = {} \/ \E m \in sc : sc = {m}
  BY DEF UnaDeSC
<1>2. Cardinality({}) = 0 /\ \A m : Cardinality({m}) = 1
  BY FS_EmptySet, FS_Singleton, Zenon
<1>. QED
  BY ONLY <1>1, <1>2

LEMMA TiposAparte ==
  Tipos => TipoDeListas /\ TipoDeCuentas /\ TipoDeExternas
BY DEF Tipos, TypeOK, TipoDeListas, TipoDeCuentas, TipoDeExternas

LEMMA TiposJuntos ==
  ASSUME Tipos, NEW h \in Hilos, Propio(h), ConCerrojo(h),
         TipoDeListas', TipoDeCuentas', TipoDeExternas'
  PROVE  Tipos'
<1>1. /\ op' \in [Hilos -> TipoDePedido] /\ pc' \in [Hilos -> Pasos]
      /\ cerrojo' \in Hilos \cup {Nadie}
      /\ \A g \in Hilos : Completo(g)'
      /\ DuenoVacia'
  BY PasoDeHilo
<1>2. ASSUME NEW g \in Hilos
      PROVE  /\ op'[g].lista \subseteq Memorias /\ op'[g].respuesta \subseteq Entrada
             /\ op'[g].mem \in Memorias \cup {Nadie}
  <2>1. op'[g] \in TipoDePedido
    BY <1>1
  <2>. QED
    BY <2>1 DEF TipoDePedido
<1>3. Cardinality(sc') <= 1
  <2>1. UnaDeSC' => (Cardinality(sc) <= 1)'
    BY TamanoDeSC, PTL
  <2>. QED
    BY <2>1 DEF TipoDeListas
<1>4. TypeOK'
  BY <1>1, <1>2, <1>3 DEF TypeOK, Pasos, TipoDeListas, TipoDeCuentas, TipoDeExternas
<1>. QED
  BY <1>1, <1>4 DEF Tipos, TipoDeListas

LEMMA DelHilo ==
  ASSUME Tipos, NEW h \in Hilos
  PROVE  /\ op[h] \in TipoDePedido /\ pc[h] \in Pasos /\ Completo(h)
         /\ pc \in [Hilos -> Pasos] /\ op \in [Hilos -> TipoDePedido]
         /\ cerrojo \in Hilos \cup {Nadie} /\ Nadie \notin Hilos
         /\ cerrojo = h => pc[h] \in {"vaciar", "sacar", "sacarCriterios"}
BY DEF Tipos, TypeOK, Pasos, CriteriosAssumption, DuenoVacia

\* A request that is over, or that only keeps its memory, is one.
LEMMA PedidosVacios ==
  /\ Pedido \in TipoDePedido /\ Pedido.tipo = "nada"
  /\ \A m \in Memorias : [Pedido EXCEPT !.mem = m] \in TipoDePedido
                         /\ [Pedido EXCEPT !.mem = m].mem = m
                         /\ [Pedido EXCEPT !.mem = m].tipo = "nada"
BY DEF Pedido, TipoDePedido

\* The thread is done.
LEMMA PropioResponder ==
  ASSUME Tipos, NEW h \in Hilos, Responder(h)
  PROVE  Propio(h)
<1>1. op' = [op EXCEPT ![h] = Pedido] /\ pc' = [pc EXCEPT ![h] = "libre"]
  BY DEF Responder, Ir
<1>2. op'[h] = Pedido /\ pc'[h] = "libre"
  BY <1>1, DelHilo
<1>. QED
  BY <1>1, <1>2, PedidosVacios DEF Propio, Completo, Vacia, ConMemoria, Pasos

\* The thread goes on with its memory.
LEMMA PropioOlvidar ==
  ASSUME Tipos, NEW h \in Hilos, NEW m \in Memorias, NEW p \in Pasos \ {"vaciar", "elegir"},
         Olvidar(h, m), Ir(h, p)
  PROVE  Propio(h)
<1>1. op' = [op EXCEPT ![h] = [Pedido EXCEPT !.mem = m]] /\ pc' = [pc EXCEPT ![h] = p]
  BY DEF Olvidar, Ir
<1>2. op'[h] = [Pedido EXCEPT !.mem = m] /\ pc'[h] = p
  BY <1>1, DelHilo
<1>. QED
  BY <1>1, <1>2, PedidosVacios DEF Propio, Completo, Vacia

\* The thread goes on with its request.
LEMMA PropioIr ==
  ASSUME Tipos, NEW h \in Hilos, NEW p \in Pasos \ {"vaciar", "conectar", "enviar", "elegir"},
         Ir(h, p), UNCHANGED op, p \in ConMemoria => op[h].mem \in Memorias
  PROVE  Propio(h)
<1>1. op'[h] = op[h] /\ op' = [op EXCEPT ![h] = op'[h]]
  BY DelHilo
<1>2. pc'[h] = p /\ pc' = [pc EXCEPT ![h] = pc'[h]]
  BY DelHilo DEF Ir
<1>. QED
  BY <1>1, <1>2, DelHilo DEF Propio, Completo, Vacia

-----------------------------------------------------------------------------
(* The steps keep the types.                                               *)

\* Nobody moves.
LEMMA TiposQuietos ==
  ASSUME Tipos, UNCHANGED <<pc, op, cerrojo, shc>>,
         TipoDeListas', TipoDeCuentas', TipoDeExternas'
  PROVE  Tipos'
<1>1. Cardinality(sc') <= 1
  <2>1. UnaDeSC' => (Cardinality(sc) <= 1)'
    BY TamanoDeSC, PTL
  <2>. QED
    BY <2>1 DEF TipoDeListas
<1>2. TypeOK'
  BY <1>1 DEF Tipos, TypeOK, TipoDeListas, TipoDeCuentas, TipoDeExternas
<1>. QED
  BY <1>2 DEF Tipos, TipoDeListas, Completo, Vacia, DuenoVacia

LEMMA TiposAfuera ==
  ASSUME Tipos, Afuera \/ ActualizarMemoriasDisponibles \/ ReiniciarMetricas
  PROVE  Tipos'
<1>1. UNCHANGED <<pc, op, cerrojo, shc, sc, ec, asociadas, tablas, metricas, altas, pedidos, vivo, lfs>>
  BY DEF Afuera, Caer, Volver, ActualizarMemoriasDisponibles, ReiniciarMetricas, miembros,
         externas, cuentas, contadores
<1>2. TipoDeListas'
  BY <1>1, TiposAparte DEF TipoDeListas, UnaDeSC, Afuera, Caer, Volver, ActualizarMemoriasDisponibles,
       ReiniciarMetricas, TipoDeExternas
<1>3. TipoDeCuentas'
  BY <1>1, TiposAparte DEF TipoDeCuentas, Afuera, Caer, Volver, ActualizarMemoriasDisponibles,
       ReiniciarMetricas, contadores
<1>4. TipoDeExternas'
  BY <1>1, TiposAparte DEF TipoDeExternas, Afuera, Caer, Bajar, Volver,
       ActualizarMemoriasDisponibles, ReiniciarMetricas, externas, CriteriosAssumption
<1>. QED
  BY <1>1, <1>2, <1>3, <1>4, TiposQuietos

LEMMA TiposVaciarLiberada ==
  ASSUME Tipos, NEW h \in Hilos, VaciarLiberada(h)
  PROVE  Tipos'
<1>1. UNCHANGED <<externas, conocidas, miembros, contadores, tablas, cerrojo, pc, op, cuentas>>
      /\ vivo' = FALSE
  BY DEF VaciarLiberada
<1>2. TipoDeListas' /\ TipoDeCuentas' /\ TipoDeExternas'
  BY <1>1, TiposAparte DEF externas, miembros, contadores, cuentas, TipoDeListas, UnaDeSC, TipoDeCuentas,
       TipoDeExternas
<1>. QED
  BY <1>1, <1>2, TiposQuietos DEF miembros

LEMMA TiposContar ==
  ASSUME Tipos, NEW h \in Hilos, Contar(h)
  PROVE  Tipos'
<1>1. Propio(h)
  BY PropioResponder DEF Contar
<1>2. ConCerrojo(h)
  BY DelHilo DEF Contar, ConCerrojo, miembros
<1>3. TipoDeListas' /\ TipoDeExternas'
  BY TiposAparte DEF Contar, externas, miembros, TipoDeListas, UnaDeSC, TipoDeExternas
<1>4. op[h].mem \in Memorias
  BY DelHilo DEF Contar, Completo, ConMemoria
<1>5. TipoDeCuentas'
  BY <1>4, TiposAparte DEF Contar, TipoDeCuentas, cuentas
<1>. QED
  BY <1>1, <1>2, <1>3, <1>5, TiposJuntos

\* A step that changes no list, no counter and nothing outside.
LEMMA SoloHilo ==
  ASSUME Tipos, NEW h \in Hilos, Propio(h), cerrojo # h,
         UNCHANGED <<vivo, externas, conocidas, miembros, contadores, tablas, cerrojo>>,
         altas' \in 0..MaxAltas, pedidos' \in 0..MaxPedidos
  PROVE  Tipos'
<1>1. ConCerrojo(h)
  BY DEF ConCerrojo, miembros
<1>2. TipoDeListas' /\ TipoDeCuentas' /\ TipoDeExternas'
  BY TiposAparte DEF externas, miembros, contadores, TipoDeListas, UnaDeSC, TipoDeCuentas, TipoDeExternas
<1>. QED
  BY <1>1, <1>2, TiposJuntos

LEMMA CuentasIguales ==
  ASSUME Tipos, UNCHANGED cuentas
  PROVE  altas' \in 0..MaxAltas /\ pedidos' \in 0..MaxPedidos
BY TiposAparte DEF TipoDeCuentas, cuentas

\* The criterion of a table that is in the list is one.
LEMMA CriterioTipo ==
  ASSUME Tipos, NEW t
  PROVE  CriterioDe(t) \in Nombres \cup {"no"}
<1>. DEFINE suyas == {i \in 1..Len(tablas) : tablas[i].tabla = t}
            i == CHOOSE j \in suyas : \A k \in suyas : j <= k
<1>1. tablas \in Seq(Entrada)
  BY TiposAparte DEF TipoDeListas
<1>2. CASE suyas = {}
  BY <1>2 DEF CriterioDe
<1>3. CASE suyas # {}
  <2>1. suyas \in SUBSET Nat
    BY <1>1
  <2>2. \E j \in suyas : \A k \in suyas : j <= k
    BY <1>3, <2>1, PrimeraEntrada, Zenon
  <2>3. i \in suyas
    BY <2>2, Zenon
  <2>4. tablas[i] \in Entrada
    BY <2>3, <1>1
  <2>5. tablas[i].criterio \in Nombres
    BY <2>4 DEF Entrada
  <2>6. CriterioDe(t) = tablas[i].criterio
    BY <1>3, Zenon DEF CriterioDe
  <2>. QED
    BY <2>5, <2>6
<1>. QED
  BY <1>2, <1>3

LEMMA TiposPedirPagina ==
  ASSUME Tipos, NEW h \in Hilos, PedirPagina(h)
  PROVE  Tipos'
<1>1. PICK t \in Tablas, k \in Keys :
        op' = [op EXCEPT ![h] = [Pedido EXCEPT !.tipo = "PAGINA", !.key = k,
                                               !.criterio = CriterioDe(t)]]
  BY DEF PedirPagina
<1>2. /\ op'[h] = [Pedido EXCEPT !.tipo = "PAGINA", !.key = k, !.criterio = CriterioDe(t)]
      /\ pc' = [pc EXCEPT ![h] = "elegir"] /\ pc'[h] = "elegir" /\ pc[h] = "libre"
  BY <1>1, DelHilo DEF PedirPagina, Ir
<1>3. op'[h] \in TipoDePedido /\ op'[h].tipo = "PAGINA" /\ op'[h].key = k
  <2>1. op'[h] = [tipo |-> "PAGINA", tabla |-> Nadie, key |-> k, criterio |-> CriterioDe(t),
                  mem |-> Nadie, lista |-> {}, respuesta |-> {}]
    BY <1>2 DEF Pedido
  <2>2. CriterioDe(t) \in Nombres \cup {"no"}
    BY CriterioTipo
  <2>. QED
    BY <2>1, <2>2 DEF TipoDePedido
<1>4. Propio(h)
  BY <1>1, <1>2, <1>3 DEF Propio, Completo, Vacia, ConMemoria, Pasos
<1>5. altas' \in 0..MaxAltas /\ pedidos' \in 0..MaxPedidos
  BY TiposAparte DEF PedirPagina, TipoDeCuentas, CriteriosAssumption
<1>6. UNCHANGED <<vivo, externas, conocidas, miembros, contadores, tablas, cerrojo>>
  BY DEF PedirPagina
<1>. QED
  BY <1>2, <1>4, <1>5, <1>6, SoloHilo, DelHilo

\* The memories a request may go to.
LEMMA CandidatasTipo ==
  ASSUME Tipos, NEW c, NEW k \in Keys \cup {0}
  PROVE  Candidatas(c, k) \subseteq Memorias
<1>1. shc \in Seq(Memorias) /\ sc \subseteq Memorias /\ ec \subseteq Memorias /\ k \in Nat
  BY TiposAparte DEF TipoDeListas, CriteriosAssumption
<1>2. ASSUME shc # << >> PROVE shc[Indice(k)] \in Memorias
  <2>1. Len(shc) \in Nat \ {0}
    BY <1>1, <1>2
  <2>2. Indice(k) \in 1..Len(shc)
    BY <1>1, <2>1 DEF Indice
  <2>. QED
    BY <1>1, <2>2
<1>. QED
  BY <1>1, <1>2 DEF Candidatas

LEMMA TiposElegirMemoriaCriterio ==
  ASSUME Tipos, NEW h \in Hilos, ElegirMemoriaCriterio(h)
  PROVE  Tipos'
<1>. DEFINE c == Candidatas(op[h].criterio, op[h].key)
<1>1. UNCHANGED <<vivo, externas, conocidas, miembros, contadores, tablas, cerrojo, cuentas>>
      /\ pc[h] = "elegir"
  BY DEF ElegirMemoriaCriterio
<1>2. CASE Responder(h)
  BY <1>1, <1>2, PropioResponder, SoloHilo, CuentasIguales, DelHilo
<1>3. ASSUME NEW m \in c, op' = [op EXCEPT ![h].mem = m], Ir(h, "conectar")
      PROVE  Tipos'
  <2>1. op[h] \in TipoDePedido /\ op[h].key \in Keys \cup {0}
    BY DelHilo DEF TipoDePedido
  <2>2. m \in Memorias
    BY <2>1, CandidatasTipo
  <2>3. op'[h] = [op[h] EXCEPT !.mem = m] /\ pc' = [pc EXCEPT ![h] = "conectar"]
        /\ pc'[h] = "conectar"
    BY <1>3, DelHilo DEF Ir
  <2>4. op'[h] \in TipoDePedido /\ op'[h].mem = m /\ op'[h].tipo = "PAGINA"
        /\ op'[h].key \in Keys
    BY <2>1, <2>2, <2>3, <1>1, DelHilo DEF TipoDePedido, Completo
  <2>5. Propio(h)
    BY <1>3, <2>2, <2>3, <2>4 DEF Propio, Completo, Vacia, Pasos
  <2>. QED
    BY <1>1, <2>5, SoloHilo, CuentasIguales, DelHilo
<1>. QED
  BY <1>2, <1>3 DEF ElegirMemoriaCriterio

LEMMA PropioElegirMemoria ==
  ASSUME Tipos, NEW h \in Hilos,
         NEW p \in {"CREATE", "DROP", "DESCRIBE"}, NEW t \in Tablas \cup {Nadie},
         NEW c \in Nombres \cup {"no"}, ElegirMemoria(h, p, t, c),
         p = "CREATE" => t \in Tablas /\ c \in Nombres
  PROVE  Propio(h) /\ cerrojo # h
<1>1. PICK m \in asociadas :
        op' = [op EXCEPT ![h] = [Pedido EXCEPT !.tipo = p, !.tabla = t, !.criterio = c, !.mem = m]]
  BY DEF ElegirMemoria
<1>2. m \in Memorias
  BY TiposAparte DEF TipoDeListas
<1>3. pc[h] = "libre" /\ pc' = [pc EXCEPT ![h] = "conectar"] /\ pc'[h] = "conectar"
  BY DelHilo DEF ElegirMemoria, Ir
<1>4. op'[h] = [tipo |-> p, tabla |-> t, key |-> 0, criterio |-> c, mem |-> m, lista |-> {},
                respuesta |-> {}]
  BY <1>1, DelHilo DEF Pedido
<1>5. op'[h] \in TipoDePedido
  BY <1>2, <1>4 DEF TipoDePedido
<1>6. Completo(h)'
  BY <1>2, <1>3, <1>4 DEF Completo, Vacia
<1>. QED
  BY <1>1, <1>3, <1>5, <1>6, DelHilo DEF Propio, Pasos

LEMMA TiposPedirTabla ==
  ASSUME Tipos, NEW h \in Hilos, PedirTabla(h)
  PROVE  Tipos'
<1>1. PICK t \in Tablas, p \in {"CREATE", "DROP", "DESCRIBE"}, c \in Nombres \cup {"no"} :
        ElegirMemoria(h, p, t, c) /\ (p = "CREATE" => c \in Nombres)
  BY DEF PedirTabla
<1>2. Propio(h) /\ cerrojo # h
  BY <1>1, PropioElegirMemoria
<1>3. altas' \in 0..MaxAltas /\ pedidos' \in 0..MaxPedidos
  BY TiposAparte DEF PedirTabla, TipoDeCuentas, CriteriosAssumption
<1>. QED
  BY <1>1, <1>2, <1>3, SoloHilo DEF ElegirMemoria

LEMMA TiposPedirMetadata ==
  ASSUME Tipos, PedirMetadata
  PROVE  Tipos'
<1>1. Refresco \in Hilos /\ ElegirMemoria(Refresco, "DESCRIBE", Nadie, "no") /\ UNCHANGED cuentas
  BY DEF PedirMetadata, Hilos
<1>2. Propio(Refresco) /\ cerrojo # Refresco
  BY <1>1, PropioElegirMemoria
<1>. QED
  BY <1>1, <1>2, CuentasIguales, SoloHilo DEF ElegirMemoria

LEMMA TiposConectar ==
  ASSUME Tipos, NEW h \in Hilos, Conectar(h)
  PROVE  Tipos'
<1>1. /\ pc[h] = "conectar" /\ op[h].mem \in Memorias
      /\ UNCHANGED <<vivo, externas, conocidas, miembros, contadores, tablas, cerrojo, cuentas>>
  BY DelHilo DEF Conectar, Completo, ConMemoria
<1>2. CASE Ir(h, "enviar") /\ UNCHANGED op
  <2>1. op'[h] = op[h] /\ op' = [op EXCEPT ![h] = op'[h]]
        /\ pc' = [pc EXCEPT ![h] = "enviar"] /\ pc'[h] = "enviar"
    BY <1>2, DelHilo DEF Ir
  <2>2. Propio(h)
    BY <1>1, <2>1, DelHilo DEF Propio, Completo, Vacia, Pasos
  <2>. QED
    BY <1>1, <2>2, SoloHilo, CuentasIguales, DelHilo
<1>3. CASE Ir(h, "sacar") /\ Olvidar(h, op[h].mem)
  <2>1. Propio(h)
    BY <1>1, <1>3, PropioOlvidar DEF Pasos
  <2>. QED
    BY <1>1, <2>1, SoloHilo, CuentasIguales, DelHilo
<1>. QED
  BY <1>2, <1>3 DEF Conectar

LEMMA TiposEnviarPagina ==
  ASSUME Tipos, NEW h \in Hilos, EnviarPagina(h)
  PROVE  Tipos'
<1>1. /\ pc[h] = "enviar" /\ op[h].mem \in Memorias /\ op[h] \in TipoDePedido
      /\ Ir(h, "contar") /\ Olvidar(h, op[h].mem)
      /\ UNCHANGED <<vivo, arriba, caidas, lfs, conocidas, miembros, contadores, tablas, cerrojo,
                     cuentas>>
  BY DelHilo DEF EnviarPagina, Completo, ConMemoria
<1>2. Propio(h)
  BY <1>1, PropioOlvidar DEF Pasos
<1>3. ConCerrojo(h)
  BY <1>1, DelHilo DEF ConCerrojo, miembros
<1>4. TipoDeListas' /\ TipoDeCuentas'
  BY <1>1, TiposAparte DEF TipoDeListas, UnaDeSC, TipoDeCuentas, miembros, contadores, cuentas
<1>5. sinJournal' \in [Memorias -> SUBSET Keys]
  <2>1. sinJournal \in [Memorias -> SUBSET Keys]
    BY TiposAparte DEF TipoDeExternas
  <2>2. ASSUME op[h].criterio = "SHC", Candidatas("SHC", op[h].key) = {op[h].mem}
        PROVE  op[h].key \in Keys
    BY DelHilo DEF EnviarPagina, Completo
  <2>. QED
    BY <2>1, <2>2 DEF EnviarPagina
<1>6. TipoDeExternas'
  BY <1>1, <1>5, TiposAparte DEF TipoDeExternas
<1>. QED
  BY <1>2, <1>3, <1>4, <1>6, TiposJuntos

LEMMA RespuestaTipo ==
  ASSUME Tipos, NEW h \in Hilos, pc[h] = "enviar"
  PROVE  Respuesta(op[h]) \in SUBSET Entrada
<1>1. op[h].tipo = "CREATE" => [tabla |-> op[h].tabla, criterio |-> op[h].criterio] \in Entrada
  BY DelHilo DEF Completo, Entrada
<1>. QED
  BY <1>1 DEF Respuesta, Todas

LEMMA TiposEnviarTabla ==
  ASSUME Tipos, NEW h \in Hilos, EnviarTabla(h)
  PROVE  Tipos'
<1>. DEFINE o == op[h]
            Sigue == op' = [op EXCEPT ![h] = [Pedido EXCEPT !.tabla = o.tabla,
                                                            !.respuesta = Respuesta(o)]]
                     /\ Ir(h, "guardar")
            Hacer == lfs' = CASE o.tipo = "CREATE" /\ Respuesta(o) # {} ->
                                   [lfs EXCEPT ![o.tabla] = o.criterio]
                              [] o.tipo = "DROP" -> [lfs EXCEPT ![o.tabla] = "no"]
                              [] OTHER -> lfs
<1>1. /\ pc[h] = "enviar" /\ o \in TipoDePedido /\ o.mem \in Memorias
      /\ UNCHANGED <<vivo, conocidas, miembros, contadores, tablas, cerrojo, cuentas>>
  BY DelHilo DEF EnviarTabla, Completo, ConMemoria
<1>2. /\ Responder(h) \/ Sigue
      /\ \/ Hacer /\ UNCHANGED <<arriba, caidas, sinJournal>>
         \/ Bajar(o.mem) /\ Hacer
         \/ UNCHANGED externas
  BY DEF EnviarTabla
<1>3. ASSUME Responder(h) PROVE Propio(h)
  BY <1>3, PropioResponder
<1>4. ASSUME Sigue PROVE Propio(h)
  <2>1. pc' = [pc EXCEPT ![h] = "guardar"] /\ pc'[h] = "guardar" /\ op' = [op EXCEPT ![h] = op'[h]]
    BY <1>4, DelHilo DEF Ir
  <2>2. op'[h] = [tipo |-> "nada", tabla |-> o.tabla, key |-> 0, criterio |-> "no", mem |-> Nadie,
                  lista |-> {}, respuesta |-> Respuesta(o)]
    BY <1>4, DelHilo DEF Pedido
  <2>3. op'[h] \in TipoDePedido /\ op'[h].tipo = "nada"
    BY <2>2, <1>1, RespuestaTipo DEF TipoDePedido
  <2>. QED
    BY <2>1, <2>3 DEF Propio, Completo, Vacia, ConMemoria, Pasos
<1>5. Propio(h)
  BY <1>2, <1>3, <1>4
<1>6. ConCerrojo(h)
  BY <1>1, DelHilo DEF ConCerrojo, miembros
<1>7. TipoDeListas' /\ TipoDeCuentas'
  BY <1>1, TiposAparte DEF TipoDeListas, UnaDeSC, TipoDeCuentas, miembros, contadores, cuentas
<1>8. lfs' \in [Tablas -> Nombres \cup {"no"}]
  <2>1. lfs \in [Tablas -> Nombres \cup {"no"}] /\ o.criterio \in Nombres \cup {"no"}
    BY <1>1, TiposAparte DEF TipoDeExternas, TipoDePedido
  <2>. QED
    BY <2>1, <1>2 DEF externas
<1>9. TipoDeExternas'
  BY <1>1, <1>2, <1>8, TiposAparte DEF TipoDeExternas, externas, Bajar, CriteriosAssumption
<1>. QED
  BY <1>5, <1>6, <1>7, <1>9, TiposJuntos

LEMMA TiposGuardarTablas ==
  ASSUME Tipos, NEW h \in Hilos, GuardarTablas(h)
  PROVE  Tipos'
<1>1. /\ pc[h] = "guardar" /\ op[h].respuesta \in SUBSET Entrada
      /\ UNCHANGED <<vivo, externas, conocidas, miembros, contadores, cerrojo, cuentas>>
  BY DelHilo DEF GuardarTablas, TipoDePedido
<1>2. Propio(h)
  BY PropioResponder DEF GuardarTablas
<1>3. ConCerrojo(h)
  BY <1>1, DelHilo DEF ConCerrojo, miembros
<1>4. tablas' \in Seq(Entrada)
  <2>1. SetToSeq(op[h].respuesta) \in Seq(op[h].respuesta)
    BY <1>1, EntradasFinitas, ListaDe
  <2>2. SetToSeq(op[h].respuesta) \in Seq(Entrada) /\ tablas \in Seq(Entrada)
    BY <1>1, <2>1, TiposAparte DEF TipoDeListas
  <2>. QED
    BY <2>2 DEF GuardarTablas
<1>5. TipoDeListas' /\ TipoDeCuentas' /\ TipoDeExternas'
  BY <1>1, <1>4, TiposAparte DEF TipoDeListas, UnaDeSC, TipoDeCuentas, TipoDeExternas, miembros, contadores,
       cuentas, externas
<1>. QED
  BY <1>2, <1>3, <1>5, TiposJuntos

LEMMA TiposSacar ==
  ASSUME Tipos, NEW h \in Hilos, Sacar(h)
  PROVE  Tipos'
<1>1. /\ pc[h] = "sacar" /\ op[h].mem \in Memorias /\ Ir(h, "sacarCriterios")
      /\ asociadas' = asociadas \ {op[h].mem}
      /\ UNCHANGED <<vivo, externas, conocidas, sc, shc, ec, contadores, tablas, cerrojo, op, cuentas>>
  BY DelHilo DEF Sacar, Completo, ConMemoria
<1>2. Propio(h)
  BY <1>1, PropioIr DEF Pasos
<1>3. ConCerrojo(h)
  BY <1>1, DelHilo DEF ConCerrojo, Ir
<1>4. TipoDeListas' /\ TipoDeCuentas' /\ TipoDeExternas'
  BY <1>1, TiposAparte DEF TipoDeListas, UnaDeSC, TipoDeCuentas, TipoDeExternas, contadores, cuentas, externas
<1>. QED
  BY <1>2, <1>3, <1>4, TiposJuntos


LEMMA TiposSacarCriterios ==
  ASSUME Tipos, NEW h \in Hilos, SacarCriterios(h)
  PROVE  Tipos'
<1>. DEFINE m == op[h].mem
            resto == Quitar(shc, m)
<1>1. /\ pc[h] = "sacarCriterios" /\ cerrojo = Nadie /\ m \in Memorias
      /\ shc \in Seq(Memorias) /\ IsInjective(shc)
  BY DelHilo, TiposAparte DEF SacarCriterios, Completo, ConMemoria, TipoDeListas
<1>2. /\ resto \in Seq(Memorias) /\ IsInjective(resto) /\ Range(resto) = Range(shc) \ {m}
      /\ Range(resto) \subseteq Memorias
  <2>1. resto \in Seq(Memorias) /\ IsInjective(resto) /\ Range(resto) = Range(shc) \ {m}
    BY <1>1, QuitarDeja
  <2>2. Range(shc) \subseteq Memorias
    BY ONLY <1>1 DEF Range
  <2>. QED
    BY ONLY <2>1, <2>2
<1>. HIDE DEF resto
<1>3. /\ sc' = sc \ {m} /\ ec' = ec \ {m} /\ shc' = resto
      /\ sinJournal' = [sinJournal EXCEPT ![m] = {}]
      /\ UNCHANGED <<vivo, arriba, caidas, lfs, conocidas, asociadas, contadores, tablas, cuentas>>
  BY DEF SacarCriterios, resto
<1>4. ASSUME cerrojo' = h, op' = [op EXCEPT ![h].lista = Range(resto)], Ir(h, "vaciar")
      PROVE  Propio(h) /\ ConCerrojo(h)
  <2>1. /\ op'[h] = [op[h] EXCEPT !.lista = Range(resto)] /\ op' = [op EXCEPT ![h] = op'[h]]
        /\ pc' = [pc EXCEPT ![h] = "vaciar"] /\ pc'[h] = "vaciar"
    BY <1>4, DelHilo DEF Ir
  <2>2. op'[h] \in TipoDePedido /\ op'[h].mem = m /\ op'[h].tipo = op[h].tipo
        /\ op'[h].key = op[h].key
    BY <2>1, <1>2, DelHilo DEF TipoDePedido
  <2>3. m \notin Range(shc')
    BY <1>2, <1>3
  <2>4. Completo(h)'
    BY <1>1, <2>1, <2>2, <2>3, DelHilo DEF Completo, ConMemoria
  <2>. QED
    BY <1>4, <2>1, <2>2, <2>4 DEF Propio, ConCerrojo, Pasos
<1>5. ASSUME Ir(h, "sacarMetricas"), UNCHANGED <<cerrojo, op>>
      PROVE  Propio(h) /\ ConCerrojo(h)
  <2>1. Propio(h)
    BY <1>1, <1>5, PropioIr DEF Pasos
  <2>. QED
    BY <1>1, <1>5, <2>1, DelHilo DEF ConCerrojo
<1>6. Propio(h) /\ ConCerrojo(h)
  BY <1>4, <1>5 DEF SacarCriterios, resto
<1>7. TipoDeListas' /\ TipoDeCuentas' /\ TipoDeExternas'
  BY <1>2, <1>3, TiposAparte DEF TipoDeListas, UnaDeSC, TipoDeCuentas, TipoDeExternas, contadores,
       cuentas
<1>. QED
  BY <1>6, <1>7, TiposJuntos

LEMMA TiposSacarMetricas ==
  ASSUME Tipos, NEW h \in Hilos, SacarMetricas(h)
  PROVE  Tipos'
<1>1. /\ pc[h] = "sacarMetricas" /\ op[h].mem \in Memorias
      /\ UNCHANGED <<vivo, externas, conocidas, miembros, totales, tablas, cerrojo, cuentas>>
  BY DelHilo DEF SacarMetricas, Completo, ConMemoria
<1>2. Propio(h)
  BY PropioResponder DEF SacarMetricas
<1>3. ConCerrojo(h)
  BY <1>1, DelHilo DEF ConCerrojo, miembros
<1>4. TipoDeListas' /\ TipoDeExternas'
  BY <1>1, TiposAparte DEF TipoDeListas, UnaDeSC, TipoDeExternas, miembros, externas
<1>5. TipoDeCuentas'
  BY <1>1, TiposAparte DEF SacarMetricas, TipoDeCuentas, cuentas
<1>. QED
  BY <1>2, <1>3, <1>4, <1>5, TiposJuntos

LEMMA TiposPedirJournal ==
  ASSUME Tipos, NEW h \in Hilos, PedirJournal(h),
         altas' \in 0..MaxAltas, pedidos' \in 0..MaxPedidos
  PROVE  Tipos'
<1>1. /\ pc[h] = "libre" /\ op' = [op EXCEPT ![h] = op'[h]]
      /\ op'[h] = [Pedido EXCEPT !.tipo = "JOURNAL", !.lista = asociadas]
      /\ pc' = [pc EXCEPT ![h] = "vaciar"] /\ pc'[h] = "vaciar"
      /\ UNCHANGED <<vivo, externas, conocidas, miembros, contadores, tablas, cerrojo>>
  BY DelHilo DEF PedirJournal, Ir
<1>2. op'[h] = [tipo |-> "JOURNAL", tabla |-> Nadie, key |-> 0, criterio |-> "no", mem |-> Nadie,
                lista |-> asociadas, respuesta |-> {}]
  BY <1>1 DEF Pedido
<1>3. op'[h] \in TipoDePedido /\ op'[h].tipo = "JOURNAL"
  BY <1>2, TiposAparte DEF TipoDePedido, TipoDeListas
<1>4. cerrojo # h /\ cerrojo' # h
  BY <1>1, DelHilo
<1>5. Propio(h)
  BY <1>1, <1>3, <1>4 DEF Propio, Completo, Vacia, ConMemoria, Pasos
<1>. QED
  BY <1>1, <1>4, <1>5, SoloHilo

LEMMA TiposVaciar ==
  ASSUME Tipos, NEW h \in Hilos, Vaciar(h)
  PROVE  Tipos'
<1>1. /\ pc[h] = "vaciar" /\ op[h] \in TipoDePedido /\ op[h].lista \subseteq Memorias
      /\ UNCHANGED <<vivo, arriba, caidas, lfs, conocidas, miembros, contadores, tablas, cerrojo,
                     cuentas>>
  BY DelHilo DEF Vaciar, TipoDePedido
<1>2. PICK m \in op[h].lista :
        IF m \in arriba
          THEN /\ sinJournal' = [sinJournal EXCEPT ![m] = {}]
               /\ op' = [op EXCEPT ![h].lista = @ \ {m}]
               /\ UNCHANGED pc
          ELSE Olvidar(h, m) /\ Ir(h, "sacar") /\ UNCHANGED sinJournal
  BY DEF Vaciar
<1>3. ASSUME m \in arriba PROVE Propio(h) /\ ConCerrojo(h)
  <2>1. /\ op'[h] = [op[h] EXCEPT !.lista = @ \ {m}] /\ op' = [op EXCEPT ![h] = op'[h]]
        /\ pc' = [pc EXCEPT ![h] = "vaciar"] /\ pc'[h] = "vaciar"
    BY <1>1, <1>2, <1>3, DelHilo
  <2>2. op'[h] \in TipoDePedido /\ op'[h].mem = op[h].mem /\ op'[h].tipo = op[h].tipo
        /\ op'[h].key = op[h].key
    BY <2>1, <1>1 DEF TipoDePedido
  <2>3. Completo(h)'
    BY <1>1, <2>1, <2>2, DelHilo DEF Completo, Vacia, ConMemoria, miembros
  <2>. QED
    BY <1>1, <2>1, <2>2, <2>3 DEF Propio, ConCerrojo, Pasos, miembros
<1>4. ASSUME m \notin arriba PROVE Propio(h) /\ ConCerrojo(h)
  <2>1. Olvidar(h, m) /\ Ir(h, "sacar") /\ m \in Memorias
    BY <1>1, <1>2, <1>4
  <2>2. Propio(h)
    BY <2>1, PropioOlvidar DEF Pasos
  <2>. QED
    BY <1>1, <2>1, <2>2, DelHilo DEF ConCerrojo, Ir, miembros
<1>5. Propio(h) /\ ConCerrojo(h)
  BY <1>3, <1>4
<1>6. TipoDeListas' /\ TipoDeCuentas' /\ TipoDeExternas'
  BY <1>1, <1>2, TiposAparte DEF TipoDeListas, UnaDeSC, TipoDeCuentas, TipoDeExternas, miembros,
       contadores, cuentas
<1>. QED
  BY <1>5, <1>6, TiposJuntos

LEMMA TiposVaciarFin ==
  ASSUME Tipos, NEW h \in Hilos, VaciarFin(h)
  PROVE  Tipos'
<1>. DEFINE m == op[h].mem
<1>1. /\ pc[h] = "vaciar" /\ (cerrojo = h => m \in Memorias)
      /\ UNCHANGED <<vivo, externas, conocidas, sc, ec, asociadas, contadores, tablas, cuentas>>
  BY DelHilo DEF VaciarFin, Completo, Vacia
<1>2. shc \in Seq(Memorias) /\ IsInjective(shc) /\ h # Nadie
  BY DelHilo, TiposAparte DEF TipoDeListas
<1>. DEFINE Bien == Propio(h) /\ ConCerrojo(h) /\ shc' \in Seq(Memorias) /\ IsInjective(shc')
<1>3. ASSUME cerrojo # h PROVE Bien
  <2>1. Responder(h) /\ UNCHANGED <<shc, cerrojo>>
    BY <1>3 DEF VaciarFin
  <2>. QED
    BY <1>2, <1>3, <2>1, PropioResponder DEF ConCerrojo
<1>4. ASSUME cerrojo = h, op[h].tipo = "ADD" PROVE Bien
  <2>1. /\ shc' = Append(shc, m) /\ cerrojo' = Nadie
        /\ Ir(h, "asociar") /\ Olvidar(h, m)
    BY <1>4 DEF VaciarFin
  <2>2. m \in Memorias /\ m \notin Range(shc)
    BY <1>1, <1>4, DelHilo DEF Completo, Vacia
  <2>3. Propio(h)
    BY <2>1, <2>2, PropioOlvidar DEF Pasos
  <2>4. shc' \in Seq(Memorias) /\ IsInjective(shc')
    BY <1>2, <2>1, <2>2, AgregarAlFinal
  <2>. QED
    BY <1>2, <2>1, <2>3, <2>4 DEF ConCerrojo
<1>5. ASSUME cerrojo = h, op[h].tipo # "ADD" PROVE Bien
  <2>1. cerrojo' = Nadie /\ Ir(h, "sacarMetricas") /\ UNCHANGED <<shc, op>>
    BY <1>5 DEF VaciarFin
  <2>2. Propio(h)
    BY <1>1, <1>5, <2>1, PropioIr DEF Pasos
  <2>. QED
    BY <1>2, <2>1, <2>2 DEF ConCerrojo
<1>6. Bien
  BY <1>3, <1>4, <1>5
<1>7. TipoDeListas' /\ TipoDeCuentas' /\ TipoDeExternas'
  BY <1>1, <1>6, TiposAparte DEF TipoDeListas, UnaDeSC, TipoDeCuentas, TipoDeExternas, externas,
       contadores, cuentas
<1>. QED
  BY <1>6, <1>7, TiposJuntos

LEMMA ConsolaHilo == Consola \in Hilos
BY DEF Hilos

LEMMA TiposPedirAlta ==
  ASSUME Tipos, PedirAlta
  PROVE  Tipos'
<1>1. PICK m \in conocidas, c \in Nombres :
        op' = [op EXCEPT ![Consola] = [Pedido EXCEPT !.tipo = "ADD", !.mem = m, !.criterio = c]]
  BY DEF PedirAlta
<1>2. /\ pc[Consola] = "libre" /\ m \in Memorias /\ Consola \in Hilos
      /\ pc' = [pc EXCEPT ![Consola] = "agregar"] /\ pc'[Consola] = "agregar"
      /\ UNCHANGED <<vivo, externas, conocidas, miembros, contadores, tablas, cerrojo, pedidos>>
  BY DelHilo, ConsolaHilo, TiposAparte DEF PedirAlta, Ir, TipoDeListas
<1>3. op'[Consola] = [tipo |-> "ADD", tabla |-> Nadie, key |-> 0, criterio |-> c, mem |-> m,
                      lista |-> {}, respuesta |-> {}]
  BY <1>1, <1>2, DelHilo DEF Pedido
<1>4. op'[Consola] \in TipoDePedido /\ op'[Consola].mem = m /\ op'[Consola].tipo = "ADD"
  BY <1>2, <1>3 DEF TipoDePedido
<1>5. Propio(Consola)
  <2>1. op' = [op EXCEPT ![Consola] = op'[Consola]]
    BY <1>1, <1>2, DelHilo
  <2>. QED
    BY <1>2, <1>4, <2>1 DEF Propio, Completo, Vacia, Pasos
<1>6. altas' \in 0..MaxAltas /\ pedidos' \in 0..MaxPedidos
  BY <1>2, TiposAparte DEF PedirAlta, TipoDeCuentas, CriteriosAssumption
<1>. QED
  BY <1>2, <1>5, <1>6, SoloHilo, DelHilo

LEMMA TiposAgregar ==
  ASSUME Tipos, Agregar
  PROVE  Tipos'
<1>. DEFINE m == op[Consola].mem
            c == op[Consola].criterio
            Bien == /\ Propio(Consola) /\ ConCerrojo(Consola)
                    /\ sc' \subseteq Memorias /\ UnaDeSC' /\ ec' \subseteq Memorias
<1>1. /\ pc[Consola] = "agregar" /\ cerrojo = Nadie /\ m \in Memorias /\ Consola \in Hilos
      /\ op[Consola] \in TipoDePedido
      /\ UNCHANGED <<vivo, externas, conocidas, shc, asociadas, contadores, tablas, cuentas>>
  BY DelHilo, ConsolaHilo DEF Agregar, Completo, ConMemoria
<1>2. /\ sc \subseteq Memorias /\ UnaDeSC /\ ec \subseteq Memorias /\ Range(shc) \subseteq Memorias
      /\ Nadie # Consola
  BY <1>1, DelHilo, TiposAparte DEF TipoDeListas, Range
<1>3. ASSUME Responder(Consola), UNCHANGED <<sc, ec, cerrojo>> PROVE Bien
  BY <1>1, <1>2, <1>3, PropioResponder DEF ConCerrojo, UnaDeSC
<1>4. ASSUME ~Contains(shc, m), cerrojo' = Consola, UNCHANGED <<sc, ec>>,
             op' = [op EXCEPT ![Consola].lista = Range(shc)], Ir(Consola, "vaciar")
      PROVE  Bien
  <2>1. /\ op'[Consola] = [op[Consola] EXCEPT !.lista = Range(shc)]
        /\ op' = [op EXCEPT ![Consola] = op'[Consola]]
        /\ pc' = [pc EXCEPT ![Consola] = "vaciar"] /\ pc'[Consola] = "vaciar"
    BY <1>1, <1>4, DelHilo DEF Ir
  <2>2. /\ op'[Consola] \in TipoDePedido /\ op'[Consola].mem = m
        /\ op'[Consola].tipo = op[Consola].tipo /\ op'[Consola].key = op[Consola].key
    BY <1>1, <1>2, <2>1 DEF TipoDePedido
  <2>3. m \notin Range(shc')
    <3>1. shc \in Seq(Memorias) /\ shc' = shc
      BY <1>1, TiposAparte DEF TipoDeListas
    <3>2. DOMAIN shc = 1..Len(shc)
      BY <3>1
    <3>. QED
      BY <1>4, <3>1, <3>2 DEF Contains, Range
  <2>4. Completo(Consola)'
    BY <1>1, <2>1, <2>2, <2>3, DelHilo DEF Completo, ConMemoria
  <2>. QED
    BY <1>1, <1>2, <1>4, <2>1, <2>2, <2>4 DEF Propio, ConCerrojo, Pasos, UnaDeSC
<1>5. ASSUME ~(c = "SC" /\ sc # {}), UNCHANGED cerrojo,
             sc' = IF c = "SC" THEN sc \cup {m} ELSE sc,
             ec' = IF c = "EC" THEN ec \cup {m} ELSE ec,
             Ir(Consola, "asociar"), Olvidar(Consola, m)
      PROVE  Bien
  <2>1. Propio(Consola)
    BY <1>1, <1>5, PropioOlvidar DEF Pasos
  <2>. QED
    BY <1>1, <1>2, <1>5, <2>1 DEF ConCerrojo, UnaDeSC
<1>6. Bien
  <2>1. CASE (c = "SC" /\ sc # {}) \/ (c = "SHC" /\ Contains(shc, m)) \/ (c = "EC" /\ m \in ec)
    BY <1>3, <2>1 DEF Agregar
  <2>2. CASE c = "SHC" /\ ~Contains(shc, m)
    BY <1>4, <2>2 DEF Agregar
  <2>3. CASE ~((c = "SC" /\ sc # {}) \/ (c = "SHC" /\ Contains(shc, m)) \/ (c = "EC" /\ m \in ec))
             /\ ~(c = "SHC" /\ ~Contains(shc, m))
    BY <1>5, <2>3 DEF Agregar
  <2>. QED
    BY <2>1, <2>2, <2>3
<1>7. TipoDeListas' /\ TipoDeCuentas' /\ TipoDeExternas'
  BY <1>1, <1>6, TiposAparte DEF TipoDeListas, TipoDeCuentas, TipoDeExternas, externas,
       contadores, cuentas
<1>. QED
  BY <1>1, <1>6, <1>7, TiposJuntos

LEMMA TiposAsociar ==
  ASSUME Tipos, Asociar
  PROVE  Tipos'
<1>1. /\ pc[Consola] = "asociar" /\ op[Consola].mem \in Memorias /\ Consola \in Hilos
      /\ UNCHANGED <<vivo, externas, conocidas, sc, shc, ec, contadores, tablas, cerrojo, cuentas>>
      /\ asociadas' \in {asociadas, asociadas \cup {op[Consola].mem}}
      /\ Responder(Consola) \/ (Ir(Consola, "asociarMetricas") /\ UNCHANGED op)
  <2>1. pc[Consola] = "asociar" /\ op[Consola].mem \in Memorias /\ Consola \in Hilos
    BY DelHilo, ConsolaHilo DEF Asociar, Completo, ConMemoria
  <2>. QED
    BY <2>1, Zenon DEF Asociar
<1>2. Propio(Consola)
  BY <1>1, PropioResponder, PropioIr DEF Pasos
<1>3. ConCerrojo(Consola)
  BY <1>1, DelHilo DEF ConCerrojo
<1>4. TipoDeListas' /\ TipoDeCuentas' /\ TipoDeExternas'
  BY <1>1, TiposAparte DEF TipoDeListas, UnaDeSC, TipoDeCuentas, TipoDeExternas, contadores,
       cuentas, externas
<1>. QED
  BY <1>1, <1>2, <1>3, <1>4, TiposJuntos

LEMMA TiposAsociarMetricas ==
  ASSUME Tipos, AsociarMetricas
  PROVE  Tipos'
<1>1. /\ pc[Consola] = "asociarMetricas" /\ op[Consola].mem \in Memorias /\ Consola \in Hilos
      /\ UNCHANGED <<vivo, externas, conocidas, miembros, operaciones, totales, tablas, cerrojo,
                     cuentas>>
  BY DelHilo, ConsolaHilo DEF AsociarMetricas, Completo, ConMemoria
<1>2. Propio(Consola)
  BY <1>1, PropioResponder DEF AsociarMetricas
<1>3. ConCerrojo(Consola)
  BY <1>1, DelHilo DEF ConCerrojo, miembros
<1>4. TipoDeListas' /\ TipoDeExternas'
  BY <1>1, TiposAparte DEF TipoDeListas, UnaDeSC, TipoDeExternas, miembros, externas
<1>5. TipoDeCuentas'
  BY <1>1, TiposAparte DEF AsociarMetricas, TipoDeCuentas, cuentas
<1>. QED
  BY <1>1, <1>2, <1>3, <1>4, <1>5, TiposJuntos

LEMMA TiposNext == Tipos /\ [Next]_vars => Tipos'
<1>. SUFFICES ASSUME Tipos, [Next]_vars PROVE Tipos'
  OBVIOUS
<1>1. ASSUME NEW h \in Hilos, Seguir(h) PROVE Tipos'
  BY <1>1, TiposElegirMemoriaCriterio, TiposConectar, TiposEnviarPagina, TiposEnviarTabla,
     TiposGuardarTablas, TiposContar, TiposSacar, TiposSacarCriterios, TiposSacarMetricas,
     TiposVaciar, TiposVaciarLiberada, TiposVaciarFin, TiposAgregar, TiposAsociar,
     TiposAsociarMetricas DEF Seguir
<1>2. ASSUME Pedir PROVE Tipos'
  <2>1. CASE PedirAlta
    BY <2>1, TiposPedirAlta
  <2>2. CASE PedirJournal(Consola) /\ altas < MaxAltas /\ altas' = altas + 1 /\ UNCHANGED pedidos
    <3>1. altas' \in 0..MaxAltas /\ pedidos' \in 0..MaxPedidos
      BY <2>2, TiposAparte DEF TipoDeCuentas, CriteriosAssumption
    <3>. QED
      BY <2>2, <3>1, ConsolaHilo, TiposPedirJournal
  <2>3. ASSUME NEW h \in Ejecutores, PedirPagina(h) \/ PedirTabla(h) PROVE Tipos'
    BY <2>3, TiposPedirPagina, TiposPedirTabla DEF Hilos
  <2>4. ASSUME NEW h \in Ejecutores, PedirJournal(h), pedidos < MaxPedidos,
               pedidos' = pedidos + 1, UNCHANGED altas
        PROVE  Tipos'
    <3>1. altas' \in 0..MaxAltas /\ pedidos' \in 0..MaxPedidos
      BY <2>4, TiposAparte DEF TipoDeCuentas, CriteriosAssumption
    <3>. QED
      BY <2>4, <3>1, TiposPedirJournal DEF Hilos
  <2>. QED
    BY <1>2, <2>1, <2>2, <2>3, <2>4 DEF Pedir
<1>3. CASE PedirMetadata \/ ReiniciarMetricas \/ ActualizarMemoriasDisponibles \/ Afuera
  BY <1>3, TiposPedirMetadata, TiposAfuera
<1>4. CASE UNCHANGED vars
  <2>1. TipoDeListas' /\ TipoDeCuentas' /\ TipoDeExternas'
    BY <1>4, TiposAparte DEF vars, externas, miembros, contadores, cuentas, TipoDeListas, UnaDeSC,
         TipoDeCuentas, TipoDeExternas
  <2>. QED
    BY <1>4, <2>1, TiposQuietos DEF vars, miembros
<1>. QED
  BY <1>1, <1>2, <1>3, <1>4 DEF Next

LEMMA TiposSiempre == Spec => []Tipos
BY TiposInit, TiposNext, PTL DEF Spec

\* The types of the model, whatever the threads do.
THEOREM TipoCorrecto == Spec => []TypeOK
<1>1. Tipos => TypeOK
  BY DEF Tipos
<1>. QED
  BY <1>1, TiposSiempre, PTL

-----------------------------------------------------------------------------
(* Who is in a criterion is associated, or on the way.                     *)

EnCriterio == sc \cup Range(shc) \cup ec

\* The thread h is adding or removing m.
EnCamino(h, m) == op[h].mem = m /\ pc[h] \in {"sacarCriterios", "asociar"}

(* A step of h keeps the invariant when no memory comes to a criterion but *)
(* the one that h goes on to associate, when none leaves the associated    *)
(* ones but the one that h goes on to take out of the criteria, and when h *)
(* only leaves those steps with its memory in order.                       *)
LEMMA AsociadaPorHilo ==
  ASSUME CriterioAsociada, NEW h \in Hilos,
         \A g \in Hilos \ {h} : op'[g] = op[g] /\ pc'[g] = pc[g],
         \A m \in EnCriterio' : m \in EnCriterio \/ EnCamino(h, m)',
         \A m \in asociadas : m \in asociadas' \/ EnCamino(h, m)',
         \A m \in EnCriterio' : EnCamino(h, m) => m \in asociadas' \/ EnCamino(h, m)'
  PROVE  CriterioAsociada'
<1>. SUFFICES ASSUME NEW m \in EnCriterio', ~EnCamino(h, m)'
              PROVE  m \in asociadas' \/ \E g \in Hilos : EnCamino(g, m)'
  BY DEF CriterioAsociada, EnCriterio, EnCamino
<1>1. m \in EnCriterio /\ (m \in asociadas => m \in asociadas')
      /\ (EnCamino(h, m) => m \in asociadas')
  OBVIOUS
<1>2. m \in asociadas \/ \E g \in Hilos : EnCamino(g, m)
  BY <1>1 DEF CriterioAsociada, EnCriterio, EnCamino
<1>3. ASSUME NEW g \in Hilos \ {h}, EnCamino(g, m) PROVE EnCamino(g, m)'
  BY <1>3 DEF EnCamino
<1>. QED
  BY <1>1, <1>2, <1>3

\* A step that is not of those, and changes no list.
LEMMA AsociadaIgual ==
  ASSUME CriterioAsociada, NEW h \in Hilos,
         \A g \in Hilos \ {h} : op'[g] = op[g] /\ pc'[g] = pc[g],
         pc[h] \notin {"sacarCriterios", "asociar"}, UNCHANGED miembros
  PROVE  CriterioAsociada'
<1>1. EnCriterio' = EnCriterio /\ asociadas' = asociadas
  BY DEF EnCriterio, miembros
<1>2. \A m : ~EnCamino(h, m)
  BY DEF EnCamino
<1>. QED
  BY <1>1, <1>2, AsociadaPorHilo

LEMMA AsociadaSacar ==
  ASSUME Tipos, CriterioAsociada, NEW h \in Hilos, Sacar(h)
  PROVE  CriterioAsociada'
<1>1. /\ pc[h] = "sacar" /\ pc'[h] = "sacarCriterios" /\ op'[h] = op[h]
      /\ \A g \in Hilos \ {h} : op'[g] = op[g] /\ pc'[g] = pc[g]
      /\ asociadas' = asociadas \ {op[h].mem} /\ UNCHANGED <<sc, shc, ec>>
  BY DelHilo DEF Sacar, Ir
<1>2. EnCriterio' = EnCriterio
  BY <1>1 DEF EnCriterio
<1>3. \A m : ~EnCamino(h, m)
  BY <1>1 DEF EnCamino
<1>4. EnCamino(h, op[h].mem)'
  BY <1>1 DEF EnCamino
<1>5. \A m \in asociadas : m \in asociadas' \/ EnCamino(h, m)'
  BY <1>1, <1>4
<1>. QED
  BY <1>1, <1>2, <1>3, <1>5, AsociadaPorHilo

LEMMA AsociadaSacarCriterios ==
  ASSUME Tipos, CriterioAsociada, NEW h \in Hilos, SacarCriterios(h)
  PROVE  CriterioAsociada'
<1>. DEFINE m == op[h].mem
<1>1. /\ sc' = sc \ {m} /\ ec' = ec \ {m} /\ shc' = Quitar(shc, m) /\ asociadas' = asociadas
  BY DEF SacarCriterios
<1>2. Range(shc') = Range(shc) \ {m}
  BY <1>1, QuitarDeja, TiposAparte DEF TipoDeListas
<1>3. EnCriterio' = EnCriterio \ {m}
  BY <1>1, <1>2 DEF EnCriterio
<1>4. \A g \in Hilos \ {h} : op'[g] = op[g] /\ pc'[g] = pc[g]
  BY DelHilo DEF SacarCriterios, Ir
<1>5. \A n \in EnCriterio' : n \in EnCriterio /\ ~EnCamino(h, n)
  BY <1>3 DEF EnCamino
<1>. QED
  BY <1>1, <1>4, <1>5, AsociadaPorHilo

LEMMA AsociadaVaciarFin ==
  ASSUME Tipos, CriterioAsociada, NEW h \in Hilos, VaciarFin(h)
  PROVE  CriterioAsociada'
<1>. DEFINE m == op[h].mem
<1>1. /\ pc[h] = "vaciar" /\ UNCHANGED <<sc, ec, asociadas>>
      /\ \A g \in Hilos \ {h} : op'[g] = op[g] /\ pc'[g] = pc[g]
  BY DelHilo DEF VaciarFin, Responder, Ir, Olvidar
<1>2. CASE UNCHANGED shc
  BY <1>1, <1>2, AsociadaIgual DEF miembros
<1>3. CASE cerrojo = h /\ op[h].tipo = "ADD"
  <2>1. shc' = Append(shc, m) /\ Ir(h, "asociar") /\ Olvidar(h, m)
    BY <1>3 DEF VaciarFin
  <2>2. m \in Memorias /\ m \notin Range(shc)
    BY <1>1, <1>3, DelHilo DEF Completo, Vacia
  <2>3. Range(shc') = Range(shc) \cup {m}
    BY <2>1, <2>2, AgregarAlFinal, TiposAparte DEF TipoDeListas
  <2>4. op'[h].mem = m /\ pc'[h] = "asociar"
    BY <2>1, <2>2, DelHilo, PedidosVacios DEF Ir, Olvidar
  <2>5. EnCriterio' \subseteq EnCriterio \cup {m}
    BY <1>1, <2>3 DEF EnCriterio
  <2>7. \A n \in EnCriterio' : n \in EnCriterio \/ EnCamino(h, n)'
    <3>. SUFFICES ASSUME NEW n \in EnCriterio', n \notin EnCriterio PROVE EnCamino(h, n)'
      OBVIOUS
    <3>1. n = m
      BY <2>5
    <3>. QED
      BY <2>4, <3>1 DEF EnCamino
  <2>6. \A n : ~EnCamino(h, n)
    BY <1>1 DEF EnCamino
  <2>. QED
    BY <1>1, <2>6, <2>7, AsociadaPorHilo
<1>. QED
  BY <1>2, <1>3 DEF VaciarFin

LEMMA AsociadaAgregar ==
  ASSUME Tipos, CriterioAsociada, Agregar
  PROVE  CriterioAsociada'
<1>. DEFINE m == op[Consola].mem
<1>1. /\ pc[Consola] = "agregar" /\ m \in Memorias /\ Consola \in Hilos
      /\ UNCHANGED <<shc, asociadas>>
      /\ \A g \in Hilos \ {Consola} : op'[g] = op[g] /\ pc'[g] = pc[g]
  BY DelHilo, ConsolaHilo DEF Agregar, Completo, ConMemoria, Responder, Ir, Olvidar
<1>2. CASE UNCHANGED <<sc, ec>>
  BY <1>1, <1>2, AsociadaIgual DEF miembros
<1>3. CASE sc' \subseteq sc \cup {m} /\ ec' \subseteq ec \cup {m}
           /\ Ir(Consola, "asociar") /\ Olvidar(Consola, m)
  <2>1. op'[Consola].mem = m /\ pc'[Consola] = "asociar"
    BY <1>1, <1>3, DelHilo, PedidosVacios DEF Ir, Olvidar
  <2>2. EnCriterio' \subseteq EnCriterio \cup {m}
    BY <1>1, <1>3 DEF EnCriterio
  <2>4. \A n \in EnCriterio' : n \in EnCriterio \/ EnCamino(Consola, n)'
    <3>. SUFFICES ASSUME NEW n \in EnCriterio', n \notin EnCriterio PROVE EnCamino(Consola, n)'
      OBVIOUS
    <3>1. n = m
      BY <2>2
    <3>. QED
      BY <2>1, <3>1 DEF EnCamino
  <2>3. \A n : ~EnCamino(Consola, n)
    BY <1>1 DEF EnCamino
  <2>. QED
    BY <1>1, <2>3, <2>4, AsociadaPorHilo
<1>. QED
  BY <1>2, <1>3 DEF Agregar

LEMMA AsociadaAsociar ==
  ASSUME Tipos, CriterioAsociada, Asociar
  PROVE  CriterioAsociada'
<1>1. /\ Consola \in Hilos /\ asociadas' = asociadas \cup {op[Consola].mem}
      /\ UNCHANGED <<sc, shc, ec>>
      /\ \A g \in Hilos \ {Consola} : op'[g] = op[g] /\ pc'[g] = pc[g]
  BY DelHilo, ConsolaHilo DEF Asociar, Responder, Ir
<1>2. EnCriterio' = EnCriterio
  BY <1>1 DEF EnCriterio
<1>3. \A n : EnCamino(Consola, n) => n \in asociadas'
  BY <1>1 DEF EnCamino
<1>. QED
  BY <1>1, <1>2, <1>3, AsociadaPorHilo

\* The other steps of a thread.
LEMMA AsociadaOtros ==
  ASSUME Tipos, CriterioAsociada, NEW h \in Hilos,
         \/ ElegirMemoriaCriterio(h) \/ Conectar(h) \/ EnviarPagina(h) \/ EnviarTabla(h)
         \/ GuardarTablas(h) \/ Contar(h) \/ SacarMetricas(h) \/ Vaciar(h)
         \/ PedirPagina(h) \/ PedirTabla(h) \/ PedirJournal(h)
         \/ (h = Refresco /\ PedirMetadata) \/ (h = Consola /\ (PedirAlta \/ AsociarMetricas))
  PROVE  CriterioAsociada'
<1>1. UNCHANGED miembros /\ pc[h] \notin {"sacarCriterios", "asociar"}
  BY DEF ElegirMemoriaCriterio, Conectar, EnviarPagina, EnviarTabla, GuardarTablas, Contar,
     SacarMetricas, Vaciar, PedirPagina, PedirTabla, PedirJournal, PedirMetadata, ElegirMemoria,
     PedirAlta, AsociarMetricas
<1>2. \A g \in Hilos \ {h} : op'[g] = op[g] /\ pc'[g] = pc[g]
  BY DelHilo DEF ElegirMemoriaCriterio, Conectar, EnviarPagina, EnviarTabla, GuardarTablas, Contar,
     SacarMetricas, Vaciar, PedirPagina, PedirTabla, PedirJournal, PedirMetadata, ElegirMemoria,
     PedirAlta, AsociarMetricas, Responder, Ir, Olvidar
<1>. QED
  BY <1>1, <1>2, AsociadaIgual

LEMMA AsociadaQuieta ==
  ASSUME CriterioAsociada, UNCHANGED <<miembros, pc, op>>
  PROVE  CriterioAsociada'
BY DEF CriterioAsociada, miembros

LEMMA AsociadaNext == Tipos /\ CriterioAsociada /\ [Next]_vars => CriterioAsociada'
<1>. SUFFICES ASSUME Tipos, CriterioAsociada, [Next]_vars PROVE CriterioAsociada'
  OBVIOUS
<1>1. ASSUME NEW h \in Hilos, Seguir(h) PROVE CriterioAsociada'
  <2>1. CASE VaciarLiberada(h)
    BY <2>1, AsociadaQuieta DEF VaciarLiberada
  <2>. QED
    BY <1>1, <2>1, AsociadaSacar, AsociadaSacarCriterios, AsociadaVaciarFin, AsociadaAgregar,
       AsociadaAsociar, AsociadaOtros DEF Seguir
<1>2. ASSUME Pedir PROVE CriterioAsociada'
  <2>1. CASE PedirAlta \/ PedirJournal(Consola)
    BY <2>1, AsociadaOtros, ConsolaHilo
  <2>2. ASSUME NEW h \in Ejecutores, PedirPagina(h) \/ PedirTabla(h) \/ PedirJournal(h)
        PROVE  CriterioAsociada'
    BY <2>2, AsociadaOtros DEF Hilos
  <2>. QED
    BY <1>2, <2>1, <2>2 DEF Pedir
<1>3. CASE PedirMetadata
  <2>1. Refresco \in Hilos
    BY DEF Hilos
  <2>. QED
    BY <1>3, <2>1, AsociadaOtros
<1>4. CASE ReiniciarMetricas \/ ActualizarMemoriasDisponibles \/ Afuera
  BY <1>4, AsociadaQuieta DEF ReiniciarMetricas, ActualizarMemoriasDisponibles, Afuera, Caer, Volver
<1>5. CASE UNCHANGED vars
  BY <1>5, AsociadaQuieta DEF vars
<1>. QED
  BY <1>1, <1>2, <1>3, <1>4, <1>5 DEF Next

\* A memory of a criterion is one of the Kernel's, or is being added or removed.
THEOREM DeCriterioAsociada == Spec => []CriterioAsociada
<1>1. Init => CriterioAsociada
  BY DEF Init, CriterioAsociada, Range
<1>. QED
  BY <1>1, AsociadaNext, TiposSiempre, PTL DEF Spec

-----------------------------------------------------------------------------
(* The keys of SHC that were not journalled yet.                           *)

LEMMA EnMemorias ==
  ASSUME Tipos
  PROVE  /\ shc \in Seq(Memorias) /\ Range(shc) \subseteq Memorias
         /\ sinJournal \in [Memorias -> SUBSET Keys]
<1>1. shc \in Seq(Memorias) /\ sinJournal \in [Memorias -> SUBSET Keys]
  BY TiposAparte DEF TipoDeListas, TipoDeExternas
<1>. QED
  BY <1>1 DEF Range

(* SHC stays, no memory gets a key, and who is emptying SHC still has      *)
(* before it all that is not empty.                                        *)
LEMMA VaciadoMenos ==
  ASSUME Tipos, Vaciado, shc' = shc, cerrojo' = cerrojo,
         \A m \in Memorias : sinJournal'[m] \subseteq sinJournal[m],
         \A g \in Hilos : Vacia(g)' =>
           Vacia(g) /\ \A m \in op[g].lista : m \in op'[g].lista \/ sinJournal'[m] = {}
  PROVE  Vaciado'
<1>1. Range(shc) \subseteq Memorias /\ Range(shc') = Range(shc)
  BY EnMemorias
<1>2. FueraDeSHC'
  BY <1>1 DEF Vaciado, FueraDeSHC
<1>3. PorVaciar'
  <2>. SUFFICES ASSUME NEW g \in Hilos, Vacia(g)', NEW m \in Range(shc)
                PROVE  sinJournal'[m] = {} \/ m \in op'[g].lista
    BY <1>1 DEF PorVaciar
  <2>1. Vacia(g) /\ (m \in op[g].lista => m \in op'[g].lista \/ sinJournal'[m] = {})
    OBVIOUS
  <2>2. sinJournal[m] = {} \/ m \in op[g].lista
    BY <2>1 DEF Vaciado, PorVaciar
  <2>3. sinJournal'[m] \subseteq sinJournal[m]
    BY <1>1
  <2>. QED
    BY <2>1, <2>2, <2>3
<1>4. SHCConJournal'
  <2>. SUFFICES ASSUME cerrojo = Nadie, NEW m \in Range(shc), NEW k \in sinJournal'[m]
                PROVE  shc[Indice(k)] = m
    BY <1>1 DEF SHCConJournal, Indice
  <2>1. k \in sinJournal[m]
    BY <1>1
  <2>. QED
    BY <2>1 DEF Vaciado, SHCConJournal
<1>. QED
  BY <1>2, <1>3, <1>4 DEF Vaciado

\* SHC was emptied.
LEMMA VaciadoTodo ==
  ASSUME Range(shc') \subseteq Memorias, \A m \in Memorias : sinJournal'[m] = {}
  PROVE  Vaciado'
BY DEF Vaciado, FueraDeSHC, PorVaciar, SHCConJournal

(* A step of h that changes neither SHC, its mutex nor what has to be      *)
(* journalled, and does not begin to empty SHC.                            *)
LEMMA VaciadoIgual ==
  ASSUME Tipos, Vaciado, NEW h \in Hilos,
         \A g \in Hilos \ {h} : op'[g] = op[g] /\ pc'[g] = pc[g],
         pc'[h] # "vaciar" \/ cerrojo # h, UNCHANGED <<shc, cerrojo, sinJournal>>
  PROVE  Vaciado'
<1>1. \A g \in Hilos : Vacia(g)' => Vacia(g) /\ op'[g] = op[g]
  BY DEF Vacia
<1>. QED
  BY <1>1, VaciadoMenos

LEMMA VaciadoEnviarPagina ==
  ASSUME Tipos, Vaciado, NEW h \in Hilos, EnviarPagina(h)
  PROVE  Vaciado'
<1>. DEFINE o == op[h]
<1>1. /\ pc[h] = "enviar" /\ o.tipo = "PAGINA" /\ o.key \in Keys /\ o.mem \in Memorias
      /\ pc'[h] = "contar" /\ UNCHANGED <<shc, cerrojo>>
      /\ \A g \in Hilos \ {h} : op'[g] = op[g] /\ pc'[g] = pc[g]
  BY DelHilo DEF EnviarPagina, Ir, Olvidar, Completo, ConMemoria, miembros
<1>2. CASE UNCHANGED sinJournal
  BY <1>1, <1>2, VaciadoIgual
<1>3. CASE /\ cerrojo = Nadie /\ Candidatas("SHC", o.key) = {o.mem}
           /\ sinJournal' = [sinJournal EXCEPT ![o.mem] = @ \cup {o.key}]
  <2>1. shc # << >> /\ shc[Indice(o.key)] = o.mem
    BY <1>3 DEF Candidatas
  <2>2. o.mem \in Range(shc)
    <3>1. Len(shc) \in Nat \ {0} /\ DOMAIN shc = 1..Len(shc)
      BY <2>1, EnMemorias
    <3>2. o.key \in Nat
      BY <1>1 DEF CriteriosAssumption
    <3>3. o.key % Len(shc) \in 0..Len(shc) - 1
      BY ONLY <3>1, <3>2
    <3>4. Indice(o.key) \in DOMAIN shc
      BY <3>1, <3>3 DEF Indice
    <3>. QED
      BY <2>1, <3>4 DEF Range
  <2>3. /\ sinJournal'[o.mem] = sinJournal[o.mem] \cup {o.key}
        /\ \A m \in Memorias \ {o.mem} : sinJournal'[m] = sinJournal[m]
    BY <1>1, <1>3, EnMemorias
  <2>4. FueraDeSHC'
    BY <1>1, <2>2, <2>3 DEF Vaciado, FueraDeSHC
  <2>5. PorVaciar'
    BY <1>1, <1>3, DelHilo DEF PorVaciar, Vacia
  <2>6. SHCConJournal'
    <3>. SUFFICES ASSUME NEW m \in Range(shc), NEW k \in sinJournal'[m] PROVE shc[Indice(k)] = m
      BY <1>1 DEF SHCConJournal, Indice
    <3>1. m \in Memorias
      BY EnMemorias
    <3>2. k \in sinJournal[m] \/ (m = o.mem /\ k = o.key)
      BY <2>3, <3>1
    <3>. QED
      BY <1>3, <2>1, <3>2 DEF Vaciado, SHCConJournal
  <2>. QED
    BY <2>4, <2>5, <2>6 DEF Vaciado
<1>. QED
  BY <1>2, <1>3 DEF EnviarPagina

LEMMA VaciadoSacarCriterios ==
  ASSUME Tipos, Vaciado, NEW h \in Hilos, SacarCriterios(h)
  PROVE  Vaciado'
<1>. DEFINE m == op[h].mem
            resto == Quitar(shc, m)
<1>1. /\ pc[h] = "sacarCriterios" /\ m \in Memorias /\ cerrojo = Nadie /\ shc' = resto
      /\ sinJournal' = [sinJournal EXCEPT ![m] = {}]
      /\ \A g \in Hilos \ {h} : op'[g] = op[g] /\ pc'[g] = pc[g]
  BY DelHilo DEF SacarCriterios, Ir, Completo, ConMemoria
<1>2. Range(resto) = Range(shc) \ {m}
  BY QuitarDeja, TiposAparte DEF TipoDeListas
<1>3. sinJournal'[m] = {} /\ \A n \in Memorias \ {m} : sinJournal'[n] = sinJournal[n]
  BY <1>1, EnMemorias
<1>. HIDE DEF m, resto
<1>4. CASE resto # shc
  <2>1. /\ cerrojo' = h /\ op' = [op EXCEPT ![h].lista = Range(resto)] /\ h # Nadie
    BY <1>4, DelHilo DEF SacarCriterios, resto, m
  <2>2. op'[h].lista = Range(resto)
    BY <2>1, DelHilo DEF TipoDePedido
  <2>3. FueraDeSHC'
    BY <1>1, <1>2, <1>3 DEF Vaciado, FueraDeSHC
  <2>4. PorVaciar'
    BY <1>1, <2>1, <2>2 DEF PorVaciar, Vacia
  <2>5. SHCConJournal'
    BY <2>1 DEF SHCConJournal
  <2>. QED
    BY <2>3, <2>4, <2>5 DEF Vaciado
<1>5. CASE resto = shc
  <2>1. UNCHANGED cerrojo
    BY <1>5 DEF SacarCriterios, resto, m
  <2>2. \A g \in Hilos : ~Vacia(g)'
    BY <1>1, <2>1, DelHilo DEF Vacia
  <2>. QED
    BY <1>1, <1>3, <1>5, <2>1, <2>2, VaciadoMenos
<1>. QED
  BY <1>4, <1>5

LEMMA VaciadoVaciar ==
  ASSUME Tipos, Vaciado, NEW h \in Hilos, Vaciar(h)
  PROVE  Vaciado'
<1>1. /\ pc[h] = "vaciar" /\ op[h].lista \subseteq Memorias /\ UNCHANGED <<shc, cerrojo>>
      /\ \A g \in Hilos \ {h} : op'[g] = op[g] /\ pc'[g] = pc[g]
  BY DelHilo DEF Vaciar, Ir, Olvidar, TipoDePedido, miembros
<1>2. PICK m \in op[h].lista :
        IF m \in arriba
          THEN /\ sinJournal' = [sinJournal EXCEPT ![m] = {}]
               /\ op' = [op EXCEPT ![h].lista = @ \ {m}]
               /\ UNCHANGED pc
          ELSE Olvidar(h, m) /\ Ir(h, "sacar") /\ UNCHANGED sinJournal
  BY DEF Vaciar
<1>3. CASE m \in arriba
  <2>1. sinJournal'[m] = {} /\ \A n \in Memorias \ {m} : sinJournal'[n] = sinJournal[n]
    BY <1>1, <1>2, <1>3, EnMemorias
  <2>2. op'[h].lista = op[h].lista \ {m} /\ pc' = pc
    BY <1>2, <1>3, DelHilo DEF TipoDePedido
  <2>3. \A n \in Memorias : sinJournal'[n] \subseteq sinJournal[n]
    BY <2>1
  <2>4. ASSUME NEW g \in Hilos, Vacia(g)'
        PROVE  Vacia(g) /\ \A n \in op[g].lista : n \in op'[g].lista \/ sinJournal'[n] = {}
    BY <1>1, <2>1, <2>2, <2>4 DEF Vacia
  <2>. QED
    BY <1>1, <2>3, <2>4, VaciadoMenos
<1>4. CASE m \notin arriba
  <2>1. pc'[h] = "sacar" /\ UNCHANGED sinJournal
    BY <1>2, <1>4, DelHilo DEF Ir
  <2>. QED
    BY <1>1, <2>1, VaciadoIgual
<1>. QED
  BY <1>3, <1>4

LEMMA VaciadoVaciarFin ==
  ASSUME Tipos, Tipos', Vaciado, NEW h \in Hilos, VaciarFin(h)
  PROVE  Vaciado'
<1>1. /\ pc[h] = "vaciar" /\ op[h].lista = {} /\ UNCHANGED sinJournal
      /\ \A g \in Hilos \ {h} : op'[g] = op[g] /\ pc'[g] = pc[g]
  BY DelHilo DEF VaciarFin, Responder, Ir, Olvidar, externas
<1>2. CASE cerrojo # h
  <2>1. Responder(h) /\ UNCHANGED <<shc, cerrojo>>
    BY <1>2 DEF VaciarFin
  <2>. QED
    BY <1>1, <1>2, <2>1, VaciadoIgual
<1>3. CASE cerrojo = h
  <2>1. \A m \in Memorias : sinJournal[m] = {}
    BY <1>1, <1>3 DEF Vaciado, FueraDeSHC, PorVaciar, Vacia
  <2>2. Range(shc') \subseteq Memorias
    <3>1. shc' \in Seq(Memorias)
      BY DEF Tipos, TypeOK
    <3>. QED
      BY <3>1 DEF Range
  <2>. QED
    BY <1>1, <2>1, <2>2, VaciadoTodo
<1>. QED
  BY <1>2, <1>3

LEMMA VaciadoAgregar ==
  ASSUME Tipos, Vaciado, Agregar
  PROVE  Vaciado'
<1>. DEFINE m == op[Consola].mem
<1>1. /\ pc[Consola] = "agregar" /\ cerrojo = Nadie /\ Consola \in Hilos /\ Consola # Nadie
      /\ UNCHANGED <<shc, sinJournal>>
      /\ \A g \in Hilos \ {Consola} : op'[g] = op[g] /\ pc'[g] = pc[g]
  BY DelHilo, ConsolaHilo DEF Agregar, Responder, Ir, Olvidar, externas
<1>2. CASE UNCHANGED cerrojo
  BY <1>1, <1>2, VaciadoIgual
<1>3. CASE cerrojo' = Consola /\ op' = [op EXCEPT ![Consola].lista = Range(shc)]
  <2>1. op'[Consola].lista = Range(shc)
    BY <1>1, <1>3, DelHilo DEF TipoDePedido
  <2>2. FueraDeSHC'
    BY <1>1 DEF Vaciado, FueraDeSHC
  <2>3. PorVaciar'
    BY <1>1, <1>3, <2>1 DEF PorVaciar, Vacia
  <2>4. SHCConJournal'
    BY <1>1, <1>3 DEF SHCConJournal
  <2>. QED
    BY <2>2, <2>3, <2>4 DEF Vaciado
<1>. QED
  BY <1>2, <1>3 DEF Agregar

\* The other steps of a thread.
LEMMA VaciadoOtros ==
  ASSUME Tipos, Vaciado, NEW h \in Hilos,
         \/ ElegirMemoriaCriterio(h) \/ Conectar(h) \/ GuardarTablas(h) \/ Contar(h) \/ Sacar(h)
         \/ SacarMetricas(h) \/ PedirPagina(h) \/ PedirTabla(h) \/ PedirJournal(h)
         \/ (h = Refresco /\ PedirMetadata) \/ (h = Consola /\ (PedirAlta \/ Asociar \/ AsociarMetricas))
  PROVE  Vaciado'
<1>1. UNCHANGED <<shc, cerrojo, sinJournal>>
  BY DEF ElegirMemoriaCriterio, Conectar, GuardarTablas, Contar, Sacar, SacarMetricas, PedirPagina,
     PedirTabla, PedirJournal, PedirMetadata, ElegirMemoria, PedirAlta, Asociar, AsociarMetricas,
     externas, miembros
<1>2. \A g \in Hilos \ {h} : op'[g] = op[g] /\ pc'[g] = pc[g]
  BY DelHilo DEF ElegirMemoriaCriterio, Conectar, GuardarTablas, Contar, Sacar, SacarMetricas,
     PedirPagina, PedirTabla, PedirJournal, PedirMetadata, ElegirMemoria, PedirAlta, Asociar,
     AsociarMetricas, Responder, Ir, Olvidar
<1>3. pc'[h] # "vaciar" \/ cerrojo # h
  BY DelHilo DEF ElegirMemoriaCriterio, Conectar, GuardarTablas, Contar, Sacar, SacarMetricas,
     PedirPagina, PedirTabla, PedirJournal, PedirMetadata, ElegirMemoria, PedirAlta, Asociar,
     AsociarMetricas, Responder, Ir
<1>. QED
  BY <1>1, <1>2, <1>3, VaciadoIgual

\* A memory goes down, or comes back.
LEMMA VaciadoAfuera ==
  ASSUME Tipos, Vaciado, UNCHANGED <<pc, op, shc, cerrojo>>,
         UNCHANGED sinJournal \/ \E m \in Memorias : Bajar(m)
  PROVE  Vaciado'
<1>1. \A n \in Memorias : sinJournal'[n] \subseteq sinJournal[n]
  BY EnMemorias DEF Bajar
<1>2. \A g \in Hilos : Vacia(g)' => Vacia(g) /\ op'[g] = op[g]
  BY DEF Vacia
<1>. QED
  BY <1>1, <1>2, VaciadoMenos

LEMMA VaciadoEnviarTabla ==
  ASSUME Tipos, Vaciado, NEW h \in Hilos, EnviarTabla(h)
  PROVE  Vaciado'
<1>1. /\ UNCHANGED <<shc, cerrojo>> /\ op[h].mem \in Memorias
      /\ UNCHANGED sinJournal \/ Bajar(op[h].mem)
      /\ Responder(h) \/ \E p : op' = [op EXCEPT ![h] = p] /\ Ir(h, "guardar")
  <2>1. op[h].mem \in Memorias
    BY DelHilo DEF EnviarTabla, Completo, ConMemoria
  <2>2. UNCHANGED <<shc, cerrojo>> /\ (UNCHANGED sinJournal \/ Bajar(op[h].mem))
    BY DEF EnviarTabla, externas, miembros
  <2>3. Responder(h) \/ \E p : op' = [op EXCEPT ![h] = p] /\ Ir(h, "guardar")
    BY Zenon DEF EnviarTabla
  <2>. QED
    BY <2>1, <2>2, <2>3
<1>2. /\ \A g \in Hilos \ {h} : op'[g] = op[g] /\ pc'[g] = pc[g]
      /\ pc'[h] # "vaciar"
  BY <1>1, DelHilo DEF Responder, Ir
<1>3. \A n \in Memorias : sinJournal'[n] \subseteq sinJournal[n]
  BY <1>1, EnMemorias DEF Bajar
<1>4. \A g \in Hilos : Vacia(g)' => Vacia(g) /\ op'[g] = op[g]
  BY <1>1, <1>2 DEF Vacia
<1>. QED
  BY <1>1, <1>3, <1>4, VaciadoMenos

LEMMA VaciadoNext == Tipos /\ Tipos' /\ Vaciado /\ [Next]_vars => Vaciado'
<1>. SUFFICES ASSUME Tipos, Tipos', Vaciado, [Next]_vars PROVE Vaciado'
  OBVIOUS
<1>1. ASSUME NEW h \in Hilos, Seguir(h) PROVE Vaciado'
  <2>1. CASE VaciarLiberada(h)
    BY <2>1, VaciadoAfuera DEF VaciarLiberada, externas, miembros
  <2>. QED
    BY <1>1, <2>1, VaciadoEnviarPagina, VaciadoEnviarTabla, VaciadoSacarCriterios, VaciadoVaciar,
       VaciadoVaciarFin, VaciadoAgregar, VaciadoOtros DEF Seguir
<1>2. ASSUME Pedir PROVE Vaciado'
  <2>1. CASE PedirAlta \/ PedirJournal(Consola)
    BY <2>1, VaciadoOtros, ConsolaHilo
  <2>2. ASSUME NEW h \in Ejecutores, PedirPagina(h) \/ PedirTabla(h) \/ PedirJournal(h)
        PROVE  Vaciado'
    BY <2>2, VaciadoOtros DEF Hilos
  <2>. QED
    BY <1>2, <2>1, <2>2 DEF Pedir
<1>3. CASE PedirMetadata
  <2>1. Refresco \in Hilos
    BY DEF Hilos
  <2>. QED
    BY <1>3, <2>1, VaciadoOtros
<1>4. CASE ReiniciarMetricas \/ ActualizarMemoriasDisponibles
  BY <1>4, VaciadoAfuera DEF ReiniciarMetricas, ActualizarMemoriasDisponibles, externas, miembros
<1>5. CASE Afuera
  BY <1>5, VaciadoAfuera DEF Afuera, Caer, Volver, miembros
<1>6. CASE UNCHANGED vars
  BY <1>6, VaciadoAfuera DEF vars, externas, miembros
<1>. QED
  BY <1>1, <1>2, <1>3, <1>4, <1>5, <1>6 DEF Next

(* A key of SHC that its memory has not journalled is looked for in that   *)
(* memory, for SHC changes only when nothing is left to journal.           *)
THEOREM SeJournalaAntes == Spec => []SHCConJournal
<1>1. Init => Vaciado
  BY DEF Init, Vaciado, FueraDeSHC, PorVaciar, SHCConJournal, Vacia, Range
<1>2. Vaciado => SHCConJournal
  BY DEF Vaciado
<1>. QED
  BY <1>1, <1>2, VaciadoNext, TiposSiempre, PTL DEF Spec
-----------------------------------------------------------------------------
(* The load of the memories. Each operation of a memory is a pair, so that *)
(* their number is that of a set.                                          *)

Contadas == UNION {{m} \X (1..operaciones[m]) : m \in Memorias}
Cuentas == IsFiniteSet(Contadas) /\ Cardinality(Contadas) <= totales

(* The counters of some memories go back.                                  *)
LEMMA CuentasMenos ==
  ASSUME Cuentas, totales' = totales, totales \in Nat,
         \A m \in Memorias : /\ operaciones[m] \in Nat /\ operaciones'[m] \in Nat
                             /\ operaciones'[m] <= operaciones[m]
  PROVE  Cuentas'
<1>1. \A m \in Memorias : 1..operaciones'[m] \subseteq 1..operaciones[m]
  OBVIOUS
<1>2. Contadas' \subseteq Contadas
  BY <1>1 DEF Contadas
<1>3. /\ IsFiniteSet(Contadas') /\ Cardinality(Contadas') <= Cardinality(Contadas)
      /\ Cardinality(Contadas') \in Nat /\ Cardinality(Contadas) \in Nat
  BY <1>2, FS_Subset, FS_CardinalityType DEF Cuentas
<1>. QED
  BY <1>3 DEF Cuentas

LEMMA CuentasContar ==
  ASSUME TypeOK, Cuentas, NEW h \in Hilos, Contar(h), op[h].mem \in Memorias
  PROVE  Cuentas'
<1>. DEFINE m == op[h].mem
            x == <<m, operaciones[m] + 1>>
<1>1. totales' = totales + 1 /\ totales \in Nat /\ m \in Memorias
  BY DEF Contar, TypeOK
<1>2. \A n \in Memorias : operaciones[n] \in Nat /\ operaciones'[n] \in Nat
                          /\ (operaciones'[n] = operaciones[n]
                              \/ (n = m /\ operaciones'[n] = operaciones[n] + 1))
  BY DEF Contar, TypeOK
<1>. HIDE DEF m
<1>3. \A n \in Memorias : \A i \in 1..operaciones'[n] : i \in 1..operaciones[n] \/ <<n, i>> = x
  BY <1>2
<1>. HIDE DEF x
<1>4. Contadas' \subseteq Contadas \cup {x}
  BY <1>3 DEF Contadas
<1>5. /\ IsFiniteSet(Contadas \cup {x}) /\ Cardinality(Contadas) \in Nat
      /\ Cardinality(Contadas \cup {x}) <= Cardinality(Contadas) + 1
      /\ Cardinality(Contadas \cup {x}) \in Nat
  <2>1. IsFiniteSet(Contadas)
    BY DEF Cuentas
  <2>2. /\ IsFiniteSet(Contadas \cup {x})
        /\ Cardinality(Contadas \cup {x})
             = IF x \in Contadas THEN Cardinality(Contadas) ELSE Cardinality(Contadas) + 1
    BY <2>1, FS_AddElement
  <2>3. Cardinality(Contadas) \in Nat
    BY <2>1, FS_CardinalityType
  <2>. QED
    BY <2>2, <2>3
<1>6. /\ IsFiniteSet(Contadas') /\ Cardinality(Contadas') \in Nat
      /\ Cardinality(Contadas') <= Cardinality(Contadas \cup {x})
  BY <1>4, <1>5, FS_Subset, FS_CardinalityType
<1>. QED
  BY <1>1, <1>5, <1>6 DEF Cuentas

LEMMA CuentasReiniciar ==
  ASSUME ReiniciarMetricas
  PROVE  Cuentas'
<1>1. \A m \in Memorias : 1..operaciones'[m] = {}
  BY DEF ReiniciarMetricas
<1>2. Contadas' = {}
  BY <1>1 DEF Contadas
<1>. QED
  BY <1>2, FS_EmptySet DEF Cuentas, ReiniciarMetricas

LEMMA CuentasNext == Tipos /\ Cuentas /\ [Next]_vars => Cuentas'
<1>. SUFFICES ASSUME Tipos, Cuentas, [Next]_vars PROVE Cuentas'
  OBVIOUS
<1>0. TypeOK /\ totales \in Nat /\ \A m \in Memorias : operaciones[m] \in Nat
  BY DEF Tipos, TypeOK
<1>1. ASSUME UNCHANGED <<operaciones, totales>> PROVE Cuentas'
  BY <1>1 DEF Cuentas, Contadas
<1>2. ASSUME NEW h \in Hilos, Seguir(h) PROVE Cuentas'
  <2>1. CASE Contar(h)
    <3>1. op[h].mem \in Memorias
      BY <2>1, DelHilo DEF Contar, Completo, ConMemoria
    <3>. QED
      BY <1>0, <2>1, <3>1, CuentasContar
  <2>2. CASE SacarMetricas(h)
    BY <1>0, <2>2, CuentasMenos DEF SacarMetricas, TypeOK
  <2>3. CASE \/ ElegirMemoriaCriterio(h) \/ Conectar(h) \/ EnviarPagina(h) \/ EnviarTabla(h)
             \/ GuardarTablas(h) \/ Sacar(h) \/ SacarCriterios(h)
             \/ Vaciar(h) \/ VaciarLiberada(h) \/ VaciarFin(h)
             \/ Agregar \/ Asociar \/ AsociarMetricas
    BY <1>1, <2>3, Zenon
       DEF ElegirMemoriaCriterio, Conectar, EnviarPagina, EnviarTabla, GuardarTablas, Sacar,
           SacarCriterios, Vaciar, VaciarLiberada, VaciarFin, Agregar, Asociar, AsociarMetricas,
           contadores
  <2>. QED
    BY <1>2, <2>1, <2>2, <2>3 DEF Seguir
<1>3. CASE ReiniciarMetricas
  BY <1>3, CuentasReiniciar
<1>4. CASE \/ Pedir \/ PedirMetadata \/ ActualizarMemoriasDisponibles \/ Afuera
           \/ UNCHANGED vars
  <2>1. UNCHANGED contadores
    BY <1>4 DEF Pedir, PedirAlta, PedirJournal, PedirPagina, PedirTabla, PedirMetadata,
                ElegirMemoria, ActualizarMemoriasDisponibles, Afuera, Caer, Volver, vars
  <2>. QED
    BY <1>1, <2>1 DEF contadores
<1>. QED
  BY <1>2, <1>3, <1>4 DEF Next

(* Whatever memories come and go, and whenever the counters are set to     *)
(* zero, the operations of the memories are no more than the total their   *)
(* load is computed over (contar_select, contar_insert).                   *)
THEOREM LaCargaEsParte == Spec => []CargaAcotada
<1>1. Init => Cuentas
  <2>. SUFFICES ASSUME Init PROVE Cuentas
    OBVIOUS
  <2>1. Contadas = {}
    BY DEF Contadas, Init
  <2>. QED
    BY <2>1, FS_EmptySet DEF Cuentas, Init
<1>2. Cuentas => CargaAcotada
  BY DEF Cuentas, CargaAcotada, Contadas
<1>. QED
  BY <1>1, <1>2, CuentasNext, TiposSiempre, PTL DEF Spec
====
