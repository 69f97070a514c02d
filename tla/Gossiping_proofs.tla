---- MODULE Gossiping_proofs ----
(***************************************************************************)
(* Theorems of Gossiping for any memories and configurations.              *)
(***************************************************************************)
EXTENDS Gossiping, SequenceTheorems, WellFoundedInduction, TLAPS

USE GossipingAssumption

-----------------------------------------------------------------------------
(* What the prover needs besides TypeOK: that a list has someone, that the *)
(* round of a memory begins after itself, and that whoever takes seeds has *)
(* some left.                                                              *)

PasosConIndice == {"conectar", "caida", "hablar", "incorporar"}

TipoDeRonda == [paso : {"esperar", "armar"} \cup PasosConIndice, i : Nat, tope : Nat,
                conocidas : Seq(Seed), trabajo : Trabajo]
TipoDeHilo == [activo : BOOLEAN, trabajo : Trabajo, respuesta : Seq(Seed)]

Tipos ==
  /\ Kernel \in arriba /\ arriba \subseteq Procesos
  /\ config \in Configuraciones /\ caidas \in 0..config.maxCaidas
  /\ lista \in [Procesos -> Seq(Seed)]
  /\ ronda \in [Procesos -> TipoDeRonda]
  /\ hilo \in [Memorias -> [Procesos -> TipoDeHilo]]

\* A list that process p may have.
EsLista(p, l) == l # << >> /\ (p \in Memorias => l[1] = [mem |-> p, alta |-> TRUE])

\* A round r that process p may be at, with a list of n memories.
EsRonda(p, n, r) ==
  /\ r.paso = "armar" => 2 <= r.tope /\ r.tope <= n
  /\ r.paso \in PasosConIndice =>
       1 <= r.i /\ r.i <= r.tope /\ r.tope <= n /\ (p \in Memorias => 2 <= r.i)
  /\ r.paso = "incorporar" => r.trabajo.nuevas # << >>

Formadas ==
  /\ \A p \in Procesos : EsLista(p, lista[p]) /\ EsRonda(p, Len(lista[p]), ronda[p])
  /\ \A m \in Memorias, p \in Procesos : hilo[m][p].activo => hilo[m][p].respuesta # << >>

\* No memory is twice in the list.
SinRepetir(l) == \A i, j \in 1..Len(l) : l[i].mem = l[j].mem => i = j

\* What is left to add is not in the list.
FaltaNueva(l, w) == w.falta => Conozco(l, Head(w.nuevas).mem) = 0

(* Only the thread of its rounds changes the list of the Kernel: a memory  *)
(* that it found missing is still missing when it adds it.                 *)
KernelSolo ==
  /\ SinRepetir(lista[Kernel])
  /\ ronda[Kernel].paso = "incorporar" => FaltaNueva(lista[Kernel], ronda[Kernel].trabajo)

-----------------------------------------------------------------------------
(* The list of a process while it takes seeds.                             *)

\* l2 has what l has, with the same names, and no number less.
Crece(l, l2) ==
  /\ l2 \in Seq(Seed) /\ Len(l) <= Len(l2)
  /\ \A i \in 1..Len(l) : l2[i].mem = l[i].mem /\ (l[i].alta => l2[i].alta)

LEMMA CampoAlta ==
  ASSUME NEW l \in Seq(Seed), NEW i \in 1..Len(l), NEW b \in BOOLEAN
  PROVE  LET n == [l EXCEPT ![i].alta = b] IN
         /\ n \in Seq(Seed) /\ Len(n) = Len(l)
         /\ \A j \in 1..Len(l) : n[j] = IF j = i THEN [mem |-> l[i].mem, alta |-> b] ELSE l[j]
<1> DEFINE e == [l[i] EXCEPT !.alta = b]
<1>1. l[i] \in Seed
  BY ElementOfSeq
<1>2. e \in Seed /\ e = [mem |-> l[i].mem, alta |-> b]
  BY <1>1 DEF Seed
<1>3. [l EXCEPT ![i].alta = b] = [l EXCEPT ![i] = e]
  BY LenProperties
<1> HIDE DEF e
<1>4. QED
  BY <1>2, <1>3, ExceptSeq

\* A set of positions has a first one.
LEMMA PrimeraPosicion ==
  ASSUME NEW S \in SUBSET Nat, S # {}
  PROVE  \E i \in S : \A j \in S : i <= j
<1> DEFINE R == OpToRel(<, Nat)
<1>1. ASSUME NEW i \in Nat, NEW j \in Nat, j < i PROVE <<j, i>> \in R
  BY <1>1 DEF OpToRel
<1>2. IsWellFoundedOn(R, Nat)
  BY NatLessThanWellFounded
<1> HIDE DEF R
<1>3. PICK i \in S : \A j \in S : <<j, i>> \notin R
  BY <1>2, WFMin, Zenon
<1>4. ASSUME NEW j \in S PROVE i <= j
  <2>1. i \in Nat /\ j \in Nat /\ ~(j < i)
    BY <1>1, <1>3, Zenon
  <2>2. QED
    BY ONLY <2>1
<1>5. QED
  BY <1>4

\* conozco_memoria finds the memory when it is in the list.
LEMMA ConozcoEs ==
  ASSUME NEW l \in Seq(Seed), NEW m
  PROVE  /\ Conozco(l, m) = 0 <=> \A i \in 1..Len(l) : l[i].mem # m
         /\ Conozco(l, m) # 0 => Conozco(l, m) \in 1..Len(l) /\ l[Conozco(l, m)].mem = m
<1> DEFINE suyas == {i \in 1..Len(l) : l[i].mem = m}
<1>1. Len(l) \in Nat /\ suyas \subseteq Nat
  BY LenProperties
<1>2. CASE suyas = {}
  BY <1>1, <1>2 DEF Conozco
<1>3. CASE suyas # {}
  <2>1. Conozco(l, m) = CHOOSE i \in suyas : \A j \in suyas : i <= j
    BY <1>3, Zenon DEF Conozco
  <2>2. Conozco(l, m) \in suyas
    <3> HIDE DEF suyas
    <3>1. QED
      BY <1>1, <1>3, <2>1, PrimeraPosicion
  <2>3. QED
    BY <1>1, <2>2
<1>4. QED
  BY <1>2, <1>3

\* The seeds that are left are of those shown, and the first is a new one.
LEMMA RestoEs ==
  ASSUME NEW l \in Seq(Seed), NEW v \in Seq(Seed)
  PROVE  Resto(l, v) \in Seq(Seed)
<1> DEFINE nuevos == {i \in 2..Len(v) : Conozco(l, v[i].mem) = 0}
           k == CHOOSE i \in nuevos : \A j \in nuevos : i <= j
<1>1. Len(v) \in Nat /\ nuevos \in SUBSET Nat
  BY LenProperties
<1>2. CASE nuevos = {}
  BY <1>2, EmptySeq DEF Resto
<1>3. CASE nuevos # {}
  <2>1. k \in nuevos
    <3> HIDE DEF nuevos
    <3>1. QED
      BY <1>1, <1>3, PrimeraPosicion
  <2>2. k \in 2..Len(v)
    BY <2>1
  <2>3. Resto(l, v) = SubSeq(v, k, Len(v))
    BY <1>3, Zenon DEF Resto
  <2> HIDE DEF k
  <2>4. \A i \in k..Len(v) : v[i] \in Seed
    BY <1>1, <2>2, ElementOfSeq
  <2>5. QED
    BY <1>1, <2>2, <2>3, <2>4, SubSeqProperties
<1>4. QED
  BY <1>2, <1>3

\* What a thread does with a seed: the list grows, and what is left has its type.
LEMMA IncorporarCrece ==
  ASSUME NEW l \in Seq(Seed), NEW w \in Trabajo, w.nuevas # << >>
  PROVE  LET t == IncorporarUna(l, w) IN Crece(l, t.lista) /\ t.trabajo \in Trabajo
<1> DEFINE s == Head(w.nuevas)
           k == Conozco(l, s.mem)
           nueva == [s EXCEPT !.alta = w.primera /\ @]
           alta == l[k].alta \/ (w.primera /\ s.alta)
<1>1. w.nuevas \in Seq(Seed) /\ w.primera \in BOOLEAN /\ w.falta \in BOOLEAN
  BY DEF Trabajo
<1>2. s \in Seed
  BY <1>1, HeadTailProperties
<1>3. Len(l) \in Nat /\ \A i \in 1..Len(l) : l[i] \in Seed
  BY LenProperties, ElementOfSeq
<1>4. ASSUME NEW l2 PROVE Hecho(l2, w).lista = l2
  BY DEF Hecho
<1>5. ASSUME NEW l2 \in Seq(Seed) PROVE Hecho(l2, w).trabajo \in Trabajo
  BY <1>1, RestoEs DEF Hecho, Trabajo
<1>6. CASE w.falta
  <2>1. nueva \in Seed
    BY <1>1, <1>2 DEF Seed
  <2>2. IncorporarUna(l, w) = Hecho(Append(l, nueva), w)
    BY <1>6 DEF IncorporarUna, Agregar
  <2> HIDE DEF nueva
  <2>3. Append(l, nueva) \in Seq(Seed) /\ Crece(l, Append(l, nueva))
    BY <1>3, <2>1, AppendProperties DEF Crece
  <2>4. QED
    BY <1>4, <1>5, <2>2, <2>3
<1>7. CASE ~w.falta /\ k = 0
  <2>1. IncorporarUna(l, w) = Falta(l, w)
    BY <1>7 DEF IncorporarUna, Mirar
  <2>2. Crece(l, l)
    BY <1>3 DEF Crece
  <2>3. QED
    <3>1. [w EXCEPT !.falta = TRUE] \in Trabajo
      BY DEF Trabajo
    <3>2. QED
      BY <2>1, <2>2, <3>1 DEF Falta
<1>8. CASE ~w.falta /\ k # 0
  <2>1. k \in 1..Len(l)
    BY <1>8, ConozcoEs
  <2>2. IncorporarUna(l, w) = Hecho([l EXCEPT ![k].alta = alta], w)
    <3>1. [l EXCEPT ![k].alta = @ \/ (w.primera /\ s.alta)] = [l EXCEPT ![k].alta = alta]
      OBVIOUS
    <3>2. QED
      BY <1>8, <3>1 DEF IncorporarUna, Mirar
  <2>3. alta \in BOOLEAN /\ (l[k].alta => alta)
    BY <1>1, <1>2, <1>3, <2>1 DEF Seed
  <2> HIDE DEF k, alta
  <2> DEFINE l2 == [l EXCEPT ![k].alta = alta]
  <2>4. l2 \in Seq(Seed) /\ Crece(l, l2)
    <3>1. /\ l2 \in Seq(Seed) /\ Len(l2) = Len(l)
          /\ \A j \in 1..Len(l) : l2[j] = IF j = k THEN [mem |-> l[k].mem, alta |-> alta] ELSE l[j]
      BY <2>1, <2>3, CampoAlta
    <3> HIDE DEF l2
    <3>2. QED
      BY <1>3, <2>3, <3>1 DEF Crece
  <2> HIDE DEF l2
  <2>5. QED
    BY <1>4, <1>5, <2>2, <2>4 DEF l2
<1>9. QED
  BY <1>1, <1>6, <1>7, <1>8
(* A seed that is looked for in a list and found missing is added to it    *)
(* once: no memory gets repeated while nobody else changes the list.       *)
LEMMA IncorporarSinRepetir ==
  ASSUME NEW l \in Seq(Seed), NEW w \in Trabajo, w.nuevas # << >>,
         SinRepetir(l), FaltaNueva(l, w)
  PROVE  LET t == IncorporarUna(l, w) IN SinRepetir(t.lista) /\ FaltaNueva(t.lista, t.trabajo)
<1> DEFINE s == Head(w.nuevas)
           k == Conozco(l, s.mem)
           nueva == [s EXCEPT !.alta = w.primera /\ @]
<1>1. w.nuevas \in Seq(Seed) /\ w.primera \in BOOLEAN /\ w.falta \in BOOLEAN
  BY DEF Trabajo
<1>2. s \in Seed
  BY <1>1, HeadTailProperties
<1>3. Len(l) \in Nat
  BY LenProperties
<1>4. ASSUME NEW l2 PROVE Hecho(l2, w).lista = l2 /\ FaltaNueva(l2, Hecho(l2, w).trabajo)
  BY DEF Hecho, FaltaNueva
<1>5. CASE w.falta
  <2>1. nueva \in Seed /\ nueva.mem = s.mem
    BY <1>1, <1>2 DEF Seed
  <2>2. \A i \in 1..Len(l) : l[i].mem # s.mem
    BY <1>5, ConozcoEs DEF FaltaNueva
  <2>3. IncorporarUna(l, w) = Hecho(Append(l, nueva), w)
    BY <1>5 DEF IncorporarUna, Agregar
  <2> HIDE DEF nueva, s
  <2>4. SinRepetir(Append(l, nueva))
    <3>1. /\ Len(Append(l, nueva)) = Len(l) + 1
          /\ \A i \in 1..Len(l) : Append(l, nueva)[i] = l[i]
          /\ Append(l, nueva)[Len(l) + 1] = nueva
      BY <2>1, AppendProperties
    <3>2. QED
      BY <1>3, <2>1, <2>2, <3>1 DEF SinRepetir
  <2>5. QED
    BY <1>4, <2>3, <2>4
<1>6. CASE ~w.falta /\ k = 0
  <2>1. IncorporarUna(l, w) = Falta(l, w)
    BY <1>6 DEF IncorporarUna, Mirar
  <2> DEFINE w2 == [w EXCEPT !.falta = TRUE]
  <2>2. w2.nuevas = w.nuevas
    BY DEF Trabajo
  <2>3. IncorporarUna(l, w).lista = l /\ IncorporarUna(l, w).trabajo = w2
    BY <2>1 DEF Falta
  <2> HIDE DEF w2
  <2>4. QED
    BY <1>6, <2>2, <2>3 DEF FaltaNueva
<1>7. CASE ~w.falta /\ k # 0
  <2> DEFINE alta == l[k].alta \/ (w.primera /\ s.alta)
  <2>1. k \in 1..Len(l)
    BY <1>7, ConozcoEs
  <2>2. IncorporarUna(l, w) = Hecho([l EXCEPT ![k].alta = alta], w)
    <3>1. [l EXCEPT ![k].alta = @ \/ (w.primera /\ s.alta)] = [l EXCEPT ![k].alta = alta]
      OBVIOUS
    <3>2. QED
      BY <1>7, <3>1 DEF IncorporarUna, Mirar
  <2>3. alta \in BOOLEAN
    BY <1>1, <1>2, <2>1, ElementOfSeq DEF Seed
  <2> HIDE DEF k, alta
  <2>4. SinRepetir([l EXCEPT ![k].alta = alta])
    BY <1>3, <2>1, <2>3, CampoAlta DEF SinRepetir
  <2>5. QED
    BY <1>4, <2>2, <2>4
<1>8. QED
  BY <1>1, <1>5, <1>6, <1>7

-----------------------------------------------------------------------------
(* Lists and rounds.                                                       *)

LEMMA SeedsInicialesEs ==
  ASSUME NEW c \in Configuraciones, NEW p \in Procesos
  PROVE  /\ SeedsIniciales(c, p) \in Seq(Seed)
         /\ EsLista(p, SeedsIniciales(c, p))
         /\ p = Kernel => Len(SeedsIniciales(c, p)) = 1
<1> DEFINE otras == [i \in DOMAIN c.semillas[p] |-> [mem |-> c.semillas[p][i], alta |-> FALSE]]
           yo == <<[mem |-> p, alta |-> TRUE]>>
           n == Len(c.semillas[p])
<1>1. c.semillas[p] \in Seq(Memorias) /\ (p = Kernel => n = 1)
  BY DEF Procesos
<1>2. n \in Nat /\ DOMAIN c.semillas[p] = 1..n /\ \A i \in 1..n : c.semillas[p][i] \in Memorias
  BY <1>1, LenProperties, ElementOfSeq
<1>3. otras \in Seq(Seed) /\ Len(otras) = n
  <2>1. \A i \in 1..n : [mem |-> c.semillas[p][i], alta |-> FALSE] \in Seed
    BY <1>2 DEF Seed
  <2>2. otras \in [1..n -> Seed]
    BY <1>2, <2>1
  <2> HIDE DEF otras, n
  <2>3. QED
    BY <1>2, <2>2, SeqDef, LenProperties
<1> HIDE DEF otras, n
<1>4. CASE p = Kernel
  <2>1. SeedsIniciales(c, p) = otras /\ p \notin Memorias /\ n = 1
    BY <1>1, <1>4 DEF SeedsIniciales, otras
  <2>2. otras # << >>
    <3>1. Len(otras) # 0 /\ Len(<< >>) = 0
      BY <1>3, <2>1, EmptySeq
    <3>2. QED
      BY <3>1, Zenon
  <2>3. QED
    BY <1>3, <2>1, <2>2 DEF EsLista
<1>5. CASE p # Kernel
  <2>1. SeedsIniciales(c, p) = yo \o otras /\ p \in Memorias
    BY <1>5 DEF SeedsIniciales, otras, Procesos
  <2>2. yo \in Seq(Seed) /\ Len(yo) = 1 /\ yo[1] = [mem |-> p, alta |-> TRUE]
    BY <2>1 DEF Seed
  <2> HIDE DEF yo
  <2>3. /\ yo \o otras \in Seq(Seed) /\ Len(yo \o otras) = 1 + n
        /\ (yo \o otras)[1] = [mem |-> p, alta |-> TRUE]
    <3>1. Len(yo) = 1 /\ Len(otras) = n /\ 1 \in 1..1 + n /\ 1 <= 1
      BY <1>2, <1>3, <2>2
    <3>2. /\ yo \o otras \in Seq(Seed) /\ Len(yo \o otras) = Len(yo) + Len(otras)
          /\ \A i \in 1..Len(yo) + Len(otras) :
               (yo \o otras)[i] = IF i <= Len(yo) THEN yo[i] ELSE otras[i - Len(yo)]
      <4>1. yo \in Seq(Seed) /\ otras \in Seq(Seed)
        BY <1>3, <2>2
      <4>2. QED
        BY <4>1, ConcatProperties, ZenonT(60)
    <3>3. Len(yo \o otras) = 1 + n /\ (yo \o otras)[1] = yo[1]
      BY <3>1, <3>2, Zenon
    <3>4. QED
      BY <2>2, <3>2, <3>3, Zenon
  <2>4. yo \o otras # << >>
    BY <1>2, <2>3, EmptySeq
  <2>5. QED
    BY <1>5, <2>1, <2>3, <2>4 DEF EsLista
<1>6. QED
  BY <1>4, <1>5

\* A list that grows is still one of its process, for the same rounds.
LEMMA CrecerEsLista ==
  ASSUME NEW p \in Procesos, NEW l \in Seq(Seed), NEW l2, Crece(l, l2), EsLista(p, l)
  PROVE  /\ EsLista(p, l2)
         /\ \A r \in TipoDeRonda : EsRonda(p, Len(l), r) => EsRonda(p, Len(l2), r)
<1>1. l2 \in Seq(Seed) /\ Len(l) \in Nat \ {0} /\ Len(l2) \in Nat /\ Len(l) <= Len(l2)
  BY EmptySeq, LenProperties DEF Crece, EsLista
<1>2. l2 # << >>
  BY <1>1
<1>3. p \in Memorias => l2[1] = [mem |-> p, alta |-> TRUE]
  <2>1. 1 \in 1..Len(l) /\ l2[1] \in Seed
    BY <1>1, ElementOfSeq
  <2>2. QED
    BY <2>1 DEF Crece, EsLista, Seed
<1>4. QED
  BY <1>1, <1>2, <1>3 DEF EsLista, EsRonda, TipoDeRonda

LEMMA NadaEs == Nada \in Trabajo /\ \A v \in Seq(Seed) : Mostrar(v) \in Trabajo
BY EmptySeq DEF Nada, Mostrar, Trabajo

LEMMA QuietaEs ==
  Quieta \in TipoDeRonda /\ Libre \in TipoDeHilo /\ ~Libre.activo
  /\ \A p \in Procesos, n \in Nat : EsRonda(p, n, Quieta)
BY NadaEs, EmptySeq DEF Quieta, Libre, TipoDeRonda, TipoDeHilo, EsRonda, PasosConIndice

\* The round goes on to the next memory, or ends.
LEMMA SiguienteEs ==
  ASSUME NEW p \in Procesos, NEW n \in Nat, NEW r \in TipoDeRonda,
         1 <= r.i, r.i <= r.tope, r.tope <= n, p \in Memorias => 2 <= r.i
  PROVE  /\ Siguiente(r) \in TipoDeRonda /\ EsRonda(p, n, Siguiente(r))
         /\ Siguiente(r).paso # "incorporar"
<1>1. CASE r.i < r.tope
  <2>1. Siguiente(r) = [r EXCEPT !.paso = "conectar", !.i = r.i + 1, !.trabajo = Nada]
    BY <1>1 DEF Siguiente
  <2>2. Siguiente(r) \in TipoDeRonda
    <3>1. r.i + 1 \in Nat /\ "conectar" \in PasosConIndice /\ Nada \in Trabajo
      BY NadaEs DEF TipoDeRonda, PasosConIndice
    <3>2. QED
      BY <2>1, <3>1 DEF TipoDeRonda
  <2>3. /\ Siguiente(r).paso = "conectar" /\ Siguiente(r).i = r.i + 1
        /\ Siguiente(r).tope = r.tope
    BY <2>1 DEF TipoDeRonda
  <2>4. r.i \in Nat /\ r.tope \in Nat
    BY DEF TipoDeRonda
  <2>5. QED
    BY <1>1, <2>2, <2>3, <2>4 DEF EsRonda, PasosConIndice
<1>2. CASE ~(r.i < r.tope)
  BY <1>2, QuietaEs DEF Siguiente, Quieta
<1>3. QED
  BY <1>1, <1>2
-----------------------------------------------------------------------------
(* Types are kept.                                                         *)

HilosBien(h) ==
  /\ h \in [Memorias -> [Procesos -> TipoDeHilo]]
  /\ \A m \in Memorias, p \in Procesos : h[m][p].activo => h[m][p].respuesta # << >>

LEMMA TiposTypeOK == Tipos /\ Formadas => TypeOK
<1> SUFFICES ASSUME Tipos, Formadas PROVE TypeOK
  OBVIOUS
<1>1. ASSUME NEW p \in Procesos
      PROVE  /\ lista[p] \in Seq(Seed)
             /\ p \in Memorias => lista[p][1] = [mem |-> p, alta |-> TRUE]
             /\ ronda[p].paso \in {"esperar", "armar", "conectar", "caida", "hablar", "incorporar"}
             /\ ronda[p].paso \in {"conectar", "caida", "hablar", "incorporar"} =>
                  1 <= ronda[p].i /\ ronda[p].i <= ronda[p].tope /\ ronda[p].tope <= Len(lista[p])
             /\ ronda[p].conocidas \in Seq(Seed) /\ ronda[p].trabajo \in Trabajo
  <2>1. ronda[p] \in TipoDeRonda /\ lista[p] \in Seq(Seed)
    BY DEF Tipos
  <2>2. EsLista(p, lista[p]) /\ EsRonda(p, Len(lista[p]), ronda[p])
    BY DEF Formadas
  <2>3. QED
    BY <2>1, <2>2 DEF TipoDeRonda, PasosConIndice, EsLista, EsRonda
<1>2. ASSUME NEW m \in Memorias, NEW p \in Procesos
      PROVE  /\ hilo[m][p].activo \in BOOLEAN
             /\ hilo[m][p].trabajo \in Trabajo /\ hilo[m][p].respuesta \in Seq(Seed)
  <2>1. hilo[m][p] \in TipoDeHilo
    BY DEF Tipos
  <2>2. QED
    BY <2>1 DEF TipoDeHilo
<1>3. QED
  BY <1>1, <1>2 DEF TypeOK, Tipos

LEMMA InitTipos == Init => Tipos /\ Formadas /\ KernelSolo
<1> SUFFICES ASSUME Init PROVE Tipos /\ Formadas /\ KernelSolo
  OBVIOUS
<1>1. \A p \in Procesos : lista[p] \in Seq(Seed) /\ EsLista(p, lista[p])
  BY SeedsInicialesEs DEF Init
<1>2. Tipos
  <2>1. lista \in [Procesos -> Seq(Seed)]
    BY SeedsInicialesEs DEF Init
  <2>2. ronda \in [Procesos -> TipoDeRonda] /\ hilo \in [Memorias -> [Procesos -> TipoDeHilo]]
    BY QuietaEs DEF Init
  <2>3. caidas \in 0..config.maxCaidas
    BY DEF Init
  <2>4. Kernel \in arriba /\ arriba \subseteq Procesos /\ config \in Configuraciones
    BY DEF Init, Procesos
  <2>5. QED
    BY <2>1, <2>2, <2>3, <2>4 DEF Tipos
<1>3. Formadas
  <2>1. \A p \in Procesos : Len(lista[p]) \in Nat /\ ronda[p] = Quieta
    BY <1>1, LenProperties DEF Init
  <2>2. \A m \in Memorias, p \in Procesos : hilo[m][p] = Libre
    BY DEF Init
  <2>3. QED
    BY <1>1, <2>1, <2>2, QuietaEs DEF Formadas
<1>4. KernelSolo
  <2>1. Len(lista[Kernel]) = 1 /\ ronda[Kernel] = Quieta
    BY SeedsInicialesEs DEF Init, Procesos
  <2>2. QED
    BY <2>1 DEF KernelSolo, SinRepetir, Quieta
<1>5. QED
  BY <1>2, <1>3, <1>4

\* A step of one process changes its own list, that grows, and its round.
LEMMA PasoDeProceso ==
  ASSUME Tipos, Formadas, NEW p \in Procesos, NEW l2, NEW r2 \in TipoDeRonda,
         UNCHANGED <<config, arriba, caidas>>,
         Crece(lista[p], l2), lista' = [lista EXCEPT ![p] = l2],
         EsRonda(p, Len(l2), r2), ronda' = [ronda EXCEPT ![p] = r2],
         HilosBien(hilo')
  PROVE  Tipos' /\ Formadas'
<1>1. lista[p] \in Seq(Seed) /\ l2 \in Seq(Seed) /\ EsLista(p, l2)
  BY CrecerEsLista DEF Tipos, Formadas, Crece
<1>2. Tipos'
  <2>1. lista' \in [Procesos -> Seq(Seed)] /\ ronda' \in [Procesos -> TipoDeRonda]
    BY <1>1 DEF Tipos
  <2>2. QED
    BY <2>1 DEF Tipos, HilosBien
<1>3. ASSUME NEW q \in Procesos
      PROVE  EsLista(q, lista'[q]) /\ EsRonda(q, Len(lista'[q]), ronda'[q])
  <2>1. CASE q = p
    BY <1>1, <2>1 DEF Tipos
  <2>2. CASE q # p
    <3>1. lista'[q] = lista[q] /\ ronda'[q] = ronda[q]
      BY <2>2 DEF Tipos
    <3>2. QED
      BY <3>1 DEF Formadas
  <2>3. QED
    BY <2>1, <2>2
<1>4. Formadas'
  BY <1>3 DEF Formadas, HilosBien
<1>5. QED
  BY <1>2, <1>4

LEMMA SinCambios ==
  ASSUME NEW l \in Seq(Seed)
  PROVE  Crece(l, l)
BY LenProperties DEF Crece

\* A thread of m that answers p changes.
LEMMA CambiarHilo ==
  ASSUME HilosBien(hilo), NEW m \in Memorias, NEW p \in Procesos, NEW h \in TipoDeHilo,
         h.activo => h.respuesta # << >>
  PROVE  HilosBien([hilo EXCEPT ![m][p] = h])
BY DEF HilosBien

LEMMA EscribirCampo ==
  ASSUME NEW r \in TipoDeRonda
  PROVE  /\ \A s \in {"esperar", "armar"} \cup PasosConIndice :
              LET r2 == [r EXCEPT !.paso = s] IN
              r2 \in TipoDeRonda /\ r2.paso = s /\ r2.i = r.i /\ r2.tope = r.tope
         /\ \A w \in Trabajo :
              LET r2 == [r EXCEPT !.trabajo = w] IN
              /\ r2 \in TipoDeRonda /\ r2.paso = r.paso /\ r2.i = r.i /\ r2.tope = r.tope
              /\ r2.trabajo = w
BY DEF TipoDeRonda
LEMMA CopiarTipos ==
  ASSUME Tipos, Formadas, NEW p \in Procesos, Copiar(p) PROVE Tipos' /\ Formadas'
<1> DEFINE l == lista[p]
           r2 == IF p = Kernel THEN [Quieta EXCEPT !.paso = "conectar", !.i = 1, !.tope = Len(l)]
                 ELSE IF Len(l) = 1 THEN Quieta
                 ELSE [Quieta EXCEPT !.paso = "armar", !.tope = Len(l)]
<1>1. l \in Seq(Seed) /\ EsLista(p, l)
  BY DEF Tipos, Formadas
<1>2. Len(l) \in Nat /\ Len(l) # 0
  BY <1>1, EmptySeq, LenProperties DEF EsLista
<1>3. Crece(l, l) /\ lista' = [lista EXCEPT ![p] = l] /\ ronda' = [ronda EXCEPT ![p] = r2]
  BY <1>1, SinCambios DEF Copiar, Tipos
<1> HIDE DEF l
<1>4. Quieta \in TipoDeRonda
  BY QuietaEs
<1>5. r2 \in TipoDeRonda /\ EsRonda(p, Len(l), r2)
  <2>1. CASE p = Kernel
    <3>1. /\ r2 \in TipoDeRonda /\ r2.paso = "conectar" /\ r2.i = 1 /\ r2.tope = Len(l)
      BY <1>2, <1>4, <2>1 DEF TipoDeRonda, PasosConIndice
    <3> HIDE DEF r2
    <3>2. QED
      BY <1>2, <2>1, <3>1 DEF EsRonda
  <2>2. CASE p # Kernel /\ Len(l) = 1
    BY <1>2, <2>2, QuietaEs
  <2>3. CASE p # Kernel /\ Len(l) # 1
    <3>1. /\ r2 \in TipoDeRonda /\ r2.paso = "armar" /\ r2.tope = Len(l)
      BY <1>2, <1>4, <2>3 DEF TipoDeRonda
    <3> HIDE DEF r2
    <3>2. 2 <= Len(l)
      <4>1. \A n \in Nat : n # 0 /\ n # 1 => 2 <= n
        OBVIOUS
      <4>2. QED
        BY <1>2, <2>3, <4>1, Zenon
    <3>3. QED
      BY <1>2, <3>1, <3>2 DEF EsRonda, PasosConIndice
  <2>4. QED
    BY <2>1, <2>2, <2>3
<1> HIDE DEF r2
<1>6. HilosBien(hilo') /\ UNCHANGED <<config, arriba, caidas>>
  BY DEF Copiar, HilosBien, Tipos, Formadas
<1>7. QED
  BY <1>3, <1>5, <1>6, PasoDeProceso DEF l

LEMMA ArmarTipos ==
  ASSUME Tipos, Formadas, NEW p \in Procesos, Armar(p) PROVE Tipos' /\ Formadas'
<1> DEFINE r == ronda[p]
           r2 == [r EXCEPT !.paso = "conectar", !.i = 2, !.conocidas = lista[p]]
<1>1. r \in TipoDeRonda /\ lista[p] \in Seq(Seed) /\ EsRonda(p, Len(lista[p]), r) /\ r.paso = "armar"
  BY DEF Armar, Tipos, Formadas
<1>2. Crece(lista[p], lista[p]) /\ lista' = [lista EXCEPT ![p] = lista[p]]
  BY <1>1, SinCambios DEF Armar, Tipos
<1>3. ronda' = [ronda EXCEPT ![p] = r2]
  BY DEF Armar
<1> HIDE DEF r
<1>4. r2 \in TipoDeRonda /\ r2.paso = "conectar" /\ r2.i = 2 /\ r2.tope = r.tope
  BY <1>1 DEF TipoDeRonda, PasosConIndice
<1> HIDE DEF r2
<1>5. EsRonda(p, Len(lista[p]), r2)
  BY <1>1, <1>4, LenProperties DEF EsRonda, TipoDeRonda
<1>6. HilosBien(hilo') /\ UNCHANGED <<config, arriba, caidas>>
  BY DEF Armar, HilosBien, Tipos, Formadas
<1>7. QED
  BY <1>2, <1>3, <1>4, <1>5, <1>6, PasoDeProceso

LEMMA ConectarTipos ==
  ASSUME Tipos, Formadas, NEW p \in Procesos, Conectar(p) PROVE Tipos' /\ Formadas'
<1> DEFINE r == ronda[p]
           m == lista[p][r.i].mem
           s == IF m \in arriba THEN "hablar" ELSE "caida"
           h == [activo |-> TRUE, respuesta |-> lista[m], trabajo |-> Mostrar(r.conocidas)]
<1>1. /\ r \in TipoDeRonda /\ r.paso = "conectar" /\ EsRonda(p, Len(lista[p]), r)
      /\ lista[p] \in Seq(Seed)
  BY DEF Conectar, Tipos, Formadas
<1>2. m \in Memorias
  <2>1. r.i \in 1..Len(lista[p])
    BY <1>1, LenProperties DEF EsRonda, PasosConIndice, TipoDeRonda
  <2>2. lista[p][r.i] \in Seed
    BY <1>1, <2>1, ElementOfSeq, Zenon
  <2>3. QED
    BY <2>2 DEF Seed
<1>3. Crece(lista[p], lista[p]) /\ lista' = [lista EXCEPT ![p] = lista[p]]
  BY <1>1, SinCambios DEF Conectar, Tipos
<1>4. ronda' = [ronda EXCEPT ![p] = [r EXCEPT !.paso = s]]
  BY DEF Conectar
<1>5. HilosBien(hilo')
  <2>1. HilosBien(hilo)
    BY DEF HilosBien, Tipos, Formadas
  <2>2. h \in TipoDeHilo /\ h.respuesta # << >>
    <3>1. lista[m] \in Seq(Seed) /\ lista[m] # << >>
      BY <1>2 DEF Tipos, Formadas, EsLista, Procesos
    <3>2. Mostrar(r.conocidas) \in Trabajo
      BY <1>1, NadaEs DEF TipoDeRonda
    <3>3. QED
      BY <3>1, <3>2 DEF TipoDeHilo
  <2>3. hilo' = [hilo EXCEPT ![m][p] = h] \/ hilo' = hilo
    BY DEF Conectar
  <2> HIDE DEF h, m
  <2>4. QED
    BY <1>2, <2>1, <2>2, <2>3, CambiarHilo
<1> DEFINE r2 == [r EXCEPT !.paso = s]
<1> HIDE DEF r, m
<1>6. r2 \in TipoDeRonda /\ r2.paso = s /\ r2.i = r.i /\ r2.tope = r.tope
  <2>1. s \in {"esperar", "armar"} \cup PasosConIndice
    BY DEF PasosConIndice
  <2> HIDE DEF s
  <2>2. QED
    BY <1>1, <2>1, EscribirCampo
<1> HIDE DEF r2
<1>7. EsRonda(p, Len(lista[p]), r2)
  BY <1>1, <1>6 DEF EsRonda, PasosConIndice
<1>8. UNCHANGED <<config, arriba, caidas>>
  BY DEF Conectar
<1>9. QED
  BY <1>3, <1>4, <1>5, <1>6, <1>7, <1>8, PasoDeProceso DEF r2

\* registrar_memoria_caida is of another memory: nobody loses its own number.
LEMMA RegistrarTipos ==
  ASSUME Tipos, Formadas, NEW p \in Procesos, RegistrarMemoriaCaida(p) PROVE Tipos' /\ Formadas'
<1> DEFINE r == ronda[p]
           l == lista[p]
           l2 == [l EXCEPT ![r.i].alta = FALSE]
           r2 == Siguiente(r)
<1>1. r \in TipoDeRonda /\ r.paso = "caida" /\ EsRonda(p, Len(l), r) /\ l \in Seq(Seed) /\ EsLista(p, l)
  BY DEF RegistrarMemoriaCaida, Tipos, Formadas
<1>2. lista' = [lista EXCEPT ![p] = l2] /\ ronda' = [ronda EXCEPT ![p] = r2]
  BY DEF RegistrarMemoriaCaida
<1>3. hilo' = hilo /\ UNCHANGED <<config, arriba, caidas>>
  BY DEF RegistrarMemoriaCaida
<1> HIDE DEF r, l
<1>4. Len(l) \in Nat /\ r.i \in 1..Len(l) /\ (p \in Memorias => r.i # 1)
  BY <1>1, LenProperties DEF EsRonda, PasosConIndice, TipoDeRonda
<1>5. /\ l2 \in Seq(Seed) /\ Len(l2) = Len(l)
      /\ \A j \in 1..Len(l) : j # r.i => l2[j] = l[j]
  <2>1. l \in Seq(Seed) /\ r.i \in 1..Len(l) /\ FALSE \in BOOLEAN
    BY <1>1, <1>4
  <2>2. /\ l2 \in Seq(Seed) /\ Len(l2) = Len(l)
        /\ \A j \in 1..Len(l) :
             l2[j] = IF j = r.i THEN [mem |-> l[r.i].mem, alta |-> FALSE] ELSE l[j]
    BY <2>1, CampoAlta, Zenon
  <2> HIDE DEF l2
  <2>3. QED
    BY <2>2
<1> HIDE DEF l2
<1>6. EsLista(p, l2)
  <2>1. l2 # << >>
    BY <1>1, <1>5, EmptySeq DEF EsLista
  <2>2. p \in Memorias => l2[1] = l[1]
    BY <1>4, <1>5
  <2>3. QED
    BY <1>1, <2>1, <2>2 DEF EsLista
<1>7. r2 \in TipoDeRonda /\ EsRonda(p, Len(l2), r2)
  BY <1>1, <1>4, <1>5, SiguienteEs DEF EsRonda, PasosConIndice
<1> HIDE DEF r2
<1>8. Tipos'
  BY <1>2, <1>3, <1>5, <1>7 DEF Tipos
<1>9. ASSUME NEW q \in Procesos
      PROVE  EsLista(q, lista'[q]) /\ EsRonda(q, Len(lista'[q]), ronda'[q])
  <2>1. CASE q = p
    BY <1>2, <1>6, <1>7, <2>1 DEF Tipos
  <2>2. CASE q # p
    <3>1. lista'[q] = lista[q] /\ ronda'[q] = ronda[q]
      BY <1>2, <2>2 DEF Tipos
    <3>2. QED
      BY <3>1 DEF Formadas
  <2>3. QED
    BY <2>1, <2>2
<1>10. QED
  BY <1>3, <1>8, <1>9 DEF Formadas

LEMMA RecibirTipos ==
  ASSUME Tipos, Formadas, NEW p \in Procesos, Recibir(p) PROVE Tipos' /\ Formadas'
<1> DEFINE r == ronda[p]
           m == lista[p][r.i].mem
           w == Mostrar(hilo[m][p].respuesta)
<1>1. /\ r \in TipoDeRonda /\ r.paso = "hablar" /\ EsRonda(p, Len(lista[p]), r)
      /\ lista[p] \in Seq(Seed)
  BY DEF Recibir, Tipos, Formadas
<1>2. m \in Memorias
  <2>1. r.i \in 1..Len(lista[p])
    BY <1>1, LenProperties DEF EsRonda, PasosConIndice, TipoDeRonda
  <2>2. lista[p][r.i] \in Seed
    BY <1>1, <2>1, ElementOfSeq, Zenon
  <2>3. QED
    BY <2>2 DEF Seed
<1>3. Crece(lista[p], lista[p]) /\ lista' = [lista EXCEPT ![p] = lista[p]]
  BY <1>1, SinCambios DEF Recibir, Tipos
<1>4. HilosBien(hilo) /\ UNCHANGED <<config, arriba, caidas>>
  BY DEF Recibir, HilosBien, Tipos, Formadas
<1>5. CASE hilo[m][p].activo
  <2> DEFINE r2 == [r EXCEPT !.paso = "incorporar", !.trabajo = w]
  <2>1. ronda' = [ronda EXCEPT ![p] = r2] /\ hilo' = [hilo EXCEPT ![m][p] = Libre]
    BY <1>5 DEF Recibir
  <2>2. w \in Trabajo /\ w.nuevas # << >>
    <3>1. hilo[m][p].respuesta \in Seq(Seed) /\ hilo[m][p].respuesta # << >>
      BY <1>2, <1>5 DEF Tipos, Formadas, TipoDeHilo
    <3>2. QED
      BY <3>1, NadaEs DEF Mostrar
  <2>3. HilosBien(hilo')
    <3> HIDE DEF m
    <3>1. QED
      BY <1>2, <1>4, <2>1, QuietaEs, CambiarHilo
  <2> HIDE DEF r, w
  <2>4. /\ r2 \in TipoDeRonda /\ r2.paso = "incorporar" /\ r2.i = r.i /\ r2.tope = r.tope
        /\ r2.trabajo = w
    BY <1>1, <2>2 DEF TipoDeRonda, PasosConIndice
  <2> HIDE DEF r2
  <2>5. EsRonda(p, Len(lista[p]), r2)
    BY <1>1, <2>2, <2>4 DEF EsRonda, PasosConIndice
  <2>6. QED
    BY <1>3, <1>4, <2>1, <2>3, <2>4, <2>5, PasoDeProceso
<1>6. CASE ~hilo[m][p].activo
  <2>1. ronda' = [ronda EXCEPT ![p] = Siguiente(r)] /\ hilo' = hilo
    BY <1>6 DEF Recibir
  <2> HIDE DEF r
  <2>2. Siguiente(r) \in TipoDeRonda /\ EsRonda(p, Len(lista[p]), Siguiente(r))
    BY <1>1, SiguienteEs, LenProperties DEF EsRonda, PasosConIndice
  <2>3. QED
    BY <1>3, <1>4, <2>1, <2>2, PasoDeProceso
<1>7. QED
  BY <1>5, <1>6

LEMMA IncorporarTipos ==
  ASSUME Tipos, Formadas, NEW p \in Procesos, Incorporar(p) PROVE Tipos' /\ Formadas'
<1> DEFINE t == IncorporarUna(lista[p], ronda[p].trabajo)
           r == [ronda[p] EXCEPT !.trabajo = t.trabajo]
           r2 == IF r.trabajo.nuevas = << >> THEN Siguiente(r) ELSE r
<1>1. /\ ronda[p] \in TipoDeRonda /\ ronda[p].paso = "incorporar" /\ lista[p] \in Seq(Seed)
      /\ EsLista(p, lista[p]) /\ EsRonda(p, Len(lista[p]), ronda[p])
  BY DEF Incorporar, Tipos, Formadas
<1>2. Crece(lista[p], t.lista) /\ t.trabajo \in Trabajo
  BY <1>1, IncorporarCrece DEF EsRonda, TipoDeRonda
<1>3. lista' = [lista EXCEPT ![p] = t.lista] /\ ronda' = [ronda EXCEPT ![p] = r2]
  BY DEF Incorporar
<1> HIDE DEF t
<1>4. EsRonda(p, Len(t.lista), ronda[p]) /\ Len(t.lista) \in Nat
  BY <1>1, <1>2, CrecerEsLista, LenProperties DEF Crece
<1>5. /\ r \in TipoDeRonda /\ r.paso = "incorporar" /\ r.i = ronda[p].i /\ r.tope = ronda[p].tope
      /\ r.trabajo = t.trabajo
  BY <1>1, <1>2, EscribirCampo
<1> HIDE DEF r
<1>6. r2 \in TipoDeRonda /\ EsRonda(p, Len(t.lista), r2)
  <2>1. CASE r.trabajo.nuevas = << >>
    <3>1. 1 <= r.i /\ r.i <= r.tope /\ r.tope <= Len(t.lista) /\ (p \in Memorias => 2 <= r.i)
      BY <1>1, <1>4, <1>5 DEF EsRonda, PasosConIndice
    <3>2. QED
      BY <1>4, <1>5, <2>1, <3>1, SiguienteEs
  <2>2. CASE r.trabajo.nuevas # << >>
    BY <1>1, <1>4, <1>5, <2>2 DEF EsRonda, PasosConIndice
  <2>3. QED
    BY <2>1, <2>2
<1> HIDE DEF r2
<1>7. HilosBien(hilo') /\ UNCHANGED <<config, arriba, caidas>>
  BY DEF Incorporar, HilosBien, Tipos, Formadas
<1>8. QED
  BY <1>2, <1>3, <1>6, <1>7, PasoDeProceso
LEMMA ResponderTipos ==
  ASSUME Tipos, Formadas, NEW m \in Memorias, NEW p \in Procesos, Responder(m, p)
  PROVE  Tipos' /\ Formadas'
<1> DEFINE t == IncorporarUna(lista[m], hilo[m][p].trabajo)
           h == [hilo[m][p] EXCEPT !.trabajo = t.trabajo]
<1>1. /\ hilo[m][p] \in TipoDeHilo /\ hilo[m][p].activo /\ hilo[m][p].trabajo.nuevas # << >>
      /\ hilo[m][p].respuesta # << >>
  BY DEF Responder, Tipos, Formadas
<1>2. /\ m \in Procesos /\ lista[m] \in Seq(Seed) /\ ronda[m] \in TipoDeRonda
      /\ EsLista(m, lista[m]) /\ EsRonda(m, Len(lista[m]), ronda[m])
  BY DEF Tipos, Formadas, Procesos
<1>3. Crece(lista[m], t.lista) /\ t.trabajo \in Trabajo
  BY <1>1, <1>2, IncorporarCrece DEF TipoDeHilo
<1>4. lista' = [lista EXCEPT ![m] = t.lista] /\ hilo' = [hilo EXCEPT ![m][p] = h]
  BY DEF Responder
<1> HIDE DEF t
<1>5. h \in TipoDeHilo /\ h.respuesta = hilo[m][p].respuesta
  BY <1>1, <1>3 DEF TipoDeHilo
<1> HIDE DEF h
<1>6. HilosBien(hilo')
  <2>1. HilosBien(hilo)
    BY DEF HilosBien, Tipos, Formadas
  <2>2. QED
    BY <1>1, <1>4, <1>5, <2>1, CambiarHilo
<1>7. EsRonda(m, Len(t.lista), ronda[m]) /\ ronda' = [ronda EXCEPT ![m] = ronda[m]]
  BY <1>2, <1>3, CrecerEsLista DEF Responder, Tipos
<1>8. UNCHANGED <<config, arriba, caidas>>
  BY DEF Responder
<1>9. QED
  BY <1>2, <1>3, <1>4, <1>6, <1>7, <1>8, PasoDeProceso

LEMMA DesconectadoTipos ==
  ASSUME Tipos, Formadas, NEW m \in Memorias, NEW p \in Procesos, Desconectado(m, p)
  PROVE  Tipos' /\ Formadas'
<1>1. HilosBien(hilo) /\ hilo' = [hilo EXCEPT ![m][p] = Libre]
  BY DEF HilosBien, Tipos, Formadas, Desconectado
<1>2. HilosBien(hilo')
  BY <1>1, QuietaEs, CambiarHilo
<1>3. QED
  BY <1>2 DEF Desconectado, HilosBien, Tipos, Formadas

LEMMA CaerTipos ==
  ASSUME Tipos, Formadas, NEW m \in Memorias, Caer(m) PROVE Tipos' /\ Formadas'
<1> DEFINE l2 == SeedsIniciales(config, m)
<1>1. m \in Procesos /\ m # Kernel
  BY DEF Procesos
<1>2. l2 \in Seq(Seed) /\ EsLista(m, l2)
  BY <1>1, SeedsInicialesEs DEF Tipos
<1>3. /\ lista' = [lista EXCEPT ![m] = l2] /\ ronda' = [ronda EXCEPT ![m] = Quieta]
      /\ hilo' = [hilo EXCEPT ![m] = [p \in Procesos |-> Libre]]
  BY DEF Caer
<1> HIDE DEF l2
<1>4. Tipos'
  <2>1. Kernel \in arriba' /\ arriba' \subseteq Procesos /\ config' \in Configuraciones
    BY <1>1 DEF Caer, Tipos
  <2>2. caidas' \in 0..config'.maxCaidas
    <3>1. config.maxCaidas \in Nat
      BY DEF Tipos
    <3>2. QED
      BY <3>1 DEF Caer, Tipos
  <2>3. lista' \in [Procesos -> Seq(Seed)] /\ ronda' \in [Procesos -> TipoDeRonda]
    BY <1>2, <1>3, QuietaEs DEF Tipos
  <2>4. hilo' \in [Memorias -> [Procesos -> TipoDeHilo]]
    BY <1>3, QuietaEs DEF Tipos
  <2>5. QED
    BY <2>1, <2>2, <2>3, <2>4 DEF Tipos
<1>5. ASSUME NEW q \in Procesos
      PROVE  EsLista(q, lista'[q]) /\ EsRonda(q, Len(lista'[q]), ronda'[q])
  <2>1. CASE q = m
    <3>1. lista'[q] = l2 /\ ronda'[q] = Quieta
      BY <1>1, <1>3, <2>1 DEF Tipos
    <3>2. QED
      BY <1>2, <2>1, <3>1, QuietaEs, LenProperties
  <2>2. CASE q # m
    <3>1. lista'[q] = lista[q] /\ ronda'[q] = ronda[q]
      BY <1>3, <2>2 DEF Tipos
    <3>2. QED
      BY <3>1 DEF Formadas
  <2>3. QED
    BY <2>1, <2>2
<1>6. ASSUME NEW n \in Memorias, NEW p \in Procesos, hilo'[n][p].activo
      PROVE  hilo'[n][p].respuesta # << >>
  <2>1. n # m
    BY <1>3, <1>6, QuietaEs DEF Tipos
  <2>2. hilo'[n][p] = hilo[n][p]
    BY <1>3, <2>1 DEF Tipos
  <2>3. QED
    BY <1>6, <2>2 DEF Formadas
<1>7. QED
  BY <1>4, <1>5, <1>6 DEF Formadas

LEMMA PasoTipos == Tipos /\ Formadas /\ [Next]_vars => Tipos' /\ Formadas'
<1> SUFFICES ASSUME Tipos, Formadas, [Next]_vars PROVE Tipos' /\ Formadas'
  OBVIOUS
<1>1. ASSUME NEW p \in Procesos, Ronda(p) PROVE Tipos' /\ Formadas'
  <2>1. CASE Copiar(p)
    BY <2>1, CopiarTipos
  <2>2. CASE Armar(p)
    BY <2>2, ArmarTipos
  <2>3. CASE Conectar(p)
    BY <2>3, ConectarTipos
  <2>4. CASE RegistrarMemoriaCaida(p)
    BY <2>4, RegistrarTipos
  <2>5. CASE Recibir(p)
    BY <2>5, RecibirTipos
  <2>6. CASE Incorporar(p)
    BY <2>6, IncorporarTipos
  <2>7. QED
    BY <1>1, <2>1, <2>2, <2>3, <2>4, <2>5, <2>6 DEF Ronda
<1>2. ASSUME NEW m \in Memorias, NEW p \in Procesos, Atender(m, p) PROVE Tipos' /\ Formadas'
  BY <1>2, ResponderTipos, DesconectadoTipos DEF Atender
<1>3. ASSUME NEW m \in Memorias, Caer(m) PROVE Tipos' /\ Formadas'
  BY <1>3, CaerTipos
<1>4. ASSUME NEW m \in Memorias, Volver(m) PROVE Tipos' /\ Formadas'
  BY <1>4 DEF Volver, Tipos, Formadas, Procesos
<1>5. ASSUME UNCHANGED vars PROVE Tipos' /\ Formadas'
  BY <1>5 DEF vars, Tipos, Formadas
<1>6. QED
  BY <1>1, <1>2, <1>3, <1>4, <1>5 DEF Next
-----------------------------------------------------------------------------
(* The Kernel does not get a memory twice.                                 *)

\* A step of another process, or of the threads that answer, is not of its list.
LEMMA PasoAjeno ==
  ASSUME Tipos, KernelSolo, lista'[Kernel] = lista[Kernel], ronda'[Kernel] = ronda[Kernel]
  PROVE  KernelSolo'
BY DEF KernelSolo

\* A step of its round that is not taking a seed.
LEMMA OtroPasoKernel ==
  ASSUME KernelSolo, lista'[Kernel] = lista[Kernel],
         ronda'[Kernel].paso = "incorporar" => ~ronda'[Kernel].trabajo.falta
  PROVE  KernelSolo'
BY DEF KernelSolo, FaltaNueva

LEMMA PasoKernel == Tipos /\ Formadas /\ KernelSolo /\ [Next]_vars => KernelSolo'
<1> SUFFICES ASSUME Tipos, Formadas, KernelSolo, [Next]_vars PROVE KernelSolo'
  OBVIOUS
<1>0. /\ Kernel \in Procesos /\ lista[Kernel] \in Seq(Seed) /\ ronda[Kernel] \in TipoDeRonda
      /\ EsLista(Kernel, lista[Kernel]) /\ EsRonda(Kernel, Len(lista[Kernel]), ronda[Kernel])
      /\ Len(lista[Kernel]) \in Nat
  BY LenProperties DEF Tipos, Formadas, Procesos
<1>1. ASSUME NEW p \in Procesos, p # Kernel, Ronda(p) PROVE KernelSolo'
  <2>1. lista'[Kernel] = lista[Kernel] /\ ronda'[Kernel] = ronda[Kernel]
    BY <1>1 DEF Ronda, Copiar, Armar, Conectar, RegistrarMemoriaCaida, Recibir, Incorporar, Tipos
  <2>2. QED
    BY <2>1, PasoAjeno
<1>2. CASE Copiar(Kernel)
  <2>1. lista'[Kernel] = lista[Kernel] /\ ronda'[Kernel].paso = "conectar"
    BY <1>0, <1>2, QuietaEs DEF Copiar, Tipos, TipoDeRonda
  <2>2. QED
    BY <2>1, OtroPasoKernel
<1>3. CASE Armar(Kernel)
  <2>1. lista'[Kernel] = lista[Kernel] /\ ronda'[Kernel].paso = "conectar"
    BY <1>0, <1>3 DEF Armar, Tipos, TipoDeRonda
  <2>2. QED
    BY <2>1, OtroPasoKernel
<1>4. CASE Conectar(Kernel)
  <2>1. lista'[Kernel] = lista[Kernel] /\ ronda'[Kernel].paso \in {"hablar", "caida"}
    BY <1>0, <1>4 DEF Conectar, Tipos, TipoDeRonda
  <2>2. QED
    BY <2>1, OtroPasoKernel
<1>5. CASE RegistrarMemoriaCaida(Kernel)
  <2> DEFINE l == lista[Kernel]
             r == ronda[Kernel]
             l2 == [l EXCEPT ![r.i].alta = FALSE]
  <2>1. lista' = [lista EXCEPT ![Kernel] = l2] /\ ronda'[Kernel] = Siguiente(r)
    BY <1>0, <1>5 DEF RegistrarMemoriaCaida, Tipos
  <2>2. lista'[Kernel] = l2
    BY <1>0, <2>1 DEF Tipos
  <2>3. l \in Seq(Seed) /\ r.i \in 1..Len(l) /\ FALSE \in BOOLEAN
    BY <1>0, <1>5 DEF EsRonda, PasosConIndice, TipoDeRonda, RegistrarMemoriaCaida
  <2>4. Siguiente(r).paso # "incorporar"
    BY <1>0, <1>5, SiguienteEs DEF EsRonda, PasosConIndice, RegistrarMemoriaCaida
  <2>5. SinRepetir(l)
    BY DEF KernelSolo
  <2> HIDE DEF l, r
  <2>6. /\ l2 \in Seq(Seed) /\ Len(l2) = Len(l)
        /\ \A j \in 1..Len(l) :
             l2[j] = IF j = r.i THEN [mem |-> l[r.i].mem, alta |-> FALSE] ELSE l[j]
    BY <2>3, CampoAlta, Zenon
  <2> HIDE DEF l2
  <2>7. SinRepetir(l2)
    BY <2>5, <2>6 DEF SinRepetir
  <2>8. QED
    BY <2>1, <2>2, <2>4, <2>7 DEF KernelSolo
<1>6. CASE Recibir(Kernel)
  <2>1. ronda[Kernel].paso = "hablar" /\ lista'[Kernel] = lista[Kernel]
    BY <1>6 DEF Recibir
  <2>2. Siguiente(ronda[Kernel]).paso # "incorporar"
    BY <1>0, <2>1, SiguienteEs DEF EsRonda, PasosConIndice
  <2>3. \/ \E v : ronda' = [ronda EXCEPT ![Kernel].paso = "incorporar",
                                         ![Kernel].trabajo = Mostrar(v)]
        \/ ronda' = [ronda EXCEPT ![Kernel] = Siguiente(ronda[Kernel])]
    BY <1>6 DEF Recibir
  <2>4. ronda'[Kernel].paso = "incorporar" => ~ronda'[Kernel].trabajo.falta
    BY <1>0, <2>2, <2>3 DEF Tipos, TipoDeRonda, Mostrar
  <2>5. QED
    BY <2>1, <2>4, OtroPasoKernel
<1>7. CASE Incorporar(Kernel)
  <2> DEFINE w == ronda[Kernel].trabajo
             t == IncorporarUna(lista[Kernel], w)
             r == [ronda[Kernel] EXCEPT !.trabajo = t.trabajo]
             r2 == IF r.trabajo.nuevas = << >> THEN Siguiente(r) ELSE r
  <2>1. ronda[Kernel].paso = "incorporar" /\ w \in Trabajo /\ w.nuevas # << >>
    BY <1>0, <1>7 DEF Incorporar, EsRonda, TipoDeRonda
  <2>2. SinRepetir(lista[Kernel]) /\ FaltaNueva(lista[Kernel], w)
    BY <2>1 DEF KernelSolo
  <2>3. /\ SinRepetir(t.lista) /\ FaltaNueva(t.lista, t.trabajo)
        /\ Crece(lista[Kernel], t.lista) /\ t.trabajo \in Trabajo
    BY <1>0, <2>1, <2>2, IncorporarSinRepetir, IncorporarCrece
  <2>4. lista' = [lista EXCEPT ![Kernel] = t.lista] /\ ronda' = [ronda EXCEPT ![Kernel] = r2]
    BY <1>7 DEF Incorporar
  <2> HIDE DEF t, w
  <2>5. /\ r \in TipoDeRonda /\ r.paso = "incorporar" /\ r.i = ronda[Kernel].i
        /\ r.tope = ronda[Kernel].tope /\ r.trabajo = t.trabajo
    BY <1>0, <2>1, <2>3, EscribirCampo
  <2> HIDE DEF r
  <2>6. r2.paso = "incorporar" => r2.trabajo = t.trabajo
    <3>1. Siguiente(r).paso # "incorporar"
      BY <1>0, <2>1, <2>5, SiguienteEs DEF EsRonda, PasosConIndice
    <3>2. QED
      BY <2>5, <3>1
  <2> HIDE DEF r2
  <2>7. lista'[Kernel] = t.lista /\ ronda'[Kernel] = r2
    BY <1>0, <2>4 DEF Tipos
  <2>8. QED
    BY <2>3, <2>6, <2>7 DEF KernelSolo
<1>8. ASSUME NEW m \in Memorias, NEW p \in Procesos, Atender(m, p) PROVE KernelSolo'
  <2>1. lista'[Kernel] = lista[Kernel] /\ ronda'[Kernel] = ronda[Kernel]
    BY <1>8 DEF Atender, Responder, Desconectado, Tipos, Procesos
  <2>2. QED
    BY <2>1, PasoAjeno
<1>9. ASSUME NEW m \in Memorias, Caer(m) \/ Volver(m) PROVE KernelSolo'
  <2>1. lista'[Kernel] = lista[Kernel] /\ ronda'[Kernel] = ronda[Kernel]
    BY <1>9 DEF Caer, Volver, Tipos, Procesos
  <2>2. QED
    BY <2>1, PasoAjeno
<1>10. CASE UNCHANGED vars
  BY <1>10 DEF vars, KernelSolo
<1>11. QED
  BY <1>1, <1>2, <1>3, <1>4, <1>5, <1>6, <1>7, <1>8, <1>9, <1>10 DEF Next, Ronda

LEMMA Invariantes == Spec => [](Tipos /\ Formadas /\ KernelSolo)
<1>1. Init => Tipos /\ Formadas /\ KernelSolo
  BY InitTipos
<1>2. Tipos /\ Formadas /\ KernelSolo /\ [Next]_vars => (Tipos /\ Formadas /\ KernelSolo)'
  BY PasoTipos, PasoKernel
<1>3. QED
  BY <1>1, <1>2, PTL DEF Spec

(* The state has its types, whatever ends and whatever is shown: the first *)
(* of the list of a memory is the memory itself with its number, and no    *)
(* round goes past the end of the list (list_get would give no seed).      *)
THEOREM TipoCorrecto == Spec => []TypeOK
<1>1. Tipos /\ Formadas /\ KernelSolo => TypeOK
  BY TiposTypeOK
<1>2. QED
  BY <1>1, Invariantes, PTL

\* The Kernel never has a memory twice, whatever repetitions it is shown.
THEOREM KernelNoRepite == Spec => []KernelSinRepetidas
<1>1. Tipos /\ Formadas /\ KernelSolo => KernelSinRepetidas
  BY DEF KernelSolo, SinRepetir, KernelSinRepetidas
<1>2. QED
  BY <1>1, Invariantes, PTL
====
