---- MODULE Bloques_proofs ----
(***************************************************************************)
(* Theorems of Bloques for any tables, partitions, bitmap and bounds.      *)
(***************************************************************************)
EXTENDS Bloques, FiniteSetTheorems, FunctionTheorems, SequenceTheorems, WellFoundedInduction,
        TLAPS

USE BloquesAssumption

-----------------------------------------------------------------------------
(* What the prover needs besides TypeOK: what a thread has at each step.   *)

Pasos == {"libre", "obtener", "leer", "marcar", "archivo", "tomar", "liberar", "leerLibre",
          "limpiar", "particion"}

\* The steps of a file that is being made.
Haciendo == {"obtener", "leer", "marcar", "archivo"}

\* Those of the compaction that free the blocks of the files it replaces.
Liberando == {"liberar", "leerLibre", "limpiar"}

TipoDeObra == [tabla : Tablas \cup {Nadie}, clase : Clases, nro : Nat,
               bloques : Seq(Bits \cup {-1}), pide : 0..MaxTam,
               libera : Seq(Bits \cup {-1}), bloque : Bits \cup {-1}, byte : SUBSET Bits]

Tipos ==
  /\ bitarray \subseteq Bits
  /\ archivos \subseteq Archivo
  /\ tablas \subseteq Tablas
  /\ rwLock \in [Tablas -> Hilos \cup {Nadie}] /\ dropMx \in [Tablas -> Tablas \cup {Nadie}]
  /\ pc \in [Hilos -> Pasos] /\ op \in [Hilos -> TipoDeObra]
  /\ dumps \in 0..MaxDumps /\ bajas \in 0..MaxBajas
  /\ perdidos \subseteq Bits /\ disputados \subseteq Bits
  /\ DOMAIN escrito = Bits

(* What thread h has at hand: the file it makes is not longer than it      *)
(* asked, and only CREATE takes -1 for a block.                            *)
EnMano(h, paso, o) ==
  /\ paso \notin {"libre", "tomar"} => o.tabla \in Tablas
  /\ paso \in {"libre", "tomar", "particion"} => o.bloques = << >> /\ o.libera = << >>
  /\ paso \in Haciendo => o.libera = << >> /\ Len(o.bloques) + o.pide <= MaxTam
  /\ paso \in Haciendo \ {"archivo"} => o.pide >= 1
  /\ paso \in Liberando => o.bloques = << >>
  /\ paso \in {"leerLibre", "limpiar"} => o.libera # << >> /\ o.bloque = Head(o.libera)
  /\ h # Cliente => o.bloques \in Seq(Bits) /\ (paso \in {"leer", "marcar"} => o.bloque \in Bits)
  /\ h # Dump => o.clase = "bin"
  /\ h = Dump => paso \in {"libre"} \cup Haciendo
  /\ h = Cliente => paso \in {"libre", "particion"} \cup Haciendo

EnManos == \A h \in Hilos : EnMano(h, pc[h], op[h])

(* The locks: who makes files of a table has it for itself, and a table    *)
(* that does not exist has nobody.                                         *)
ConLlave ==
  /\ \A t \in Tablas : pc[t] # "libre" =>
       t \in tablas /\ dropMx[t] = t /\ (pc[t] # "tomar" => rwLock[t] = t /\ op[t].tabla = t)
  /\ pc[Dump] # "libre" => op[Dump].tabla \in tablas /\ rwLock[op[Dump].tabla] = Dump
  /\ pc[Cliente] # "libre" => op[Cliente].tabla \in tablas /\ pc[op[Cliente].tabla] = "libre"
  /\ \A f \in archivos : f.tabla \in tablas /\ Len(f.bloques) <= MaxTam

(* Files have different names, also those that are being made: a .tmp has  *)
(* the number of its dump, and the partitions are made in order.           *)
Nombres ==
  /\ \A f, g \in archivos : f # g => Id(f) # Id(g)
  /\ \A f \in archivos : f.clase # "bin" =>
       f.nro < dumps /\ (pc[Dump] # "libre" => f.nro < op[Dump].nro)
  /\ pc[Dump] # "libre" => op[Dump].clase # "bin" /\ op[Dump].nro < dumps
  /\ \A h \in Hilos \ {Dump} :
       pc[h] \in Haciendo \cup {"particion"} =>
         \A f \in archivos : f.tabla = op[h].tabla /\ f.clase = "bin" => f.nro < op[h].nro

-----------------------------------------------------------------------------
(* Who has each block.                                                     *)

\* Blocks that two threads used at the same time, and the one that is none.
Sucios == disputados \cup {-1}

Suyos(o) == Range(o.bloques) \cup Range(o.libera)

\* No block is twice in s, but for those of S.
SinRepetir(s, S) == \A i, j \in 1..Len(s) : s[i] = s[j] /\ s[i] \notin S => i = j

(* Block b has one owner, a file, a thread, or nobody any more, and then   *)
(* its bit is set; or none, and its bit is not.                            *)
UnDuenioDe(b) ==
  /\ \A f, g \in archivos : b \in Range(f.bloques) /\ b \in Range(g.bloques) => f = g
  /\ \A h, k \in Hilos : b \in Suyos(op[h]) /\ b \in Suyos(op[k]) => h = k
  /\ \A f \in archivos, h \in Hilos : ~(b \in Range(f.bloques) /\ b \in Suyos(op[h]))
  /\ \A f \in archivos : b \in Range(f.bloques) => b \notin perdidos
  /\ \A h \in Hilos : b \in Suyos(op[h]) => b \notin perdidos
  /\ b \in bitarray <=> \/ \E f \in archivos : b \in Range(f.bloques)
                        \/ \E h \in Hilos : b \in Suyos(op[h])
                        \/ b \in perdidos

UnDuenio ==
  /\ \A b \in Bits \ disputados : UnDuenioDe(b)
  /\ \A h \in Hilos : SinRepetir(op[h].bloques, Sucios) /\ SinRepetir(op[h].libera, Sucios)
  /\ \A f \in archivos : SinRepetir(f.bloques, Sucios)

-----------------------------------------------------------------------------
(* Sequences of blocks.                                                    *)

LEMMA RangoVacio == Range(<< >>) = {}
BY DEF Range

LEMMA RangoEs ==
  ASSUME NEW S, NEW s \in Seq(S)
  PROVE  /\ Range(s) \subseteq S
         /\ \A x : x \in Range(s) <=> \E i \in 1..Len(s) : s[i] = x
BY RangeEquality, ElementOfSeq

LEMMA RangoAgregar ==
  ASSUME NEW S, NEW s \in Seq(S), NEW e \in S, NEW D
  PROVE  /\ Append(s, e) \in Seq(S) /\ Len(Append(s, e)) = Len(s) + 1
         /\ Range(Append(s, e)) = Range(s) \cup {e}
         /\ SinRepetir(s, D) /\ (e \notin Range(s) \/ e \in D) => SinRepetir(Append(s, e), D)
<1> DEFINE n == Append(s, e)
<1>1. Len(s) \in Nat
  BY LenProperties
<1>2. /\ n \in Seq(S) /\ Len(n) = Len(s) + 1
      /\ \A i \in 1..Len(s) : n[i] = s[i]
      /\ n[Len(s) + 1] = e
  BY AppendProperties
<1> HIDE DEF n
<1>3. ASSUME NEW x PROVE x \in Range(n) <=> x \in Range(s) \cup {e}
  <2>1. x \in Range(n) <=> \E i \in 1..Len(n) : n[i] = x
    <3>1. \A y : y \in Range(n) <=> \E i \in 1..Len(n) : n[i] = y
      BY ONLY <1>2, RangoEs
    <3>2. QED
      BY <3>1
  <2>2. x \in Range(s) <=> \E i \in 1..Len(s) : s[i] = x
    BY RangoEs, Zenon
  <2>3. QED
    BY <1>1, <1>2, <2>1, <2>2
<1>4. ASSUME SinRepetir(s, D), e \notin Range(s) \/ e \in D PROVE SinRepetir(n, D)
  <2>1. \A i \in 1..Len(s) : s[i] = e => e \in D
    BY <1>4, RangoEs
  <2>2. QED
    BY <1>1, <1>2, <1>4, <2>1 DEF SinRepetir
<1>5. Range(n) = Range(s) \cup {e}
  BY <1>3
<1>6. QED
  BY <1>2, <1>4, <1>5 DEF n

LEMMA RangoCola ==
  ASSUME NEW S, NEW s \in Seq(S), s # << >>, NEW D
  PROVE  /\ Tail(s) \in Seq(S) /\ Head(s) \in S
         /\ Range(s) = {Head(s)} \cup Range(Tail(s))
         /\ SinRepetir(s, D) => SinRepetir(Tail(s), D) /\ (Head(s) \in Range(Tail(s)) => Head(s) \in D)
<1> DEFINE c == Tail(s)
<1>1. Len(s) \in Nat \ {0} /\ Head(s) = s[1]
  BY EmptySeq
<1>2. /\ c \in Seq(S) /\ Head(s) \in S /\ Len(c) = Len(s) - 1
      /\ \A i \in 1..Len(c) : c[i] = s[i + 1]
  BY HeadTailProperties
<1> HIDE DEF c
<1>3. \A x : x \in Range(c) <=> \E i \in 1..Len(c) : c[i] = x
  <2>1. c \in Seq(S)
    BY <1>2
  <2>2. QED
    BY <2>1, RangoEs
<1>4. \A x : x \in Range(s) <=> \E i \in 1..Len(s) : s[i] = x
  BY RangoEs, Zenon
<1>5. ASSUME NEW x PROVE x \in Range(s) <=> x \in {Head(s)} \cup Range(c)
  <2>1. ASSUME NEW i \in 1..Len(s), s[i] = x PROVE x \in {Head(s)} \cup Range(c)
    <3>1. CASE i = 1
      BY <1>1, <2>1, <3>1
    <3>2. CASE i # 1
      <4>1. i - 1 \in 1..Len(c) /\ c[i - 1] = x
        BY <1>1, <1>2, <2>1, <3>2
      <4>2. QED
        BY <1>3, <4>1
    <3>3. QED
      BY <3>1, <3>2
  <2>2. ASSUME NEW i \in 1..Len(c), c[i] = x PROVE x \in Range(s)
    <3>1. i + 1 \in 1..Len(s) /\ s[i + 1] = x
      BY <1>1, <1>2, <2>2
    <3>2. QED
      BY <1>4, <3>1
  <2>3. Head(s) \in Range(s)
    BY <1>1, <1>4
  <2>4. QED
    BY <1>3, <1>4, <2>1, <2>2, <2>3
<1>6. ASSUME SinRepetir(s, D)
      PROVE  SinRepetir(c, D) /\ (Head(s) \in Range(c) => Head(s) \in D)
  <2>1. SinRepetir(c, D)
    <3>1. SUFFICES ASSUME NEW i \in 1..Len(c), NEW j \in 1..Len(c), c[i] = c[j], c[i] \notin D
                   PROVE  i = j
      BY DEF SinRepetir
    <3>2. i + 1 \in 1..Len(s) /\ j + 1 \in 1..Len(s) /\ s[i + 1] = s[j + 1] /\ s[i + 1] \notin D
      BY <1>1, <1>2, <3>1
    <3>3. i + 1 = j + 1
      BY <1>6, <3>2 DEF SinRepetir
    <3>4. QED
      BY <1>2, <3>3, LenProperties
  <2>2. ASSUME Head(s) \in Range(c), Head(s) \notin D PROVE FALSE
    <3>1. PICK i \in 1..Len(c) : c[i] = Head(s)
      BY <1>3, <2>2
    <3>2. i + 1 \in 1..Len(s) /\ 1 \in 1..Len(s) /\ s[i + 1] = s[1] /\ s[1] \notin D /\ i + 1 # 1
      BY <1>1, <1>2, <2>2, <3>1
    <3>3. QED
      BY <1>6, <3>2 DEF SinRepetir
  <2>3. QED
    BY <2>1, <2>2
<1>7. Range(s) = {Head(s)} \cup Range(c)
  BY <1>5
<1>8. QED
  BY <1>2, <1>6, <1>7 DEF c

-----------------------------------------------------------------------------
(* Types, and what each thread has at hand.                                *)

LEMMA NadaEs ==
  /\ Nada \in TipoDeObra /\ Nada.bloques = << >> /\ Nada.libera = << >>
  /\ Nada.pide = 0 /\ Nada.nro = 0 /\ Nada.clase = "bin" /\ Nada.tabla = Nadie
BY EmptySeq DEF Nada, TipoDeObra, Clases

LEMMA NadaEnMano ==
  \A h \in Hilos : EnMano(h, "libre", Nada)
<1>1. << >> \in Seq(Bits)
  BY EmptySeq
<1>2. QED
  BY <1>1, NadaEs DEF EnMano, Haciendo, Liberando

\* Thread h works on o2 and is at step s.
Cambia(h, o2, s) == op' = [op EXCEPT ![h] = o2] /\ pc' = [pc EXCEPT ![h] = s]

LEMMA CambiarObra ==
  ASSUME Tipos, EnManos, NEW h \in Hilos, NEW o2 \in TipoDeObra, NEW s \in Pasos,
         EnMano(h, s, o2), Cambia(h, o2, s)
  PROVE  /\ pc' \in [Hilos -> Pasos] /\ op' \in [Hilos -> TipoDeObra] /\ EnManos'
         /\ pc'[h] = s /\ op'[h] = o2
         /\ \A k \in Hilos \ {h} : pc'[k] = pc[k] /\ op'[k] = op[k]
<1>1. pc \in [Hilos -> Pasos] /\ op \in [Hilos -> TipoDeObra]
  BY DEF Tipos
<1>2. pc' \in [Hilos -> Pasos] /\ op' \in [Hilos -> TipoDeObra]
  BY <1>1 DEF Cambia
<1>3. pc'[h] = s /\ op'[h] = o2 /\ \A k \in Hilos \ {h} : pc'[k] = pc[k] /\ op'[k] = op[k]
  BY <1>1 DEF Cambia
<1>4. EnManos'
  BY <1>3 DEF EnManos
<1>5. QED
  BY <1>2, <1>3, <1>4

LEMMA LosHilos ==
  /\ Dump \in Hilos /\ Cliente \in Hilos /\ Dump # Cliente
  /\ \A t \in Tablas : t \in Hilos /\ t # Dump /\ t # Cliente
BY DEF Hilos

\* obtenerPrimerBloqueLibreBitmap gives a free block when there is one.
LEMMA PrimeraPosicion ==
  ASSUME NEW S \in SUBSET Nat, S # {}
  PROVE  \E i \in S : \A j \in S : i <= j
<1> DEFINE R == OpToRel(<, Nat)
<1>1. ASSUME NEW i \in Nat, NEW j \in Nat, j < i PROVE <<j, i>> \in R
  BY <1>1 DEF OpToRel
<1>2. IsWellFoundedOn(R, Nat)
  BY NatLessThanWellFounded
<1> HIDE DEF R
<1>3. PICK i \in S : \A j \in S : <<j, i>> \notin R
  BY <1>2, WFMin, Zenon
<1>4. ASSUME NEW j \in S PROVE i <= j
  <2>1. i \in Nat /\ j \in Nat /\ ~(j < i)
    BY <1>1, <1>3, Zenon
  <2>2. QED
    BY ONLY <2>1
<1>5. QED
  BY <1>4

LEMMA PrimerLibreEs ==
  /\ Libres = {} => PrimerLibre = -1
  /\ Libres # {} => PrimerLibre \in Bits \ bitarray
<1>1. Libres \in SUBSET Nat
  BY DEF Libres, Bits
<1>2. ASSUME Libres # {} PROVE PrimerLibre \in Libres
  <2>1. PICK i \in Libres : \A j \in Libres : i <= j
    BY <1>1, <1>2, PrimeraPosicion
  <2>2. QED
    BY <1>2, <2>1 DEF PrimerLibre
<1>3. QED
  BY <1>2 DEF PrimerLibre, Libres

\* A bit is of its byte.
LEMMA ByteEs ==
  ASSUME NEW b \in Bits \cup {-1}
  PROVE  Byte(b) \subseteq Bits /\ (b \in Bits => b \in Byte(b))
<1>1. -1 \notin Bits
  BY DEF Bits
<1>2. QED
  BY <1>1 DEF Byte

LEMMA SeqDeBits == Seq(Bits) \subseteq Seq(Bits \cup {-1})
BY SeqMonotonic

-----------------------------------------------------------------------------
(* What each action leaves at hand.                                        *)

\* Ownership is of these.
MismosBloques(o, o2) == o2.bloques = o.bloques /\ o2.libera = o.libera

LEMMA PedirDeja ==
  ASSUME Tipos, EnManos, NEW h \in Hilos, NEW t \in Tablas, NEW clase \in Clases, NEW nro \in Nat,
         NEW n \in 1..MaxTam, pc[h] \in {"libre", "particion"}, h # Dump => clase = "bin",
         Pedir(h, t, clase, nro, n)
  PROVE  \E o2 \in TipoDeObra, s \in {"archivo", "obtener"} :
           /\ Cambia(h, o2, s) /\ EnMano(h, s, o2) /\ MismosBloques(op[h], o2)
           /\ o2.tabla = t /\ o2.clase = clase /\ o2.nro = nro
<1> DEFINE pide == IF Cardinality(Libres) >= n THEN n ELSE 0
           o2 == [Nada EXCEPT !.tabla = t, !.clase = clase, !.nro = nro, !.pide = pide]
           s == IF pide = 0 THEN "archivo" ELSE "obtener"
<1>1. Cambia(h, o2, s)
  BY DEF Pedir, Ir, Cambia
<1>2. pide \in 0..MaxTam
  OBVIOUS
<1>3. op[h].bloques = << >> /\ op[h].libera = << >>
  BY DEF EnManos, EnMano
<1> HIDE DEF pide
<1>4. /\ o2 \in TipoDeObra /\ o2.tabla = t /\ o2.clase = clase /\ o2.nro = nro /\ o2.pide = pide
      /\ o2.bloques = << >> /\ o2.libera = << >>
  BY <1>2, NadaEs DEF TipoDeObra
<1> HIDE DEF o2
<1>5. << >> \in Seq(Bits) /\ Len(<< >>) = 0
  BY EmptySeq
<1>6. s \in {"archivo", "obtener"} /\ (s = "obtener" => pide >= 1)
  BY <1>2
<1> HIDE DEF s
<1>7. EnMano(h, s, o2)
  BY <1>2, <1>4, <1>5, <1>6 DEF EnMano, Haciendo, Liberando
<1>8. QED
  BY <1>1, <1>3, <1>4, <1>6, <1>7 DEF MismosBloques

LEMMA ObtenerDeja ==
  ASSUME Tipos, EnManos, NEW h \in Hilos, Obtener(h), PrimerLibre # -1 \/ h = Cliente
  PROVE  \E o2 \in TipoDeObra :
           /\ Cambia(h, o2, "leer") /\ EnMano(h, "leer", o2) /\ MismosBloques(op[h], o2)
           /\ o2.tabla = op[h].tabla /\ o2.clase = op[h].clase /\ o2.nro = op[h].nro
<1> DEFINE o2 == [op[h] EXCEPT !.bloque = PrimerLibre]
<1>1. Cambia(h, o2, "leer") /\ pc[h] = "obtener"
  BY DEF Obtener, Ir, Cambia
<1>2. op[h] \in TipoDeObra /\ EnMano(h, "obtener", op[h])
  BY <1>1 DEF Tipos, EnManos
<1>3. PrimerLibre \in Bits \cup {-1} /\ (h # Cliente => PrimerLibre \in Bits)
  BY PrimerLibreEs DEF Obtener
<1>4. /\ o2 \in TipoDeObra /\ MismosBloques(op[h], o2) /\ o2.pide = op[h].pide
      /\ o2.tabla = op[h].tabla /\ o2.clase = op[h].clase /\ o2.nro = op[h].nro
      /\ o2.bloque = PrimerLibre
  BY <1>2, <1>3 DEF TipoDeObra, MismosBloques
<1> HIDE DEF o2
<1>5. EnMano(h, "leer", o2)
  BY <1>2, <1>3, <1>4 DEF EnMano, MismosBloques, Haciendo, Liberando
<1>6. QED
  BY <1>1, <1>4, <1>5

LEMMA SinBloqueDeja ==
  ASSUME Tipos, EnManos, NEW h \in Hilos, Obtener(h), ~(PrimerLibre # -1 \/ h = Cliente)
  PROVE  \E o2 \in TipoDeObra, s \in {"libre", "particion"} :
           /\ Cambia(h, o2, s) /\ EnMano(h, s, o2) /\ Suyos(o2) = {}
           /\ o2.bloques = << >> /\ o2.libera = << >>
           /\ h = Dump => s = "libre"
           /\ h # Dump => s = "particion" /\ o2.tabla = op[h].tabla /\ o2.nro = op[h].nro + 1
<1> DEFINE o2 == IF h = Dump THEN Nada
                 ELSE [Nada EXCEPT !.tabla = op[h].tabla, !.nro = op[h].nro + 1]
           s == IF h = Dump THEN "libre" ELSE "particion"
<1>1. Cambia(h, o2, s) /\ pc[h] = "obtener" /\ h # Cliente
  BY DEF Obtener, Ir, Cambia
<1>2. op[h] \in TipoDeObra /\ EnMano(h, "obtener", op[h])
  BY <1>1 DEF Tipos, EnManos
<1>3. op[h].nro + 1 \in Nat /\ op[h].tabla \in Tablas
  BY <1>2 DEF TipoDeObra, EnMano
<1>4. /\ o2 \in TipoDeObra /\ o2.bloques = << >> /\ o2.libera = << >> /\ o2.clase = "bin"
      /\ h # Dump => o2.tabla = op[h].tabla /\ o2.nro = op[h].nro + 1
  BY <1>3, NadaEs DEF TipoDeObra
<1> HIDE DEF o2
<1>5. << >> \in Seq(Bits)
  BY EmptySeq
<1>6. EnMano(h, s, o2)
  BY <1>1, <1>3, <1>4, <1>5 DEF EnMano, Haciendo, Liberando
<1>7. Suyos(o2) = {}
  BY <1>4, RangoVacio DEF Suyos
<1>8. QED
  BY <1>1, <1>4, <1>6, <1>7

LEMMA LeerDeja ==
  ASSUME Tipos, EnManos, NEW h \in Hilos, Leer(h)
  PROVE  \E o2 \in TipoDeObra, s \in {"marcar", "limpiar"} :
           /\ Cambia(h, o2, s) /\ EnMano(h, s, o2) /\ MismosBloques(op[h], o2)
           /\ o2.tabla = op[h].tabla /\ o2.clase = op[h].clase /\ o2.nro = op[h].nro
           /\ s = "marcar" <=> pc[h] = "leer"
<1> DEFINE o2 == [op[h] EXCEPT !.byte = bitarray \cap Byte(op[h].bloque)]
           s == IF pc[h] = "leer" THEN "marcar" ELSE "limpiar"
<1>1. Cambia(h, o2, s) /\ pc[h] \in {"leer", "leerLibre"}
  BY DEF Leer, Ir, Cambia
<1>2. op[h] \in TipoDeObra /\ EnMano(h, pc[h], op[h]) /\ bitarray \subseteq Bits
  BY DEF Tipos, EnManos
<1>3. /\ o2 \in TipoDeObra /\ MismosBloques(op[h], o2) /\ o2.pide = op[h].pide
      /\ o2.tabla = op[h].tabla /\ o2.clase = op[h].clase /\ o2.nro = op[h].nro
      /\ o2.bloque = op[h].bloque
  BY <1>2 DEF TipoDeObra, MismosBloques
<1> HIDE DEF o2
<1>4. EnMano(h, s, o2)
  BY <1>1, <1>2, <1>3 DEF EnMano, MismosBloques, Haciendo, Liberando
<1>5. QED
  BY <1>1, <1>3, <1>4

LEMMA MarcarDeja ==
  ASSUME Tipos, EnManos, NEW h \in Hilos, Marcar(h)
  PROVE  \E o2 \in TipoDeObra, s \in {"archivo", "obtener"} :
           /\ Cambia(h, o2, s) /\ EnMano(h, s, o2)
           /\ o2.bloques = Append(op[h].bloques, op[h].bloque) /\ o2.libera = op[h].libera
           /\ o2.tabla = op[h].tabla /\ o2.clase = op[h].clase /\ o2.nro = op[h].nro
<1> DEFINE o == op[h]
           o2 == [o EXCEPT !.bloques = Append(o.bloques, o.bloque), !.pide = o.pide - 1,
                           !.bloque = -1, !.byte = {}]
           s == IF o.pide = 1 THEN "archivo" ELSE "obtener"
<1>1. Cambia(h, o2, s) /\ pc[h] = "marcar"
  BY DEF Marcar, Ir, Cambia
<1>2. o \in TipoDeObra /\ EnMano(h, "marcar", o)
  BY <1>1 DEF Tipos, EnManos
<1> HIDE DEF o
<1>3. /\ o.bloques \in Seq(Bits \cup {-1}) /\ o.bloque \in Bits \cup {-1} /\ o.pide \in 1..MaxTam
      /\ Len(o.bloques) + o.pide <= MaxTam /\ Len(o.bloques) \in Nat
      /\ h # Cliente => o.bloques \in Seq(Bits) /\ o.bloque \in Bits
      /\ o.tabla \in Tablas
  BY <1>2, LenProperties DEF EnMano, TipoDeObra, Haciendo
<1>4. /\ Append(o.bloques, o.bloque) \in Seq(Bits \cup {-1})
      /\ Len(Append(o.bloques, o.bloque)) = Len(o.bloques) + 1
  BY <1>3, RangoAgregar
<1>5. h # Cliente => Append(o.bloques, o.bloque) \in Seq(Bits)
  BY <1>3, RangoAgregar
<1>6. o.pide - 1 \in 0..MaxTam
  BY <1>3
<1>7. /\ o2 \in TipoDeObra /\ o2.libera = o.libera /\ o2.pide = o.pide - 1
      /\ o2.bloques = Append(o.bloques, o.bloque)
      /\ o2.tabla = o.tabla /\ o2.clase = o.clase /\ o2.nro = o.nro
  BY <1>2, <1>4, <1>6 DEF TipoDeObra
<1> HIDE DEF o2
<1>8. s \in {"archivo", "obtener"} /\ (s = "obtener" => o2.pide >= 1)
  BY <1>3, <1>7
<1>9. Len(o2.bloques) + o2.pide <= MaxTam
  BY <1>3, <1>4, <1>7
<1> HIDE DEF s
<1>10. EnMano(h, s, o2)
  BY <1>2, <1>3, <1>5, <1>7, <1>8, <1>9 DEF EnMano, Haciendo, Liberando
<1>11. QED
  BY <1>1, <1>7, <1>8, <1>10 DEF o

LEMMA HacerArchivoDeja ==
  ASSUME Tipos, EnManos, NEW h \in Hilos, HacerArchivo(h)
  PROVE  \E o2 \in TipoDeObra, s \in {"libre", "particion"} :
           /\ Cambia(h, o2, s) /\ EnMano(h, s, o2)
           /\ o2.bloques = << >> /\ o2.libera = << >>
           /\ h = Dump => s = "libre"
           /\ h # Dump => s = "particion" /\ o2.tabla = op[h].tabla /\ o2.nro = op[h].nro + 1
<1> DEFINE o2 == IF h = Dump THEN Nada
                 ELSE [Nada EXCEPT !.tabla = op[h].tabla, !.nro = op[h].nro + 1]
           s == IF h = Dump THEN "libre" ELSE "particion"
<1>1. Cambia(h, o2, s) /\ pc[h] = "archivo"
  BY DEF HacerArchivo, Ir, Cambia
<1>2. op[h] \in TipoDeObra /\ EnMano(h, "archivo", op[h])
  BY <1>1 DEF Tipos, EnManos
<1>3. op[h].nro + 1 \in Nat /\ op[h].tabla \in Tablas
  BY <1>2 DEF TipoDeObra, EnMano
<1>4. /\ o2 \in TipoDeObra /\ o2.bloques = << >> /\ o2.libera = << >> /\ o2.clase = "bin"
      /\ h # Dump => o2.tabla = op[h].tabla /\ o2.nro = op[h].nro + 1
  BY <1>3, NadaEs DEF TipoDeObra
<1> HIDE DEF o2
<1>5. << >> \in Seq(Bits)
  BY EmptySeq
<1>6. EnMano(h, s, o2)
  <2>1. CASE h = Dump
    BY <1>4, <1>5, <2>1, LosHilos DEF EnMano, Haciendo, Liberando
  <2>2. CASE h # Dump
    BY <1>3, <1>4, <1>5, <2>2 DEF EnMano, Haciendo, Liberando
  <2>3. QED
    BY <2>1, <2>2
<1>7. QED
  BY <1>1, <1>4, <1>6

\* The compaction of t, at step s, with nothing at hand but a sequence of blocks to free.
LEMMA ConNada ==
  ASSUME NEW h \in Hilos \ {Dump, Cliente}, NEW o2 \in TipoDeObra,
         o2.tabla \in Tablas, o2.bloques = << >>, o2.clase = "bin"
  PROVE  /\ EnMano(h, "liberar", o2)
         /\ o2.libera = << >> => EnMano(h, "particion", o2) /\ EnMano(h, "libre", o2)
<1>1. << >> \in Seq(Bits)
  BY EmptySeq
<1>2. QED
  BY <1>1 DEF EnMano, Haciendo, Liberando

LEMMA RenombrarDeja ==
  ASSUME Tipos, EnManos, NEW t \in Tablas, Renombrar(t)
  PROVE  Cambia(t, op[t], "tomar") /\ EnMano(t, "tomar", op[t])
<1>1. t \in Hilos \ {Dump, Cliente}
  BY LosHilos
<1>2. Cambia(t, op[t], "tomar") /\ pc[t] = "libre"
  BY <1>1 DEF Renombrar, Ir, Cambia, Tipos
<1>3. EnMano(t, "libre", op[t])
  BY <1>1, <1>2 DEF EnManos
<1>4. EnMano(t, "tomar", op[t])
  BY <1>1, <1>3 DEF EnMano, Haciendo, Liberando
<1>5. QED
  BY <1>2, <1>4

LEMMA TomarDeja ==
  ASSUME Tipos, EnManos, NEW t \in Tablas, Tomar(t)
  PROVE  \E o2 \in TipoDeObra :
           /\ Cambia(t, o2, "liberar") /\ EnMano(t, "liberar", o2) /\ MismosBloques(op[t], o2)
           /\ o2.tabla = t
<1> DEFINE o2 == [Nada EXCEPT !.tabla = t]
<1>1. t \in Hilos \ {Dump, Cliente}
  BY LosHilos
<1>2. Cambia(t, o2, "liberar") /\ pc[t] = "tomar"
  BY DEF Tomar, Ir, Cambia
<1>3. /\ o2 \in TipoDeObra /\ o2.bloques = << >> /\ o2.libera = << >> /\ o2.tabla = t
      /\ o2.clase = "bin"
  BY NadaEs DEF TipoDeObra
<1> HIDE DEF o2
<1>4. EnMano(t, "liberar", o2)
  BY <1>1, <1>3, ConNada
<1>5. MismosBloques(op[t], o2)
  BY <1>1, <1>2, <1>3 DEF EnManos, EnMano, MismosBloques
<1>6. QED
  BY <1>2, <1>3, <1>4, <1>5

LEMMA LiberarDeja ==
  ASSUME Tipos, EnManos, NEW t \in Tablas, Liberar(t)
  PROVE  LET quedan == IF De(t, "tmpc") # {} THEN De(t, "tmpc") ELSE De(t, "bin") IN
         \/ /\ quedan = {} /\ archivos' = archivos
            /\ Cambia(t, op[t], "particion") /\ EnMano(t, "particion", op[t])
         \/ \E f \in quedan, o2 \in TipoDeObra :
              /\ archivos' = archivos \ {f}
              /\ Cambia(t, o2, "liberar") /\ EnMano(t, "liberar", o2)
              /\ o2.bloques = << >> /\ o2.libera = f.bloques /\ o2.tabla = op[t].tabla
              /\ op[t].bloques = << >> /\ op[t].libera = << >>
<1> DEFINE quedan == IF De(t, "tmpc") # {} THEN De(t, "tmpc") ELSE De(t, "bin")
<1>1. t \in Hilos \ {Dump, Cliente}
  BY LosHilos
<1>2. /\ pc[t] = "liberar" /\ op[t].libera = << >> /\ op[t] \in TipoDeObra
      /\ op[t].bloques = << >> /\ op[t].tabla \in Tablas /\ op[t].clase = "bin"
      /\ pc \in [Hilos -> Pasos] /\ op \in [Hilos -> TipoDeObra]
  BY <1>1 DEF Liberar, Tipos, EnManos, EnMano, Liberando
<1>3. CASE quedan = {}
  <2>1. archivos' = archivos /\ Cambia(t, op[t], "particion")
    BY <1>1, <1>2, <1>3 DEF Liberar, Ir, Cambia
  <2>2. EnMano(t, "particion", op[t])
    BY <1>1, <1>2, ConNada
  <2>3. QED
    BY <1>3, <2>1, <2>2
<1>4. CASE quedan # {}
  <2>1. PICK f \in quedan : /\ archivos' = archivos \ {f}
                            /\ op' = [op EXCEPT ![t].libera = f.bloques] /\ pc' = pc
    BY <1>4 DEF Liberar
  <2>2. f \in archivos
    BY <2>1 DEF De
  <2>3. f.bloques \in Seq(Bits \cup {-1})
    BY <2>2 DEF Tipos, Archivo
  <2> DEFINE o2 == [op[t] EXCEPT !.libera = f.bloques]
  <2>4. /\ o2 \in TipoDeObra /\ o2.bloques = << >> /\ o2.libera = f.bloques
        /\ o2.tabla = op[t].tabla /\ o2.clase = "bin"
    BY <1>2, <2>3 DEF TipoDeObra
  <2>5. op' = [op EXCEPT ![t] = o2]
    BY <2>1
  <2> HIDE DEF o2
  <2>6. Cambia(t, o2, "liberar")
    BY <1>1, <1>2, <2>1, <2>5 DEF Cambia
  <2>7. EnMano(t, "liberar", o2)
    BY <1>1, <1>2, <2>4, ConNada
  <2>8. QED
    BY <1>2, <2>1, <2>4, <2>6, <2>7
<1>5. QED
  BY <1>3, <1>4

LEMMA LiberarUnoDeja ==
  ASSUME Tipos, EnManos, NEW t \in Tablas, LiberarUno(t)
  PROVE  \E o2 \in TipoDeObra :
           /\ Cambia(t, o2, "leerLibre") /\ EnMano(t, "leerLibre", o2) /\ MismosBloques(op[t], o2)
           /\ o2.tabla = op[t].tabla
<1> DEFINE o2 == [op[t] EXCEPT !.bloque = Head(op[t].libera)]
<1>1. t \in Hilos \ {Dump, Cliente}
  BY LosHilos
<1>2. Cambia(t, o2, "leerLibre") /\ pc[t] = "liberar" /\ op[t].libera # << >>
  BY DEF LiberarUno, Ir, Cambia
<1>3. op[t] \in TipoDeObra /\ EnMano(t, "liberar", op[t])
  BY <1>1, <1>2 DEF Tipos, EnManos
<1>4. Head(op[t].libera) \in Bits \cup {-1}
  BY <1>2, <1>3, HeadTailProperties DEF TipoDeObra
<1>5. /\ o2 \in TipoDeObra /\ MismosBloques(op[t], o2) /\ o2.tabla = op[t].tabla
      /\ o2.clase = op[t].clase
      /\ o2.bloque = Head(op[t].libera)
  BY <1>3, <1>4 DEF TipoDeObra, MismosBloques
<1> HIDE DEF o2
<1>6. EnMano(t, "leerLibre", o2)
  BY <1>1, <1>2, <1>3, <1>5 DEF EnMano, MismosBloques, Haciendo, Liberando
<1>7. QED
  BY <1>2, <1>5, <1>6

LEMMA LimpiarDeja ==
  ASSUME Tipos, EnManos, NEW t \in Tablas, Limpiar(t)
  PROVE  /\ op[t].libera # << >> /\ op[t].bloque = Head(op[t].libera) /\ op[t].bloques = << >>
         /\ \E o2 \in TipoDeObra :
              /\ Cambia(t, o2, "liberar") /\ EnMano(t, "liberar", o2)
              /\ o2.bloques = << >> /\ o2.libera = Tail(op[t].libera) /\ o2.tabla = op[t].tabla
<1> DEFINE o2 == [op[t] EXCEPT !.libera = Tail(op[t].libera), !.bloque = -1, !.byte = {}]
<1>1. t \in Hilos \ {Dump, Cliente}
  BY LosHilos
<1>2. Cambia(t, o2, "liberar") /\ pc[t] = "limpiar"
  <2>1. op' = [op EXCEPT ![t] = o2]
    BY Zenon DEF Limpiar
  <2> HIDE DEF o2
  <2>2. QED
    BY <2>1 DEF Limpiar, Ir, Cambia
<1>3. op[t] \in TipoDeObra /\ EnMano(t, "limpiar", op[t])
  BY <1>1, <1>2 DEF Tipos, EnManos
<1>4. /\ op[t].libera # << >> /\ op[t].bloque = Head(op[t].libera) /\ op[t].bloques = << >>
      /\ op[t].tabla \in Tablas /\ op[t].clase = "bin"
  BY <1>1, <1>3 DEF EnMano, Liberando
<1>5. Tail(op[t].libera) \in Seq(Bits \cup {-1})
  BY <1>3, <1>4, HeadTailProperties DEF TipoDeObra
<1>6. /\ o2 \in TipoDeObra /\ o2.bloques = << >> /\ o2.libera = Tail(op[t].libera)
      /\ o2.tabla = op[t].tabla /\ o2.clase = "bin"
  BY <1>3, <1>4, <1>5 DEF TipoDeObra
<1> HIDE DEF o2
<1>7. EnMano(t, "liberar", o2)
  BY <1>1, <1>4, <1>6, ConNada
<1>8. QED
  BY <1>2, <1>4, <1>6, <1>7

LEMMA FinDeja ==
  ASSUME Tipos, EnManos, NEW t \in Tablas, Fin(t)
  PROVE  Cambia(t, Nada, "libre") /\ EnMano(t, "libre", Nada) /\ MismosBloques(op[t], Nada)
<1>1. t \in Hilos \ {Dump, Cliente}
  BY LosHilos
<1>2. Cambia(t, Nada, "libre") /\ pc[t] = "particion"
  BY DEF Fin, Ir, Cambia
<1>3. MismosBloques(op[t], Nada)
  BY <1>1, <1>2, NadaEs DEF EnManos, EnMano, MismosBloques
<1>4. QED
  BY <1>1, <1>2, <1>3, NadaEnMano

LEMMA CreateDeja ==
  ASSUME Tipos, EnManos, Create
  PROVE  \E t \in Tablas \ tablas, o2 \in TipoDeObra :
           /\ tablas' = tablas \cup {t}
           /\ Cambia(Cliente, o2, "particion") /\ EnMano(Cliente, "particion", o2)
           /\ MismosBloques(op[Cliente], o2) /\ o2.tabla = t /\ o2.nro = 0
<1>1. PICK t \in Tablas \ tablas : /\ tablas' = tablas \cup {t}
                                  /\ op' = [op EXCEPT ![Cliente] = [Nada EXCEPT !.tabla = t]]
  BY DEF Create
<1> DEFINE o2 == [Nada EXCEPT !.tabla = t]
<1>2. Cambia(Cliente, o2, "particion") /\ pc[Cliente] = "libre"
  BY <1>1 DEF Create, Ir, Cambia
<1>3. /\ o2 \in TipoDeObra /\ o2.bloques = << >> /\ o2.libera = << >> /\ o2.tabla = t /\ o2.nro = 0
      /\ o2.clase = "bin"
  BY NadaEs DEF TipoDeObra
<1> HIDE DEF o2
<1>4. EnMano(Cliente, "particion", o2)
  BY <1>3, LosHilos DEF EnMano, Haciendo, Liberando
<1>5. MismosBloques(op[Cliente], o2)
  BY <1>2, <1>3, LosHilos DEF EnManos, EnMano, MismosBloques
<1>6. QED
  BY <1>1, <1>2, <1>3, <1>4, <1>5

LEMMA CreateParticionDeja ==
  ASSUME Tipos, EnManos, CreateParticion
  PROVE  \/ \E o2 \in TipoDeObra :
              /\ Cambia(Cliente, o2, "obtener") /\ EnMano(Cliente, "obtener", o2)
              /\ MismosBloques(op[Cliente], o2) /\ o2.tabla = op[Cliente].tabla
              /\ o2.clase = op[Cliente].clase /\ o2.nro = op[Cliente].nro
         \/ /\ Cambia(Cliente, Nada, "libre") /\ EnMano(Cliente, "libre", Nada)
            /\ MismosBloques(op[Cliente], Nada)
<1> DEFINE o == op[Cliente]
           o2 == [o EXCEPT !.pide = 1]
<1>1. /\ Cliente \in Hilos \ {Dump} /\ pc[Cliente] = "particion" /\ o \in TipoDeObra
      /\ EnMano(Cliente, "particion", o)
  BY LosHilos DEF CreateParticion, Tipos, EnManos
<1>2. o.bloques = << >> /\ o.libera = << >> /\ o.tabla \in Tablas
  BY <1>1 DEF EnMano
<1>3. CASE o.nro < Particiones
  <2>1. Cambia(Cliente, o2, "obtener")
    BY <1>3 DEF CreateParticion, Ir, Cambia
  <2>2. 1 \in 0..MaxTam
    OBVIOUS
  <2>3. /\ o2 \in TipoDeObra /\ MismosBloques(o, o2) /\ o2.tabla = o.tabla /\ o2.nro = o.nro
        /\ o2.clase = o.clase /\ o2.pide = 1 /\ o2.bloques = << >> /\ o2.libera = << >>
    BY <1>1, <1>2, <2>2 DEF TipoDeObra, MismosBloques
  <2> HIDE DEF o2, o
  <2>4. Len(<< >>) = 0
    OBVIOUS
  <2>5. EnMano(Cliente, "obtener", o2)
    BY <1>1, <1>2, <2>3, <2>4 DEF EnMano, Haciendo, Liberando
  <2>6. QED
    BY <2>1, <2>3, <2>5 DEF o
<1>4. CASE ~(o.nro < Particiones)
  <2>1. Cambia(Cliente, Nada, "libre")
    BY <1>4 DEF CreateParticion, Ir, Cambia
  <2>2. QED
    BY <1>1, <1>2, <2>1, NadaEs, NadaEnMano DEF MismosBloques
<1>5. QED
  BY <1>3, <1>4

\* What does not change in most steps has its type still.
LEMMA TiposQuedan ==
  ASSUME Tipos,
         bitarray' \subseteq Bits, archivos' \subseteq Archivo, tablas' \subseteq Tablas,
         rwLock' \in [Tablas -> Hilos \cup {Nadie}], dropMx' \in [Tablas -> Tablas \cup {Nadie}],
         pc' \in [Hilos -> Pasos], op' \in [Hilos -> TipoDeObra],
         dumps' \in 0..MaxDumps, bajas' \in 0..MaxBajas,
         perdidos' \subseteq Bits, disputados' \subseteq Bits, DOMAIN escrito' = Bits
  PROVE  Tipos'
BY DEF Tipos

LEMMA RenombradosEs ==
  ASSUME Tipos, NEW t \in Tablas,
         archivos' = (archivos \ De(t, "tmp")) \cup {[f EXCEPT !.clase = "tmpc"] : f \in De(t, "tmp")}
  PROVE  /\ \A g \in archivos' : \E f \in archivos :
              /\ g.tabla = f.tabla /\ g.nro = f.nro /\ g.bloques = f.bloques
              /\ (g.clase = "bin" <=> f.clase = "bin") /\ g \in Archivo
              /\ g = IF f \in De(t, "tmp") THEN [f EXCEPT !.clase = "tmpc"] ELSE f
         /\ \A f \in archivos : \E g \in archivos' : g.bloques = f.bloques
<1>1. ASSUME NEW f \in De(t, "tmp")
      PROVE  LET g == [f EXCEPT !.clase = "tmpc"] IN
             /\ g.tabla = f.tabla /\ g.nro = f.nro /\ g.bloques = f.bloques
             /\ g.clase = "tmpc" /\ f.clase = "tmp" /\ g \in Archivo /\ f \in archivos
  <2>1. f \in Archivo /\ f.clase = "tmp" /\ f \in archivos
    BY DEF De, Tipos
  <2>2. QED
    BY <2>1 DEF Archivo, Clases
<1>2. ASSUME NEW g \in archivos'
      PROVE  \E f \in archivos :
              /\ g.tabla = f.tabla /\ g.nro = f.nro /\ g.bloques = f.bloques
              /\ (g.clase = "bin" <=> f.clase = "bin") /\ g \in Archivo
              /\ g = IF f \in De(t, "tmp") THEN [f EXCEPT !.clase = "tmpc"] ELSE f
  <2>1. CASE g \in archivos \ De(t, "tmp")
    BY <2>1 DEF Tipos
  <2>2. CASE g \notin archivos \ De(t, "tmp")
    <3>1. PICK f \in De(t, "tmp") : g = [f EXCEPT !.clase = "tmpc"]
      BY <1>2, <2>2
    <3>2. /\ g.tabla = f.tabla /\ g.nro = f.nro /\ g.bloques = f.bloques
          /\ g.clase = "tmpc" /\ f.clase = "tmp" /\ g \in Archivo /\ f \in archivos
      BY <1>1, <3>1
    <3>3. QED
      BY <3>1, <3>2
  <2>3. QED
    BY <2>1, <2>2
<1>3. ASSUME NEW f \in archivos PROVE \E g \in archivos' : g.bloques = f.bloques
  <2>1. CASE f \in De(t, "tmp")
    <3>1. [f EXCEPT !.clase = "tmpc"] \in archivos'
      BY <2>1
    <3>2. QED
      BY <1>1, <2>1, <3>1
  <2>2. CASE f \notin De(t, "tmp")
    BY <2>2
  <2>3. QED
    BY <2>1, <2>2
<1>4. QED
  BY <1>2, <1>3

LEMMA BloqueTipos ==
  ASSUME Tipos, EnManos, NEW h \in Hilos, Bloque(h)
  PROVE  Tipos' /\ EnManos'
<1>1. CASE Obtener(h) /\ (PrimerLibre # -1 \/ h = Cliente)
  <2>1. PICK o2 \in TipoDeObra : Cambia(h, o2, "leer") /\ EnMano(h, "leer", o2)
    BY <1>1, ObtenerDeja
  <2>2. pc' \in [Hilos -> Pasos] /\ op' \in [Hilos -> TipoDeObra] /\ EnManos'
    BY <2>1, CambiarObra DEF Pasos
  <2>3. UNCHANGED <<bitarray, archivos, escrito, tablas, rwLock, dropMx, dumps, bajas, perdidos, disputados>>
    BY <1>1 DEF Obtener, cuentas
  <2>4. QED
    BY <2>2, <2>3, TiposQuedan DEF Tipos
<1>2. CASE Obtener(h) /\ ~(PrimerLibre # -1 \/ h = Cliente)
  <2>1. PICK o2 \in TipoDeObra, s \in {"libre", "particion"} : Cambia(h, o2, s) /\ EnMano(h, s, o2)
    BY <1>2, SinBloqueDeja
  <2>2. pc' \in [Hilos -> Pasos] /\ op' \in [Hilos -> TipoDeObra] /\ EnManos'
    BY <2>1, CambiarObra DEF Pasos
  <2>3. UNCHANGED <<bitarray, archivos, escrito, tablas, rwLock, dropMx, dumps, bajas, disputados>>
    BY <1>2 DEF Obtener, cuentas
  <2>4. perdidos' \subseteq Bits
    <3>1. op[h].bloques \in Seq(Bits)
      BY <1>2 DEF EnManos, EnMano
    <3>2. Range(op[h].bloques) \subseteq Bits
      BY <3>1, RangoEs
    <3>3. QED
      BY <1>2, <3>2 DEF Obtener, Tipos
  <2>5. QED
    BY <2>2, <2>3, <2>4, TiposQuedan DEF Tipos
<1>3. CASE Leer(h)
  <2>1. PICK o2 \in TipoDeObra, s \in {"marcar", "limpiar"} : Cambia(h, o2, s) /\ EnMano(h, s, o2)
    BY <1>3, LeerDeja
  <2>2. pc' \in [Hilos -> Pasos] /\ op' \in [Hilos -> TipoDeObra] /\ EnManos'
    BY <2>1, CambiarObra DEF Pasos
  <2>3. UNCHANGED <<bitarray, archivos, escrito, tablas, rwLock, dropMx, dumps, bajas, perdidos, disputados>>
    BY <1>3 DEF Leer, cuentas
  <2>4. QED
    BY <2>2, <2>3, TiposQuedan DEF Tipos
<1>4. CASE Marcar(h)
  <2>1. PICK o2 \in TipoDeObra, s \in {"archivo", "obtener"} : Cambia(h, o2, s) /\ EnMano(h, s, o2)
    BY <1>4, MarcarDeja
  <2>2. pc' \in [Hilos -> Pasos] /\ op' \in [Hilos -> TipoDeObra] /\ EnManos'
    BY <2>1, CambiarObra DEF Pasos
  <2>3. UNCHANGED <<archivos, escrito, tablas, rwLock, dropMx, dumps, bajas, perdidos>>
    BY <1>4 DEF Marcar, cuentas
  <2>4. bitarray' \subseteq Bits /\ disputados' \subseteq Bits
    <3>1. op[h].byte \subseteq Bits /\ bitarray \subseteq Bits /\ disputados \subseteq Bits
      BY DEF Tipos, TipoDeObra
    <3>2. QED
      BY <1>4, <3>1 DEF Marcar, Cambiados, ConByte
  <2>5. QED
    BY <2>2, <2>3, <2>4, TiposQuedan DEF Tipos
<1>5. CASE HacerArchivo(h)
  <2> DEFINE o == op[h]
             f == [tabla |-> o.tabla, clase |-> o.clase, nro |-> o.nro, bloques |-> o.bloques]
  <2>1. PICK o2 \in TipoDeObra, s \in {"libre", "particion"} : Cambia(h, o2, s) /\ EnMano(h, s, o2)
    BY <1>5, HacerArchivoDeja
  <2>2. pc' \in [Hilos -> Pasos] /\ op' \in [Hilos -> TipoDeObra] /\ EnManos'
    BY <2>1, CambiarObra DEF Pasos
  <2>3. UNCHANGED <<bitarray, tablas, dropMx, dumps, bajas, perdidos, disputados>>
    BY <1>5 DEF HacerArchivo, cuentas
  <2>4. o \in TipoDeObra /\ o.tabla \in Tablas
    BY <1>5 DEF HacerArchivo, Tipos, EnManos, EnMano
  <2>5. archivos' \subseteq Archivo
    <3>1. f \in Archivo
      BY <2>4 DEF TipoDeObra, Archivo
    <3>2. archivos' = archivos \cup {f}
      BY <1>5 DEF HacerArchivo
    <3>3. QED
      BY <3>1, <3>2 DEF Tipos
  <2>6. DOMAIN escrito' = Bits
    BY <1>5 DEF HacerArchivo
  <2>7. rwLock' \in [Tablas -> Hilos \cup {Nadie}]
    BY <1>5, <2>4 DEF HacerArchivo, Tipos
  <2>8. QED
    BY <2>2, <2>3, <2>5, <2>6, <2>7, TiposQuedan DEF Tipos
<1>6. QED
  BY <1>1, <1>2, <1>3, <1>4, <1>5 DEF Bloque

LEMMA CompactarTipos ==
  ASSUME Tipos, EnManos, NEW t \in Tablas,
         \/ Renombrar(t) \/ Tomar(t) \/ Liberar(t) \/ LiberarUno(t) \/ Limpiar(t)
         \/ GuardarRegistrosParticion(t) \/ Fin(t)
  PROVE  Tipos' /\ EnManos'
<1>0. t \in Hilos \ {Dump, Cliente} /\ op[t] \in TipoDeObra
  BY LosHilos DEF Tipos
<1>1. CASE Renombrar(t)
  <2>1. Cambia(t, op[t], "tomar") /\ EnMano(t, "tomar", op[t])
    BY <1>1, RenombrarDeja
  <2>2. pc' \in [Hilos -> Pasos] /\ op' \in [Hilos -> TipoDeObra] /\ EnManos'
    BY <1>0, <2>1, CambiarObra DEF Pasos
  <2>3. UNCHANGED <<bitarray, escrito, tablas, rwLock, dumps, bajas, perdidos, disputados>>
    BY <1>1 DEF Renombrar, cuentas
  <2>4. archivos' \subseteq Archivo
    BY <1>1, RenombradosEs DEF Renombrar
  <2>5. dropMx' \in [Tablas -> Tablas \cup {Nadie}]
    BY <1>1 DEF Renombrar, Tipos
  <2>6. QED
    BY <2>2, <2>3, <2>4, <2>5, TiposQuedan DEF Tipos
<1>2. CASE Tomar(t)
  <2>1. PICK o2 \in TipoDeObra : Cambia(t, o2, "liberar") /\ EnMano(t, "liberar", o2)
    BY <1>2, TomarDeja
  <2>2. pc' \in [Hilos -> Pasos] /\ op' \in [Hilos -> TipoDeObra] /\ EnManos'
    BY <1>0, <2>1, CambiarObra DEF Pasos
  <2>3. UNCHANGED <<bitarray, archivos, escrito, tablas, dropMx, dumps, bajas, perdidos, disputados>>
    BY <1>2 DEF Tomar, cuentas
  <2>4. rwLock' \in [Tablas -> Hilos \cup {Nadie}]
    BY <1>0, <1>2 DEF Tomar, Tipos
  <2>5. QED
    BY <2>2, <2>3, <2>4, TiposQuedan DEF Tipos
<1>3. CASE Liberar(t)
  <2>1. /\ archivos' \subseteq archivos
        /\ \E o2 \in TipoDeObra, s \in {"particion", "liberar"} : Cambia(t, o2, s) /\ EnMano(t, s, o2)
    BY <1>0, <1>3, LiberarDeja
  <2>2. pc' \in [Hilos -> Pasos] /\ op' \in [Hilos -> TipoDeObra] /\ EnManos'
    BY <1>0, <2>1, CambiarObra DEF Pasos
  <2>3. UNCHANGED <<bitarray, escrito, tablas, rwLock, dropMx, dumps, bajas, perdidos, disputados>>
    BY <1>3 DEF Liberar, cuentas
  <2>4. QED
    BY <2>1, <2>2, <2>3, TiposQuedan DEF Tipos
<1>4. CASE LiberarUno(t)
  <2>1. PICK o2 \in TipoDeObra : Cambia(t, o2, "leerLibre") /\ EnMano(t, "leerLibre", o2)
    BY <1>4, LiberarUnoDeja
  <2>2. pc' \in [Hilos -> Pasos] /\ op' \in [Hilos -> TipoDeObra] /\ EnManos'
    BY <1>0, <2>1, CambiarObra DEF Pasos
  <2>3. UNCHANGED <<bitarray, archivos, escrito, tablas, rwLock, dropMx, dumps, bajas, perdidos, disputados>>
    BY <1>4 DEF LiberarUno, cuentas
  <2>4. QED
    BY <2>2, <2>3, TiposQuedan DEF Tipos
<1>5. CASE Limpiar(t)
  <2>1. PICK o2 \in TipoDeObra : Cambia(t, o2, "liberar") /\ EnMano(t, "liberar", o2)
    BY <1>5, LimpiarDeja
  <2>2. pc' \in [Hilos -> Pasos] /\ op' \in [Hilos -> TipoDeObra] /\ EnManos'
    BY <1>0, <2>1, CambiarObra DEF Pasos
  <2>3. UNCHANGED <<archivos, escrito, tablas, rwLock, dropMx, dumps, bajas, perdidos>>
    BY <1>5 DEF Limpiar, cuentas
  <2>4. bitarray' \subseteq Bits /\ disputados' \subseteq Bits
    <3>1. op[t].byte \subseteq Bits /\ bitarray \subseteq Bits /\ disputados \subseteq Bits
      BY <1>0 DEF Tipos, TipoDeObra
    <3>2. QED
      BY <1>5, <3>1 DEF Limpiar, Cambiados, ConByte
  <2>5. QED
    BY <2>2, <2>3, <2>4, TiposQuedan DEF Tipos
<1>6. CASE GuardarRegistrosParticion(t)
  <2>1. PICK n \in 1..MaxTam : Pedir(t, t, "bin", op[t].nro, n)
    BY <1>6 DEF GuardarRegistrosParticion
  <2>2. op[t].nro \in Nat /\ "bin" \in Clases /\ pc[t] = "particion"
    BY <1>0, <1>6 DEF TipoDeObra, Clases, GuardarRegistrosParticion
  <2>3. PICK o2 \in TipoDeObra, s \in {"archivo", "obtener"} : Cambia(t, o2, s) /\ EnMano(t, s, o2)
    BY <1>0, <2>1, <2>2, PedirDeja
  <2>4. pc' \in [Hilos -> Pasos] /\ op' \in [Hilos -> TipoDeObra] /\ EnManos'
    BY <1>0, <2>3, CambiarObra DEF Pasos
  <2>5. UNCHANGED <<bitarray, archivos, escrito, tablas, rwLock, dropMx, dumps, bajas, perdidos, disputados>>
    BY <1>6 DEF GuardarRegistrosParticion, cuentas
  <2>6. QED
    BY <2>4, <2>5, TiposQuedan DEF Tipos
<1>7. CASE Fin(t)
  <2>1. Cambia(t, Nada, "libre") /\ EnMano(t, "libre", Nada)
    BY <1>7, FinDeja
  <2>2. pc' \in [Hilos -> Pasos] /\ op' \in [Hilos -> TipoDeObra] /\ EnManos'
    BY <1>0, <2>1, NadaEs, CambiarObra DEF Pasos
  <2>3. UNCHANGED <<bitarray, archivos, escrito, tablas, dumps, bajas, perdidos, disputados>>
    BY <1>7 DEF Fin, cuentas
  <2>4. rwLock' \in [Tablas -> Hilos \cup {Nadie}] /\ dropMx' \in [Tablas -> Tablas \cup {Nadie}]
    BY <1>7 DEF Fin, Tipos
  <2>5. QED
    BY <2>2, <2>3, <2>4, TiposQuedan DEF Tipos
<1>8. QED
  BY <1>1, <1>2, <1>3, <1>4, <1>5, <1>6, <1>7

LEMMA BloquesDeEs ==
  ASSUME NEW fs
  PROVE  \A b : b \in BloquesDe(fs) <=> b \in Bits /\ \E f \in fs : b \in Range(f.bloques)
<1> DEFINE U == UNION {Range(f.bloques) : f \in fs}
<1>1. \A b : b \in U <=> \E f \in fs : b \in Range(f.bloques)
  OBVIOUS
<1>2. BloquesDe(fs) = U \cap Bits
  BY Zenon DEF BloquesDe
<1> HIDE DEF U
<1>3. QED
  BY <1>1, <1>2

\* DROP takes the files of t, and their blocks are nobody's.
LEMMA BajaEs ==
  ASSUME Tipos, EliminarTablaCompleta
  PROVE  \E t \in tablas :
           /\ dropMx[t] = Nadie /\ rwLock[t] = Nadie /\ tablas' = tablas \ {t}
           /\ archivos' = {f \in archivos : f.tabla # t}
           /\ \A b : b \in perdidos' <=>
                b \in perdidos \/ (b \in Bits /\ \E f \in archivos : f.tabla = t /\ b \in Range(f.bloques))
<1> DEFINE suyos(t) == {f \in archivos : f.tabla = t}
<1>1. PICK t \in tablas : /\ dropMx[t] = Nadie /\ rwLock[t] = Nadie /\ tablas' = tablas \ {t}
                          /\ archivos' = archivos \ suyos(t)
                          /\ perdidos' = perdidos \cup BloquesDe(suyos(t))
  BY Zenon DEF EliminarTablaCompleta
<1>2. archivos' = {f \in archivos : f.tabla # t}
  BY <1>1
<1>3. \A b : b \in BloquesDe(suyos(t)) <=> b \in Bits /\ \E f \in suyos(t) : b \in Range(f.bloques)
  BY BloquesDeEs
<1>4. \A b : b \in perdidos' <=>
        b \in perdidos \/ (b \in Bits /\ \E f \in archivos : f.tabla = t /\ b \in Range(f.bloques))
  BY <1>1, <1>3
<1>5. QED
  BY <1>1, <1>2, <1>4

LEMMA PasoTipos ==
  ASSUME Tipos, EnManos, Next
  PROVE  Tipos' /\ EnManos'
<1>1. CASE CrearArchivoTemporal
  <2>1. PICK t \in tablas, n \in 1..MaxTam : /\ rwLock' = [rwLock EXCEPT ![t] = Dump]
                                            /\ Pedir(Dump, t, "tmp", dumps, n)
    BY <1>1 DEF CrearArchivoTemporal
  <2>2. t \in Tablas /\ dumps \in Nat /\ "tmp" \in Clases /\ pc[Dump] = "libre"
    BY <1>1, <2>1 DEF CrearArchivoTemporal, Tipos, Clases
  <2>3. PICK o2 \in TipoDeObra, s \in {"archivo", "obtener"} :
          Cambia(Dump, o2, s) /\ EnMano(Dump, s, o2)
    BY <2>1, <2>2, LosHilos, PedirDeja
  <2>4. pc' \in [Hilos -> Pasos] /\ op' \in [Hilos -> TipoDeObra] /\ EnManos'
    BY <2>3, LosHilos, CambiarObra DEF Pasos
  <2>5. /\ UNCHANGED <<bitarray, archivos, escrito, tablas, dropMx, bajas, perdidos, disputados>>
        /\ dumps' \in 0..MaxDumps
    BY <1>1 DEF CrearArchivoTemporal, Tipos
  <2>6. rwLock' \in [Tablas -> Hilos \cup {Nadie}]
    BY <2>1, <2>2, LosHilos DEF Tipos
  <2>7. QED
    BY <2>4, <2>5, <2>6, TiposQuedan DEF Tipos
<1>2. CASE EliminarTablaCompleta
  <2>1. PICK t \in tablas :
          /\ tablas' = tablas \ {t} /\ archivos' = {f \in archivos : f.tabla # t}
          /\ \A b \in perdidos' : b \in perdidos \/ b \in Bits
    BY <1>2, BajaEs
  <2>2. archivos' \subseteq Archivo /\ perdidos' \subseteq Bits /\ tablas' \subseteq Tablas
    BY <2>1 DEF Tipos
  <2>3. bajas' \in 0..MaxBajas
    BY <1>2 DEF EliminarTablaCompleta, Tipos
  <2>4. UNCHANGED <<bitarray, escrito, rwLock, dropMx, pc, op, dumps, disputados>>
    BY <1>2 DEF EliminarTablaCompleta
  <2>5. QED
    BY <2>2, <2>3, <2>4, TiposQuedan DEF Tipos, EnManos
<1>3. CASE Create
  <2>1. PICK t \in Tablas \ tablas, o2 \in TipoDeObra :
          /\ tablas' = tablas \cup {t}
          /\ Cambia(Cliente, o2, "particion") /\ EnMano(Cliente, "particion", o2)
    BY <1>3, CreateDeja
  <2>2. pc' \in [Hilos -> Pasos] /\ op' \in [Hilos -> TipoDeObra] /\ EnManos'
    BY <2>1, LosHilos, CambiarObra DEF Pasos
  <2>3. UNCHANGED <<bitarray, archivos, escrito, rwLock, dropMx, dumps, bajas, perdidos, disputados>>
    BY <1>3 DEF Create, cuentas
  <2>4. tablas' \subseteq Tablas
    BY <2>1 DEF Tipos
  <2>5. QED
    BY <2>2, <2>3, <2>4, TiposQuedan DEF Tipos
<1>4. CASE CreateParticion
  <2>1. \E o2 \in TipoDeObra, s \in {"obtener", "libre"} : Cambia(Cliente, o2, s) /\ EnMano(Cliente, s, o2)
    BY <1>4, NadaEs, CreateParticionDeja
  <2>2. pc' \in [Hilos -> Pasos] /\ op' \in [Hilos -> TipoDeObra] /\ EnManos'
    BY <2>1, LosHilos, CambiarObra DEF Pasos
  <2>3. UNCHANGED <<bitarray, archivos, escrito, tablas, rwLock, dropMx, dumps, bajas, perdidos, disputados>>
    BY <1>4 DEF CreateParticion, cuentas
  <2>4. QED
    BY <2>2, <2>3, TiposQuedan DEF Tipos
<1>5. QED
  BY <1>1, <1>2, <1>3, <1>4, LosHilos, BloqueTipos, CompactarTipos DEF Next, Compactar

-----------------------------------------------------------------------------
(* Who has a table.                                                        *)

\* A step of a thread that goes on with the same table, under the same locks.
LEMMA SigueConLlave ==
  ASSUME Tipos, EnManos, ConLlave, NEW h \in Hilos, NEW o2 \in TipoDeObra, NEW s \in Pasos,
         EnMano(h, s, o2), Cambia(h, o2, s),
         pc[h] \notin {"libre", "tomar"}, s \notin {"libre", "tomar"}, o2.tabla = op[h].tabla,
         archivos' \subseteq archivos, UNCHANGED <<tablas, rwLock, dropMx>>
  PROVE  ConLlave'
<1>1. /\ pc'[h] = s /\ op'[h] = o2
      /\ \A k \in Hilos \ {h} : pc'[k] = pc[k] /\ op'[k] = op[k]
  BY CambiarObra
<1>2. \A k \in Hilos : /\ pc'[k] = "libre" <=> pc[k] = "libre"
                       /\ pc'[k] = "tomar" <=> pc[k] = "tomar"
                       /\ op'[k].tabla = op[k].tabla
  BY <1>1
<1>3. op[Cliente].tabla \in Tablas \/ pc[Cliente] = "libre"
  BY LosHilos DEF ConLlave, Tipos
<1>4. QED
  BY <1>2, <1>3, LosHilos DEF ConLlave

LEMMA HacerArchivoLlave ==
  ASSUME Tipos, EnManos, ConLlave, NEW h \in Hilos, HacerArchivo(h)
  PROVE  ConLlave'
<1> DEFINE o == op[h]
           f == [tabla |-> o.tabla, clase |-> o.clase, nro |-> o.nro, bloques |-> o.bloques]
<1>1. PICK o2 \in TipoDeObra, s \in {"libre", "particion"} :
        /\ Cambia(h, o2, s) /\ EnMano(h, s, o2)
        /\ h = Dump => s = "libre"
        /\ h # Dump => s = "particion" /\ o2.tabla = op[h].tabla
  BY HacerArchivoDeja
<1>2. /\ pc'[h] = s /\ op'[h] = o2
      /\ \A k \in Hilos \ {h} : pc'[k] = pc[k] /\ op'[k] = op[k]
  BY <1>1, CambiarObra DEF Pasos
<1>3. pc[h] = "archivo" /\ archivos' = archivos \cup {f} /\ UNCHANGED <<tablas, dropMx>>
  BY DEF HacerArchivo
<1>4. f.tabla = o.tabla /\ f.bloques = o.bloques
  OBVIOUS
<1>5. o.tabla \in tablas /\ Len(o.bloques) <= MaxTam
  <2>1. o.tabla \in tablas
    BY <1>3, LosHilos DEF ConLlave, Hilos
  <2>2. o \in TipoDeObra /\ EnMano(h, "archivo", o)
    BY <1>3 DEF Tipos, EnManos
  <2>3. QED
    BY <2>1, <2>2, LenProperties DEF TipoDeObra, EnMano, Haciendo
<1> HIDE DEF o, f
<1>6. \A g \in archivos' : g.tabla \in tablas' /\ Len(g.bloques) <= MaxTam
  BY <1>3, <1>4, <1>5 DEF ConLlave
<1>7. CASE h = Dump
  <2>1. rwLock' = [rwLock EXCEPT ![o.tabla] = Nadie] /\ rwLock[o.tabla] = Dump
    BY <1>3, <1>7 DEF HacerArchivo, ConLlave, o
  <2>2. \A t \in Tablas : rwLock[t] = t => t # o.tabla /\ rwLock'[t] = t
    BY <2>1, LosHilos DEF Tipos
  <2>3. QED
    BY <1>1, <1>2, <1>3, <1>6, <1>7, <2>2, LosHilos DEF ConLlave, Tipos
<1>8. CASE h # Dump
  <2>1. rwLock' = rwLock
    BY <1>8 DEF HacerArchivo
  <2>2. \A k \in Hilos : /\ pc'[k] = "libre" <=> pc[k] = "libre"
                         /\ pc'[k] = "tomar" <=> pc[k] = "tomar"
                         /\ op'[k].tabla = op[k].tabla
    BY <1>1, <1>2, <1>3, <1>8 DEF o
  <2>3. op[Cliente].tabla \in Tablas \/ pc[Cliente] = "libre"
    BY LosHilos DEF ConLlave, Tipos
  <2>4. QED
    BY <1>3, <1>6, <2>1, <2>2, <2>3, LosHilos DEF ConLlave
<1>9. QED
  BY <1>7, <1>8

LEMMA BloqueLlave ==
  ASSUME Tipos, EnManos, ConLlave, NEW h \in Hilos, Bloque(h)
  PROVE  ConLlave'
<1>1. CASE Obtener(h) /\ (PrimerLibre # -1 \/ h = Cliente)
  <2>1. PICK o2 \in TipoDeObra : Cambia(h, o2, "leer") /\ EnMano(h, "leer", o2) /\ o2.tabla = op[h].tabla
    BY <1>1, ObtenerDeja
  <2>2. pc[h] = "obtener" /\ archivos' = archivos /\ UNCHANGED <<tablas, rwLock, dropMx>>
    BY <1>1 DEF Obtener
  <2>3. QED
    BY <2>1, <2>2, SigueConLlave DEF Pasos
<1>2. CASE Obtener(h) /\ ~(PrimerLibre # -1 \/ h = Cliente)
  <2>1. PICK o2 \in TipoDeObra, s \in {"libre", "particion"} :
          /\ Cambia(h, o2, s) /\ EnMano(h, s, o2)
          /\ h = Dump => s = "libre"
          /\ h # Dump => s = "particion" /\ o2.tabla = op[h].tabla
    BY <1>2, SinBloqueDeja
  <2>2. pc[h] = "obtener" /\ archivos' = archivos /\ UNCHANGED <<tablas, rwLock, dropMx>>
    BY <1>2 DEF Obtener
  <2>3. CASE h = Dump
    <3>1. /\ pc'[h] = s /\ op'[h] = o2
          /\ \A k \in Hilos \ {h} : pc'[k] = pc[k] /\ op'[k] = op[k]
      BY <2>1, CambiarObra DEF Pasos
    <3>2. op[Cliente].tabla \in Tablas \/ pc[Cliente] = "libre"
      BY LosHilos DEF ConLlave, Tipos
    <3>3. QED
      BY <2>1, <2>2, <2>3, <3>1, <3>2, LosHilos DEF ConLlave
  <2>4. CASE h # Dump
    BY <2>1, <2>2, <2>4, SigueConLlave DEF Pasos
  <2>5. QED
    BY <2>3, <2>4
<1>3. CASE Leer(h)
  <2>1. PICK o2 \in TipoDeObra, s \in {"marcar", "limpiar"} :
          Cambia(h, o2, s) /\ EnMano(h, s, o2) /\ o2.tabla = op[h].tabla
    BY <1>3, LeerDeja
  <2>2. /\ pc[h] \in {"leer", "leerLibre"} /\ archivos' = archivos
        /\ UNCHANGED <<tablas, rwLock, dropMx>>
    BY <1>3 DEF Leer
  <2>3. QED
    BY <2>1, <2>2, SigueConLlave DEF Pasos
<1>4. CASE Marcar(h)
  <2>1. PICK o2 \in TipoDeObra, s \in {"archivo", "obtener"} :
          Cambia(h, o2, s) /\ EnMano(h, s, o2) /\ o2.tabla = op[h].tabla
    BY <1>4, MarcarDeja
  <2>2. pc[h] = "marcar" /\ archivos' = archivos /\ UNCHANGED <<tablas, rwLock, dropMx>>
    BY <1>4 DEF Marcar
  <2>3. QED
    BY <2>1, <2>2, SigueConLlave DEF Pasos
<1>5. CASE HacerArchivo(h)
  BY <1>5, HacerArchivoLlave
<1>6. QED
  BY <1>1, <1>2, <1>3, <1>4, <1>5 DEF Bloque

LEMMA CompactarLlave ==
  ASSUME Tipos, EnManos, ConLlave, NEW t \in Tablas,
         \/ Renombrar(t) \/ Tomar(t) \/ Liberar(t) \/ LiberarUno(t) \/ Limpiar(t)
         \/ GuardarRegistrosParticion(t) \/ Fin(t)
  PROVE  ConLlave'
<1>0. /\ t \in Hilos \ {Dump, Cliente} /\ op[t] \in TipoDeObra
      /\ op[Cliente].tabla \in Tablas \/ pc[Cliente] = "libre"
      /\ op[Dump].tabla \in Tablas \/ pc[Dump] = "libre"
  BY LosHilos DEF ConLlave, Tipos
<1>1. CASE Renombrar(t)
  <2>1. Cambia(t, op[t], "tomar") /\ EnMano(t, "tomar", op[t])
    BY <1>1, RenombrarDeja
  <2>2. pc'[t] = "tomar" /\ \A k \in Hilos \ {t} : pc'[k] = pc[k] /\ op'[k] = op[k]
    BY <1>0, <2>1, CambiarObra DEF Pasos
  <2>3. /\ t \in tablas /\ ~(pc[Cliente] # "libre" /\ op[Cliente].tabla = t)
        /\ dropMx' = [dropMx EXCEPT ![t] = t] /\ UNCHANGED <<tablas, rwLock>>
    BY <1>1 DEF Renombrar
  <2>4. \A g \in archivos' : g.tabla \in tablas' /\ Len(g.bloques) <= MaxTam
    <3>1. archivos' = (archivos \ De(t, "tmp")) \cup {[f EXCEPT !.clase = "tmpc"] : f \in De(t, "tmp")}
      BY <1>1 DEF Renombrar
    <3>2. \A g \in archivos' : \E f \in archivos : g.tabla = f.tabla /\ g.bloques = f.bloques
      BY <3>1, RenombradosEs, Zenon
    <3>3. QED
      BY <2>3, <3>2 DEF ConLlave
  <2>5. QED
    BY <1>0, <2>2, <2>3, <2>4, LosHilos DEF ConLlave, Tipos
<1>2. CASE Tomar(t)
  <2>1. PICK o2 \in TipoDeObra :
          Cambia(t, o2, "liberar") /\ EnMano(t, "liberar", o2) /\ o2.tabla = t
    BY <1>2, TomarDeja
  <2>2. /\ pc'[t] = "liberar" /\ op'[t] = o2
        /\ \A k \in Hilos \ {t} : pc'[k] = pc[k] /\ op'[k] = op[k]
    BY <1>0, <2>1, CambiarObra DEF Pasos
  <2>3. /\ pc[t] = "tomar" /\ rwLock[t] = Nadie /\ rwLock' = [rwLock EXCEPT ![t] = t]
        /\ UNCHANGED <<archivos, tablas, dropMx>>
    BY <1>2 DEF Tomar
  <2>4. pc[Dump] # "libre" => op[Dump].tabla # t
    BY <2>3, LosHilos DEF ConLlave
  <2>5. QED
    BY <1>0, <2>1, <2>2, <2>3, <2>4, LosHilos DEF ConLlave, Tipos
<1>3. CASE Liberar(t)
  <2>1. /\ archivos' \subseteq archivos
        /\ \E o2 \in TipoDeObra, s \in {"particion", "liberar"} :
             Cambia(t, o2, s) /\ EnMano(t, s, o2) /\ o2.tabla = op[t].tabla
    BY <1>0, <1>3, LiberarDeja
  <2>2. pc[t] = "liberar" /\ UNCHANGED <<tablas, rwLock, dropMx>>
    BY <1>3 DEF Liberar
  <2>3. QED
    BY <1>0, <2>1, <2>2, SigueConLlave DEF Pasos
<1>4. CASE LiberarUno(t)
  <2>1. PICK o2 \in TipoDeObra :
          Cambia(t, o2, "leerLibre") /\ EnMano(t, "leerLibre", o2) /\ o2.tabla = op[t].tabla
    BY <1>4, LiberarUnoDeja
  <2>2. pc[t] = "liberar" /\ archivos' = archivos /\ UNCHANGED <<tablas, rwLock, dropMx>>
    BY <1>4 DEF LiberarUno
  <2>3. QED
    BY <1>0, <2>1, <2>2, SigueConLlave DEF Pasos
<1>5. CASE Limpiar(t)
  <2>1. PICK o2 \in TipoDeObra :
          Cambia(t, o2, "liberar") /\ EnMano(t, "liberar", o2) /\ o2.tabla = op[t].tabla
    BY <1>5, LimpiarDeja
  <2>2. pc[t] = "limpiar" /\ archivos' = archivos /\ UNCHANGED <<tablas, rwLock, dropMx>>
    BY <1>5 DEF Limpiar
  <2>3. QED
    BY <1>0, <2>1, <2>2, SigueConLlave DEF Pasos
<1>6. CASE GuardarRegistrosParticion(t)
  <2>1. PICK n \in 1..MaxTam : Pedir(t, t, "bin", op[t].nro, n)
    BY <1>6 DEF GuardarRegistrosParticion
  <2>2. op[t].nro \in Nat /\ "bin" \in Clases /\ pc[t] = "particion" /\ op[t].tabla = t
    BY <1>0, <1>6 DEF TipoDeObra, Clases, GuardarRegistrosParticion, ConLlave
  <2>3. PICK o2 \in TipoDeObra, s \in {"archivo", "obtener"} :
          Cambia(t, o2, s) /\ EnMano(t, s, o2) /\ o2.tabla = t
    BY <1>0, <2>1, <2>2, PedirDeja
  <2>4. archivos' = archivos /\ UNCHANGED <<tablas, rwLock, dropMx>>
    BY <1>6 DEF GuardarRegistrosParticion
  <2>5. QED
    BY <1>0, <2>2, <2>3, <2>4, SigueConLlave DEF Pasos
<1>7. CASE Fin(t)
  <2>1. Cambia(t, Nada, "libre") /\ EnMano(t, "libre", Nada)
    BY <1>7, FinDeja
  <2>2. pc'[t] = "libre" /\ \A k \in Hilos \ {t} : pc'[k] = pc[k] /\ op'[k] = op[k]
    BY <1>0, <2>1, NadaEs, CambiarObra DEF Pasos
  <2>3. /\ pc[t] = "particion" /\ UNCHANGED <<archivos, tablas>>
        /\ rwLock' = [rwLock EXCEPT ![t] = Nadie] /\ dropMx' = [dropMx EXCEPT ![t] = Nadie]
    BY <1>7 DEF Fin
  <2>4. pc[Dump] # "libre" => op[Dump].tabla # t
    BY <1>0, <2>3, LosHilos DEF ConLlave
  <2>5. QED
    BY <1>0, <2>2, <2>3, <2>4, LosHilos DEF ConLlave, Tipos
<1>8. QED
  BY <1>1, <1>2, <1>3, <1>4, <1>5, <1>6, <1>7

LEMMA PasoLlave ==
  ASSUME Tipos, EnManos, ConLlave, Next
  PROVE  ConLlave'
<1>0. /\ op[Cliente].tabla \in Tablas \/ pc[Cliente] = "libre"
      /\ op[Dump].tabla \in Tablas \/ pc[Dump] = "libre"
  BY LosHilos DEF ConLlave, Tipos
<1>1. CASE CrearArchivoTemporal
  <2>1. PICK t \in tablas, n \in 1..MaxTam :
          /\ rwLock[t] \in {Nadie, Dump} /\ rwLock' = [rwLock EXCEPT ![t] = Dump]
          /\ Pedir(Dump, t, "tmp", dumps, n)
    BY <1>1 DEF CrearArchivoTemporal
  <2>2. t \in Tablas /\ dumps \in Nat /\ "tmp" \in Clases /\ pc[Dump] = "libre"
    BY <1>1, <2>1 DEF CrearArchivoTemporal, Tipos, Clases
  <2>3. PICK o2 \in TipoDeObra, s \in {"archivo", "obtener"} :
          Cambia(Dump, o2, s) /\ EnMano(Dump, s, o2) /\ o2.tabla = t
    BY <2>1, <2>2, LosHilos, PedirDeja
  <2>4. /\ pc'[Dump] = s /\ op'[Dump] = o2
        /\ \A k \in Hilos \ {Dump} : pc'[k] = pc[k] /\ op'[k] = op[k]
    BY <2>3, LosHilos, CambiarObra DEF Pasos
  <2>5. UNCHANGED <<archivos, tablas, dropMx>>
    BY <1>1 DEF CrearArchivoTemporal
  <2>6. \A u \in Tablas : rwLock[u] = u => rwLock'[u] = u
    BY <2>1, <2>2, LosHilos DEF Tipos, Hilos
  <2>7. rwLock'[t] = Dump
    BY <2>1, <2>2 DEF Tipos
  <2>8. QED
    BY <1>0, <2>1, <2>3, <2>4, <2>5, <2>6, <2>7, LosHilos DEF ConLlave
<1>2. CASE EliminarTablaCompleta
  <2>1. PICK t \in tablas : /\ dropMx[t] = Nadie /\ rwLock[t] = Nadie /\ tablas' = tablas \ {t}
                            /\ archivos' = {f \in archivos : f.tabla # t}
    BY <1>2, BajaEs
  <2>2. UNCHANGED <<rwLock, dropMx, pc, op>> /\ pc[Cliente] = "libre"
    BY <1>2 DEF EliminarTablaCompleta
  <2>3. t \in Tablas /\ t # Nadie /\ Dump # Nadie
    BY <2>1, LosHilos DEF Tipos, Hilos
  <2>4. QED
    BY <2>1, <2>2, <2>3 DEF ConLlave
<1>3. CASE Create
  <2>1. PICK t \in Tablas \ tablas, o2 \in TipoDeObra :
          /\ tablas' = tablas \cup {t}
          /\ Cambia(Cliente, o2, "particion") /\ EnMano(Cliente, "particion", o2) /\ o2.tabla = t
    BY <1>3, CreateDeja
  <2>2. /\ pc'[Cliente] = "particion" /\ op'[Cliente] = o2
        /\ \A k \in Hilos \ {Cliente} : pc'[k] = pc[k] /\ op'[k] = op[k]
    BY <2>1, LosHilos, CambiarObra DEF Pasos
  <2>3. UNCHANGED <<archivos, rwLock, dropMx>>
    BY <1>3 DEF Create
  <2>4. QED
    BY <2>1, <2>2, <2>3, LosHilos DEF ConLlave
<1>4. CASE CreateParticion
  <2>1. pc[Cliente] = "particion" /\ archivos' = archivos /\ UNCHANGED <<tablas, rwLock, dropMx>>
    BY <1>4 DEF CreateParticion
  <2>2. CASE \E o2 \in TipoDeObra :
               /\ Cambia(Cliente, o2, "obtener") /\ EnMano(Cliente, "obtener", o2)
               /\ o2.tabla = op[Cliente].tabla
    BY <2>1, <2>2, LosHilos, SigueConLlave DEF Pasos
  <2>3. CASE Cambia(Cliente, Nada, "libre") /\ EnMano(Cliente, "libre", Nada)
    <3>1. pc'[Cliente] = "libre" /\ \A k \in Hilos \ {Cliente} : pc'[k] = pc[k] /\ op'[k] = op[k]
      BY <2>3, LosHilos, NadaEs, CambiarObra DEF Pasos
    <3>2. QED
      BY <2>1, <3>1, LosHilos DEF ConLlave
  <2>4. QED
    BY <1>4, <2>2, <2>3, CreateParticionDeja
<1>5. QED
  BY <1>1, <1>2, <1>3, <1>4, LosHilos, BloqueLlave, CompactarLlave DEF Next, Compactar

-----------------------------------------------------------------------------
(* The names of the files.                                                 *)

ConPartes == Haciendo \cup {"particion"}

\* A step that makes no file: who was making one goes on with the same or the next one.
LEMMA SigueNombres ==
  ASSUME Tipos, EnManos, ConLlave, Nombres,
         NEW h \in Hilos, NEW o2 \in TipoDeObra, NEW s \in Pasos,
         EnMano(h, s, o2), Cambia(h, o2, s), archivos' \subseteq archivos, dumps' = dumps,
         h = Dump /\ s # "libre" =>
           pc[h] # "libre" /\ o2.nro = op[h].nro /\ o2.clase = op[h].clase,
         h # Dump /\ s \in ConPartes =>
           pc[h] \in ConPartes /\ o2.tabla = op[h].tabla /\ op[h].nro <= o2.nro
  PROVE  Nombres'
<1>1. /\ pc'[h] = s /\ op'[h] = o2
      /\ \A k \in Hilos \ {h} : pc'[k] = pc[k] /\ op'[k] = op[k]
  BY CambiarObra
<1>2. /\ o2.nro \in Nat /\ op[h].nro \in Nat
      /\ \A f \in archivos : f.nro \in Nat
  BY DEF Tipos, TipoDeObra, Archivo
<1>3. \A f, g \in archivos' : f # g => Id(f) # Id(g)
  BY DEF Nombres
<1>4. /\ \A f \in archivos' : f.clase # "bin" =>
           f.nro < dumps' /\ (pc'[Dump] # "libre" => f.nro < op'[Dump].nro)
      /\ pc'[Dump] # "libre" => op'[Dump].clase # "bin" /\ op'[Dump].nro < dumps'
  BY <1>1, LosHilos DEF Nombres
<1>5. ASSUME NEW k \in Hilos \ {Dump}, pc'[k] \in ConPartes,
             NEW f \in archivos', f.tabla = op'[k].tabla, f.clase = "bin"
      PROVE  f.nro < op'[k].nro
  <2>1. CASE k = h
    BY <1>1, <1>2, <1>5, <2>1 DEF Nombres, ConPartes
  <2>2. CASE k # h
    BY <1>1, <1>5, <2>2 DEF Nombres, ConPartes
  <2>3. QED
    BY <2>1, <2>2
<1>6. QED
  BY <1>3, <1>4, <1>5 DEF Nombres, ConPartes

\* Nobody else makes files of the table, so the new one has a name of its own.
LEMMA HacerArchivoNombres ==
  ASSUME Tipos, EnManos, ConLlave, Nombres, NEW h \in Hilos, HacerArchivo(h)
  PROVE  Nombres'
<1> DEFINE o == op[h]
           f == [tabla |-> o.tabla, clase |-> o.clase, nro |-> o.nro, bloques |-> o.bloques]
<1>1. PICK o2 \in TipoDeObra, s \in {"libre", "particion"} :
        /\ Cambia(h, o2, s) /\ EnMano(h, s, o2)
        /\ h = Dump => s = "libre"
        /\ h # Dump => s = "particion" /\ o2.tabla = op[h].tabla /\ o2.nro = op[h].nro + 1
  BY HacerArchivoDeja
<1>2. /\ pc'[h] = s /\ op'[h] = o2
      /\ \A k \in Hilos \ {h} : pc'[k] = pc[k] /\ op'[k] = op[k]
  BY <1>1, CambiarObra DEF Pasos
<1>3. pc[h] = "archivo" /\ archivos' = archivos \cup {f} /\ dumps' = dumps
  BY DEF HacerArchivo, cuentas
<1>4. f.tabla = o.tabla /\ f.clase = o.clase /\ f.nro = o.nro
  OBVIOUS
<1>5. /\ o.nro \in Nat /\ dumps \in Nat /\ o.tabla \in tablas /\ (h # Dump => o.clase = "bin")
      /\ \A g \in archivos : g.nro \in Nat
  <2>1. o.tabla \in tablas
    BY <1>3, LosHilos DEF ConLlave, Hilos
  <2>2. o \in TipoDeObra /\ EnMano(h, "archivo", o) /\ dumps \in Nat
    BY <1>3 DEF Tipos, EnManos
  <2>3. \A g \in archivos : g.nro \in Nat
    BY DEF Tipos, Archivo
  <2>4. QED
    BY <2>1, <2>2, <2>3 DEF TipoDeObra, EnMano
<1> HIDE DEF f
<1>6. ASSUME NEW g \in archivos PROVE Id(g) # Id(f)
  <2>1. CASE h = Dump
    <3>1. o.clase # "bin" /\ (g.clase # "bin" => g.nro < o.nro)
      BY <1>3, <2>1 DEF Nombres
    <3>2. QED
      BY <1>4, <1>5, <3>1 DEF Id
  <2>2. CASE h # Dump
    <3>1. g.tabla = o.tabla /\ g.clase = "bin" => g.nro < o.nro
      BY <1>3, <2>2 DEF Nombres, Haciendo
    <3>2. QED
      BY <1>4, <1>5, <2>2, <3>1 DEF Id
  <2>3. QED
    BY <2>1, <2>2
<1>7. \A g1, g2 \in archivos' : g1 # g2 => Id(g1) # Id(g2)
  BY <1>3, <1>6 DEF Nombres
<1>8. /\ \A g \in archivos' : g.clase # "bin" =>
           g.nro < dumps' /\ (pc'[Dump] # "libre" => g.nro < op'[Dump].nro)
      /\ pc'[Dump] # "libre" => op'[Dump].clase # "bin" /\ op'[Dump].nro < dumps'
  <2>1. CASE h = Dump
    BY <1>1, <1>2, <1>3, <1>4, <2>1 DEF Nombres
  <2>2. CASE h # Dump
    BY <1>2, <1>3, <1>4, <1>5, <2>2, LosHilos DEF Nombres
  <2>3. QED
    BY <2>1, <2>2
<1>9. ASSUME NEW k \in Hilos \ {Dump}, pc'[k] \in ConPartes,
             NEW g \in archivos', g.tabla = op'[k].tabla, g.clase = "bin"
      PROVE  g.nro < op'[k].nro
  <2>1. CASE k = h
    <3>1. g \in archivos => g.nro < o.nro
      BY <1>1, <1>2, <1>3, <1>9, <2>1 DEF Nombres, Haciendo
    <3>2. QED
      BY <1>1, <1>2, <1>3, <1>4, <1>5, <2>1, <3>1
  <2>2. CASE k # h /\ g \in archivos
    BY <1>2, <1>9, <2>2 DEF Nombres, ConPartes
  <2>3. CASE k # h /\ g \notin archivos
    <3>1. g = f /\ pc[k] \in ConPartes /\ op[k].tabla = o.tabla /\ pc[h] = "archivo"
      BY <1>2, <1>3, <1>4, <1>9, <2>3
    <3>2. h # Dump
      BY <1>3, <1>4, <1>9, <3>1 DEF Nombres
    <3>3. op[k].tabla # o.tabla
      <4>1. \A t \in Tablas : pc[t] \in ConPartes => op[t].tabla = t
        BY DEF ConLlave, ConPartes, Haciendo
      <4>2. k \in Tablas \cup {Cliente} /\ h \in Tablas \cup {Cliente}
        BY <3>2 DEF Hilos
      <4>3. pc[Cliente] \in ConPartes => pc[op[Cliente].tabla] = "libre"
        BY DEF ConLlave, ConPartes, Haciendo
      <4>4. pc[h] \in ConPartes /\ "libre" \notin ConPartes
        BY <3>1 DEF ConPartes, Haciendo
      <4>5. QED
        BY <2>3, <3>1, <4>1, <4>2, <4>3, <4>4
    <3>4. QED
      BY <3>1, <3>3
  <2>4. QED
    BY <2>1, <2>2, <2>3
<1>10. QED
  BY <1>7, <1>8, <1>9 DEF Nombres, ConPartes

LEMMA BloqueNombres ==
  ASSUME Tipos, EnManos, ConLlave, Nombres, NEW h \in Hilos, Bloque(h)
  PROVE  Nombres'
<1>0. op[h].nro \in Nat
  BY DEF Tipos, TipoDeObra
<1>1. CASE Obtener(h) /\ (PrimerLibre # -1 \/ h = Cliente)
  <2>1. PICK o2 \in TipoDeObra :
          /\ Cambia(h, o2, "leer") /\ EnMano(h, "leer", o2)
          /\ o2.tabla = op[h].tabla /\ o2.clase = op[h].clase /\ o2.nro = op[h].nro
    BY <1>1, ObtenerDeja
  <2>2. pc[h] = "obtener" /\ archivos' = archivos /\ dumps' = dumps
    BY <1>1 DEF Obtener, cuentas
  <2>3. QED
    BY <1>0, <2>1, <2>2, SigueNombres DEF Pasos, ConPartes, Haciendo
<1>2. CASE Obtener(h) /\ ~(PrimerLibre # -1 \/ h = Cliente)
  <2>1. PICK o2 \in TipoDeObra, s \in {"libre", "particion"} :
          /\ Cambia(h, o2, s) /\ EnMano(h, s, o2)
          /\ h = Dump => s = "libre"
          /\ h # Dump => s = "particion" /\ o2.tabla = op[h].tabla /\ o2.nro = op[h].nro + 1
    BY <1>2, SinBloqueDeja
  <2>2. pc[h] = "obtener" /\ archivos' = archivos /\ dumps' = dumps
    BY <1>2 DEF Obtener, cuentas
  <2>3. QED
    BY <1>0, <2>1, <2>2, SigueNombres DEF Pasos, ConPartes, Haciendo
<1>3. CASE Leer(h)
  <2>1. PICK o2 \in TipoDeObra, s \in {"marcar", "limpiar"} :
          /\ Cambia(h, o2, s) /\ EnMano(h, s, o2) /\ (s = "marcar" <=> pc[h] = "leer")
          /\ o2.tabla = op[h].tabla /\ o2.clase = op[h].clase /\ o2.nro = op[h].nro
    BY <1>3, LeerDeja
  <2>2. pc[h] \in {"leer", "leerLibre"} /\ archivos' = archivos /\ dumps' = dumps
    BY <1>3 DEF Leer, cuentas
  <2>3. QED
    BY <1>0, <2>1, <2>2, SigueNombres DEF Pasos, ConPartes, Haciendo
<1>4. CASE Marcar(h)
  <2>1. PICK o2 \in TipoDeObra, s \in {"archivo", "obtener"} :
          /\ Cambia(h, o2, s) /\ EnMano(h, s, o2)
          /\ o2.tabla = op[h].tabla /\ o2.clase = op[h].clase /\ o2.nro = op[h].nro
    BY <1>4, MarcarDeja
  <2>2. pc[h] = "marcar" /\ archivos' = archivos /\ dumps' = dumps
    BY <1>4 DEF Marcar, cuentas
  <2>3. QED
    BY <1>0, <2>1, <2>2, SigueNombres DEF Pasos, ConPartes, Haciendo
<1>5. CASE HacerArchivo(h)
  BY <1>5, HacerArchivoNombres
<1>6. QED
  BY <1>1, <1>2, <1>3, <1>4, <1>5 DEF Bloque

LEMMA RenombrarNombres ==
  ASSUME Tipos, EnManos, ConLlave, Nombres, NEW t \in Tablas, Renombrar(t)
  PROVE  Nombres'
<1>0. t \in Hilos \ {Dump, Cliente} /\ op[t] \in TipoDeObra
  BY LosHilos DEF Tipos
<1>1. Cambia(t, op[t], "tomar") /\ EnMano(t, "tomar", op[t])
  BY RenombrarDeja
<1>2. pc'[t] = "tomar" /\ \A k \in Hilos \ {t} : pc'[k] = pc[k] /\ op'[k] = op[k]
  BY <1>0, <1>1, CambiarObra DEF Pasos
<1>3. \A g \in archivos' : \E f \in archivos :
        /\ g.tabla = f.tabla /\ g.nro = f.nro /\ (g.clase = "bin" <=> f.clase = "bin")
        /\ g = IF f \in De(t, "tmp") THEN [f EXCEPT !.clase = "tmpc"] ELSE f
  <2>1. archivos' = (archivos \ De(t, "tmp")) \cup {[f EXCEPT !.clase = "tmpc"] : f \in De(t, "tmp")}
    BY DEF Renombrar
  <2>2. \A g \in archivos' : \E f \in archivos :
          /\ g.tabla = f.tabla /\ g.nro = f.nro /\ g.bloques = f.bloques
          /\ (g.clase = "bin" <=> f.clase = "bin") /\ g \in Archivo
          /\ g = IF f \in De(t, "tmp") THEN [f EXCEPT !.clase = "tmpc"] ELSE f
    BY ONLY <2>1, RenombradosEs, Tipos, t \in Tablas
  <2>3. QED
    BY ONLY <2>2
<1>4. dumps' = dumps
  BY DEF Renombrar, cuentas
<1>5. ASSUME NEW g1 \in archivos', NEW g2 \in archivos', g1 # g2 PROVE Id(g1) # Id(g2)
  <2>1. PICK f1 \in archivos :
          /\ g1.tabla = f1.tabla /\ g1.nro = f1.nro /\ (g1.clase = "bin" <=> f1.clase = "bin")
          /\ g1 = IF f1 \in De(t, "tmp") THEN [f1 EXCEPT !.clase = "tmpc"] ELSE f1
    BY <1>3
  <2>2. PICK f2 \in archivos :
          /\ g2.tabla = f2.tabla /\ g2.nro = f2.nro /\ (g2.clase = "bin" <=> f2.clase = "bin")
          /\ g2 = IF f2 \in De(t, "tmp") THEN [f2 EXCEPT !.clase = "tmpc"] ELSE f2
    BY <1>3
  <2>3. f1 # f2
    BY <1>5, <2>1, <2>2
  <2>4. Id(f1) # Id(f2)
    BY <2>3 DEF Nombres
  <2>5. QED
    BY <2>1, <2>2, <2>4 DEF Id
<1>6. QED
  BY <1>0, <1>2, <1>3, <1>4, <1>5, LosHilos DEF Nombres, Haciendo

LEMMA CompactarNombres ==
  ASSUME Tipos, EnManos, ConLlave, Nombres, NEW t \in Tablas,
         \/ Renombrar(t) \/ Tomar(t) \/ Liberar(t) \/ LiberarUno(t) \/ Limpiar(t)
         \/ GuardarRegistrosParticion(t) \/ Fin(t)
  PROVE  Nombres'
<1>0. t \in Hilos \ {Dump, Cliente} /\ op[t] \in TipoDeObra /\ op[t].nro \in Nat
  BY LosHilos DEF Tipos, TipoDeObra
<1>1. CASE Renombrar(t)
  BY <1>1, RenombrarNombres
<1>2. CASE Tomar(t)
  <2>1. PICK o2 \in TipoDeObra : Cambia(t, o2, "liberar") /\ EnMano(t, "liberar", o2)
    BY <1>2, TomarDeja
  <2>2. archivos' = archivos /\ dumps' = dumps
    BY <1>2 DEF Tomar, cuentas
  <2>3. QED
    BY <1>0, <2>1, <2>2, SigueNombres DEF Pasos, ConPartes, Haciendo
<1>3. CASE Liberar(t)
  <2> DEFINE quedan == IF De(t, "tmpc") # {} THEN De(t, "tmpc") ELSE De(t, "bin")
  <2>1. dumps' = dumps /\ pc[t] = "liberar"
    BY <1>3 DEF Liberar, cuentas
  <2>2. CASE \E f \in quedan, o2 \in TipoDeObra :
               /\ archivos' = archivos \ {f}
               /\ Cambia(t, o2, "liberar") /\ EnMano(t, "liberar", o2)
    BY <1>0, <2>1, <2>2, SigueNombres DEF Pasos, ConPartes, Haciendo
  <2>3. CASE /\ quedan = {} /\ archivos' = archivos
             /\ Cambia(t, op[t], "particion") /\ EnMano(t, "particion", op[t])
    <3>1. /\ pc'[t] = "particion" /\ op'[t] = op[t]
          /\ \A k \in Hilos \ {t} : pc'[k] = pc[k] /\ op'[k] = op[k]
      BY <1>0, <2>3, CambiarObra DEF Pasos
    <3>2. op[t].tabla = t
      BY <2>1 DEF ConLlave
    <3>3. \A f \in archivos : ~(f.tabla = t /\ f.clase = "bin")
      BY <2>3 DEF De
    <3>4. QED
      BY <1>0, <2>1, <2>3, <3>1, <3>2, <3>3, LosHilos DEF Nombres
  <2>4. QED
    BY <1>3, <2>2, <2>3, LiberarDeja
<1>4. CASE LiberarUno(t)
  <2>1. PICK o2 \in TipoDeObra : Cambia(t, o2, "leerLibre") /\ EnMano(t, "leerLibre", o2)
    BY <1>4, LiberarUnoDeja
  <2>2. archivos' = archivos /\ dumps' = dumps
    BY <1>4 DEF LiberarUno, cuentas
  <2>3. QED
    BY <1>0, <2>1, <2>2, SigueNombres DEF Pasos, ConPartes, Haciendo
<1>5. CASE Limpiar(t)
  <2>1. PICK o2 \in TipoDeObra : Cambia(t, o2, "liberar") /\ EnMano(t, "liberar", o2)
    BY <1>5, LimpiarDeja
  <2>2. archivos' = archivos /\ dumps' = dumps
    BY <1>5 DEF Limpiar, cuentas
  <2>3. QED
    BY <1>0, <2>1, <2>2, SigueNombres DEF Pasos, ConPartes, Haciendo
<1>6. CASE GuardarRegistrosParticion(t)
  <2>1. PICK n \in 1..MaxTam : Pedir(t, t, "bin", op[t].nro, n)
    BY <1>6 DEF GuardarRegistrosParticion
  <2>2. "bin" \in Clases /\ pc[t] = "particion" /\ op[t].tabla = t
    BY <1>0, <1>6 DEF TipoDeObra, Clases, GuardarRegistrosParticion, ConLlave
  <2>3. PICK o2 \in TipoDeObra, s \in {"archivo", "obtener"} :
          Cambia(t, o2, s) /\ EnMano(t, s, o2) /\ o2.tabla = t /\ o2.nro = op[t].nro
    BY <1>0, <2>1, <2>2, PedirDeja
  <2>4. archivos' = archivos /\ dumps' = dumps
    BY <1>6 DEF GuardarRegistrosParticion, cuentas
  <2>5. QED
    BY <1>0, <2>2, <2>3, <2>4, SigueNombres DEF Pasos, ConPartes, Haciendo
<1>7. CASE Fin(t)
  <2>1. Cambia(t, Nada, "libre") /\ EnMano(t, "libre", Nada)
    BY <1>7, FinDeja
  <2>2. archivos' = archivos /\ dumps' = dumps
    BY <1>7 DEF Fin, cuentas
  <2>3. QED
    BY <1>0, <2>1, <2>2, NadaEs, SigueNombres DEF Pasos, ConPartes, Haciendo
<1>8. QED
  BY <1>1, <1>2, <1>3, <1>4, <1>5, <1>6, <1>7

LEMMA PasoNombres ==
  ASSUME Tipos, EnManos, ConLlave, Nombres, Next
  PROVE  Nombres'
<1>1. CASE CrearArchivoTemporal
  <2>1. PICK t \in tablas, n \in 1..MaxTam : Pedir(Dump, t, "tmp", dumps, n)
    BY <1>1 DEF CrearArchivoTemporal
  <2>2. t \in Tablas /\ dumps \in Nat /\ "tmp" \in Clases /\ pc[Dump] = "libre"
    BY <1>1, <2>1 DEF CrearArchivoTemporal, Tipos, Clases
  <2>3. PICK o2 \in TipoDeObra, s \in {"archivo", "obtener"} :
          Cambia(Dump, o2, s) /\ EnMano(Dump, s, o2) /\ o2.clase = "tmp" /\ o2.nro = dumps
    BY <2>1, <2>2, LosHilos, PedirDeja
  <2>4. /\ pc'[Dump] = s /\ op'[Dump] = o2
        /\ \A k \in Hilos \ {Dump} : pc'[k] = pc[k] /\ op'[k] = op[k]
    BY <2>3, LosHilos, CambiarObra DEF Pasos
  <2>5. archivos' = archivos /\ dumps' = dumps + 1
    BY <1>1 DEF CrearArchivoTemporal
  <2>6. \A f \in archivos : f.nro \in Nat
    BY DEF Tipos, Archivo
  <2>7. QED
    BY <2>2, <2>3, <2>4, <2>5, <2>6 DEF Nombres
<1>2. CASE EliminarTablaCompleta
  <2>1. archivos' \subseteq archivos
    BY <1>2, BajaEs
  <2>2. UNCHANGED <<pc, op, dumps>>
    BY <1>2 DEF EliminarTablaCompleta
  <2>3. QED
    BY <2>1, <2>2 DEF Nombres
<1>3. CASE Create
  <2>1. PICK t \in Tablas \ tablas, o2 \in TipoDeObra :
          /\ Cambia(Cliente, o2, "particion") /\ EnMano(Cliente, "particion", o2) /\ o2.tabla = t
    BY <1>3, CreateDeja
  <2>2. /\ pc'[Cliente] = "particion" /\ op'[Cliente] = o2
        /\ \A k \in Hilos \ {Cliente} : pc'[k] = pc[k] /\ op'[k] = op[k]
    BY <2>1, LosHilos, CambiarObra DEF Pasos
  <2>3. archivos' = archivos /\ dumps' = dumps
    BY <1>3 DEF Create, cuentas
  <2>4. \A f \in archivos : f.tabla # t
    BY <2>1 DEF ConLlave
  <2>5. QED
    BY <2>1, <2>2, <2>3, <2>4, LosHilos DEF Nombres
<1>4. CASE CreateParticion
  <2>1. pc[Cliente] = "particion" /\ archivos' = archivos /\ dumps' = dumps
    BY <1>4 DEF CreateParticion, cuentas
  <2>2. op[Cliente].nro \in Nat
    BY LosHilos DEF Tipos, TipoDeObra
  <2>3. CASE \E o2 \in TipoDeObra :
               /\ Cambia(Cliente, o2, "obtener") /\ EnMano(Cliente, "obtener", o2)
               /\ o2.tabla = op[Cliente].tabla /\ o2.nro = op[Cliente].nro
    BY <2>1, <2>2, <2>3, LosHilos, SigueNombres DEF Pasos, ConPartes
  <2>4. CASE Cambia(Cliente, Nada, "libre") /\ EnMano(Cliente, "libre", Nada)
    BY <2>1, <2>4, LosHilos, NadaEs, SigueNombres DEF Pasos, ConPartes, Haciendo
  <2>5. QED
    BY <1>4, <2>3, <2>4, CreateParticionDeja
<1>5. QED
  BY <1>1, <1>2, <1>3, <1>4, LosHilos, BloqueNombres, CompactarNombres DEF Next, Compactar

-----------------------------------------------------------------------------
(* Each block has one owner.                                               *)

LEMMA SuciosCrecen ==
  ASSUME NEW s, NEW S, NEW T, S \subseteq T, SinRepetir(s, S)
  PROVE  SinRepetir(s, T)
BY DEF SinRepetir

\* A step of thread h that leaves the blocks where they are.
LEMMA DuenioSigue ==
  ASSUME Tipos, EnManos, UnDuenio, NEW h \in Hilos, NEW o2 \in TipoDeObra, NEW s \in Pasos,
         EnMano(h, s, o2), Cambia(h, o2, s), MismosBloques(op[h], o2),
         UNCHANGED <<archivos, bitarray, perdidos, disputados>>
  PROVE  UnDuenio'
<1>1. \A k \in Hilos : op'[k].bloques = op[k].bloques /\ op'[k].libera = op[k].libera
  BY CambiarObra DEF MismosBloques
<1>2. \A k \in Hilos : Suyos(op'[k]) = Suyos(op[k])
  BY <1>1, Zenon DEF Suyos
<1>3. ASSUME NEW b \in Bits \ disputados' PROVE UnDuenioDe(b)'
  <2>1. UnDuenioDe(b)
    BY DEF UnDuenio
  <2>2. QED
    BY <1>2, <2>1 DEF UnDuenioDe
<1>4. QED
  BY <1>1, <1>3 DEF UnDuenio, Sucios

\* A file that is given up: its blocks are nobody's.
LEMMA SinBloqueDuenio ==
  ASSUME Tipos, EnManos, UnDuenio, NEW h \in Hilos, Obtener(h), ~(PrimerLibre # -1 \/ h = Cliente)
  PROVE  UnDuenio'
<1>1. PICK o2 \in TipoDeObra, s \in {"libre", "particion"} :
        /\ Cambia(h, o2, s) /\ EnMano(h, s, o2) /\ Suyos(o2) = {}
        /\ o2.bloques = << >> /\ o2.libera = << >>
  BY SinBloqueDeja
<1>2. op'[h] = o2 /\ \A k \in Hilos \ {h} : op'[k] = op[k]
  BY <1>1, CambiarObra DEF Pasos
<1>3. /\ perdidos' = perdidos \cup Range(op[h].bloques)
      /\ UNCHANGED <<archivos, bitarray, disputados>> /\ pc[h] = "obtener"
  BY DEF Obtener
<1>4. Suyos(op[h]) = Range(op[h].bloques)
  BY <1>3, RangoVacio DEF Suyos, EnManos, EnMano, Haciendo
<1>5. ASSUME NEW b \in Bits \ disputados' PROVE UnDuenioDe(b)'
  <2>1. UnDuenioDe(b)
    BY <1>3 DEF UnDuenio
  <2>2. \A k \in Hilos : b \in Suyos(op'[k]) <=> k # h /\ b \in Suyos(op[k])
    BY <1>1, <1>2
  <2>3. b \in perdidos' <=> b \in perdidos \/ b \in Suyos(op[h])
    BY <1>3, <1>4
  <2>4. QED
    BY <1>3, <2>1, <2>2, <2>3 DEF UnDuenioDe
<1>6. \A k \in Hilos : SinRepetir(op'[k].bloques, Sucios) /\ SinRepetir(op'[k].libera, Sucios)
  <2>1. SinRepetir(<< >>, Sucios)
    BY DEF SinRepetir
  <2>2. QED
    BY <1>1, <1>2, <2>1 DEF UnDuenio
<1>7. QED
  BY <1>3, <1>5, <1>6 DEF UnDuenio, Sucios

\* A block that was not marked since its bit was read is nobody's, and now it is of h.
LEMMA MarcarDuenio ==
  ASSUME Tipos, EnManos, UnDuenio, NEW h \in Hilos, Marcar(h)
  PROVE  UnDuenio'
<1> DEFINE o == op[h]
<1>1. PICK o2 \in TipoDeObra, s \in {"archivo", "obtener"} :
        /\ Cambia(h, o2, s) /\ EnMano(h, s, o2)
        /\ o2.bloques = Append(o.bloques, o.bloque) /\ o2.libera = o.libera
  BY MarcarDeja
<1>2. op'[h] = o2 /\ \A k \in Hilos \ {h} : op'[k] = op[k]
  BY <1>1, CambiarObra DEF Pasos
<1>3. /\ bitarray' = ConByte(o.bloque, o.byte \cup {o.bloque})
      /\ disputados' = disputados \cup Cambiados(h) \cup ({o.bloque} \cap o.byte)
      /\ UNCHANGED <<archivos, perdidos>>
  BY DEF Marcar
<1>4. o.bloques \in Seq(Bits \cup {-1}) /\ o.bloque \in Bits \cup {-1}
  BY DEF Tipos, TipoDeObra
<1>5. Range(o2.bloques) = Range(o.bloques) \cup {o.bloque}
  BY <1>1, <1>4, RangoAgregar
<1>6. Suyos(o2) = Suyos(o) \cup {o.bloque}
  BY <1>1, <1>5 DEF Suyos
<1>7. ASSUME NEW b \in Bits \ disputados'
      PROVE  /\ b \in bitarray' <=> b \in bitarray \/ b = o.bloque
             /\ b = o.bloque => b \notin bitarray
  BY <1>3, <1>4, <1>7, ByteEs DEF Cambiados, ConByte
<1> HIDE DEF o
<1>8. ASSUME NEW b \in Bits \ disputados' PROVE UnDuenioDe(b) /\ UnDuenioDe(b)'
  <2>1. UnDuenioDe(b)
    BY <1>3 DEF UnDuenio
  <2>2. \A k \in Hilos : b \in Suyos(op'[k]) <=> b \in Suyos(op[k]) \/ (k = h /\ b = o.bloque)
    BY <1>2, <1>6 DEF o
  <2>3. b \in bitarray' <=> b \in bitarray \/ b = o.bloque
    BY <1>7
  <2>4. b = o.bloque => b \notin bitarray
    BY <1>7
  <2>5. QED
    BY <1>3, <2>1, <2>2, <2>3, <2>4 DEF UnDuenioDe
<1>9. \A s1 : SinRepetir(s1, Sucios) => SinRepetir(s1, Sucios')
  BY <1>3, SuciosCrecen DEF Sucios
<1>10. SinRepetir(o2.bloques, Sucios')
  <2>1. o.bloque \notin Range(o.bloques) \/ o.bloque \in Sucios'
    <3>1. SUFFICES ASSUME o.bloque \in Range(o.bloques), o.bloque \notin Sucios' PROVE FALSE
      OBVIOUS
    <3>2. o.bloque \in Bits \ disputados'
      BY <1>4, <3>1 DEF Sucios
    <3>3. UnDuenioDe(o.bloque) /\ o.bloque \notin bitarray
      BY <1>7, <1>8, <3>2
    <3>4. o.bloque \in Suyos(op[h])
      BY <3>1 DEF Suyos, o
    <3>5. QED
      BY <3>3, <3>4 DEF UnDuenioDe
  <2>2. SinRepetir(o.bloques, Sucios')
    BY <1>9 DEF UnDuenio, o
  <2>3. QED
    BY <1>1, <1>4, <2>1, <2>2, RangoAgregar
<1>11. \A k \in Hilos : SinRepetir(op'[k].bloques, Sucios') /\ SinRepetir(op'[k].libera, Sucios')
  BY <1>1, <1>2, <1>9, <1>10 DEF UnDuenio, o
<1>12. \A f \in archivos' : SinRepetir(f.bloques, Sucios')
  BY <1>3, <1>9 DEF UnDuenio
<1>13. QED
  BY <1>8, <1>11, <1>12 DEF UnDuenio

\* The blocks of the file that was made go from the thread to the file.
LEMMA HacerArchivoDuenio ==
  ASSUME Tipos, EnManos, UnDuenio, NEW h \in Hilos, HacerArchivo(h)
  PROVE  UnDuenio'
<1> DEFINE o == op[h]
           f == [tabla |-> o.tabla, clase |-> o.clase, nro |-> o.nro, bloques |-> o.bloques]
<1>1. PICK o2 \in TipoDeObra, s \in {"libre", "particion"} :
        /\ Cambia(h, o2, s) /\ EnMano(h, s, o2)
        /\ o2.bloques = << >> /\ o2.libera = << >>
  BY HacerArchivoDeja
<1>2. op'[h] = o2 /\ \A k \in Hilos \ {h} : op'[k] = op[k]
  BY <1>1, CambiarObra DEF Pasos
<1>3. /\ archivos' = archivos \cup {f} /\ pc[h] = "archivo"
      /\ UNCHANGED <<bitarray, perdidos, disputados>>
  BY DEF HacerArchivo
<1>4. f.bloques = o.bloques
  OBVIOUS
<1>5. Suyos(o) = Range(o.bloques) /\ Suyos(o2) = {}
  BY <1>1, <1>3, RangoVacio DEF Suyos, EnManos, EnMano, Haciendo
<1> HIDE DEF f
<1>6. ASSUME NEW b \in Bits \ disputados' PROVE UnDuenioDe(b)'
  <2>1. UnDuenioDe(b)
    BY <1>3 DEF UnDuenio
  <2>2. \A k \in Hilos : b \in Suyos(op'[k]) <=> k # h /\ b \in Suyos(op[k])
    BY <1>1, <1>2, <1>5
  <2>3. b \in Range(f.bloques) <=> b \in Suyos(op[h])
    BY <1>4, <1>5
  <2>4. \A g \in archivos' : g \in archivos \/ g = f
    BY <1>3
  <2>5. f \in archivos' /\ archivos \subseteq archivos'
    BY <1>3
  <2>6. QED
    BY <1>3, <2>1, <2>2, <2>3, <2>4, <2>5 DEF UnDuenioDe
<1>7. \A k \in Hilos : SinRepetir(op'[k].bloques, Sucios) /\ SinRepetir(op'[k].libera, Sucios)
  <2>1. SinRepetir(<< >>, Sucios)
    BY DEF SinRepetir
  <2>2. QED
    BY <1>1, <1>2, <2>1 DEF UnDuenio
<1>8. \A g \in archivos' : SinRepetir(g.bloques, Sucios)
  BY <1>3, <1>4 DEF UnDuenio
<1>9. QED
  BY <1>3, <1>6, <1>7, <1>8 DEF UnDuenio, Sucios

LEMMA BloqueDuenio ==
  ASSUME Tipos, EnManos, UnDuenio, NEW h \in Hilos, Bloque(h)
  PROVE  UnDuenio'
<1>1. CASE Obtener(h) /\ (PrimerLibre # -1 \/ h = Cliente)
  <2>1. UNCHANGED <<archivos, bitarray, perdidos, disputados>>
    BY <1>1 DEF Obtener
  <2>2. QED
    BY <1>1, <2>1, ObtenerDeja, DuenioSigue DEF Pasos
<1>2. CASE Leer(h)
  <2>1. UNCHANGED <<archivos, bitarray, perdidos, disputados>>
    BY <1>2 DEF Leer
  <2>2. QED
    BY <1>2, <2>1, LeerDeja, DuenioSigue DEF Pasos
<1>3. QED
  BY <1>1, <1>2, SinBloqueDuenio, MarcarDuenio, HacerArchivoDuenio DEF Bloque

\* Renaming leaves to each file its blocks.
LEMMA RenombrarDuenio ==
  ASSUME Tipos, EnManos, UnDuenio, NEW t \in Tablas, Renombrar(t)
  PROVE  UnDuenio'
<1>1. /\ \A g \in archivos' : \E f \in archivos :
           /\ g.bloques = f.bloques
           /\ g = IF f \in De(t, "tmp") THEN [f EXCEPT !.clase = "tmpc"] ELSE f
      /\ \A f \in archivos : \E g \in archivos' : g.bloques = f.bloques
  <2>1. archivos' =
          (archivos \ De(t, "tmp")) \cup {[f EXCEPT !.clase = "tmpc"] : f \in De(t, "tmp")}
    BY DEF Renombrar
  <2>2. \A f \in archivos : \E g \in archivos' : g.bloques = f.bloques
    BY <2>1, RenombradosEs
  <2>3. \A g \in archivos' : \E f \in archivos :
           /\ g.bloques = f.bloques
           /\ g = IF f \in De(t, "tmp") THEN [f EXCEPT !.clase = "tmpc"] ELSE f
    BY <2>1, RenombradosEs
  <2>4. QED
    BY <2>2, <2>3
<1>2. UNCHANGED <<op, bitarray, perdidos, disputados>>
  BY DEF Renombrar
<1>3. ASSUME NEW b \in Bits \ disputados' PROVE UnDuenioDe(b)'
  <2>1. UnDuenioDe(b)
    BY <1>2 DEF UnDuenio
  <2>2. ASSUME NEW g1 \in archivos', NEW g2 \in archivos',
               b \in Range(g1.bloques), b \in Range(g2.bloques)
        PROVE  g1 = g2
    <3>1. PICK f1 \in archivos :
            /\ g1.bloques = f1.bloques
            /\ g1 = IF f1 \in De(t, "tmp") THEN [f1 EXCEPT !.clase = "tmpc"] ELSE f1
      BY <1>1
    <3>2. PICK f2 \in archivos :
            /\ g2.bloques = f2.bloques
            /\ g2 = IF f2 \in De(t, "tmp") THEN [f2 EXCEPT !.clase = "tmpc"] ELSE f2
      BY <1>1
    <3>3. f1 = f2
      BY <2>1, <2>2, <3>1, <3>2 DEF UnDuenioDe
    <3>4. QED
      BY <3>1, <3>2, <3>3
  <2>3. (\E g \in archivos' : b \in Range(g.bloques)) <=> (\E f \in archivos : b \in Range(f.bloques))
    BY <1>1
  <2>4. \A g \in archivos' : b \in Range(g.bloques) =>
          b \notin perdidos /\ \A h \in Hilos : b \notin Suyos(op[h])
    BY <1>1, <2>1 DEF UnDuenioDe
  <2>5. QED
    BY <1>2, <2>1, <2>2, <2>3, <2>4 DEF UnDuenioDe
<1>4. \A g \in archivos' : SinRepetir(g.bloques, Sucios)
  BY <1>1 DEF UnDuenio
<1>5. QED
  BY <1>2, <1>3, <1>4 DEF UnDuenio, Sucios

\* The blocks of a file go to the compaction that frees them.
LEMMA LiberarDuenio ==
  ASSUME Tipos, EnManos, UnDuenio, NEW t \in Tablas, Liberar(t)
  PROVE  UnDuenio'
<1> DEFINE quedan == IF De(t, "tmpc") # {} THEN De(t, "tmpc") ELSE De(t, "bin")
<1>0. t \in Hilos /\ op[t] \in TipoDeObra
  BY LosHilos DEF Tipos
<1>1. UNCHANGED <<bitarray, perdidos, disputados>>
  BY DEF Liberar
<1>2. CASE /\ archivos' = archivos
           /\ Cambia(t, op[t], "particion") /\ EnMano(t, "particion", op[t])
  BY <1>0, <1>1, <1>2, DuenioSigue DEF MismosBloques, Pasos
<1>3. CASE \E f \in quedan, o2 \in TipoDeObra :
             /\ archivos' = archivos \ {f}
             /\ Cambia(t, o2, "liberar") /\ EnMano(t, "liberar", o2)
             /\ o2.bloques = << >> /\ o2.libera = f.bloques
             /\ op[t].bloques = << >> /\ op[t].libera = << >>
  <2>1. PICK f \in quedan, o2 \in TipoDeObra :
             /\ archivos' = archivos \ {f}
             /\ Cambia(t, o2, "liberar") /\ EnMano(t, "liberar", o2)
             /\ o2.bloques = << >> /\ o2.libera = f.bloques
             /\ op[t].bloques = << >> /\ op[t].libera = << >>
    BY <1>3
  <2>2. op'[t] = o2 /\ \A k \in Hilos \ {t} : op'[k] = op[k]
    BY <1>0, <2>1, CambiarObra DEF Pasos
  <2>3. f \in archivos
    BY <2>1 DEF De
  <2>4. Suyos(op[t]) = {} /\ Suyos(o2) = Range(f.bloques)
    BY <2>1, RangoVacio DEF Suyos
  <2>5. ASSUME NEW b \in Bits \ disputados' PROVE UnDuenioDe(b)'
    <3>1. UnDuenioDe(b)
      BY <1>1 DEF UnDuenio
    <3>2. \A k \in Hilos :
            b \in Suyos(op'[k]) <=> IF k = t THEN b \in Range(f.bloques) ELSE b \in Suyos(op[k])
      BY <2>2, <2>4
    <3>3. b \notin Suyos(op[t])
      BY <2>4
    <3>4. QED
      BY <1>0, <1>1, <2>1, <2>3, <3>1, <3>2, <3>3 DEF UnDuenioDe
  <2>6. \A k \in Hilos : SinRepetir(op'[k].bloques, Sucios) /\ SinRepetir(op'[k].libera, Sucios)
    <3>1. SinRepetir(<< >>, Sucios)
      BY DEF SinRepetir
    <3>2. QED
      BY <2>1, <2>2, <2>3, <3>1 DEF UnDuenio
  <2>7. QED
    BY <1>1, <2>1, <2>5, <2>6 DEF UnDuenio, Sucios
<1>4. QED
  BY <1>2, <1>3, LiberarDeja

\* The block whose bit is cleared was only of t, and once.
LEMMA LimpiarDuenio ==
  ASSUME Tipos, EnManos, UnDuenio, NEW t \in Tablas, Limpiar(t)
  PROVE  UnDuenio'
<1> DEFINE o == op[t]
<1>0. t \in Hilos /\ o \in TipoDeObra
  BY LosHilos DEF Tipos
<1>1. PICK o2 \in TipoDeObra :
        /\ o.libera # << >> /\ o.bloque = Head(o.libera) /\ o.bloques = << >>
        /\ Cambia(t, o2, "liberar") /\ EnMano(t, "liberar", o2)
        /\ o2.bloques = << >> /\ o2.libera = Tail(o.libera)
  BY LimpiarDeja
<1>2. op'[t] = o2 /\ \A k \in Hilos \ {t} : op'[k] = op[k]
  BY <1>0, <1>1, CambiarObra DEF Pasos
<1>3. /\ bitarray' = ConByte(o.bloque, o.byte \ {o.bloque}) /\ disputados' = disputados \cup Cambiados(t)
      /\ UNCHANGED <<archivos, perdidos>>
  BY DEF Limpiar
<1>4. ASSUME NEW b \in Bits \ disputados'
      PROVE  b \in bitarray' <=> b \in bitarray /\ b # o.bloque
  BY <1>0, <1>3, <1>4, ByteEs DEF Cambiados, ConByte, TipoDeObra
<1> HIDE DEF o
<1>5. /\ o.libera \in Seq(Bits \cup {-1})
      /\ SinRepetir(o.libera, Sucios)
  BY <1>0 DEF TipoDeObra, UnDuenio, o
<1>6. /\ Range(o.libera) = {o.bloque} \cup Range(o2.libera)
      /\ SinRepetir(o2.libera, Sucios) /\ (o.bloque \in Range(o2.libera) => o.bloque \in Sucios)
  BY <1>1, <1>5, RangoCola
<1>7. Suyos(o) = Range(o.libera) /\ Suyos(o2) = Range(o2.libera)
  BY <1>1, RangoVacio DEF Suyos
<1>8. ASSUME NEW b \in Bits \ disputados' PROVE UnDuenioDe(b)'
  <2>1. UnDuenioDe(b) /\ b \notin Sucios
    BY <1>3 DEF UnDuenio, Sucios, Bits
  <2>2. \A k \in Hilos : b \in Suyos(op'[k]) <=> b \in Suyos(op[k]) /\ ~(k = t /\ b = o.bloque)
    BY <1>2, <1>6, <1>7, <2>1 DEF o
  <2>3. b = o.bloque => b \in Suyos(op[t])
    BY <1>6, <1>7 DEF o
  <2>4. b \in bitarray' <=> b \in bitarray /\ b # o.bloque
    BY <1>4
  <2>5. QED
    BY <1>0, <1>3, <2>1, <2>2, <2>3, <2>4 DEF UnDuenioDe
<1>9. \A s1 : SinRepetir(s1, Sucios) => SinRepetir(s1, Sucios')
  BY <1>3, SuciosCrecen DEF Sucios
<1>10. \A k \in Hilos : SinRepetir(op'[k].bloques, Sucios') /\ SinRepetir(op'[k].libera, Sucios')
  <2>1. SinRepetir(<< >>, Sucios')
    BY DEF SinRepetir
  <2>2. QED
    BY <1>1, <1>2, <1>6, <1>9, <2>1 DEF UnDuenio
<1>11. \A f \in archivos' : SinRepetir(f.bloques, Sucios')
  BY <1>3, <1>9 DEF UnDuenio
<1>12. QED
  BY <1>8, <1>10, <1>11 DEF UnDuenio

LEMMA CompactarDuenio ==
  ASSUME Tipos, EnManos, UnDuenio, NEW t \in Tablas,
         \/ Renombrar(t) \/ Tomar(t) \/ Liberar(t) \/ LiberarUno(t) \/ Limpiar(t)
         \/ GuardarRegistrosParticion(t) \/ Fin(t)
  PROVE  UnDuenio'
<1>0. t \in Hilos \ {Dump, Cliente} /\ op[t] \in TipoDeObra
  BY LosHilos DEF Tipos
<1>1. CASE Tomar(t)
  <2>1. UNCHANGED <<archivos, bitarray, perdidos, disputados>>
    BY <1>1 DEF Tomar
  <2>2. QED
    BY <1>0, <1>1, <2>1, TomarDeja, DuenioSigue DEF Pasos
<1>2. CASE LiberarUno(t)
  <2>1. UNCHANGED <<archivos, bitarray, perdidos, disputados>>
    BY <1>2 DEF LiberarUno
  <2>2. QED
    BY <1>0, <1>2, <2>1, LiberarUnoDeja, DuenioSigue DEF Pasos
<1>3. CASE GuardarRegistrosParticion(t)
  <2>1. PICK n \in 1..MaxTam : Pedir(t, t, "bin", op[t].nro, n)
    BY <1>3 DEF GuardarRegistrosParticion
  <2>2. op[t].nro \in Nat /\ "bin" \in Clases /\ pc[t] = "particion"
    BY <1>0, <1>3 DEF TipoDeObra, Clases, GuardarRegistrosParticion
  <2>3. PICK o2 \in TipoDeObra, s \in {"archivo", "obtener"} :
          Cambia(t, o2, s) /\ EnMano(t, s, o2) /\ MismosBloques(op[t], o2)
    BY <1>0, <2>1, <2>2, PedirDeja
  <2>4. UNCHANGED <<archivos, bitarray, perdidos, disputados>>
    BY <1>3 DEF GuardarRegistrosParticion
  <2>5. QED
    BY <1>0, <2>3, <2>4, DuenioSigue DEF Pasos
<1>4. CASE Fin(t)
  <2>1. UNCHANGED <<archivos, bitarray, perdidos, disputados>>
    BY <1>4 DEF Fin
  <2>2. QED
    BY <1>0, <1>4, <2>1, NadaEs, FinDeja, DuenioSigue DEF Pasos
<1>5. QED
  BY <1>1, <1>2, <1>3, <1>4, RenombrarDuenio, LiberarDuenio, LimpiarDuenio

\* The blocks of a table that is dropped are nobody's, and stay marked.
LEMMA BajaDuenio ==
  ASSUME Tipos, EnManos, UnDuenio, EliminarTablaCompleta
  PROVE  UnDuenio'
<1>1. PICK t \in tablas :
        /\ archivos' = {f \in archivos : f.tabla # t}
        /\ \A b : b \in perdidos' <=>
             b \in perdidos \/ (b \in Bits /\ \E f \in archivos : f.tabla = t /\ b \in Range(f.bloques))
  BY BajaEs
<1>2. UNCHANGED <<op, bitarray, disputados>>
  BY DEF EliminarTablaCompleta
<1>3. ASSUME NEW b \in Bits \ disputados' PROVE UnDuenioDe(b)'
  <2>1. UnDuenioDe(b)
    BY <1>2 DEF UnDuenio
  <2>2. b \in perdidos' <=> b \in perdidos \/ \E f \in archivos : f.tabla = t /\ b \in Range(f.bloques)
    BY <1>1
  <2>3. \A f : f \in archivos' <=> f \in archivos /\ f.tabla # t
    BY <1>1
  <2>4. QED
    BY <1>2, <2>1, <2>2, <2>3 DEF UnDuenioDe
<1>4. QED
  BY <1>1, <1>2, <1>3 DEF UnDuenio, Sucios

LEMMA PasoDuenio ==
  ASSUME Tipos, EnManos, UnDuenio, Next
  PROVE  UnDuenio'
<1>1. CASE CrearArchivoTemporal
  <2>1. PICK t \in tablas, n \in 1..MaxTam : Pedir(Dump, t, "tmp", dumps, n)
    BY <1>1 DEF CrearArchivoTemporal
  <2>2. t \in Tablas /\ dumps \in Nat /\ "tmp" \in Clases /\ pc[Dump] = "libre"
    BY <1>1, <2>1 DEF CrearArchivoTemporal, Tipos, Clases
  <2>3. PICK o2 \in TipoDeObra, s \in {"archivo", "obtener"} :
          Cambia(Dump, o2, s) /\ EnMano(Dump, s, o2) /\ MismosBloques(op[Dump], o2)
    BY <2>1, <2>2, LosHilos, PedirDeja
  <2>4. UNCHANGED <<archivos, bitarray, perdidos, disputados>>
    BY <1>1 DEF CrearArchivoTemporal
  <2>5. QED
    BY <2>3, <2>4, LosHilos, DuenioSigue DEF Pasos
<1>2. CASE Create
  <2>1. UNCHANGED <<archivos, bitarray, perdidos, disputados>>
    BY <1>2 DEF Create
  <2>2. QED
    BY <1>2, <2>1, LosHilos, CreateDeja, DuenioSigue DEF Pasos
<1>3. CASE CreateParticion
  <2>1. UNCHANGED <<archivos, bitarray, perdidos, disputados>>
    BY <1>3 DEF CreateParticion
  <2>2. QED
    BY <1>3, <2>1, LosHilos, NadaEs, CreateParticionDeja, DuenioSigue DEF Pasos
<1>4. QED
  BY <1>1, <1>2, <1>3, LosHilos, BloqueDuenio, CompactarDuenio, BajaDuenio DEF Next, Compactar

-----------------------------------------------------------------------------
(* What the blocks of the files have.                                      *)

LEMMA PasoContenido ==
  ASSUME Tipos, EnManos, UnDuenio, ContenidoIntacto, Next
  PROVE  ContenidoIntacto'
<1>1. CASE \E h \in Hilos : HacerArchivo(h)
  <2>1. PICK h \in Hilos : HacerArchivo(h)
    BY <1>1
  <2> DEFINE o == op[h]
             f == [tabla |-> o.tabla, clase |-> o.clase, nro |-> o.nro, bloques |-> o.bloques]
  <2>2. /\ archivos' = archivos \cup {f} /\ disputados' = disputados
        /\ escrito' = [b \in Bits |-> IF b \in Range(o.bloques) THEN Id(f) ELSE escrito[b]]
    BY <2>1 DEF HacerArchivo
  <2>3. f.bloques = o.bloques
    OBVIOUS
  <2>4. \A g \in archivos' : g.bloques \in Seq(Bits \cup {-1})
    <3>1. o.bloques \in Seq(Bits \cup {-1})
      BY DEF Tipos, TipoDeObra
    <3>2. QED
      BY <2>2, <2>3, <3>1 DEF Tipos, Archivo
  <2> HIDE DEF f
  <2>5. ASSUME NEW g \in archivos', NEW b \in Range(g.bloques) \ (disputados' \cup {-1})
        PROVE  escrito'[b] = Id(g)
    <3>1. b \in Bits
      BY <2>4, <2>5, RangoEs
    <3>2. CASE g = f
      BY <2>2, <2>3, <2>5, <3>1, <3>2
    <3>3. CASE g # f
      <4>1. g \in archivos /\ UnDuenioDe(b)
        BY <2>2, <2>5, <3>1, <3>3 DEF UnDuenio
      <4>2. b \notin Range(o.bloques)
        BY <2>5, <4>1 DEF UnDuenioDe, Suyos
      <4>3. escrito[b] = Id(g)
        BY <2>2, <2>5, <4>1 DEF ContenidoIntacto
      <4>4. QED
        BY <2>2, <3>1, <4>2, <4>3
    <3>4. QED
      BY <3>2, <3>3
  <2>6. QED
    BY <2>5 DEF ContenidoIntacto
<1>2. CASE \E t \in Tablas : Renombrar(t)
  <2>1. PICK t \in Tablas : Renombrar(t)
    BY <1>2
  <2>2. \A g \in archivos' : \E f \in archivos :
          /\ g.tabla = f.tabla /\ g.nro = f.nro /\ g.bloques = f.bloques
          /\ (g.clase = "bin" <=> f.clase = "bin")
    BY <2>1, RenombradosEs DEF Renombrar
  <2>3. \A g \in archivos' : \E f \in archivos : g.bloques = f.bloques /\ Id(g) = Id(f)
    BY <2>2 DEF Id
  <2>4. UNCHANGED <<escrito, disputados>>
    BY <2>1 DEF Renombrar
  <2>5. QED
    BY <2>3, <2>4 DEF ContenidoIntacto
<1>3. CASE archivos' \subseteq archivos /\ disputados \subseteq disputados' /\ escrito' = escrito
  BY <1>3 DEF ContenidoIntacto
<1>4. ASSUME NEW h \in Hilos, Obtener(h) \/ Leer(h) \/ Marcar(h)
      PROVE  archivos' \subseteq archivos /\ disputados \subseteq disputados' /\ escrito' = escrito
  BY <1>4 DEF Obtener, Leer, Marcar
<1>5. ASSUME NEW t \in Tablas,
             \/ Tomar(t) \/ Liberar(t) \/ LiberarUno(t) \/ Limpiar(t)
             \/ GuardarRegistrosParticion(t) \/ Fin(t)
      PROVE  archivos' \subseteq archivos /\ disputados \subseteq disputados' /\ escrito' = escrito
  <2>1. Liberar(t) => archivos' \subseteq archivos
    BY LiberarDeja
  <2>2. QED
    BY <1>5, <2>1 DEF Tomar, Liberar, LiberarUno, Limpiar, GuardarRegistrosParticion, Fin
<1>6. ASSUME CrearArchivoTemporal \/ EliminarTablaCompleta \/ Create \/ CreateParticion
      PROVE  archivos' \subseteq archivos /\ disputados \subseteq disputados' /\ escrito' = escrito
  <2>1. EliminarTablaCompleta => archivos' \subseteq archivos
    BY BajaEs
  <2>2. QED
    BY <1>6, <2>1 DEF CrearArchivoTemporal, EliminarTablaCompleta, Create, CreateParticion
<1>7. QED
  BY <1>1, <1>2, <1>3, <1>4, <1>5, <1>6, LosHilos DEF Next, Compactar, Bloque

-----------------------------------------------------------------------------
(* The initial state: partition p of the i-th table has block Numero(i, p). *)

Numero(i, p) == (i - 1) * Particiones + p

LEMMA NumeroEs ==
  ASSUME NEW n \in Nat
  PROVE  /\ \A i \in 1..n, p \in 0..Particiones - 1 :
              /\ Numero(i, p) \in 0..n * Particiones - 1
              /\ Numero(i, p) \div Particiones = i - 1 /\ Numero(i, p) % Particiones = p
         /\ \A b \in 0..n * Particiones - 1 :
              \E i \in 1..n, p \in 0..Particiones - 1 : b = Numero(i, p)
<1> DEFINE P == Particiones
<1>1. P \in Nat \ {0}
  OBVIOUS
<1> HIDE DEF P
<1>2. ASSUME NEW q \in 0..n - 1, NEW p \in 0..P - 1
      PROVE  q * P + p \in 0..n * P - 1
  BY <1>1
<1>3. ASSUME NEW q \in 0..n - 1, NEW p \in 0..P - 1
      PROVE  (q * P + p) \div P = q /\ (q * P + p) % P = p
  BY <1>1
<1>4. ASSUME NEW b \in 0..n * P - 1
      PROVE  \E q \in 0..n - 1, p \in 0..P - 1 : b = q * P + p
  <2>0. b \in Nat
    OBVIOUS
  <2>1. b = P * (b \div P) + (b % P)
    BY <1>1, <2>0, Z3
  <2>2. b % P \in 0..P - 1 /\ b \div P \in Nat
    BY <1>1, <2>0
  <2> DEFINE q == b \div P
             p == b % P
  <2> HIDE DEF q, p
  <2>3. q \in Nat /\ p \in 0..P - 1 /\ b = q * P + p
    BY <1>1, <2>1, <2>2 DEF q, p
  <2>4. q * P < n * P
    BY <1>1, <2>3
  <2>5. q < n
    BY <1>1, <2>3, <2>4
  <2>6. QED
    BY <2>3, <2>5
<1>5. ASSUME NEW i \in 1..n, NEW p \in 0..P - 1
      PROVE  /\ Numero(i, p) \in 0..n * P - 1
             /\ Numero(i, p) \div P = i - 1 /\ Numero(i, p) % P = p
  <2>1. i - 1 \in 0..n - 1 /\ Numero(i, p) = (i - 1) * P + p
    BY DEF Numero, P
  <2>2. QED
    BY <1>2, <1>3, <2>1
<1>6. ASSUME NEW b \in 0..n * P - 1
      PROVE  \E i \in 1..n, p \in 0..P - 1 : b = Numero(i, p)
  <2>1. PICK q \in 0..n - 1, p \in 0..P - 1 : b = q * P + p
    BY <1>4
  <2>2. q + 1 \in 1..n /\ (q + 1) - 1 = q
    OBVIOUS
  <2>3. Numero(q + 1, p) = q * P + p
    BY <2>2 DEF Numero, P
  <2>4. QED
    BY <2>1, <2>2, <2>3
<1>7. QED
  BY <1>5, <1>6 DEF P

LEMMA OrdenEs ==
  LET orden == SetToSeq(Tablas)
      n     == Cardinality(Tablas)
  IN  /\ n \in Nat /\ Len(orden) = n /\ orden \in [1..n -> Tablas]
      /\ \A i, j \in 1..n : orden[i] = orden[j] => i = j
<1> DEFINE n == Cardinality(Tablas)
<1>1. n \in Nat /\ ExistsBijection(1..n, Tablas)
  BY FS_CardinalityType
<1>2. \E f \in [1..n -> Tablas] : IsInjective(f)
  BY <1>1 DEF ExistsBijection, Bijection, Injection
<1>3. SetToSeq(Tablas) \in [1..n -> Tablas] /\ IsInjective(SetToSeq(Tablas))
  BY <1>2 DEF SetToSeq
<1> DEFINE orden == SetToSeq(Tablas)
<1> HIDE DEF orden, n
<1>4. orden \in [1..n -> Tablas] /\ IsInjective(orden) /\ n \in Nat
  BY <1>1, <1>3 DEF orden, n
<1>5. orden \in Seq(Tablas)
  BY <1>4
<1>6. Len(orden) = n
  BY <1>4, <1>5, LenProperties
<1>7. \A i, j \in 1..n : orden[i] = orden[j] => i = j
  BY <1>4 DEF IsInjective
<1>8. QED
  BY <1>4, <1>6, <1>7 DEF orden, n

LEMMA Inicio ==
  ASSUME Init
  PROVE  Tipos /\ EnManos /\ ConLlave /\ Nombres /\ UnDuenio /\ ContenidoIntacto
<1> DEFINE orden == SetToSeq(Tablas)
           n     == Cardinality(Tablas)
           P     == Particiones
           Parte(i, p) == Binario(orden[i], p, <<Numero(i, p)>>)
<1>1. /\ n \in Nat /\ Len(orden) = n /\ orden \in [1..n -> Tablas]
      /\ \A i, j \in 1..n : orden[i] = orden[j] => i = j
  BY OrdenEs
<1>2. DOMAIN orden = 1..n
  BY <1>1
<1>3. /\ archivos = {Binario(orden[i], p, <<(i - 1) * P + p>>) : i \in DOMAIN orden, p \in 0..P - 1}
      /\ bitarray = 0..Len(orden) * P - 1
      /\ escrito = [b \in Bits |-> IF b < Len(orden) * P
                                   THEN <<orden[(b \div P) + 1], TRUE, b % P>> ELSE << >>]
      /\ tablas = Tablas
      /\ rwLock = [t \in Tablas |-> Nadie] /\ dropMx = [t \in Tablas |-> Nadie]
      /\ pc = [h \in Hilos |-> "libre"] /\ op = [h \in Hilos |-> Nada]
      /\ dumps = 0 /\ bajas = 0 /\ perdidos = {} /\ disputados = {}
  <2>1. archivos = {Binario(orden[i], p, <<(i - 1) * P + p>>) : i \in DOMAIN orden, p \in 0..P - 1}
    BY DEF Init
  <2>2. /\ bitarray = 0..Len(orden) * P - 1
        /\ escrito = [b \in Bits |-> IF b < Len(orden) * P
                                     THEN <<orden[(b \div P) + 1], TRUE, b % P>> ELSE << >>]
    BY DEF Init
  <2>3. QED
    BY <2>1, <2>2 DEF Init
<1> DEFINE m == n * P
<1>4. m \in Nat /\ m <= Blocks /\ P \in Nat \ {0} /\ Blocks \in Nat
  BY <1>1
<1>5. /\ \A i \in 1..n, p \in 0..P - 1 :
           /\ Numero(i, p) \in 0..m - 1
           /\ Numero(i, p) \div P = i - 1 /\ Numero(i, p) % P = p
      /\ \A b \in 0..m - 1 : \E i \in 1..n, p \in 0..P - 1 : b = Numero(i, p)
  BY <1>1, NumeroEs
<1>6. archivos = {Parte(i, p) : i \in 1..n, p \in 0..P - 1}
  BY <1>2, <1>3 DEF Numero
<1>7. /\ bitarray = 0..m - 1
      /\ escrito = [b \in Bits |-> IF b < m THEN <<orden[(b \div P) + 1], TRUE, b % P>> ELSE << >>]
  BY <1>1, <1>3
<1> HIDE DEF orden, n, P, m
<1>8. 0..m - 1 \subseteq Bits
  BY <1>4 DEF Bits
<1>9. ASSUME NEW i \in 1..n, NEW p \in 0..P - 1
      PROVE  /\ Parte(i, p) \in Archivo /\ Parte(i, p).tabla = orden[i] /\ Parte(i, p).clase = "bin"
             /\ Parte(i, p).nro = p /\ Parte(i, p).bloques = <<Numero(i, p)>>
             /\ Len(Parte(i, p).bloques) = 1 /\ Range(Parte(i, p).bloques) = {Numero(i, p)}
             /\ \A S : SinRepetir(Parte(i, p).bloques, S)
  <2> DEFINE b == Numero(i, p)
  <2>1. b \in Bits /\ p \in Nat
    BY <1>4, <1>5, <1>8
  <2> DEFINE lista == <<b>>
  <2> HIDE DEF b
  <2>2. lista \in Seq(Bits \cup {-1}) /\ Len(lista) = 1 /\ lista[1] = b
    BY <2>1
  <2>3. Binario(orden[i], p, lista) \in Archivo
    <3>1. orden[i] \in Tablas
      BY <1>1
    <3>2. QED
      BY <2>1, <2>2, <3>1 DEF Binario, Archivo, Clases
  <2> HIDE DEF lista
  <2>4. Range(lista) = {b}
    <3>1. \A x : x \in Range(lista) <=> \E j \in 1..Len(lista) : lista[j] = x
      BY <2>2, RangoEs
    <3>2. QED
      BY <2>2, <3>1
  <2>5. \A S : SinRepetir(lista, S)
    BY <2>2 DEF SinRepetir
  <2>6. QED
    BY <2>2, <2>3, <2>4, <2>5 DEF b, lista, Binario
<1> HIDE DEF Parte
<1>10. \A f \in archivos : \E i \in 1..n, p \in 0..P - 1 : f = Parte(i, p)
  BY <1>6
<1>11. \A i \in 1..n, p \in 0..P - 1 : Parte(i, p) \in archivos
  BY <1>6
<1>12. \A h \in Hilos : pc[h] = "libre" /\ op[h] = Nada
  BY <1>3
<1>13. \A h \in Hilos : Suyos(op[h]) = {}
  BY <1>12, NadaEs, RangoVacio DEF Suyos
<1>14. \A i, j \in 1..n, p, q \in 0..P - 1 :
         Numero(i, p) = Numero(j, q) \/ (orden[i] = orden[j] /\ p = q) => i = j /\ p = q
  <2>1. SUFFICES ASSUME NEW i \in 1..n, NEW j \in 1..n, NEW p \in 0..P - 1, NEW q \in 0..P - 1,
                        Numero(i, p) = Numero(j, q)
                 PROVE  i = j /\ p = q
    BY <1>1
  <2>2. i - 1 = j - 1 /\ p = q
    BY <1>5, <2>1
  <2>3. QED
    BY <1>1, <2>2
<1>15. Tipos
  <2>1. archivos \subseteq Archivo
    BY <1>9, <1>10
  <2>2. bitarray \subseteq Bits
    BY <1>7, <1>8
  <2>3. pc \in [Hilos -> Pasos] /\ op \in [Hilos -> TipoDeObra]
    BY <1>3, NadaEs DEF Pasos
  <2>4. DOMAIN escrito = Bits
    BY <1>7
  <2>5. QED
    BY <1>3, <2>1, <2>2, <2>3, <2>4 DEF Tipos
<1>16. EnManos
  BY <1>12, NadaEnMano DEF EnManos
<1>17. ConLlave
  <2>1. \A f \in archivos : f.tabla \in tablas /\ Len(f.bloques) <= MaxTam
    <3>1. SUFFICES ASSUME NEW f \in archivos PROVE f.tabla \in tablas /\ Len(f.bloques) <= MaxTam
      OBVIOUS
    <3>2. PICK i \in 1..n, p \in 0..P - 1 : f = Parte(i, p)
      BY <1>10
    <3>3. f.tabla = orden[i] /\ Len(f.bloques) = 1 /\ orden[i] \in Tablas
      BY <1>1, <1>9, <3>2
    <3>4. QED
      BY <1>3, <3>3
  <2>2. QED
    BY <1>12, <2>1, LosHilos DEF ConLlave
<1>18. Nombres
  <2>1. ASSUME NEW f \in archivos, NEW g \in archivos, f # g PROVE Id(f) # Id(g)
    <3>1. PICK i \in 1..n, p \in 0..P - 1 : f = Parte(i, p)
      BY <1>10
    <3>2. PICK j \in 1..n, q \in 0..P - 1 : g = Parte(j, q)
      BY <1>10
    <3>3. ~(orden[i] = orden[j] /\ p = q)
      BY <1>14, <2>1, <3>1, <3>2
    <3>4. QED
      BY <1>9, <3>1, <3>2, <3>3 DEF Id
  <2>2. \A f \in archivos : f.clase = "bin"
    BY <1>9, <1>10
  <2>3. QED
    BY <1>12, <2>1, <2>2, LosHilos DEF Nombres, Haciendo
<1>19. UnDuenio
  <2>1. ASSUME NEW b \in Bits PROVE UnDuenioDe(b)
    <3>1. ASSUME NEW f \in archivos, NEW g \in archivos, b \in Range(f.bloques), b \in Range(g.bloques)
          PROVE  f = g
      <4>1. PICK i \in 1..n, p \in 0..P - 1 : f = Parte(i, p)
        BY <1>10
      <4>2. PICK j \in 1..n, q \in 0..P - 1 : g = Parte(j, q)
        BY <1>10
      <4>3. Numero(i, p) = b /\ Numero(j, q) = b
        BY <1>9, <3>1, <4>1, <4>2
      <4>4. QED
        BY <1>14, <4>1, <4>2, <4>3
    <3>2. ASSUME b \in bitarray PROVE \E f \in archivos : b \in Range(f.bloques)
      <4>1. PICK i \in 1..n, p \in 0..P - 1 : b = Numero(i, p)
        BY <1>5, <1>7, <3>2
      <4>2. QED
        BY <1>9, <1>11, <4>1
    <3>3. ASSUME NEW f \in archivos, b \in Range(f.bloques) PROVE b \in bitarray
      <4>1. PICK i \in 1..n, p \in 0..P - 1 : f = Parte(i, p)
        BY <1>10
      <4>2. b = Numero(i, p)
        BY <1>9, <3>3, <4>1
      <4>3. QED
        BY <1>5, <1>7, <4>2
    <3>4. QED
      BY <1>3, <1>13, <3>1, <3>2, <3>3 DEF UnDuenioDe
  <2>2. \A f \in archivos : SinRepetir(f.bloques, Sucios)
    BY <1>9, <1>10
  <2>3. \A h \in Hilos : SinRepetir(op[h].bloques, Sucios) /\ SinRepetir(op[h].libera, Sucios)
    BY <1>12, NadaEs DEF SinRepetir
  <2>4. QED
    BY <2>1, <2>2, <2>3 DEF UnDuenio
<1>20. ContenidoIntacto
  <2>1. SUFFICES ASSUME NEW f \in archivos, NEW b \in Range(f.bloques) PROVE escrito[b] = Id(f)
    BY DEF ContenidoIntacto
  <2>2. PICK i \in 1..n, p \in 0..P - 1 : f = Parte(i, p)
    BY <1>10
  <2>3. b = Numero(i, p) /\ b \in 0..m - 1
    <3>1. Range(f.bloques) = {Numero(i, p)}
      BY <1>9, <2>2, Zenon
    <3>2. Numero(i, p) \in 0..m - 1
      BY <1>5
    <3>3. QED
      BY <2>1, <3>1, <3>2, Zenon
  <2>4. (b \div P) + 1 = i /\ b % P = p
    BY <1>1, <1>5, <2>3
  <2>5. b < m /\ b \in Bits
    BY <1>4, <1>8, <2>3
  <2>6. escrito[b] = <<orden[i], TRUE, p>>
    BY <1>7, <2>4, <2>5
  <2>7. QED
    BY <1>9, <2>2, <2>6 DEF Id
<1>21. QED
  BY <1>15, <1>16, <1>17, <1>18, <1>19, <1>20

-----------------------------------------------------------------------------
(* The inductive invariant, and what follows from it.                      *)

Inductivo ==
  Tipos /\ EnManos /\ ConLlave /\ Nombres /\ UnDuenio /\ ContenidoIntacto

LEMMA PasoInductivo == Inductivo /\ [Next]_vars => Inductivo'
<1> SUFFICES ASSUME Inductivo, [Next]_vars PROVE Inductivo'
  OBVIOUS
<1>0. Tipos /\ EnManos /\ ConLlave /\ Nombres /\ UnDuenio /\ ContenidoIntacto
  BY DEF Inductivo
<1>1. CASE Next
  BY <1>0, <1>1, PasoTipos, PasoLlave, PasoNombres, PasoDuenio, PasoContenido DEF Inductivo
<1>2. CASE UNCHANGED vars
  <2>1. /\ UNCHANGED <<bitarray, archivos, escrito, tablas, rwLock, dropMx, pc, op>>
        /\ UNCHANGED <<dumps, bajas, perdidos, disputados>>
    BY <1>2 DEF vars, cuentas
  <2>2. Tipos' /\ EnManos'
    BY <1>0, <2>1 DEF Tipos, EnManos
  <2>3. ConLlave' /\ Nombres'
    BY <1>0, <2>1 DEF ConLlave, Nombres
  <2>4. \A b : UnDuenioDe(b) => UnDuenioDe(b)'
    BY <2>1 DEF UnDuenioDe
  <2>5. UnDuenio' /\ ContenidoIntacto'
    BY <1>0, <2>1, <2>4 DEF UnDuenio, Sucios, ContenidoIntacto
  <2>6. QED
    BY <2>2, <2>3, <2>5 DEF Inductivo
<1>3. QED
  BY <1>1, <1>2

LEMMA SiempreInductivo == Spec => []Inductivo
<1>1. Init => Inductivo
  BY Inicio DEF Inductivo
<1>2. QED
  BY <1>1, PasoInductivo, PTL DEF Spec

LEMMA TiposBastan ==
  ASSUME Inductivo
  PROVE  TypeOK
<1>1. Tipos /\ EnManos /\ ConLlave /\ Nombres
  BY DEF Inductivo
<1>2. \A f \in archivos : f \in Archivo /\ Len(f.bloques) <= MaxTam
  BY <1>1 DEF Tipos, ConLlave
<1>3. \A f, g \in archivos : f # g => <<f.tabla, f.clase, f.nro>> # <<g.tabla, g.clase, g.nro>>
  BY <1>1 DEF Nombres, Id
<1>4. pc \in [Hilos -> {"libre", "obtener", "leer", "marcar", "archivo", "tomar", "liberar",
                        "leerLibre", "limpiar", "particion"}]
  BY <1>1 DEF Tipos, Pasos
<1>5. \A h \in Hilos : op[h].pide \in 0..MaxTam /\ op[h].bloque \in Bits \cup {-1}
  BY <1>1 DEF Tipos, TipoDeObra
<1>6. QED
  BY <1>1, <1>2, <1>3, <1>4, <1>5 DEF TypeOK, Tipos

LEMMA EnUsoEs == \A b : b \in EnUso <=> b \in Bits /\ \E h \in Hilos : b \in Suyos(op[h])
<1> DEFINE U == UNION {Range(op[h].bloques) \cup Range(op[h].libera) : h \in Hilos}
<1>1. \A b : b \in U <=> \E h \in Hilos : b \in Suyos(op[h])
  BY DEF Suyos
<1>2. EnUso = Bits \cap U
  BY Zenon DEF EnUso
<1> HIDE DEF U
<1>3. QED
  BY <1>1, <1>2

LEMMA MarcasBastan ==
  ASSUME Inductivo
  PROVE  MarcasDeArchivos
<1>1. bitarray \subseteq Bits /\ perdidos \subseteq Bits /\ UnDuenio
  BY DEF Inductivo, Tipos
<1>2. ASSUME NEW b \in Bits \ disputados
      PROVE  b \in bitarray <=> b \in Nombrados \/ b \in EnUso \/ b \in perdidos
  <2>1. UnDuenioDe(b)
    BY <1>1 DEF UnDuenio
  <2>2. b \in Nombrados <=> \E f \in archivos : b \in Range(f.bloques)
    BY BloquesDeEs DEF Nombrados
  <2>3. b \in EnUso <=> \E h \in Hilos : b \in Suyos(op[h])
    BY EnUsoEs
  <2>4. QED
    BY <2>1, <2>2, <2>3 DEF UnDuenioDe
<1>3. Nombrados \subseteq Bits /\ EnUso \subseteq Bits
  BY DEF Nombrados, BloquesDe, EnUso
<1>4. QED
  BY <1>1, <1>2, <1>3 DEF MarcasDeArchivos

(* The blocks, the files and what the threads have at hand keep their      *)
(* types, and no two files have the same name.                             *)
THEOREM TipoCorrecto == Spec => []TypeOK
BY SiempreInductivo, TiposBastan, PTL

(* A block that a file names has the records of that file, unless two      *)
(* threads changed the bits of its byte at the same time: a full bitmap, a *)
(* file that is given up or a DROP never give a block to two files.        *)
THEOREM ArchivosIntactos == Spec => []ContenidoIntacto
<1>1. Inductivo => ContenidoIntacto
  BY DEF Inductivo
<1>2. QED
  BY <1>1, SiempreInductivo, PTL

(* The bits that are set are those of the blocks of files, of those that   *)
(* are being made or freed, and of those that nobody names any more.       *)
THEOREM MarcasCorrectas == Spec => []MarcasDeArchivos
BY SiempreInductivo, MarcasBastan, PTL
====
