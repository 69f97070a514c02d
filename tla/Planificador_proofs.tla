---- MODULE Planificador_proofs ----
(***************************************************************************)
(* Theorems of Planificador for any scripts, number of levels and bounds.  *)
(***************************************************************************)
EXTENDS Planificador, FiniteSetTheorems, FunctionTheorems, TLAPS

USE PlanificadorAssumption

-----------------------------------------------------------------------------
(* Sets that differ in one element, and the places of a value in a         *)
(* sequence.                                                               *)

Uno(b) == IF b THEN 1 ELSE 0

\* Of two finite sets that differ at most in x, the sizes differ by x.
LEMMA CambiaUno ==
  ASSUME NEW A, NEW B, NEW x, IsFiniteSet(A), A \ {x} = B \ {x}
  PROVE  /\ IsFiniteSet(B)
         /\ Cardinality(A) \in Nat /\ Cardinality(B) \in Nat
         /\ Cardinality(B) = Cardinality(A) + Uno(x \in B) - Uno(x \in A)
<1>. DEFINE C == A \ {x}
<1>1. /\ IsFiniteSet(C) /\ x \notin C
      /\ Cardinality(A) = Cardinality(C) + Uno(x \in A) /\ Cardinality(C) \in Nat
  BY FS_RemoveElement, FS_CardinalityType DEF Uno
<1>2. CASE x \in B
  <2>1. B = C \cup {x}
    BY <1>2
  <2>2. IsFiniteSet(B) /\ Cardinality(B) = Cardinality(C) + 1
    BY ONLY <1>1, <2>1, FS_AddElement
  <2>. QED
    BY <1>1, <1>2, <2>2 DEF Uno
<1>3. CASE x \notin B
  <2>1. B = C
    BY <1>3
  <2>. QED
    BY <1>1, <1>3, <2>1 DEF Uno
<1>. QED
  BY <1>2, <1>3

\* A set that has an element has at least one, and one that has two, two.
LEMMA AlMenos ==
  ASSUME NEW S, IsFiniteSet(S), NEW x \in S
  PROVE  /\ Cardinality(S) \in Nat \ {0}
         /\ \A y \in S : y # x => Cardinality(S) >= 2
<1>1. /\ IsFiniteSet(S \ {x}) /\ Cardinality(S \ {x}) = Cardinality(S) - 1
      /\ Cardinality(S \ {x}) \in Nat /\ Cardinality(S) \in Nat
  BY FS_RemoveElement, FS_CardinalityType
<1>2. ASSUME NEW y \in S, y # x PROVE Cardinality(S \ {x}) # 0
  BY <1>1, <1>2, FS_EmptySet
<1>. QED
  BY <1>1, <1>2

Lugares(s, g) == {i \in 1..Len(s) : s[i] = g}

LEMMA LugaresFinitos ==
  ASSUME NEW P, NEW s \in Seq(P), NEW g
  PROVE  IsFiniteSet(Lugares(s, g)) /\ Cardinality(Lugares(s, g)) \in Nat
<1>1. IsFiniteSet(1..Len(s)) /\ Lugares(s, g) \in SUBSET (1..Len(s))
  BY FS_Interval DEF Lugares
<1>. QED
  BY <1>1, FS_Subset, FS_CardinalityType

LEMMA LugaresAppend ==
  ASSUME NEW P, NEW s \in Seq(P), NEW x \in P, NEW g
  PROVE  Cardinality(Lugares(Append(s, x), g)) = Cardinality(Lugares(s, g)) + Uno(x = g)
<1>. DEFINE A == Lugares(s, g)
            B == Lugares(Append(s, x), g)
            n == Len(s) + 1
<1>1. IsFiniteSet(A)
  BY LugaresFinitos
<1>2. A \ {n} = B \ {n} /\ n \notin A /\ (n \in B <=> x = g)
  BY DEF Lugares
<1>. HIDE DEF A, B, n
<1>3. Cardinality(B) = Cardinality(A) + Uno(n \in B) - Uno(n \in A) /\ Cardinality(A) \in Nat
  BY ONLY <1>1, <1>2, CambiaUno
<1>. QED
  BY ONLY <1>2, <1>3 DEF A, B, Uno

LEMMA LugaresTail ==
  ASSUME NEW P, NEW s \in Seq(P), s # << >>, NEW g
  PROVE  Cardinality(Lugares(Tail(s), g)) = Cardinality(Lugares(s, g)) - Uno(Head(s) = g)
<1>. DEFINE A == Lugares(s, g)
            B == Lugares(Tail(s), g)
            f == [i \in A \ {1} |-> i - 1]
<1>1. IsFiniteSet(A) /\ IsFiniteSet(A \ {1}) /\ Cardinality(A) \in Nat
      /\ Cardinality(A \ {1}) = Cardinality(A) - Uno(1 \in A)
  BY LugaresFinitos, FS_RemoveElement DEF Uno
<1>2. 1 \in A <=> Head(s) = g
  BY DEF Lugares
<1>3. f \in Bijection(A \ {1}, B)
  <2>1. \A i \in A \ {1} : i \in 2..Len(s) /\ i - 1 \in B /\ f[i] = i - 1
    BY DEF Lugares
  <2>2. \A j \in B : j \in Int /\ j + 1 \in A \ {1}
    BY DEF Lugares
  <2>3. f \in [A \ {1} -> B]
    BY <2>1
  <2>. HIDE DEF f, A, B
  <2>4. \A i, j \in A \ {1} : f[i] = f[j] => i = j
    BY <2>1
  <2>5. \A j \in B : \E i \in A \ {1} : f[i] = j
    <3>. SUFFICES ASSUME NEW j \in B PROVE f[j + 1] = j
      BY <2>2
    <3>. QED
      BY <2>1, <2>2
  <2>. QED
    BY ONLY <2>3, <2>4, <2>5, Fun_IsBij
<1>4. Cardinality(B) = Cardinality(A \ {1})
  BY <1>1, <1>3, FS_Bijection DEF ExistsBijection
<1>. QED
  BY <1>1, <1>2, <1>4 DEF Uno

-----------------------------------------------------------------------------
(* The inductive invariant.                                                *)

EnMano == {"agregar", "devolver", "cerrar"}
Llevan(g) == {n \in Niveles : pcb[n] = g /\ pc[n] \in EnMano}
Cuenta(g) == Cardinality(Lugares(listos, g)) + ejecutando[g] + salidos[g] + Cardinality(Llevan(g))

Cuentas ==
  \A g \in Pedidos : Cuenta(g) = IF estado[g] \in {"ninguno", "nuevo"} THEN 0 ELSE 1

\* The console is adding a new PCB.
DeConsola == consola.paso = "listo" => consola.pedido \in Pedidos /\ estado[consola.pedido] = "nuevo"

\* What is in READY has that state.
EnListos == \A i \in 1..Len(listos) : estado[listos[i]] = "listo"

\* A script in READY has not failed, and its lines were taken one by one.
SinFallar ==
  \A g \in Pedidos : estado[g] \in {"ninguno", "nuevo", "listo"} =>
    ~fallo[g] /\ leidas[g] = progamCounter[g]

\* The file of a script is open until it ends.
Abiertos ==
  \A g \in Runs : estado[g] \in {"nuevo", "listo", "ejecucion"} /\ rafaga[g] >= 0 =>
    archivo[g] = "abierto"

\* g goes on: it is in EXEC, has lines left and none of them failed.
Sigue(g) == estado[g] = "ejecucion" /\ ~fallo[g] /\ progamCounter[g] < rafaga[g]

\* Its last line was executed, or one failed.
Acabado(g) ==
  estado[g] \in {"ejecucion", "exit"} /\ (fallo[g] \/ progamCounter[g] >= rafaga[g])

\* A level with lines left of its turn, or at the end of it with lines of the
\* script left...
EnTurno(n) ==
  \/ pc[n] \in {"leer", "resolver"}
  \/ pc[n] = "finQuantum" /\ progamCounter[pcb[n]] < rafaga[pcb[n]]

\* ... is the only one that may change the script.
Turno(n) ==
  LET g == pcb[n] IN
  /\ Sigue(g) /\ ejecutando[g] = 1
  /\ leidas[g] = progamCounter[g] + Uno(pc[n] = "resolver")
  /\ pc[n] # "finQuantum" => faltan[n] >= 1 /\ progamCounter[g] + faltan[n] <= rafaga[g]
  /\ \A m \in Niveles \ {n} : pcb[m] = g => pc[m] \in {"post", "fin"}

\* A level that is going to end a script...
Acaba(n) ==
  \/ pc[n] \in {"sacar", "cerrar"}
  \/ pc[n] = "finQuantum" /\ ~(progamCounter[pcb[n]] < rafaga[pcb[n]])

(* Of a level: it has no PCB while it has taken none; what it took from    *)
(* READY has that state; what it gives back goes on; it ends no script     *)
(* that goes on.                                                           *)
Nivel(n) ==
  /\ pcb[n] = Nadie <=> pc[n] \in {"esperar", "obtener"}
  /\ pc[n] = "agregar" => estado[pcb[n]] = "listo"
  /\ EnTurno(n) => Turno(n)
  /\ pc[n] = "devolver" => Sigue(pcb[n]) /\ leidas[pcb[n]] = progamCounter[pcb[n]]
  /\ Acaba(n) => Acabado(pcb[n])

Inv ==
  /\ TypeOK /\ Cuentas /\ DeConsola /\ EnListos /\ SinFallar /\ Abiertos
  /\ \A n \in Niveles : Nivel(n)

LEMMA PcbDeNivel ==
  ASSUME Inv, NEW n \in Niveles
  PROVE  /\ Nivel(n) /\ pcb[n] \in Pedidos \cup {Nadie}
         /\ pcb[n] \in Pedidos <=> pc[n] \notin {"esperar", "obtener"}
         /\ pc[n] \in {"esperar", "obtener", "agregar", "leer", "resolver", "finQuantum",
                        "devolver", "post", "fin", "sacar", "cerrar"}
<1>1. Nivel(n)
  BY DEF Inv
<1>2. pcb[n] \in Pedidos \cup {Nadie}
  BY DEF Inv, TypeOK
<1>3. pcb[n] = Nadie <=> pc[n] \in {"esperar", "obtener"}
  BY <1>1 DEF Nivel
<1>4. pc[n] \in {"esperar", "obtener", "agregar", "leer", "resolver", "finQuantum",
                "devolver", "post", "fin", "sacar", "cerrar"}
  BY DEF Inv, TypeOK
<1>. QED
  BY <1>1, <1>2, <1>3, <1>4 DEF PlanificadorAssumption

LEMMA ListosTipo ==
  ASSUME Inv
  PROVE  /\ listos \in Seq(Pedidos)
         /\ \A i \in 1..Len(listos) : listos[i] \in Pedidos /\ estado[listos[i]] = "listo"
BY DEF Inv, TypeOK, EnListos

LEMMA LlevanFinito ==
  ASSUME NEW g
  PROVE  IsFiniteSet(Llevan(g)) /\ Cardinality(Llevan(g)) \in Nat
<1>1. Llevan(g) \in SUBSET Niveles
  BY DEF Llevan
<1>. QED
  BY <1>1, FS_Subset, FS_CardinalityType DEF PlanificadorAssumption

LEMMA CuentaTipos ==
  ASSUME TypeOK, NEW g \in Pedidos
  PROVE  /\ Cardinality(Lugares(listos, g)) \in Nat /\ ejecutando[g] \in Nat /\ salidos[g] \in Nat
         /\ Cardinality(Llevan(g)) \in Nat
BY LugaresFinitos, LlevanFinito DEF TypeOK

\* When one level moves, the ones that have g at hand change by it.
LEMMA LlevanCambia ==
  ASSUME NEW n \in Niveles, NEW g,
         \A m \in Niveles \ {n} : pc'[m] = pc[m] /\ pcb'[m] = pcb[m]
  PROVE  Cardinality(Llevan(g)') =
           Cardinality(Llevan(g)) + Uno(pcb'[n] = g /\ pc'[n] \in EnMano)
                                  - Uno(pcb[n] = g /\ pc[n] \in EnMano)
<1>. DEFINE A == Llevan(g)
            B == Llevan(g)'
<1>1. IsFiniteSet(A)
  BY LlevanFinito
<1>2. /\ A \ {n} = B \ {n}
      /\ n \in A <=> (pcb[n] = g /\ pc[n] \in EnMano)
      /\ n \in B <=> (pcb'[n] = g /\ pc'[n] \in EnMano)
  BY DEF Llevan
<1>. HIDE DEF A, B
<1>3. Cardinality(B) = Cardinality(A) + Uno(n \in B) - Uno(n \in A)
  BY ONLY <1>1, <1>2, CambiaUno
<1>. QED
  BY ONLY <1>2, <1>3 DEF A, B, Uno

\* A PCB that a level has at hand is nowhere else.
LEMMA Exclusivo ==
  ASSUME Inv, NEW n \in Niveles, pc[n] \in EnMano
  PROVE  /\ pcb[n] \in Pedidos
         /\ ejecutando[pcb[n]] = 0 /\ salidos[pcb[n]] = 0
         /\ estado[pcb[n]] \notin {"ninguno", "nuevo"}
         /\ \A i \in 1..Len(listos) : listos[i] # pcb[n]
         /\ \A m \in Niveles \ {n} : pcb[m] = pcb[n] => pc[m] \notin EnMano
<1>. DEFINE g == pcb[n]
<1>1. g \in Pedidos
  BY PcbDeNivel DEF EnMano
<1>2. n \in Llevan(g) /\ IsFiniteSet(Llevan(g))
  BY LlevanFinito DEF Llevan
<1>3. /\ Cardinality(Llevan(g)) \in Nat \ {0}
      /\ \A m \in Llevan(g) : m # n => Cardinality(Llevan(g)) >= 2
  BY <1>2, AlMenos
<1>4. Cuenta(g) = IF estado[g] \in {"ninguno", "nuevo"} THEN 0 ELSE 1
  BY <1>1 DEF Inv, Cuentas
<1>7. /\ Cardinality(Lugares(listos, g)) \in Nat /\ ejecutando[g] \in Nat /\ salidos[g] \in Nat
  BY <1>1, CuentaTipos DEF Inv
<1>. HIDE DEF g
<1>5. /\ Cardinality(Lugares(listos, g)) = 0 /\ ejecutando[g] = 0 /\ salidos[g] = 0
      /\ Cardinality(Llevan(g)) = 1 /\ estado[g] \notin {"ninguno", "nuevo"}
  BY ONLY <1>7, <1>3, <1>4 DEF Cuenta
<1>6. Lugares(listos, g) = {}
  BY <1>5, <1>1, LugaresFinitos, FS_EmptySet DEF Inv, TypeOK
<1>. QED
  BY <1>1, <1>3, <1>5, <1>6 DEF g, Llevan, Lugares

\* A level that has a PCB at hand has it alone, but for those that only look
\* whether it ended, and those that end it.
LEMMA SoloEnMano ==
  ASSUME Inv, NEW n \in Niveles, pc[n] \in {"agregar", "devolver"},
         NEW m \in Niveles \ {n}, pcb[m] = pcb[n]
  PROVE  pc[m] \in {"post", "fin"}
<1>1. /\ pcb[n] \in Pedidos /\ ejecutando[pcb[n]] = 0 /\ pc[m] \notin EnMano
  BY Exclusivo DEF EnMano
<1>2. Nivel(m) /\ Nivel(n)
  BY DEF Inv
<1>3. ~EnTurno(m)
  BY <1>1, <1>2 DEF Turno, Nivel
<1>4. rafaga[pcb[n]] \in Int /\ progamCounter[pcb[n]] \in Int
  BY <1>1 DEF Inv, TypeOK
<1>5. ~Acabado(pcb[n])
  BY <1>2, <1>4 DEF Nivel, Acabado, Sigue
<1>6. ~Acaba(m) /\ pc[m] \notin {"esperar", "obtener"}
  BY <1>1, <1>2, <1>5 DEF Nivel, PlanificadorAssumption
<1>. QED
  BY <1>1, <1>3, <1>6 DEF Inv, TypeOK, EnTurno, Acaba, EnMano

\* A level that only looks, or has no PCB, needs nothing of the scripts.
LEMMA Mirando ==
  ASSUME NEW n \in Niveles,
         \/ pc'[n] \in {"post", "fin"} /\ pcb'[n] \in Pedidos
         \/ pc'[n] \in {"esperar", "obtener"} /\ pcb'[n] = Nadie
  PROVE  Nivel(n)'
BY DEF Nivel, EnTurno, Acaba, PlanificadorAssumption

\* A level that does not move and whose script is not touched.
LEMMA Ajeno ==
  ASSUME Inv, NEW n \in Niveles,
         pc'[n] = pc[n], pcb'[n] = pcb[n], faltan'[n] = faltan[n],
         pcb[n] \in Pedidos =>
           /\ estado'[pcb[n]] = estado[pcb[n]] /\ rafaga'[pcb[n]] = rafaga[pcb[n]]
           /\ progamCounter'[pcb[n]] = progamCounter[pcb[n]]
           /\ fallo'[pcb[n]] = fallo[pcb[n]] /\ leidas'[pcb[n]] = leidas[pcb[n]]
           /\ ejecutando'[pcb[n]] = ejecutando[pcb[n]],
         \A m \in Niveles \ {n} : pcb'[m] = pcb[n] =>
           pcb[m] = pcb[n] /\ (pc'[m] = pc[m] \/ pc'[m] \in {"post", "fin"})
  PROVE  Nivel(n)'
<1>1. Nivel(n) /\ pcb[n] \in Pedidos \cup {Nadie}
  BY DEF Inv, TypeOK
<1>2. CASE pcb[n] = Nadie
  BY <1>1, <1>2, Mirando DEF Nivel
<1>3. CASE pcb[n] \in Pedidos
  BY <1>1, <1>3 DEF Nivel, EnTurno, Turno, Sigue, Acaba, Acabado
<1>. QED
  BY <1>1, <1>2, <1>3

LEMMA InvInit == Init => Inv
<1>. SUFFICES ASSUME Init PROVE Inv
  OBVIOUS
<1>1. TypeOK
  BY DEF Init, TypeOK, PlanificadorAssumption
<1>2. Cuentas
  <2>. SUFFICES ASSUME NEW g \in Pedidos PROVE Cuenta(g) = 0
    BY DEF Init, Cuentas
  <2>1. Lugares(listos, g) = {} /\ Llevan(g) = {}
    BY DEF Init, Lugares, Llevan, EnMano
  <2>2. Cardinality(Lugares(listos, g)) = 0 /\ Cardinality(Llevan(g)) = 0
    BY <2>1, FS_EmptySet
  <2>3. ejecutando[g] = 0 /\ salidos[g] = 0
    BY DEF Init
  <2>. QED
    BY <2>2, <2>3 DEF Cuenta
<1>3. \A n \in Niveles : Nivel(n)
  BY DEF Init, Nivel, EnTurno, Acaba
<1>. QED
  BY <1>1, <1>2, <1>3 DEF Init, Inv, DeConsola, EnListos, SinFallar, Abiertos

-----------------------------------------------------------------------------
(* The steps. Each lemma has one step per conjunct of the invariant that   *)
(* the action can disturb.                                                 *)

LEMMA InvIngresar ==
  ASSUME Inv, NEW g \in Pedidos, Ingresar(g)
  PROVE  Inv'
<1>. USE DEF Ingresar, colas, nivel
<1>1. TypeOK'
  BY DEF Inv, TypeOK, RafagasDe, PlanificadorAssumption
<1>2. Cuentas'
  <2>1. \A h \in Pedidos : Cuenta(h)' = Cuenta(h)
    BY DEF Cuenta, Lugares, Llevan
  <2>2. \A h \in Pedidos : estado'[h] = estado[h] \/ {estado[h], estado'[h]} \subseteq {"ninguno", "nuevo"}
    BY DEF Inv, TypeOK
  <2>. QED
    BY <2>1, <2>2 DEF Inv, Cuentas
<1>3. DeConsola' /\ SinFallar' /\ Abiertos'
  BY DEF Inv, TypeOK, DeConsola, SinFallar, Abiertos
<1>4. \A h \in Pedidos : h # g => estado'[h] = estado[h] /\ rafaga'[h] = rafaga[h]
  BY DEF Inv, TypeOK
<1>5. EnListos'
  <2>1. \A i \in 1..Len(listos) : listos[i] \in Pedidos /\ listos[i] # g
    BY ListosTipo
  <2>. QED
    BY <1>4, <2>1 DEF Inv, EnListos
<1>6. ASSUME NEW n \in Niveles PROVE Nivel(n)'
  <2>2. CASE pcb[n] = g
    <3>1. pc[n] \in {"post", "fin"}
      BY <2>2, PcbDeNivel DEF Nivel, EnTurno, Turno, Sigue, Acaba, Acabado
    <3>. QED
      BY <2>2, <3>1, Mirando
  <2>3. CASE pcb[n] # g
    BY <1>4, <2>3, Ajeno
  <2>. QED
    BY <2>2, <2>3
<1>. QED
  BY <1>1, <1>2, <1>3, <1>5, <1>6 DEF Inv

LEMMA InvConsolaAListo ==
  ASSUME Inv, ConsolaAListo
  PROVE  Inv'
<1>. DEFINE g == consola.pedido
<1>. USE DEF ConsolaAListo, AgregarAListo, nivel
<1>1. g \in Pedidos /\ estado[g] = "nuevo"
  BY DEF Inv, DeConsola
<1>. HIDE DEF g
<1>2. /\ listos' = Append(listos, g) /\ listos' \in Seq(Pedidos)
      /\ estado' = [estado EXCEPT ![g] = "listo"]
  BY <1>1, ListosTipo DEF g
<1>3. TypeOK'
  <2>1. consola' \in [paso : {"libre", "listo", "post"}, pedido : Pedidos \cup {Nadie}]
    BY DEF Inv, TypeOK
  <2>2. estado' \in [Pedidos -> {"ninguno", "nuevo", "listo", "ejecucion", "exit"}]
    <3>1. estado \in [Pedidos -> {"ninguno", "nuevo", "listo", "ejecucion", "exit"}]
      BY DEF Inv, TypeOK
    <3>. QED
      BY ONLY <3>1, <1>2
  <2>. QED
    BY <1>2, <2>1, <2>2 DEF Inv, TypeOK
<1>4. \A h \in Pedidos : estado'[h] = IF h = g THEN "listo" ELSE estado[h]
  BY <1>2 DEF Inv, TypeOK
<1>5. Cuentas'
  <2>. SUFFICES ASSUME NEW h \in Pedidos
                PROVE Cuenta(h)' = IF estado'[h] \in {"ninguno", "nuevo"} THEN 0 ELSE 1
    BY DEF Cuentas
  <2>1. Cardinality(Lugares(listos', h)) = Cardinality(Lugares(listos, h)) + Uno(g = h)
    BY <1>1, <1>2, ListosTipo, LugaresAppend
  <2>2. Cardinality(Llevan(h)') = Cardinality(Llevan(h)) /\ ejecutando'[h] = ejecutando[h] /\ salidos'[h] = salidos[h]
    BY DEF Llevan
  <2>3. Cuenta(h) = IF estado[h] \in {"ninguno", "nuevo"} THEN 0 ELSE 1
    BY DEF Inv, Cuentas
  <2>4. /\ Cardinality(Lugares(listos, h)) \in Nat /\ ejecutando[h] \in Nat /\ salidos[h] \in Nat
        /\ Cardinality(Llevan(h)) \in Nat
    BY CuentaTipos DEF Inv
  <2>5. Cuenta(h)' = Cardinality(Lugares(listos', h)) + ejecutando'[h] + salidos'[h]
                       + Cardinality(Llevan(h)')
    BY DEF Cuenta, Lugares
  <2>6. Cuenta(h)' = Cuenta(h) + Uno(g = h)
    BY <2>1, <2>2, <2>4, <2>5 DEF Cuenta, Uno
  <2>. QED
    BY <1>1, <1>4, <2>3, <2>6 DEF Uno
<1>6. DeConsola' /\ SinFallar' /\ Abiertos'
  <2>1. DeConsola'
    BY DEF Inv, TypeOK, DeConsola
  <2>2. SinFallar'
    BY <1>1, <1>4 DEF Inv, SinFallar
  <2>3. Abiertos'
    BY <1>1, <1>4 DEF Inv, Abiertos, PlanificadorAssumption
  <2>. QED
    BY <2>1, <2>2, <2>3
<1>7. EnListos'
  <2>1. \A i \in 1..Len(listos) : estado'[listos[i]] = "listo"
    BY <1>4, ListosTipo
  <2>. QED
    BY <1>1, <1>2, <1>4, <2>1, ListosTipo DEF EnListos
<1>8. ASSUME NEW n \in Niveles PROVE Nivel(n)'
  <2>1. CASE pcb[n] = g
    <3>1. pc[n] \in {"post", "fin"}
      BY <1>1, <2>1, PcbDeNivel DEF Nivel, EnTurno, Turno, Sigue, Acaba, Acabado
    <3>. QED
      BY <1>1, <2>1, <3>1, Mirando
  <2>2. CASE pcb[n] # g
    BY <1>4, <2>2, Ajeno
  <2>. QED
    BY <2>1, <2>2
<1>. QED
  BY <1>3, <1>5, <1>6, <1>7, <1>8 DEF Inv

\* A step that changes neither queues, scripts nor levels.
LEMMA InvQuieto ==
  ASSUME Inv, TypeOK', UNCHANGED <<listos, ejecutando, salidos, pcbs, nivel>>,
         consola'.paso = "listo" => consola' = consola
  PROVE  Inv'
<1>. USE DEF pcbs, nivel
<1>1. Cuentas' /\ EnListos' /\ SinFallar' /\ Abiertos'
  <2>1. \A h \in Pedidos : Cuenta(h)' = Cuenta(h)
    BY DEF Cuenta, Lugares, Llevan
  <2>. QED
    BY <2>1 DEF Inv, Cuentas, EnListos, SinFallar, Abiertos
<1>2. DeConsola'
  BY DEF Inv, DeConsola
<1>3. \A n \in Niveles : Nivel(n)'
  BY Ajeno
<1>. QED
  BY <1>1, <1>2, <1>3 DEF Inv

LEMMA InvConsolaPost == Inv /\ ConsolaPost => Inv'
<1>. SUFFICES ASSUME Inv, ConsolaPost PROVE Inv'
  OBVIOUS
<1>1. TypeOK'
  BY DEF Inv, TypeOK, ConsolaPost, pcbs, nivel
<1>. QED
  BY <1>1, InvQuieto DEF ConsolaPost, pcbs, nivel

LEMMA InvSalir == Inv /\ (Salir \/ RecargarConfiguracion) => Inv'
<1>. SUFFICES ASSUME Inv, Salir \/ RecargarConfiguracion PROVE Inv'
  OBVIOUS
<1>1. TypeOK'
  BY DEF Inv, TypeOK, Salir, RecargarConfiguracion, colas, pcbs, nivel
<1>. QED
  BY <1>1, InvQuieto DEF Salir, RecargarConfiguracion, colas, pcbs, nivel

LEMMA InvSacarFalla ==
  ASSUME Inv, NEW n \in Niveles, SacarFalla(n)
  PROVE  Inv'
<1>1. TypeOK'
  BY DEF Inv, TypeOK, SacarFalla, colas, pcbs, nivel
<1>. QED
  BY <1>1, InvQuieto DEF SacarFalla, colas, pcbs, nivel

-----------------------------------------------------------------------------
(* The steps of a level. It changes no script but the one it executes.     *)

SoloToca(n) ==
  /\ \A m \in Niveles \ {n} : pc'[m] = pc[m] /\ pcb'[m] = pcb[m] /\ faltan'[m] = faltan[m]
  /\ \A h \in Pedidos \ {pcb[n]} :
       /\ estado'[h] = estado[h] /\ progamCounter'[h] = progamCounter[h]
       /\ fallo'[h] = fallo[h] /\ leidas'[h] = leidas[h] /\ archivo'[h] = archivo[h]
       /\ ejecutando'[h] = ejecutando[h] /\ salidos'[h] = salidos[h]
  /\ rafaga' = rafaga

LEMMA OtroGuion ==
  ASSUME Inv, NEW n \in Niveles, SoloToca(n), NEW m \in Niveles \ {n}, pcb[m] # pcb[n],
         pcb'[n] \in {pcb[n], Nadie}
  PROVE  Nivel(m)'
<1>1. pcb[m] \in Pedidos \cup {Nadie} /\ Nivel(m)
  BY PcbDeNivel
<1>2. CASE pcb[m] = Nadie
  BY <1>1, <1>2, Mirando DEF SoloToca, Nivel
<1>3. CASE pcb[m] \in Pedidos
  <2>1. \A k \in Niveles \ {m} : pcb'[k] = pcb[m] => pcb[k] = pcb[m] /\ pc'[k] = pc[k]
    BY <1>3 DEF SoloToca, PlanificadorAssumption
  <2>. QED
    BY <1>3, <2>1, Ajeno DEF SoloToca
<1>. QED
  BY <1>1, <1>2, <1>3

LEMMA CuentasDeNivel ==
  ASSUME Inv, NEW n \in Niveles, SoloToca(n), pcb[n] \in Pedidos,
         pcb'[n] \in {pcb[n], Nadie}, listos' = listos,
         ejecutando'[pcb[n]] \in Int, salidos'[pcb[n]] \in Int,
         {estado[pcb[n]], estado'[pcb[n]]} \cap {"ninguno", "nuevo"} = {},
         ejecutando'[pcb[n]] + salidos'[pcb[n]] + Uno(pcb'[n] = pcb[n] /\ pc'[n] \in EnMano)
           = ejecutando[pcb[n]] + salidos[pcb[n]] + Uno(pc[n] \in EnMano)
  PROVE  Cuentas'
<1>. SUFFICES ASSUME NEW h \in Pedidos
              PROVE Cuenta(h)' = IF estado'[h] \in {"ninguno", "nuevo"} THEN 0 ELSE 1
  BY DEF Cuentas
<1>1. Cuenta(h) = IF estado[h] \in {"ninguno", "nuevo"} THEN 0 ELSE 1
  BY DEF Inv, Cuentas
<1>2. Cardinality(Llevan(h)') =
        Cardinality(Llevan(h)) + Uno(pcb'[n] = h /\ pc'[n] \in EnMano)
                               - Uno(pcb[n] = h /\ pc[n] \in EnMano)
  BY LlevanCambia DEF SoloToca
<1>3. /\ Cardinality(Lugares(listos, h)) \in Nat /\ ejecutando[h] \in Nat /\ salidos[h] \in Nat
      /\ Cardinality(Llevan(h)) \in Nat
  BY CuentaTipos DEF Inv
<1>4. Cuenta(h)' = Cardinality(Lugares(listos, h)) + ejecutando'[h] + salidos'[h]
                     + Cardinality(Llevan(h)')
  BY DEF Cuenta, Lugares
<1>5. CASE h = pcb[n]
  <2>1. Cuenta(h)' = Cuenta(h)
    BY <1>2, <1>3, <1>4, <1>5 DEF Cuenta, Uno
  <2>. QED
    BY <1>1, <1>5, <2>1
<1>6. CASE h # pcb[n]
  <2>1. /\ estado'[h] = estado[h] /\ ejecutando'[h] = ejecutando[h] /\ salidos'[h] = salidos[h]
    BY <1>6 DEF SoloToca
  <2>2. pcb'[n] # h
    BY <1>6 DEF PlanificadorAssumption
  <2>3. Cuenta(h)' = Cuenta(h)
    BY <1>2, <1>3, <1>4, <1>6, <2>1, <2>2 DEF Cuenta, Uno
  <2>. QED
    BY <1>1, <2>1, <2>3
<1>. QED
  BY <1>5, <1>6

LEMMA GuionesDeNivel ==
  ASSUME Inv, NEW n \in Niveles, SoloToca(n), pcb[n] \in Pedidos,
         UNCHANGED <<listos, consola>>, estado[pcb[n]] # "nuevo",
         \A i \in 1..Len(listos) : listos[i] # pcb[n],
         estado'[pcb[n]] \in {"ejecucion", "exit"},
         estado'[pcb[n]] = "ejecucion" => estado[pcb[n]] \in {"listo", "ejecucion"}
                                         /\ archivo'[pcb[n]] = archivo[pcb[n]]
  PROVE  DeConsola' /\ EnListos' /\ SinFallar' /\ Abiertos'
<1>1. DeConsola'
  BY DEF Inv, DeConsola, SoloToca
<1>2. EnListos'
  BY ListosTipo DEF EnListos, SoloToca
<1>3. SinFallar'
  BY DEF Inv, SinFallar, SoloToca
<1>4. Abiertos'
  BY DEF Inv, Abiertos, SoloToca, PlanificadorAssumption
<1>. QED
  BY <1>1, <1>2, <1>3, <1>4

\* A script that is in EXEC or ended is not in READY.
LEMMA FueraDeListos ==
  ASSUME Inv, NEW g, estado[g] # "listo"
  PROVE  \A i \in 1..Len(listos) : listos[i] # g
BY ListosTipo

\* A level goes to another step.
LEMMA OtroPaso ==
  ASSUME TypeOK, NEW n \in Niveles, NEW p, Ir(n, p),
         p \in {"esperar", "obtener", "agregar", "leer", "resolver", "finQuantum",
                "devolver", "post", "fin", "sacar", "cerrar"}
  PROVE  /\ pc' \in [Niveles -> {"esperar", "obtener", "agregar", "leer", "resolver", "finQuantum",
                                 "devolver", "post", "fin", "sacar", "cerrar"}]
         /\ pc'[n] = p /\ \A m \in Niveles \ {n} : pc'[m] = pc[m]
<1>1. pc \in [Niveles -> {"esperar", "obtener", "agregar", "leer", "resolver", "finQuantum",
                         "devolver", "post", "fin", "sacar", "cerrar"}]
  BY DEF TypeOK
<1>2. pc' = [pc EXCEPT ![n] = p]
  BY DEF Ir
<1>. QED
  BY ONLY <1>1, <1>2, p \in {"esperar", "obtener", "agregar", "leer", "resolver", "finQuantum",
                             "devolver", "post", "fin", "sacar", "cerrar"}

LEMMA InvEsperar ==
  ASSUME Inv, NEW n \in Niveles, Esperar(n)
  PROVE  Inv'
<1>. USE DEF Esperar, Ir, pcbs
<1>1. TypeOK'
  BY DEF Inv, TypeOK
<1>2. pc' = [m \in Niveles |-> IF m = n THEN "obtener" ELSE pc[m]] /\ pcb[n] = Nadie
  BY PcbDeNivel DEF Inv, TypeOK
<1>3. Cuentas' /\ EnListos' /\ SinFallar' /\ Abiertos' /\ DeConsola'
  <2>1. \A h \in Pedidos : Cuenta(h)' = Cuenta(h)
    BY <1>2 DEF Cuenta, Lugares, Llevan, EnMano
  <2>. QED
    BY <2>1 DEF Inv, Cuentas, EnListos, SinFallar, Abiertos, DeConsola
<1>4. ASSUME NEW m \in Niveles PROVE Nivel(m)'
  <2>1. CASE m = n
    BY <1>2, <2>1, Mirando
  <2>2. CASE m # n
    <3>1. pcb[m] \in Pedidos => pcb[m] # pcb[n]
      BY <1>2 DEF PlanificadorAssumption
    <3>2. pc'[m] = pc[m] /\ \A k \in Niveles \ {n} : pc'[k] = pc[k]
      BY <1>2, <2>2
    <3>3. CASE pcb[m] = pcb[n]
      BY <1>2, <3>2, <3>3, Mirando, PcbDeNivel DEF Nivel
    <3>4. CASE pcb[m] # pcb[n]
      BY <2>2, <3>2, <3>4, Ajeno
    <3>. QED
      BY <3>3, <3>4
  <2>. QED
    BY <2>1, <2>2
<1>. QED
  BY <1>1, <1>3, <1>4 DEF Inv

LEMMA InvObtenerColaListos ==
  ASSUME Inv, NEW n \in Niveles, ObtenerColaListos(n)
  PROVE  Inv'
<1>. DEFINE g == Head(listos)
<1>. USE DEF ObtenerColaListos, Ir, pcbs
<1>1. /\ g \in Pedidos /\ estado[g] = "listo" /\ listos' \in Seq(Pedidos)
      /\ listos' = Tail(listos) /\ listos \in Seq(Pedidos) /\ listos # << >>
      /\ \A i \in 1..Len(listos') : listos'[i] = listos[i + 1] /\ i + 1 \in 1..Len(listos)
  BY ListosTipo
<1>. HIDE DEF g
<1>2. /\ pc' = [m \in Niveles |-> IF m = n THEN "agregar" ELSE pc[m]]
      /\ pcb' = [m \in Niveles |-> IF m = n THEN g ELSE pcb[m]]
      /\ pcb[n] = Nadie /\ pc[n] = "obtener"
  BY PcbDeNivel DEF Inv, TypeOK, g
<1>3. TypeOK'
  <2>1. listos' \in Seq(Pedidos)
    BY <1>1
  <2>2. pcb' \in [Niveles -> Pedidos \cup {Nadie}]
    <3>1. pcb \in [Niveles -> Pedidos \cup {Nadie}]
      BY DEF Inv, TypeOK
    <3>. QED
      BY ONLY <3>1, <1>1, <1>2
  <2>3. pc' \in [Niveles -> {"esperar", "obtener", "agregar", "leer", "resolver", "finQuantum",
                            "devolver", "post", "fin", "sacar", "cerrar"}]
    BY DEF Inv, TypeOK
  <2>. QED
    BY <2>1, <2>2, <2>3 DEF Inv, TypeOK
<1>4. Cuentas'
  <2>. SUFFICES ASSUME NEW h \in Pedidos PROVE Cuenta(h)' = Cuenta(h)
    BY DEF Cuentas, Inv
  <2>1. Cardinality(Lugares(listos', h)) = Cardinality(Lugares(listos, h)) - Uno(g = h)
    BY <1>1, LugaresTail DEF g
  <2>2. Cardinality(Llevan(h)') =
          Cardinality(Llevan(h)) + Uno(pcb'[n] = h /\ pc'[n] \in EnMano)
                                 - Uno(pcb[n] = h /\ pc[n] \in EnMano)
    BY <1>2, LlevanCambia
  <2>3. Uno(pcb'[n] = h /\ pc'[n] \in EnMano) = Uno(g = h) /\ Uno(pcb[n] = h /\ pc[n] \in EnMano) = 0
    BY <1>2 DEF EnMano, Uno
  <2>4. Uno(g = h) \in Nat
    BY DEF Uno
  <2>5. /\ Cardinality(Lugares(listos, h)) \in Nat /\ ejecutando[h] \in Nat /\ salidos[h] \in Nat
        /\ Cardinality(Llevan(h)) \in Nat
    BY CuentaTipos DEF Inv
  <2>6. Cuenta(h)' = Cardinality(Lugares(listos', h)) + ejecutando[h] + salidos[h]
                       + Cardinality(Llevan(h)')
    BY DEF Cuenta, Lugares
  <2>. QED
    BY ONLY <2>1, <2>2, <2>3, <2>4, <2>5, <2>6 DEF Cuenta
<1>5. EnListos' /\ SinFallar' /\ Abiertos' /\ DeConsola'
  <2>1. EnListos'
    BY <1>1, ListosTipo DEF EnListos
  <2>. QED
    BY <2>1 DEF Inv, SinFallar, Abiertos, DeConsola
<1>6. ASSUME NEW m \in Niveles PROVE Nivel(m)'
  <2>1. CASE m = n
    <3>1. pc'[m] = "agregar" /\ pcb'[m] = g
      BY <1>2, <2>1
    <3>. QED
      BY <1>1, <3>1 DEF Nivel, EnTurno, Acaba, PlanificadorAssumption
  <2>2. CASE m # n /\ pcb[m] = g
    <3>1. pc[m] \in {"post", "fin"}
      <4>1. listos[1] = g /\ 1 \in 1..Len(listos)
        BY <1>1 DEF g
      <4>2. pc[m] \notin EnMano
        BY <2>2, <4>1, Exclusivo
      <4>3. ~Sigue(pcb[m]) /\ ~Acabado(pcb[m])
        BY <1>1, <2>2 DEF Sigue, Acabado
      <4>4. ~EnTurno(m) /\ ~Acaba(m)
        BY <4>3, PcbDeNivel DEF Nivel, Turno
      <4>. QED
        BY <1>1, <2>2, <4>2, <4>4, PcbDeNivel DEF EnTurno, Acaba, EnMano
    <3>. QED
      BY <1>1, <1>2, <2>2, <3>1, Mirando
  <2>3. CASE m # n /\ pcb[m] # g
    <3>2. pc'[m] = pc[m] /\ pcb'[m] = pcb[m] /\ \A k \in Niveles \ {n} : pc'[k] = pc[k] /\ pcb'[k] = pcb[k]
      BY <1>2, <2>3
    <3>3. \A k \in Niveles \ {m} : pcb'[k] = pcb[m] => pcb[k] = pcb[m] /\ pc'[k] = pc[k]
      BY <1>2, <2>3
    <3>. QED
      BY <3>2, <3>3, Ajeno
  <2>. QED
    BY <2>1, <2>2, <2>3
<1>. QED
  BY <1>3, <1>4, <1>5, <1>6 DEF Inv

\* Two levels that end the same script do not disturb each other.
LEMMA OtroAcabado ==
  ASSUME Inv, NEW n \in Niveles, SoloToca(n), NEW m \in Niveles \ {n}, pcb[m] = pcb[n],
         pcb[n] \in Pedidos, Acabado(pcb[n]), progamCounter'[pcb[n]] = progamCounter[pcb[n]],
         fallo'[pcb[n]] = fallo[pcb[n]], estado'[pcb[n]] \in {"ejecucion", "exit"}
  PROVE  Nivel(m)'
<1>1. pc'[m] = pc[m] /\ pcb'[m] = pcb[m] /\ rafaga' = rafaga
  BY DEF SoloToca
<1>2. progamCounter[pcb[n]] \in Int /\ rafaga[pcb[n]] \in Int
  BY DEF Inv, TypeOK
<1>3. ~Sigue(pcb[m]) /\ estado[pcb[m]] # "listo"
  BY <1>2 DEF Sigue, Acabado
<1>4. ~EnTurno(m) /\ pc[m] \notin {"agregar", "devolver", "esperar", "obtener"}
  BY <1>3, PcbDeNivel DEF Nivel, Turno
<1>5. Acabado(pcb[m])'
  BY <1>1 DEF Acabado
<1>. QED
  BY <1>1, <1>4, <1>5 DEF Nivel, EnTurno, PlanificadorAssumption

\* A level that changes no script and takes none in its hands.
LEMMA InvMira ==
  ASSUME Inv, NEW n \in Niveles, TypeOK', SoloToca(n),
         UNCHANGED <<consola, listos, ejecutando, salidos, pcbs>>,
         pc[n] \notin EnMano, pc'[n] \notin EnMano, \A m \in Niveles : Nivel(m)'
  PROVE  Inv'
<1>1. \A h \in Pedidos : Llevan(h)' = Llevan(h)
  BY DEF Llevan, SoloToca
<1>2. \A h \in Pedidos : Cuenta(h)' = Cuenta(h)
  BY <1>1 DEF Cuenta, Lugares
<1>. QED
  BY <1>2 DEF Inv, Cuentas, EnListos, SinFallar, Abiertos, DeConsola, pcbs

LEMMA InvDevolverPost ==
  ASSUME Inv, NEW n \in Niveles, DevolverPost(n)
  PROVE  Inv'
<1>. USE DEF DevolverPost, Ir
<1>1. TypeOK'
  <2>1. semaforo' \in Nat
    BY DEF Inv, TypeOK
  <2>2. pc' \in [Niveles -> {"esperar", "obtener", "agregar", "leer", "resolver", "finQuantum",
                            "devolver", "post", "fin", "sacar", "cerrar"}]
    BY DEF Inv, TypeOK
  <2>. QED
    BY <2>1, <2>2 DEF Inv, TypeOK, pcbs
<1>2. /\ pc' = [m \in Niveles |-> IF m = n THEN "fin" ELSE pc[m]] /\ pc[n] = "post"
      /\ pcb[n] \in Pedidos
  BY PcbDeNivel DEF Inv, TypeOK
<1>3. SoloToca(n)
  BY <1>2 DEF SoloToca, pcbs
<1>4. ASSUME NEW m \in Niveles PROVE Nivel(m)'
  <2>1. CASE m = n
    BY <1>2, <2>1, Mirando
  <2>2. CASE m # n
    BY <1>2, <2>2, Ajeno DEF pcbs
  <2>. QED
    BY <2>1, <2>2
<1>. QED
  BY <1>1, <1>2, <1>3, <1>4, InvMira DEF EnMano

LEMMA InvFinEjecutar ==
  ASSUME Inv, NEW n \in Niveles, FinEjecutar(n)
  PROVE  Inv'
<1>. USE DEF FinEjecutar, colas
<1>1. TypeOK'
  <2>1. pcb' \in [Niveles -> Pedidos \cup {Nadie}]
    <3>1. pcb \in [Niveles -> Pedidos \cup {Nadie}]
      BY DEF Inv, TypeOK
    <3>2. pcb' = pcb \/ pcb' = [pcb EXCEPT ![n] = Nadie]
      OBVIOUS
    <3>. QED
      BY ONLY <3>1, <3>2
  <2>2. pc' \in [Niveles -> {"esperar", "obtener", "agregar", "leer", "resolver", "finQuantum",
                            "devolver", "post", "fin", "sacar", "cerrar"}]
    <3>1. Ir(n, "sacar") \/ Ir(n, "esperar")
      OBVIOUS
    <3>. QED
      BY <3>1, OtroPaso DEF Inv
  <2>. QED
    BY <2>1, <2>2 DEF Inv, TypeOK, pcbs
<1>2. /\ pc[n] = "fin" /\ pcb[n] \in Pedidos /\ \A m \in Niveles \ {n} : pc'[m] = pc[m] /\ pcb'[m] = pcb[m]
      /\ \/ FinDeRafaga(pcb[n]) /\ pc'[n] = "sacar" /\ pcb'[n] = pcb[n]
         \/ pc'[n] = "esperar" /\ pcb'[n] = Nadie
  <2>1. pc[n] = "fin" /\ pcb[n] \in Pedidos
    BY PcbDeNivel
  <2>2. CASE FinDeRafaga(pcb[n]) /\ Ir(n, "sacar") /\ pcb' = pcb
    BY <2>1, <2>2, OtroPaso DEF Inv
  <2>3. CASE Ir(n, "esperar") /\ pcb' = [pcb EXCEPT ![n] = Nadie]
    <3>1. pcb'[n] = Nadie /\ \A m \in Niveles \ {n} : pcb'[m] = pcb[m]
      BY <2>3 DEF Inv, TypeOK
    <3>. QED
      BY <2>1, <2>3, <3>1, OtroPaso DEF Inv
  <2>. QED
    BY <2>2, <2>3
<1>3. SoloToca(n)
  BY <1>2 DEF SoloToca, pcbs
<1>4. ASSUME NEW m \in Niveles PROVE Nivel(m)'
  <2>1. CASE pc'[n] = "esperar" /\ pcb'[n] = Nadie
    <3>1. CASE m = n
      BY <2>1, <3>1, Mirando
    <3>2. CASE m # n /\ pcb[m] # pcb[n]
      BY <1>3, <2>1, <3>2, OtroGuion
    <3>3. CASE m # n /\ pcb[m] = pcb[n]
      <4>1. \A k \in Niveles \ {m} : pcb'[k] = pcb[m] => pcb[k] = pcb[m] /\ pc'[k] = pc[k]
        BY <1>2, <2>1, <3>3 DEF PlanificadorAssumption
      <4>. QED
        BY <1>2, <3>3, <4>1, Ajeno DEF pcbs
    <3>. QED
      BY <3>1, <3>2, <3>3
  <2>2. CASE FinDeRafaga(pcb[n]) /\ pc'[n] = "sacar" /\ pcb'[n] = pcb[n]
    <3>1. Acabado(pcb[n]) /\ progamCounter[pcb[n]] \in Int
      BY <1>2, <2>2 DEF Inv, TypeOK, Acabado, FinDeRafaga
    <3>2. CASE m = n
      BY <1>2, <2>2, <3>1, <3>2 DEF Nivel, EnTurno, Acaba, Acabado, pcbs, PlanificadorAssumption
    <3>3. CASE m # n /\ pcb[m] # pcb[n]
      BY <1>3, <2>2, <3>3, OtroGuion
    <3>4. CASE m # n /\ pcb[m] = pcb[n]
      BY <1>2, <1>3, <3>1, <3>4, OtroAcabado DEF pcbs, Acabado
    <3>. QED
      BY <3>2, <3>3, <3>4
  <2>. QED
    BY <1>2, <2>1, <2>2
<1>. QED
  BY <1>1, <1>2, <1>3, <1>4, InvMira DEF EnMano

LEMMA InvSacarDeEjecucion ==
  ASSUME Inv, NEW n \in Niveles, SacarDeEjecucion(n)
  PROVE  Inv'
<1>. USE DEF SacarDeEjecucion, Ir
<1>0. pcb[n] \in Pedidos /\ pc[n] = "sacar" /\ Acabado(pcb[n])
  BY PcbDeNivel DEF Nivel, Acaba
<1>2. /\ ejecutando' = [h \in Pedidos |-> IF h = pcb[n] THEN ejecutando[h] - 1 ELSE ejecutando[h]]
      /\ pc' = [m \in Niveles |-> IF m = n THEN "cerrar" ELSE pc[m]]
      /\ ejecutando[pcb[n]] \in Nat /\ ejecutando[pcb[n]] > 0 /\ salidos[pcb[n]] \in Nat
  BY <1>0 DEF Inv, TypeOK
<1>1. TypeOK'
  <2>1. ejecutando' \in [Pedidos -> Nat]
    <3>1. ejecutando \in [Pedidos -> Nat]
      BY DEF Inv, TypeOK
    <3>. QED
      BY ONLY <3>1, <1>2
  <2>. QED
    BY <2>1 DEF Inv, TypeOK, pcbs
<1>3. SoloToca(n)
  BY <1>2 DEF SoloToca, pcbs
<1>4. Cuentas'
  <2>1. ejecutando'[pcb[n]] = ejecutando[pcb[n]] - 1 /\ pc'[n] = "cerrar"
    BY <1>0, <1>2
  <2>2. Uno(pcb'[n] = pcb[n] /\ pc'[n] \in EnMano) = 1 /\ Uno(pc[n] \in EnMano) = 0
    BY <1>0, <2>1 DEF Uno, EnMano
  <2>3. estado'[pcb[n]] \in {"ejecucion", "exit"} /\ estado[pcb[n]] \in {"ejecucion", "exit"}
    BY <1>0 DEF Acabado, pcbs
  <2>. QED
    BY <1>0, <1>2, <1>3, <2>1, <2>2, <2>3, CuentasDeNivel
<1>5. DeConsola' /\ EnListos' /\ SinFallar' /\ Abiertos'
  BY DEF Inv, DeConsola, EnListos, SinFallar, Abiertos, pcbs
<1>6. ASSUME NEW m \in Niveles PROVE Nivel(m)'
  <2>1. CASE m = n
    <3>1. Acabado(pcb[n])' /\ pc'[n] = "cerrar" /\ pcb'[n] # Nadie
      BY <1>0, <1>2 DEF Acabado, pcbs, PlanificadorAssumption
    <3>. QED
      BY <2>1, <3>1 DEF Nivel, EnTurno, Acaba
  <2>2. CASE m # n /\ pcb[m] # pcb[n]
    BY <1>3, <2>2, OtroGuion
  <2>3. CASE m # n /\ pcb[m] = pcb[n]
    BY <1>0, <1>3, <2>3, OtroAcabado DEF pcbs, Acabado
  <2>. QED
    BY <2>1, <2>2, <2>3
<1>. QED
  BY <1>1, <1>4, <1>5, <1>6 DEF Inv

LEMMA InvAgregarAExit ==
  ASSUME Inv, NEW n \in Niveles, AgregarAExit(n)
  PROVE  Inv'
<1>. USE DEF AgregarAExit, Ir
<1>0. pcb[n] \in Pedidos /\ pc[n] = "cerrar" /\ Acabado(pcb[n])
  BY PcbDeNivel DEF Nivel, Acaba
<1>2. /\ salidos' = [h \in Pedidos |-> IF h = pcb[n] THEN salidos[h] + 1 ELSE salidos[h]]
      /\ estado' = [h \in Pedidos |-> IF h = pcb[n] THEN "exit" ELSE estado[h]]
      /\ \A h \in Pedidos \ {pcb[n]} : archivo'[h] = archivo[h]
      /\ pc' = [m \in Niveles |-> IF m = n THEN "esperar" ELSE pc[m]]
      /\ pcb' = [m \in Niveles |-> IF m = n THEN Nadie ELSE pcb[m]]
      /\ ejecutando[pcb[n]] \in Nat /\ salidos[pcb[n]] \in Nat
  BY <1>0 DEF Inv, TypeOK
<1>1. TypeOK'
  <2>1. pcb' \in [Niveles -> Pedidos \cup {Nadie}]
    <3>1. pcb \in [Niveles -> Pedidos \cup {Nadie}]
      BY DEF Inv, TypeOK
    <3>. QED
      BY ONLY <3>1, <1>2
  <2>2. pc' \in [Niveles -> {"esperar", "obtener", "agregar", "leer", "resolver", "finQuantum",
                            "devolver", "post", "fin", "sacar", "cerrar"}]
    BY DEF Inv, TypeOK
  <2>3. estado' \in [Pedidos -> {"ninguno", "nuevo", "listo", "ejecucion", "exit"}]
    BY DEF Inv, TypeOK
  <2>4. archivo' \in [Pedidos -> {"no", "abierto", "cerrado"}]
    <3>1. archivo \in [Pedidos -> {"no", "abierto", "cerrado"}]
      BY DEF Inv, TypeOK
    <3>2. \E a \in {"no", "cerrado"} : archivo' = [archivo EXCEPT ![pcb[n]] = a]
      BY DEF AgregarAExit
    <3>. QED
      BY ONLY <3>1, <3>2
  <2>5. salidos' \in [Pedidos -> Nat]
    <3>1. salidos \in [Pedidos -> Nat]
      BY DEF Inv, TypeOK
    <3>. QED
      BY ONLY <3>1, <1>2
  <2>. QED
    BY <2>1, <2>2, <2>3, <2>4, <2>5 DEF Inv, TypeOK
<1>3. SoloToca(n)
  BY <1>2 DEF SoloToca
<1>4. Cuentas'
  <2>1. salidos'[pcb[n]] = salidos[pcb[n]] + 1 /\ pcb'[n] = Nadie /\ estado'[pcb[n]] = "exit"
    BY <1>0, <1>2
  <2>2. Uno(pcb'[n] = pcb[n] /\ pc'[n] \in EnMano) = 0 /\ Uno(pc[n] \in EnMano) = 1
    BY <1>0, <2>1 DEF Uno, EnMano, PlanificadorAssumption
  <2>3. estado[pcb[n]] \in {"ejecucion", "exit"}
    BY <1>0 DEF Acabado
  <2>. QED
    BY <1>0, <1>2, <1>3, <2>1, <2>2, <2>3, CuentasDeNivel
<1>5. DeConsola' /\ EnListos' /\ SinFallar' /\ Abiertos'
  <2>1. estado'[pcb[n]] = "exit" /\ estado[pcb[n]] \in {"ejecucion", "exit"}
    BY <1>0, <1>2 DEF Acabado
  <2>2. \A i \in 1..Len(listos) : listos[i] # pcb[n]
    BY <2>1, FueraDeListos
  <2>. QED
    BY <1>0, <1>3, <2>1, <2>2, GuionesDeNivel
<1>6. ASSUME NEW m \in Niveles PROVE Nivel(m)'
  <2>1. CASE m = n
    BY <1>2, <2>1, Mirando
  <2>2. CASE m # n /\ pcb[m] # pcb[n]
    BY <1>2, <1>3, <2>2, OtroGuion
  <2>3. CASE m # n /\ pcb[m] = pcb[n]
    BY <1>0, <1>2, <1>3, <2>3, OtroAcabado
  <2>. QED
    BY <2>1, <2>2, <2>3
<1>. QED
  BY <1>1, <1>4, <1>5, <1>6 DEF Inv

LEMMA InvAgregarAEjecutando ==
  ASSUME Inv, NEW n \in Niveles, AgregarAEjecutando(n)
  PROVE  Inv'
<1>. DEFINE g == pcb[n]
            lineas == LineasDelTurno(g)
<1>. USE DEF AgregarAEjecutando, Ir
<1>0. /\ g \in Pedidos /\ pc[n] = "agregar" /\ estado[g] = "listo" /\ ejecutando[g] = 0
      /\ salidos[g] \in Nat /\ ~fallo[g] /\ leidas[g] = progamCounter[g]
      /\ \A i \in 1..Len(listos) : listos[i] # g
  <2>1. g \in Pedidos /\ pc[n] = "agregar" /\ estado[g] = "listo"
    BY PcbDeNivel DEF Nivel
  <2>. QED
    BY <2>1, Exclusivo DEF EnMano, Inv, SinFallar, TypeOK
<1>2. /\ rafaga[g] \in -1..MaxRafaga /\ progamCounter[g] \in 0..MaxRafaga /\ quantum \in 1..MaxQuantum
      /\ MaxRafaga \in Nat /\ MaxQuantum \in Nat
  BY <1>0 DEF Inv, TypeOK, PlanificadorAssumption
<1>3. lineas \in Int /\ lineas <= MaxQuantum + MaxRafaga /\ progamCounter[g] + lineas <= rafaga[g]
  BY <1>2 DEF LineasDelTurno, QuantumEntero, Resto
<1>4. /\ pc' = [pc EXCEPT ![n] = IF lineas > 0 THEN "leer" ELSE "fin"]
      /\ faltan' = [faltan EXCEPT ![n] = IF lineas > 0 THEN lineas ELSE 0]
      /\ ejecutando' = [ejecutando EXCEPT ![g] = @ + 1]
      /\ estado' = [estado EXCEPT ![g] = "ejecucion"]
      /\ UNCHANGED <<vivo, quantum, consola, listos, salidos, semaforo, rafaga, progamCounter,
                     archivo, fallo, leidas, pcb>>
  OBVIOUS
<1>5. quantumEntero' = [quantumEntero EXCEPT ![n] = QuantumEntero(g)] /\ QuantumEntero(g) \in BOOLEAN
  BY DEF QuantumEntero
<1>. HIDE DEF AgregarAEjecutando, lineas
<1>6. TypeOK'
  <2>1. ejecutando' \in [Pedidos -> Nat]
    <3>1. ejecutando \in [Pedidos -> Nat]
      BY DEF Inv, TypeOK
    <3>. QED
      BY ONLY <3>1, <1>0, <1>4
  <2>2. faltan' \in [Niveles -> 0..MaxQuantum + MaxRafaga]
    <3>1. faltan \in [Niveles -> 0..MaxQuantum + MaxRafaga]
      BY DEF Inv, TypeOK
    <3>. QED
      BY ONLY <3>1, <1>2, <1>3, <1>4
  <2>3. pc' \in [Niveles -> {"esperar", "obtener", "agregar", "leer", "resolver", "finQuantum",
                            "devolver", "post", "fin", "sacar", "cerrar"}]
    BY <1>4 DEF Inv, TypeOK
  <2>4. estado' \in [Pedidos -> {"ninguno", "nuevo", "listo", "ejecucion", "exit"}]
    BY <1>4 DEF Inv, TypeOK
  <2>5. quantumEntero' \in [Niveles -> BOOLEAN]
    BY <1>5 DEF Inv, TypeOK
  <2>. QED
    BY <1>4, <2>1, <2>2, <2>3, <2>4, <2>5 DEF Inv, TypeOK
<1>7. /\ ejecutando'[g] = 1 /\ estado'[g] = "ejecucion"
      /\ pc'[n] = IF lineas > 0 THEN "leer" ELSE "fin"
      /\ faltan'[n] = IF lineas > 0 THEN lineas ELSE 0
  BY <1>0, <1>4 DEF Inv, TypeOK
<1>8. SoloToca(n)
  BY <1>0, <1>4 DEF SoloToca, Inv, TypeOK
<1>9. Cuentas'
  <2>1. Uno(pcb'[n] = pcb[n] /\ pc'[n] \in EnMano) = 0 /\ Uno(pc[n] \in EnMano) = 1
    BY <1>0, <1>7 DEF Uno, EnMano
  <2>. QED
    BY <1>0, <1>4, <1>7, <1>8, <2>1, CuentasDeNivel
<1>10. DeConsola' /\ EnListos' /\ SinFallar' /\ Abiertos'
  BY <1>0, <1>4, <1>7, <1>8, GuionesDeNivel
<1>11. \A m \in Niveles \ {n} : pcb[m] = g => pc[m] \in {"post", "fin"}
  BY <1>0, SoloEnMano
<1>12. ASSUME NEW m \in Niveles PROVE Nivel(m)'
  <2>1. CASE m = n /\ lineas > 0
    <3>1. Sigue(g)'
      BY <1>0, <1>2, <1>3, <1>4, <1>7, <2>1 DEF Sigue
    <3>2. leidas'[g] = progamCounter'[g] + Uno(pc'[n] = "resolver")
      BY <1>0, <1>2, <1>4, <1>7, <2>1 DEF Uno
    <3>3. faltan'[n] >= 1 /\ progamCounter'[g] + faltan'[n] <= rafaga'[g]
      BY <1>3, <1>4, <1>7, <2>1
    <3>4. \A k \in Niveles \ {n} : pcb'[k] = g => pc'[k] \in {"post", "fin"}
      BY <1>11, <1>4, <1>8 DEF SoloToca
    <3>5. Turno(n)'
      BY <1>4, <1>7, <3>1, <3>2, <3>3, <3>4 DEF Turno
    <3>6. pc'[n] = "leer" /\ pcb'[n] # Nadie
      BY <1>0, <1>4, <1>7, <2>1 DEF PlanificadorAssumption
    <3>. QED
      BY <2>1, <3>5, <3>6 DEF Nivel, Acaba
  <2>2. CASE m = n /\ ~(lineas > 0)
    BY <1>0, <1>4, <1>7, <2>2, Mirando
  <2>3. CASE m # n /\ pcb[m] = g
    BY <1>0, <1>4, <1>8, <1>11, <2>3, Mirando DEF SoloToca
  <2>4. CASE m # n /\ pcb[m] # g
    BY <1>4, <1>8, <2>4, OtroGuion
  <2>. QED
    BY <2>1, <2>2, <2>3, <2>4
<1>. QED
  BY <1>6, <1>9, <1>10, <1>12 DEF Inv

\* A level with a line at hand: what its turn says.
LEMMA ConLinea ==
  ASSUME Inv, NEW n \in Niveles, EnTurno(n)
  PROVE  /\ pcb[n] \in Pedidos /\ Turno(n)
         /\ rafaga[pcb[n]] \in -1..MaxRafaga /\ progamCounter[pcb[n]] \in 0..MaxRafaga
         /\ faltan[n] \in 0..MaxQuantum + MaxRafaga /\ salidos[pcb[n]] \in Nat
         /\ leidas[pcb[n]] \in 0..MaxRafaga /\ MaxRafaga \in Nat
         /\ \A i \in 1..Len(listos) : listos[i] # pcb[n]
<1>1. pcb[n] \in Pedidos /\ Turno(n)
  BY PcbDeNivel DEF Nivel, EnTurno
<1>2. estado[pcb[n]] # "listo"
  BY <1>1 DEF Turno, Sigue
<1>. QED
  BY <1>1, <1>2, FueraDeListos DEF Inv, TypeOK, PlanificadorAssumption

LEMMA InvLeerLinea ==
  ASSUME Inv, NEW n \in Niveles, LeerLinea(n)
  PROVE  Inv'
<1>. DEFINE g == pcb[n]
<1>1. /\ pc[n] = "leer" /\ pc' = [pc EXCEPT ![n] = "resolver"]
      /\ leidas' = [leidas EXCEPT ![g] = @ + 1]
      /\ UNCHANGED <<vivo, quantum, consola, colas, estado, rafaga, progamCounter, archivo, fallo,
                     pcb, faltan, quantumEntero>>
  BY DEF LeerLinea, Ir
<1>. USE DEF colas
<1>2. EnTurno(n)
  BY <1>1 DEF EnTurno
<1>3. /\ g \in Pedidos /\ Turno(n)
      /\ rafaga[g] \in -1..MaxRafaga /\ progamCounter[g] \in 0..MaxRafaga
      /\ leidas[g] \in 0..MaxRafaga /\ MaxRafaga \in Nat /\ salidos[g] \in Nat
      /\ \A i \in 1..Len(listos) : listos[i] # g
  BY <1>2, ConLinea
<1>4. /\ Sigue(g) /\ ejecutando[g] = 1 /\ leidas[g] = progamCounter[g]
      /\ faltan[n] >= 1 /\ progamCounter[g] + faltan[n] <= rafaga[g]
      /\ \A m \in Niveles \ {n} : pcb[m] = g => pc[m] \in {"post", "fin"}
  BY <1>1, <1>3 DEF Turno, Uno
<1>. HIDE DEF g
<1>5. TypeOK'
  <2>1. leidas' \in [Pedidos -> 0..MaxRafaga]
    <3>1. leidas \in [Pedidos -> 0..MaxRafaga]
      BY DEF Inv, TypeOK
    <3>2. leidas[g] + 1 \in 0..MaxRafaga
      BY <1>3, <1>4 DEF Sigue
    <3>. QED
      BY ONLY <1>1, <3>1, <3>2
  <2>2. pc' \in [Niveles -> {"esperar", "obtener", "agregar", "leer", "resolver", "finQuantum",
                            "devolver", "post", "fin", "sacar", "cerrar"}]
    BY <1>1 DEF Inv, TypeOK
  <2>. QED
    BY <1>1, <2>1, <2>2 DEF Inv, TypeOK
<1>6. /\ leidas'[g] = progamCounter[g] + 1 /\ pc'[n] = "resolver"
      /\ \A h \in Pedidos \ {g} : leidas'[h] = leidas[h]
      /\ \A m \in Niveles \ {n} : pc'[m] = pc[m]
  BY <1>1, <1>3, <1>4 DEF Inv, TypeOK
<1>7. SoloToca(n)
  BY <1>1, <1>6 DEF SoloToca, g
<1>8. estado[g] = "ejecucion" /\ estado' = estado
  BY <1>1, <1>4 DEF Sigue
<1>9. Cuentas'
  <2>1. Uno(pcb'[n] = pcb[n] /\ pc'[n] \in EnMano) = 0 /\ Uno(pc[n] \in EnMano) = 0
    BY <1>1, <1>6 DEF Uno, EnMano
  <2>. QED
    BY <1>1, <1>3, <1>4, <1>7, <1>8, <2>1, CuentasDeNivel DEF g
<1>10. DeConsola' /\ EnListos' /\ SinFallar' /\ Abiertos'
  BY <1>1, <1>3, <1>7, <1>8, GuionesDeNivel DEF g
<1>11. ASSUME NEW m \in Niveles PROVE Nivel(m)'
  <2>1. CASE m = n
    <3>1. leidas'[g] = progamCounter'[g] + Uno(pc'[n] = "resolver")
      BY <1>1, <1>6 DEF Uno
    <3>2. Sigue(g)'
      BY <1>1, <1>4 DEF Sigue, g
    <3>3. Turno(n)'
      BY <1>1, <1>4, <1>6, <3>1, <3>2 DEF Turno, g
    <3>4. pc'[n] = "resolver" /\ pcb'[n] # Nadie
      BY <1>1, <1>3, <1>6 DEF PlanificadorAssumption, g
    <3>. QED
      BY <2>1, <3>3, <3>4 DEF Nivel, Acaba
  <2>2. CASE m # n /\ pcb[m] = g
    BY <1>1, <1>3, <1>4, <1>6, <2>2, Mirando
  <2>3. CASE m # n /\ pcb[m] # g
    BY <1>1, <1>7, <2>3, OtroGuion DEF g
  <2>. QED
    BY <2>1, <2>2, <2>3
<1>. QED
  BY <1>5, <1>9, <1>10, <1>11 DEF Inv

LEMMA InvResolverLinea ==
  ASSUME Inv, NEW n \in Niveles, ResolverLinea(n)
  PROVE  Inv'
<1>. DEFINE g == pcb[n]
<1>. PICK e \in BOOLEAN :
       /\ fallo' = [fallo EXCEPT ![g] = e]
       /\ faltan' = [faltan EXCEPT ![n] = IF TrasLinea(n, e) = "leer" THEN @ - 1 ELSE 0]
       /\ quantumEntero' = [quantumEntero EXCEPT ![n] = @ /\ TrasLinea(n, e) = "leer"]
       /\ pc' = [pc EXCEPT ![n] = TrasLinea(n, e)]
  BY DEF ResolverLinea, Ir
<1>1. /\ pc[n] = "resolver" /\ progamCounter' = [progamCounter EXCEPT ![g] = @ + 1]
      /\ UNCHANGED <<vivo, quantum, consola, colas, estado, rafaga, archivo, leidas, pcb>>
  BY DEF ResolverLinea
<1>. USE DEF colas
<1>2. EnTurno(n)
  BY <1>1 DEF EnTurno
<1>3. /\ g \in Pedidos /\ Turno(n)
      /\ rafaga[g] \in -1..MaxRafaga /\ progamCounter[g] \in 0..MaxRafaga
      /\ faltan[n] \in 0..MaxQuantum + MaxRafaga
      /\ MaxRafaga \in Nat /\ salidos[g] \in Nat
      /\ \A i \in 1..Len(listos) : listos[i] # g
  BY <1>2, ConLinea
<1>4. /\ Sigue(g) /\ ejecutando[g] = 1 /\ leidas[g] = progamCounter[g] + 1
      /\ faltan[n] >= 1 /\ progamCounter[g] + faltan[n] <= rafaga[g]
      /\ \A m \in Niveles \ {n} : pcb[m] = g => pc[m] \in {"post", "fin"}
  BY <1>1, <1>3 DEF Turno, Uno
<1>5. \/ e /\ TrasLinea(n, e) = "sacar"
      \/ ~e /\ TrasLinea(n, e) = "leer" /\ faltan[n] > 1
      \/ ~e /\ TrasLinea(n, e) = "finQuantum"
      \/ TrasLinea(n, e) = "fin"
  BY DEF TrasLinea
<1>. HIDE DEF g
<1>6. TypeOK'
  <2>1. progamCounter' \in [Pedidos -> 0..MaxRafaga]
    <3>1. progamCounter \in [Pedidos -> 0..MaxRafaga]
      BY DEF Inv, TypeOK
    <3>2. progamCounter[g] + 1 \in 0..MaxRafaga
      BY <1>3, <1>4 DEF Sigue
    <3>. QED
      BY ONLY <1>1, <3>1, <3>2
  <2>2. pc' \in [Niveles -> {"esperar", "obtener", "agregar", "leer", "resolver", "finQuantum",
                            "devolver", "post", "fin", "sacar", "cerrar"}]
    BY <1>5 DEF Inv, TypeOK
  <2>3. faltan' \in [Niveles -> 0..MaxQuantum + MaxRafaga]
    <3>1. faltan \in [Niveles -> 0..MaxQuantum + MaxRafaga]
      BY DEF Inv, TypeOK
    <3>2. /\ MaxQuantum \in Nat /\ MaxRafaga \in Nat
          /\ faltan[n] - 1 \in 0..MaxQuantum + MaxRafaga /\ 0 \in 0..MaxQuantum + MaxRafaga
      BY <1>3, <1>4 DEF PlanificadorAssumption
    <3>3. \E v \in 0..MaxQuantum + MaxRafaga : faltan' = [faltan EXCEPT ![n] = v]
      BY <3>2
    <3>. QED
      BY ONLY <3>1, <3>3
  <2>4. fallo' \in [Pedidos -> BOOLEAN]
    BY DEF Inv, TypeOK
  <2>5. quantumEntero' \in [Niveles -> BOOLEAN]
    <3>1. quantumEntero \in [Niveles -> BOOLEAN]
      BY DEF Inv, TypeOK
    <3>2. \E v \in BOOLEAN : quantumEntero' = [quantumEntero EXCEPT ![n] = v]
      OBVIOUS
    <3>. QED
      BY ONLY <3>1, <3>2
  <2>. QED
    BY <1>1, <2>1, <2>2, <2>3, <2>4, <2>5 DEF Inv, TypeOK
<1>7. /\ progamCounter'[g] = progamCounter[g] + 1 /\ fallo'[g] = e /\ pc'[n] = TrasLinea(n, e)
      /\ faltan'[n] = IF TrasLinea(n, e) = "leer" THEN faltan[n] - 1 ELSE 0
      /\ \A h \in Pedidos \ {g} : progamCounter'[h] = progamCounter[h] /\ fallo'[h] = fallo[h]
      /\ \A m \in Niveles \ {n} : pc'[m] = pc[m] /\ faltan'[m] = faltan[m]
  BY <1>1, <1>3 DEF Inv, TypeOK
<1>8. SoloToca(n)
  BY <1>1, <1>7 DEF SoloToca, g
<1>9. estado[g] = "ejecucion" /\ estado' = estado
  BY <1>1, <1>4 DEF Sigue
<1>10. Cuentas'
  <2>1. Uno(pcb'[n] = pcb[n] /\ pc'[n] \in EnMano) = 0 /\ Uno(pc[n] \in EnMano) = 0
    BY <1>1, <1>5, <1>7 DEF Uno, EnMano
  <2>. QED
    BY <1>1, <1>3, <1>4, <1>8, <1>9, <2>1, CuentasDeNivel DEF g
<1>11. DeConsola' /\ EnListos' /\ SinFallar' /\ Abiertos'
  BY <1>1, <1>3, <1>8, <1>9, GuionesDeNivel DEF g
<1>12. pcb'[n] = g /\ pcb'[n] \in Pedidos /\ pcb'[n] # Nadie
  BY <1>1, <1>3 DEF g, PlanificadorAssumption
<1>13. \A m \in Niveles \ {n} : pcb'[m] = g => pc'[m] \in {"post", "fin"}
  BY <1>1, <1>4, <1>7
<1>14. Nivel(n)'
  <2>1. CASE e /\ TrasLinea(n, e) = "sacar"
    <3>1. Acabado(pcb[n])'
      BY <1>1, <1>7, <1>9, <1>12, <2>1 DEF Acabado, g
    <3>. QED
      BY <1>7, <1>12, <2>1, <3>1 DEF Nivel, EnTurno, Acaba
  <2>2. CASE ~e /\ TrasLinea(n, e) = "leer" /\ faltan[n] > 1
    <3>1. Sigue(pcb[n])'
      BY <1>1, <1>3, <1>4, <1>7, <1>9, <1>12, <2>2 DEF Sigue, g
    <3>2. leidas'[g] = progamCounter'[g] + Uno(pc'[n] = "resolver")
      BY <1>1, <1>3, <1>4, <1>7, <2>2 DEF Uno
    <3>3. faltan'[n] >= 1 /\ progamCounter'[g] + faltan'[n] <= rafaga'[g]
      BY <1>1, <1>3, <1>4, <1>7, <2>2
    <3>4. Turno(n)'
      BY <1>1, <1>4, <1>12, <1>13, <3>1, <3>2, <3>3 DEF Turno, g
    <3>. QED
      BY <1>7, <1>12, <2>2, <3>4 DEF Nivel, Acaba
  <2>3. CASE ~e /\ TrasLinea(n, e) = "finQuantum"
    <3>1. CASE progamCounter'[g] < rafaga'[g]
      <4>1. Sigue(pcb[n])'
        BY <1>7, <1>9, <1>12, <2>3, <3>1 DEF Sigue
      <4>2. leidas'[g] = progamCounter'[g] + Uno(pc'[n] = "resolver")
        BY <1>1, <1>3, <1>4, <1>7, <2>3 DEF Uno
      <4>3. Turno(n)'
        BY <1>1, <1>4, <1>7, <1>12, <1>13, <2>3, <4>1, <4>2 DEF Turno, g
      <4>. QED
        BY <1>7, <1>12, <2>3, <3>1, <4>3 DEF Nivel, Acaba
    <3>2. CASE ~(progamCounter'[g] < rafaga'[g])
      <4>1. Acabado(pcb[n])'
        BY <1>1, <1>3, <1>7, <1>9, <1>12, <3>2 DEF Acabado
      <4>. QED
        BY <1>7, <1>12, <2>3, <3>2, <4>1 DEF Nivel, EnTurno
    <3>. QED
      BY <3>1, <3>2
  <2>4. CASE TrasLinea(n, e) = "fin"
    BY <1>7, <1>12, <2>4, Mirando
  <2>. QED
    BY <1>5, <2>1, <2>2, <2>3, <2>4
<1>15. ASSUME NEW m \in Niveles PROVE Nivel(m)'
  <2>1. CASE m # n /\ pcb[m] = g
    BY <1>1, <1>3, <1>4, <1>7, <2>1, Mirando
  <2>2. CASE m # n /\ pcb[m] # g
    BY <1>1, <1>8, <2>2, OtroGuion DEF g
  <2>. QED
    BY <1>14, <2>1, <2>2
<1>. QED
  BY <1>6, <1>10, <1>11, <1>15 DEF Inv

LEMMA InvFinQuantum ==
  ASSUME Inv, NEW n \in Niveles, FinQuantum(n)
  PROVE  Inv'
<1>. USE DEF pcbs
<1>1. /\ pc[n] = "finQuantum" /\ pcb[n] \in Pedidos
      /\ UNCHANGED <<vivo, quantum, consola, listos, salidos, semaforo, pcbs, pcb, faltan,
                     quantumEntero>>
      /\ \A m \in Niveles \ {n} : pc'[m] = pc[m]
  BY PcbDeNivel, OtroPaso DEF Inv, FinQuantum
<1>2. /\ progamCounter[pcb[n]] \in Int /\ rafaga[pcb[n]] \in Int /\ salidos[pcb[n]] \in Nat
      /\ ejecutando[pcb[n]] \in Nat /\ pcb[n] # Nadie
  BY <1>1 DEF Inv, TypeOK, PlanificadorAssumption
<1>3. CASE pc'[n] = "devolver"
  <2>1. /\ progamCounter[pcb[n]] < rafaga[pcb[n]]
        /\ ejecutando' = [ejecutando EXCEPT ![pcb[n]] = @ - 1]
        /\ Ir(n, "devolver")
    BY <1>1, <1>2, <1>3, OtroPaso DEF Inv, FinQuantum
  <2>2. Turno(n)
    BY <1>1, <2>1, PcbDeNivel DEF EnTurno, Nivel
  <2>3. /\ Sigue(pcb[n]) /\ ejecutando[pcb[n]] = 1 /\ leidas[pcb[n]] = progamCounter[pcb[n]]
        /\ \A m \in Niveles \ {n} : pcb[m] = pcb[n] => pc[m] \in {"post", "fin"}
    BY <1>1, <1>2, <2>2 DEF Turno, Uno
  <2>4. TypeOK'
    <3>1. ejecutando' \in [Pedidos -> Nat]
      <4>1. ejecutando \in [Pedidos -> Nat]
        BY DEF Inv, TypeOK
      <4>. QED
        BY ONLY <4>1, <1>1, <2>1, <2>3
    <3>2. pc' \in [Niveles -> {"esperar", "obtener", "agregar", "leer", "resolver", "finQuantum",
                              "devolver", "post", "fin", "sacar", "cerrar"}]
      BY <2>1, OtroPaso DEF Inv
    <3>. QED
      BY <1>1, <3>1, <3>2 DEF Inv, TypeOK
  <2>5. /\ ejecutando'[pcb[n]] = 0
        /\ \A h \in Pedidos \ {pcb[n]} : ejecutando'[h] = ejecutando[h]
    BY <1>1, <2>1, <2>3 DEF Inv, TypeOK
  <2>6. SoloToca(n)
    BY <1>1, <2>5 DEF SoloToca
  <2>7. Cuentas'
    <3>1. Uno(pcb'[n] = pcb[n] /\ pc'[n] \in EnMano) = 1 /\ Uno(pc[n] \in EnMano) = 0
      BY <1>1, <1>3 DEF Uno, EnMano
    <3>. QED
      BY <1>1, <1>2, <2>3, <2>5, <2>6, <3>1, CuentasDeNivel DEF Sigue
  <2>8. DeConsola' /\ EnListos' /\ SinFallar' /\ Abiertos'
    BY <1>1 DEF Inv, DeConsola, EnListos, SinFallar, Abiertos
  <2>9. ASSUME NEW m \in Niveles PROVE Nivel(m)'
    <3>1. CASE m = n
      BY <1>1, <1>2, <1>3, <2>3, <3>1 DEF Nivel, EnTurno, Acaba, Sigue
    <3>2. CASE m # n /\ pcb[m] = pcb[n]
      BY <1>1, <2>3, <3>2, Mirando
    <3>3. CASE m # n /\ pcb[m] # pcb[n]
      BY <1>1, <2>6, <3>3, OtroGuion
    <3>. QED
      BY <3>1, <3>2, <3>3
  <2>. QED
    BY <2>4, <2>7, <2>8, <2>9 DEF Inv
<1>4. CASE pc'[n] # "devolver"
  <2>1. /\ UNCHANGED ejecutando
        /\ \/ Ir(n, "sacar") /\ ~(progamCounter[pcb[n]] < rafaga[pcb[n]])
           \/ Ir(n, "fin")
    BY <1>1, <1>2, <1>4, OtroPaso DEF Inv, FinQuantum
  <2>2. TypeOK'
    <3>2. pc' \in [Niveles -> {"esperar", "obtener", "agregar", "leer", "resolver", "finQuantum",
                              "devolver", "post", "fin", "sacar", "cerrar"}]
      BY <2>1, OtroPaso DEF Inv
    <3>. QED
      BY <1>1, <2>1, <3>2 DEF Inv, TypeOK
  <2>3. \/ pc'[n] = "sacar" /\ ~(progamCounter[pcb[n]] < rafaga[pcb[n]])
        \/ pc'[n] = "fin"
    BY <2>1, OtroPaso DEF Inv
  <2>4. SoloToca(n)
    BY <1>1, <2>1 DEF SoloToca
  <2>5. ASSUME NEW m \in Niveles PROVE Nivel(m)'
    <3>1. CASE m # n /\ pcb[m] # pcb[n]
      BY <1>1, <2>4, <3>1, OtroGuion
    <3>2. CASE pc'[n] = "fin" /\ pcb[m] = pcb[n]
      <4>1. CASE m = n
        BY <1>1, <3>2, <4>1, Mirando
      <4>2. CASE m # n
        BY <1>1, <2>1, <3>2, <4>2, Ajeno
      <4>. QED
        BY <4>1, <4>2
    <3>3. CASE pc'[n] = "sacar" /\ ~(progamCounter[pcb[n]] < rafaga[pcb[n]]) /\ pcb[m] = pcb[n]
      <4>1. Acabado(pcb[n])
        BY <1>1, <3>3, PcbDeNivel DEF Nivel, Acaba
      <4>2. CASE m = n
        BY <1>1, <1>2, <3>3, <4>1, <4>2 DEF Nivel, EnTurno, Acaba, Acabado
      <4>3. CASE m # n
        BY <1>1, <2>4, <3>3, <4>1, <4>3, OtroAcabado DEF Acabado
      <4>. QED
        BY <4>2, <4>3
    <3>. QED
      BY <2>3, <3>1, <3>2, <3>3
  <2>. QED
    BY <1>1, <2>1, <2>2, <2>3, <2>4, <2>5, InvMira DEF EnMano
<1>. QED
  BY <1>3, <1>4

LEMMA InvDevolver ==
  ASSUME Inv, NEW n \in Niveles, Devolver(n)
  PROVE  Inv'
<1>. DEFINE g == pcb[n]
<1>1. /\ pc[n] = "devolver" /\ g \in Pedidos /\ Sigue(g) /\ leidas[g] = progamCounter[g]
      /\ estado' = [estado EXCEPT ![g] = "listo"] /\ listos' = Append(listos, g)
      /\ pc'[n] = "post" /\ \A m \in Niveles \ {n} : pc'[m] = pc[m]
      /\ UNCHANGED <<vivo, quantum, consola, ejecutando, salidos, semaforo, rafaga, progamCounter,
                     archivo, fallo, leidas, pcb, faltan, quantumEntero>>
  BY PcbDeNivel, OtroPaso DEF Inv, Devolver, AgregarAListo, Nivel
<1>2. /\ pc' \in [Niveles -> {"esperar", "obtener", "agregar", "leer", "resolver", "finQuantum",
                              "devolver", "post", "fin", "sacar", "cerrar"}]
  BY OtroPaso DEF Inv, Devolver
<1>3. \A m \in Niveles \ {n} : pcb[m] = g => pc[m] \in {"post", "fin"}
  BY <1>1, SoloEnMano
<1>. HIDE DEF g
<1>4. \A h \in Pedidos : estado'[h] = IF h = g THEN "listo" ELSE estado[h]
  BY <1>1 DEF Inv, TypeOK
<1>5. TypeOK'
  <2>1. estado' \in [Pedidos -> {"ninguno", "nuevo", "listo", "ejecucion", "exit"}]
    <3>1. estado \in [Pedidos -> {"ninguno", "nuevo", "listo", "ejecucion", "exit"}]
      BY DEF Inv, TypeOK
    <3>. QED
      BY ONLY <3>1, <1>1
  <2>2. listos' \in Seq(Pedidos)
    BY <1>1, ListosTipo
  <2>. QED
    BY <1>1, <1>2, <2>1, <2>2 DEF Inv, TypeOK
<1>6. Cuentas'
  <2>. SUFFICES ASSUME NEW h \in Pedidos
                PROVE Cuenta(h)' = IF estado'[h] \in {"ninguno", "nuevo"} THEN 0 ELSE 1
    BY DEF Cuentas
  <2>1. Cardinality(Lugares(listos', h)) = Cardinality(Lugares(listos, h)) + Uno(g = h)
    BY <1>1, ListosTipo, LugaresAppend
  <2>2. Cardinality(Llevan(h)') =
          Cardinality(Llevan(h)) + Uno(pcb'[n] = h /\ pc'[n] \in EnMano)
                                 - Uno(pcb[n] = h /\ pc[n] \in EnMano)
    BY <1>1, LlevanCambia
  <2>3. Uno(pcb'[n] = h /\ pc'[n] \in EnMano) = 0 /\ Uno(pcb[n] = h /\ pc[n] \in EnMano) = Uno(g = h)
    BY <1>1 DEF EnMano, Uno, g
  <2>4. Cuenta(h) = IF estado[h] \in {"ninguno", "nuevo"} THEN 0 ELSE 1
    BY DEF Inv, Cuentas
  <2>5. /\ Cardinality(Lugares(listos, h)) \in Nat /\ ejecutando[h] \in Nat /\ salidos[h] \in Nat
        /\ Cardinality(Llevan(h)) \in Nat
    BY CuentaTipos DEF Inv
  <2>6. Cuenta(h)' = Cardinality(Lugares(listos', h)) + ejecutando[h] + salidos[h]
                       + Cardinality(Llevan(h)')
    BY <1>1 DEF Cuenta, Lugares
  <2>7. Uno(g = h) \in Nat
    BY DEF Uno
  <2>8. Cuenta(h)' = Cuenta(h)
    BY ONLY <2>1, <2>2, <2>3, <2>5, <2>6, <2>7 DEF Cuenta
  <2>9. estado'[h] \in {"ninguno", "nuevo"} <=> estado[h] \in {"ninguno", "nuevo"}
    BY <1>1, <1>4 DEF Sigue
  <2>. QED
    BY <2>4, <2>8, <2>9
<1>7. DeConsola' /\ SinFallar' /\ Abiertos' /\ EnListos'
  <2>1. DeConsola'
    BY <1>1, <1>4 DEF Inv, DeConsola, Sigue
  <2>2. SinFallar'
    BY <1>1, <1>4 DEF Inv, SinFallar, Sigue
  <2>3. Abiertos'
    BY <1>1, <1>4 DEF Inv, Abiertos, Sigue, PlanificadorAssumption
  <2>4. EnListos'
    <3>1. \A i \in 1..Len(listos) : estado'[listos[i]] = "listo"
      BY <1>4, ListosTipo
    <3>. QED
      BY <1>1, <1>4, <3>1, ListosTipo DEF EnListos
  <2>. QED
    BY <2>1, <2>2, <2>3, <2>4
<1>8. ASSUME NEW m \in Niveles PROVE Nivel(m)'
  <2>1. CASE pcb[m] = g
    <3>1. pc'[m] \in {"post", "fin"}
      BY <1>1, <1>3, <2>1
    <3>. QED
      BY <1>1, <2>1, <3>1, Mirando
  <2>2. CASE pcb[m] # g
    <3>1. m # n
      BY <2>2 DEF g
    <3>. QED
      BY <1>1, <1>4, <2>2, <3>1, Ajeno DEF g
  <2>. QED
    BY <2>1, <2>2
<1>. QED
  BY <1>5, <1>6, <1>7, <1>8 DEF Inv

-----------------------------------------------------------------------------
LEMMA InvNext == Inv /\ [Next]_vars => Inv'
<1>. SUFFICES ASSUME Inv, [Next]_vars PROVE Inv'
  OBVIOUS
<1>1. CASE Next
  <2>1. CASE Consola
    BY <2>1, InvConsolaAListo, InvConsolaPost DEF Consola
  <2>2. CASE \E g \in Pedidos : Ingresar(g)
    BY <2>2, InvIngresar
  <2>3. CASE Salir \/ RecargarConfiguracion
    BY <2>3, InvSalir
  <2>4. ASSUME NEW n \in Niveles, Ejecutar(n) PROVE Inv'
    BY <2>4, InvEsperar, InvObtenerColaListos, InvAgregarAEjecutando, InvLeerLinea,
       InvResolverLinea, InvFinQuantum, InvDevolver, InvDevolverPost, InvFinEjecutar,
       InvSacarDeEjecucion, InvSacarFalla, InvAgregarAExit DEF Ejecutar
  <2>. QED
    BY <1>1, <2>1, <2>2, <2>3, <2>4 DEF Next
<1>2. CASE UNCHANGED vars
  <2>1. TypeOK'
    BY <1>2 DEF Inv, TypeOK, vars, colas, pcbs, nivel
  <2>. QED
    BY <1>2, <2>1, InvQuieto DEF vars, colas, pcbs, nivel
<1>. QED
  BY <1>1, <1>2

LEMMA InvSiempre == Spec => []Inv
BY InvInit, InvNext, PTL DEF Spec

(* Every variable of the scheduler keeps its type: no counter of EXEC goes *)
(* below zero, and no level has more lines left than the script.           *)
THEOREM TipoCorrecto == Spec => []TypeOK
<1>1. Inv => TypeOK
  BY DEF Inv
<1>. QED
  BY <1>1, InvSiempre, PTL

(* However many levels execute, a script is in READY, in EXEC, in EXIT or  *)
(* at hand of one level, and once.                                         *)
THEOREM UnaCola == Spec => []EnUnaSolaCola
<1>1. Inv => EnUnaSolaCola
  BY DEF Inv, Cuentas, Cuenta, Lugares, Llevan, EnMano, EnUnaSolaCola
<1>. QED
  BY <1>1, InvSiempre, PTL

(* However many levels execute, one at a time reads the lines of a script, *)
(* each line once, with its file open, and none after a line that failed.  *)
THEOREM LectorUnico == Spec => []UnSoloLector
<1>1. Inv => UnSoloLector
  <2>. SUFFICES ASSUME Inv, NEW n \in Niveles, pc[n] \in {"leer", "resolver"}
                PROVE  LET g == pcb[n] IN
                       /\ g \in Runs => archivo[g] = "abierto"
                       /\ ~fallo[g] /\ estado[g] = "ejecucion"
                       /\ leidas[g] = progamCounter[g] + IF pc[n] = "leer" THEN 0 ELSE 1
                       /\ progamCounter[g] + faltan[n] <= rafaga[g]
                       /\ \A m \in Niveles \ {n} : pcb[m] = g => pc[m] \in {"post", "fin"}
    BY DEF UnSoloLector
  <2>. DEFINE g == pcb[n]
  <2>1. /\ g \in Pedidos /\ Turno(n) /\ rafaga[g] \in -1..MaxRafaga
        /\ progamCounter[g] \in 0..MaxRafaga /\ leidas[g] \in 0..MaxRafaga
        /\ MaxRafaga \in Nat
    BY ConLinea DEF EnTurno
  <2>2. Sigue(g) /\ leidas[g] = progamCounter[g] + IF pc[n] = "leer" THEN 0 ELSE 1
    BY <2>1 DEF Turno, Uno
  <2>3. g \in Runs => archivo[g] = "abierto"
    BY <2>1, <2>2 DEF Inv, Abiertos, Sigue
  <2>. QED
    BY <2>1, <2>2, <2>3 DEF Turno, Sigue
<1>. QED
  BY <1>1, InvSiempre, PTL

-----------------------------------------------------------------------------
(* sem_planificador and READY. A PCB is in READY before its sem_post, and  *)
(* a level leaves sem_wait before it takes one: the list is as long as the *)
(* semaphore and those that are in between.                                *)

EnPaso(p) == {n \in Niveles : pc[n] = p}

Semaforo ==
  Len(listos) = semaforo + Cardinality(EnPaso("obtener")) + Cardinality(EnPaso("post"))
                  + Uno(consola.paso = "post")

LEMMA EnPasoFinito ==
  ASSUME NEW p
  PROVE  IsFiniteSet(EnPaso(p)) /\ Cardinality(EnPaso(p)) \in Nat
<1>1. EnPaso(p) \in SUBSET Niveles
  BY DEF EnPaso
<1>. QED
  BY <1>1, FS_Subset, FS_CardinalityType DEF PlanificadorAssumption

\* When one level moves, those in a step change by it.
LEMMA EnPasoCambia ==
  ASSUME Inv, NEW n \in Niveles, NEW p, Ir(n, p), NEW q,
         p \in {"esperar", "obtener", "agregar", "leer", "resolver", "finQuantum",
                "devolver", "post", "fin", "sacar", "cerrar"}
  PROVE  Cardinality(EnPaso(q)') = Cardinality(EnPaso(q)) + Uno(p = q) - Uno(pc[n] = q)
<1>. DEFINE A == EnPaso(q)
            B == EnPaso(q)'
<1>1. IsFiniteSet(A)
  BY EnPasoFinito
<1>2. pc'[n] = p /\ \A m \in Niveles \ {n} : pc'[m] = pc[m]
  BY OtroPaso DEF Inv
<1>3. /\ A \ {n} = B \ {n}
      /\ n \in A <=> pc[n] = q
      /\ n \in B <=> p = q
  BY <1>2 DEF EnPaso
<1>. HIDE DEF A, B
<1>4. Cardinality(B) = Cardinality(A) + Uno(n \in B) - Uno(n \in A)
  BY ONLY <1>1, <1>3, CambiaUno
<1>. QED
  BY ONLY <1>3, <1>4 DEF A, B, Uno

\* A level that goes from one step to another, neither of them between the
\* semaphore and READY.
LEMMA SemaforoAparte ==
  ASSUME Inv, Semaforo, NEW n \in Niveles, NEW p, Ir(n, p),
         p \in {"esperar", "agregar", "leer", "resolver", "finQuantum", "devolver", "fin",
                "sacar", "cerrar"},
         pc[n] \notin {"obtener", "post"}, UNCHANGED <<listos, semaforo, consola>>
  PROVE  Semaforo'
<1>1. /\ Cardinality(EnPaso("obtener")') = Cardinality(EnPaso("obtener"))
      /\ Cardinality(EnPaso("post")') = Cardinality(EnPaso("post"))
  BY EnPasoCambia, EnPasoFinito DEF Uno
<1>. QED
  BY <1>1 DEF Semaforo

LEMMA SemaforoInit == Init => Semaforo
<1>. SUFFICES ASSUME Init PROVE Semaforo
  OBVIOUS
<1>1. EnPaso("obtener") = {} /\ EnPaso("post") = {}
  BY DEF Init, EnPaso
<1>2. Cardinality(EnPaso("obtener")) = 0 /\ Cardinality(EnPaso("post")) = 0
  BY <1>1, FS_EmptySet
<1>. QED
  BY <1>2 DEF Init, Semaforo, Uno

LEMMA SemaforoConsola ==
  ASSUME Inv, Semaforo, ConsolaAListo \/ ConsolaPost
  PROVE  Semaforo'
<1>. DEFINE o == Cardinality(EnPaso("obtener"))
            p == Cardinality(EnPaso("post"))
<1>1. /\ Cardinality(EnPaso("obtener")') = o /\ o \in Nat
      /\ Cardinality(EnPaso("post")') = p /\ p \in Nat
  BY EnPasoFinito DEF EnPaso, ConsolaAListo, ConsolaPost, nivel
<1>2. semaforo \in Nat /\ Len(listos) \in Nat
  BY ListosTipo DEF Inv, TypeOK
<1>3. Len(listos) = semaforo + o + p + Uno(consola.paso = "post")
  BY DEF Semaforo
<1>. HIDE DEF o, p
<1>4. CASE ConsolaAListo
  <2>1. /\ Len(listos') = Len(listos) + 1 /\ semaforo' = semaforo
        /\ consola.paso = "listo" /\ consola'.paso = "post"
    BY <1>4, ListosTipo DEF ConsolaAListo, AgregarAListo, Inv, TypeOK, DeConsola
  <2>. QED
    BY <1>1, <1>2, <1>3, <2>1 DEF Semaforo, Uno
<1>5. CASE ConsolaPost
  <2>1. /\ listos' = listos /\ semaforo' = semaforo + 1
        /\ consola.paso = "post" /\ consola'.paso = "libre"
    BY <1>5 DEF ConsolaPost
  <2>. QED
    BY <1>1, <1>2, <1>3, <2>1 DEF Semaforo, Uno
<1>. QED
  BY <1>4, <1>5

\* The steps of a level that change READY or the semaphore.
LEMMA SemaforoColas ==
  ASSUME Inv, Semaforo, NEW n \in Niveles,
         Esperar(n) \/ ObtenerColaListos(n) \/ Devolver(n) \/ DevolverPost(n)
  PROVE  Semaforo'
<1>. DEFINE o == Cardinality(EnPaso("obtener"))
            p == Cardinality(EnPaso("post"))
<1>1. o \in Nat /\ p \in Nat /\ semaforo \in Nat /\ Len(listos) \in Nat
  BY EnPasoFinito, ListosTipo DEF Inv, TypeOK
<1>2. Len(listos) = semaforo + o + p + Uno(consola.paso = "post") /\ Uno(consola.paso = "post") \in Nat
  BY DEF Semaforo, Uno
<1>3. CASE Esperar(n)
  <2>1. Ir(n, "obtener") /\ pc[n] = "esperar" /\ semaforo' = semaforo - 1
        /\ UNCHANGED <<listos, consola>>
    BY <1>3 DEF Esperar
  <2>2. Cardinality(EnPaso("obtener")') = o + 1 /\ Cardinality(EnPaso("post")') = p
    BY <1>1, <2>1, EnPasoCambia DEF Uno
  <2>. QED
    BY <1>1, <1>2, <2>1, <2>2 DEF Semaforo
<1>4. CASE ObtenerColaListos(n)
  <2>1. /\ Ir(n, "agregar") /\ pc[n] = "obtener" /\ UNCHANGED <<semaforo, consola>>
        /\ listos' = Tail(listos) /\ listos # << >>
    BY <1>4 DEF ObtenerColaListos
  <2>2. Cardinality(EnPaso("obtener")') = o - 1 /\ Cardinality(EnPaso("post")') = p
    BY <1>1, <2>1, EnPasoCambia DEF Uno
  <2>3. Len(listos') = Len(listos) - 1
    BY <2>1, ListosTipo
  <2>. QED
    BY <1>1, <1>2, <2>1, <2>2, <2>3 DEF Semaforo
<1>5. CASE Devolver(n)
  <2>1. /\ Ir(n, "post") /\ pc[n] = "devolver" /\ UNCHANGED <<semaforo, consola>>
        /\ listos' = Append(listos, pcb[n])
    BY <1>5 DEF Devolver, AgregarAListo
  <2>2. Cardinality(EnPaso("obtener")') = o /\ Cardinality(EnPaso("post")') = p + 1
    BY <1>1, <2>1, EnPasoCambia DEF Uno
  <2>3. Len(listos') = Len(listos) + 1
    BY <2>1, ListosTipo
  <2>. QED
    BY <1>1, <1>2, <2>1, <2>2, <2>3 DEF Semaforo
<1>6. CASE DevolverPost(n)
  <2>1. Ir(n, "fin") /\ pc[n] = "post" /\ semaforo' = semaforo + 1
        /\ UNCHANGED <<listos, consola>>
    BY <1>6 DEF DevolverPost
  <2>2. Cardinality(EnPaso("obtener")') = o /\ Cardinality(EnPaso("post")') = p - 1
    BY <1>1, <2>1, EnPasoCambia DEF Uno
  <2>. QED
    BY <1>1, <1>2, <2>1, <2>2 DEF Semaforo
<1>. QED
  BY <1>3, <1>4, <1>5, <1>6

LEMMA SemaforoNivel ==
  ASSUME Inv, Semaforo, NEW n \in Niveles, Ejecutar(n)
  PROVE  Semaforo'
<1>1. CASE Esperar(n) \/ ObtenerColaListos(n) \/ Devolver(n) \/ DevolverPost(n)
  BY <1>1, SemaforoColas
<1>2. CASE AgregarAEjecutando(n)
  <2>1. \E p \in {"leer", "fin"} : Ir(n, p)
    BY <1>2 DEF AgregarAEjecutando
  <2>. QED
    BY <1>2, <2>1, SemaforoAparte DEF AgregarAEjecutando
<1>3. CASE LeerLinea(n)
  BY <1>3, SemaforoAparte DEF LeerLinea, colas
<1>4. CASE ResolverLinea(n)
  <2>1. \E p \in {"sacar", "leer", "finQuantum", "fin"} : Ir(n, p)
    BY <1>4 DEF ResolverLinea, TrasLinea
  <2>. QED
    BY <1>4, <2>1, SemaforoAparte DEF ResolverLinea, colas
<1>5. CASE FinQuantum(n)
  BY <1>5, SemaforoAparte DEF FinQuantum
<1>6. CASE FinEjecutar(n)
  BY <1>6, SemaforoAparte DEF FinEjecutar, colas
<1>7. CASE SacarDeEjecucion(n)
  BY <1>7, SemaforoAparte DEF SacarDeEjecucion
<1>8. CASE SacarFalla(n)
  BY <1>8 DEF SacarFalla, Semaforo, EnPaso, colas, nivel
<1>9. CASE AgregarAExit(n)
  BY <1>9, SemaforoAparte DEF AgregarAExit
<1>. QED
  BY <1>1, <1>2, <1>3, <1>4, <1>5, <1>6, <1>7, <1>8, <1>9 DEF Ejecutar

LEMMA SemaforoNext == Inv /\ Semaforo /\ [Next]_vars => Semaforo'
<1>. SUFFICES ASSUME Inv, Semaforo, [Next]_vars PROVE Semaforo'
  OBVIOUS
<1>1. CASE Consola
  BY <1>1, SemaforoConsola DEF Consola
<1>2. CASE \E n \in Niveles : Ejecutar(n)
  BY <1>2, SemaforoNivel
<1>3. CASE \E g \in Pedidos : Ingresar(g)
  BY <1>3 DEF Ingresar, Semaforo, EnPaso, Uno, colas, nivel
<1>4. CASE Salir \/ RecargarConfiguracion \/ UNCHANGED vars
  BY <1>4 DEF Salir, RecargarConfiguracion, vars, Semaforo, EnPaso, colas, nivel
<1>. QED
  BY <1>1, <1>2, <1>3, <1>4 DEF Next

(* A level that passed sem_planificador finds a PCB in READY, however many *)
(* levels there are: obtenerColaListos may leave out the test.             *)
THEOREM SiempreHayListo == Spec => []HayListo
<1>1. Inv /\ Semaforo => HayListo
  <2>. SUFFICES ASSUME Inv, Semaforo PROVE HayListo
    OBVIOUS
  <2>1. /\ Cardinality(EnPaso("obtener")) \in Nat /\ Cardinality(EnPaso("post")) \in Nat
        /\ semaforo \in Nat /\ Uno(consola.paso = "post") \in Nat
    BY EnPasoFinito DEF Inv, TypeOK, Uno
  <2>2. Cardinality(EnPaso("obtener")) + semaforo <= Len(listos)
    BY <2>1 DEF Semaforo
  <2>. QED
    BY <2>2 DEF HayListo, EnPaso
<1>. QED
  BY <1>1, InvSiempre, SemaforoInit, SemaforoNext, PTL DEF Spec

-----------------------------------------------------------------------------
(* The refinement of Guiones. What Inv does not say and the mapping needs: *)
(* how far each script is, and which level has the turn of one.            *)

Guion(g) ==
  /\ estado[g] = "ninguno" => progamCounter[g] = 0
  /\ progamCounter[g] <= rafaga[g] \/ rafaga[g] = -1
  /\ estado[g] \in {"nuevo", "listo"} => rafaga[g] <= 0 \/ progamCounter[g] < rafaga[g]
  /\ ejecutando[g] > 0 => estado[g] = "ejecucion"

Atiende(n, g) ==
  /\ pcb[n] = g
  /\ \/ pc[n] \in {"leer", "resolver", "finQuantum", "sacar"}
     \/ pc[n] = "fin" /\ progamCounter[g] = rafaga[g]

\* A script with a file that is in EXEC has a level.
Atendido(g) == ejecutando[g] > 0 /\ rafaga[g] # -1 => \E n \in Niveles : Atiende(n, g)

\* A script without a file does not end; the last turn goes to the last line.
Tramo(n) ==
  /\ Acaba(n) => rafaga[pcb[n]] >= 0
  /\ pc[n] \in {"leer", "resolver"} /\ ~quantumEntero[n] =>
       progamCounter[pcb[n]] + faltan[n] = rafaga[pcb[n]]

Avance == (\A g \in Pedidos : Guion(g) /\ Atendido(g)) /\ \A n \in Niveles : Tramo(n)

LEMMA NumerosDe ==
  ASSUME Inv, NEW g \in Pedidos
  PROVE  /\ rafaga[g] \in -1..MaxRafaga /\ progamCounter[g] \in 0..MaxRafaga
         /\ ejecutando[g] \in Nat /\ salidos[g] \in Nat /\ MaxRafaga \in Nat
BY DEF Inv, TypeOK, PlanificadorAssumption

\* A script is in EXEC at most once.
LEMMA UnaEjecucion ==
  ASSUME Inv, NEW g \in Pedidos
  PROVE  /\ ejecutando[g] \in {0, 1}
         /\ estado[g] \in {"ninguno", "nuevo"} => ejecutando[g] = 0 /\ salidos[g] = 0
<1>1. Cuenta(g) = IF estado[g] \in {"ninguno", "nuevo"} THEN 0 ELSE 1
  BY DEF Inv, Cuentas
<1>2. /\ Cardinality(Lugares(listos, g)) \in Nat /\ ejecutando[g] \in Nat /\ salidos[g] \in Nat
      /\ Cardinality(Llevan(g)) \in Nat
  BY CuentaTipos DEF Inv
<1>. QED
  BY <1>1, <1>2 DEF Cuenta

LEMMA AvanceInit == Init => Avance
BY DEF Init, Avance, Guion, Atendido, Tramo, Acaba

\* A step of the level n: what it must keep, of itself and of its script.
LEMMA AvanceDeNivel ==
  ASSUME Inv, Avance, NEW n \in Niveles, SoloToca(n), NEW g \in Pedidos, pcb[n] = g,
         pcb'[n] \in {g, Nadie}, Guion(g)', Atendido(g)', Tramo(n)',
         \A m \in Niveles \ {n} : quantumEntero'[m] = quantumEntero[m],
         \A m \in Niveles \ {n} : pcb[m] = g =>
           pc[m] \in {"post", "fin"} \/ progamCounter'[g] = progamCounter[g]
  PROVE  Avance'
<1>. USE DEF SoloToca
<1>1. ASSUME NEW h \in Pedidos PROVE Guion(h)' /\ Atendido(h)'
  <2>2. CASE h # g
    <3>1. Guion(h) /\ Atendido(h)
      BY DEF Avance
    <3>2. \A m \in Niveles : Atiende(m, h) => m # n
      BY <2>2 DEF Atiende
    <3>3. \A m \in Niveles : Atiende(m, h) => Atiende(m, h)'
      BY <2>2, <3>2 DEF Atiende
    <3>. QED
      BY <2>2, <3>1, <3>3 DEF Guion, Atendido
  <2>. QED
    BY <2>2
<1>2. ASSUME NEW m \in Niveles PROVE Tramo(m)'
  <2>1. Tramo(m)
    BY DEF Avance
  <2>2. CASE m # n /\ pcb[m] = g
    BY <2>1, <2>2 DEF Tramo, Acaba
  <2>3. CASE m # n /\ pcb[m] # g
    <3>1. pcb[m] \in Pedidos \/ pc[m] \in {"esperar", "obtener"}
      BY PcbDeNivel
    <3>. QED
      BY <2>1, <2>3, <3>1 DEF Tramo, Acaba
  <2>. QED
    BY <2>2, <2>3
<1>. QED
  BY <1>1, <1>2 DEF Avance

\* The end of the proof of a lemma of this group: a level that gets no turn
\* and takes one from none.
LEMMA AvanceSinTurno ==
  ASSUME Inv, Avance, UNCHANGED <<rafaga, progamCounter, ejecutando, quantumEntero, faltan>>,
         NEW n \in Niveles, \A m \in Niveles \ {n} : pc'[m] = pc[m] /\ pcb'[m] = pcb[m],
         pc'[n] \in {"esperar", "obtener", "agregar", "devolver", "post", "fin"},
         \A g \in Pedidos : ~Atiende(n, g) \/ ejecutando[g] = 0, \A g \in Pedidos : Guion(g)'
  PROVE  Avance'
<1>1. ASSUME NEW g \in Pedidos PROVE Atendido(g)'
  <2>1. Atendido(g)
    BY DEF Avance
  <2>2. ejecutando[g] > 0 => \A m \in Niveles : Atiende(m, g) => Atiende(m, g)'
    <3>1. ejecutando[g] > 0 => \A m \in Niveles : Atiende(m, g) => m # n
      BY NumerosDe
    <3>. QED
      BY <3>1 DEF Atiende
  <2>. QED
    BY <2>1, <2>2 DEF Atendido
<1>2. ASSUME NEW m \in Niveles PROVE Tramo(m)'
  BY DEF Avance, Tramo, Acaba
<1>. QED
  BY <1>1, <1>2 DEF Avance

LEMMA AvanceEsperar ==
  ASSUME Inv, Avance, NEW n \in Niveles, Esperar(n) \/ DevolverPost(n)
  PROVE  Avance'
<1>1. /\ \/ Ir(n, "obtener") /\ pc[n] = "esperar"
         \/ Ir(n, "fin") /\ pc[n] = "post"
      /\ UNCHANGED <<estado, rafaga, progamCounter, ejecutando, quantumEntero, faltan, pcb>>
  BY DEF Esperar, DevolverPost, pcbs
<1>2. pc'[n] \in {"obtener", "fin"} /\ \A m \in Niveles \ {n} : pc'[m] = pc[m] /\ pcb'[m] = pcb[m]
  BY <1>1, OtroPaso DEF Inv
<1>3. \A g \in Pedidos : Guion(g)' /\ ~Atiende(n, g)
  BY <1>1 DEF Guion, Avance, Atiende
<1>. QED
  BY <1>1, <1>2, <1>3, AvanceSinTurno

LEMMA AvanceObtener ==
  ASSUME Inv, Avance, NEW n \in Niveles, ObtenerColaListos(n)
  PROVE  Avance'
<1>1. /\ Ir(n, "agregar") /\ pc[n] = "obtener" /\ pcb' = [pcb EXCEPT ![n] = Head(listos)]
      /\ UNCHANGED <<estado, rafaga, progamCounter, ejecutando, quantumEntero, faltan>>
  BY DEF ObtenerColaListos, pcbs
<1>2. pc'[n] = "agregar" /\ \A m \in Niveles \ {n} : pc'[m] = pc[m]
  BY <1>1, OtroPaso DEF Inv
<1>3. \A m \in Niveles \ {n} : pcb'[m] = pcb[m]
  BY <1>1 DEF Inv, TypeOK
<1>4. \A g \in Pedidos : Guion(g)' /\ ~Atiende(n, g)
  BY <1>1 DEF Guion, Avance, Atiende
<1>. QED
  BY <1>1, <1>2, <1>3, <1>4, AvanceSinTurno

LEMMA AvanceDevolver ==
  ASSUME Inv, Avance, NEW n \in Niveles, Devolver(n)
  PROVE  Avance'
<1>1. /\ Ir(n, "post") /\ pc[n] = "devolver" /\ estado' = [estado EXCEPT ![pcb[n]] = "listo"]
      /\ UNCHANGED <<rafaga, progamCounter, ejecutando, quantumEntero, faltan, pcb>>
  BY DEF Devolver, AgregarAListo
<1>2. pc'[n] = "post" /\ \A m \in Niveles \ {n} : pc'[m] = pc[m] /\ pcb'[m] = pcb[m]
  BY <1>1, OtroPaso DEF Inv
<1>3. pcb[n] \in Pedidos /\ Sigue(pcb[n]) /\ ejecutando[pcb[n]] = 0
  BY <1>1, PcbDeNivel, Exclusivo DEF Nivel, EnMano
<1>4. \A g \in Pedidos : estado'[g] = IF g = pcb[n] THEN "listo" ELSE estado[g]
  BY <1>1 DEF Inv, TypeOK
<1>5. \A g \in Pedidos : Guion(g)' /\ ~Atiende(n, g)
  BY <1>1, <1>3, <1>4 DEF Guion, Avance, Atiende, Sigue
<1>. QED
  BY <1>1, <1>2, <1>5, AvanceSinTurno

LEMMA AvanceFinEjecutar ==
  ASSUME Inv, Avance, NEW n \in Niveles, FinEjecutar(n)
  PROVE  Avance'
<1>1. /\ pc[n] = "fin"
      /\ UNCHANGED <<estado, rafaga, progamCounter, fallo, leidas, archivo, ejecutando, salidos,
                     quantumEntero, faltan>>
  BY DEF FinEjecutar, pcbs, colas
<1>2. PICK g \in Pedidos : pcb[n] = g
  BY <1>1, PcbDeNivel
<1>3. Guion(g) /\ Guion(g)' /\ progamCounter[g] \in Nat /\ rafaga[g] \in Int
  BY <1>1, NumerosDe DEF Guion, Avance
<1>4. CASE FinDeRafaga(g)
  <2>1. /\ Ir(n, "sacar") /\ pcb' = pcb /\ progamCounter[g] = rafaga[g]
    BY <1>2, <1>4 DEF FinEjecutar, FinDeRafaga
  <2>2. pc'[n] = "sacar" /\ \A m \in Niveles \ {n} : pc'[m] = pc[m]
    BY <2>1, OtroPaso DEF Inv
  <2>3. SoloToca(n)
    BY <1>1, <2>1, <2>2 DEF SoloToca
  <2>4. Atendido(g)' /\ Tramo(n)'
    BY <1>1, <1>2, <1>3, <2>1, <2>2 DEF Atendido, Atiende, Tramo, Acaba
  <2>. QED
    BY <1>1, <1>2, <1>3, <2>1, <2>3, <2>4, AvanceDeNivel
<1>5. CASE ~FinDeRafaga(g)
  <2>1. Ir(n, "esperar") /\ pcb' = [pcb EXCEPT ![n] = Nadie]
    BY <1>2, <1>5 DEF FinEjecutar
  <2>2. pc'[n] = "esperar" /\ \A m \in Niveles \ {n} : pc'[m] = pc[m]
    BY <2>1, OtroPaso DEF Inv
  <2>3. \A m \in Niveles \ {n} : pcb'[m] = pcb[m]
    BY <2>1 DEF Inv, TypeOK
  <2>4. \A h \in Pedidos : Guion(h)'
    BY <1>1 DEF Guion, Avance
  <2>5. ASSUME NEW h \in Pedidos PROVE ~Atiende(n, h) \/ ejecutando[h] = 0
    BY <1>1, <1>2, <1>3, <1>5, NumerosDe DEF Atiende, Guion, FinDeRafaga
  <2>. QED
    BY <1>1, <2>2, <2>3, <2>4, <2>5, AvanceSinTurno
<1>. QED
  BY <1>4, <1>5

LEMMA AvanceAgregar ==
  ASSUME Inv, Avance, NEW n \in Niveles, AgregarAEjecutando(n)
  PROVE  Avance'
<1>. DEFINE lineas == LineasDelTurno(pcb[n])
<1>1. /\ pc[n] = "agregar" /\ Ir(n, IF lineas > 0 THEN "leer" ELSE "fin")
      /\ ejecutando' = [ejecutando EXCEPT ![pcb[n]] = @ + 1]
      /\ estado' = [estado EXCEPT ![pcb[n]] = "ejecucion"]
      /\ quantumEntero' = [quantumEntero EXCEPT ![n] = QuantumEntero(pcb[n])]
      /\ faltan' = [faltan EXCEPT ![n] = IF lineas > 0 THEN lineas ELSE 0]
      /\ UNCHANGED <<salidos, rafaga, progamCounter, fallo, leidas, archivo, pcb>>
  BY DEF AgregarAEjecutando
<1>2. PICK g \in Pedidos : pcb[n] = g
  BY <1>1, PcbDeNivel
<1>3. /\ Guion(g) /\ estado[g] = "listo" /\ rafaga[g] \in Int /\ progamCounter[g] \in Nat
      /\ quantum \in Nat \ {0}
  BY <1>1, <1>2, PcbDeNivel, NumerosDe DEF Avance, Nivel, Inv, TypeOK
<1>4. /\ QuantumEntero(g) => lineas = quantum
      /\ ~QuantumEntero(g) => lineas = rafaga[g] - progamCounter[g]
  BY <1>2 DEF LineasDelTurno, Resto
<1>. HIDE DEF lineas
<1>5. /\ pc'[n] = IF lineas > 0 THEN "leer" ELSE "fin"
      /\ \A m \in Niveles \ {n} : pc'[m] = pc[m]
  BY <1>1, OtroPaso DEF Inv
<1>6. /\ quantumEntero'[n] = QuantumEntero(g) /\ estado'[g] = "ejecucion"
      /\ faltan'[n] = IF lineas > 0 THEN lineas ELSE 0
      /\ \A m \in Niveles \ {n} : quantumEntero'[m] = quantumEntero[m] /\ faltan'[m] = faltan[m]
      /\ \A h \in Pedidos \ {g} : estado'[h] = estado[h] /\ ejecutando'[h] = ejecutando[h]
  BY <1>1, <1>2 DEF Inv, TypeOK
<1>7. SoloToca(n)
  BY <1>1, <1>2, <1>5, <1>6 DEF SoloToca
<1>8. Guion(g)'
  BY <1>1, <1>3, <1>6 DEF Guion
<1>9. Atendido(g)'
  <2>1. rafaga[g] # -1 => Atiende(n, g)'
    BY <1>1, <1>2, <1>3, <1>4, <1>5 DEF Atiende, Guion
  <2>. QED
    BY <1>1, <2>1 DEF Atendido
<1>10. Tramo(n)'
  BY <1>1, <1>2, <1>3, <1>4, <1>5, <1>6 DEF Tramo, Acaba
<1>. QED
  BY <1>1, <1>2, <1>6, <1>7, <1>8, <1>9, <1>10, AvanceDeNivel

LEMMA AvanceLeer ==
  ASSUME Inv, Avance, NEW n \in Niveles, LeerLinea(n)
  PROVE  Avance'
<1>1. /\ pc[n] = "leer" /\ Ir(n, "resolver") /\ leidas' = [leidas EXCEPT ![pcb[n]] = @ + 1]
      /\ UNCHANGED <<estado, salidos, ejecutando, rafaga, progamCounter, fallo, archivo, pcb,
                     faltan, quantumEntero>>
  BY DEF LeerLinea, colas
<1>2. PICK g \in Pedidos : pcb[n] = g
  BY <1>1, PcbDeNivel
<1>3. pc'[n] = "resolver" /\ \A m \in Niveles \ {n} : pc'[m] = pc[m]
  BY <1>1, OtroPaso DEF Inv
<1>4. \A h \in Pedidos \ {g} : leidas'[h] = leidas[h]
  BY <1>1, <1>2 DEF Inv, TypeOK
<1>5. SoloToca(n)
  BY <1>1, <1>2, <1>3, <1>4 DEF SoloToca
<1>6. Guion(g)' /\ Atendido(g)' /\ Tramo(n)'
  BY <1>1, <1>2, <1>3 DEF Avance, Guion, Atendido, Atiende, Tramo, Acaba
<1>. QED
  BY <1>1, <1>2, <1>5, <1>6, AvanceDeNivel

LEMMA AvanceResolver ==
  ASSUME Inv, Avance, NEW n \in Niveles, ResolverLinea(n)
  PROVE  Avance'
<1>1. /\ pc[n] = "resolver" /\ progamCounter' = [progamCounter EXCEPT ![pcb[n]] = @ + 1]
      /\ UNCHANGED <<estado, salidos, ejecutando, rafaga, archivo, leidas, pcb>>
  BY DEF ResolverLinea, colas
<1>. PICK e \in BOOLEAN :
       /\ fallo' = [fallo EXCEPT ![pcb[n]] = e]
       /\ faltan' = [faltan EXCEPT ![n] = IF TrasLinea(n, e) = "leer" THEN @ - 1 ELSE 0]
       /\ quantumEntero' = [quantumEntero EXCEPT ![n] = @ /\ TrasLinea(n, e) = "leer"]
       /\ Ir(n, TrasLinea(n, e))
  BY DEF ResolverLinea
<1>2. PICK g \in Pedidos : pcb[n] = g
  BY <1>1, PcbDeNivel
<1>3. /\ rafaga[g] \in Int /\ progamCounter[g] \in Nat /\ faltan[n] \in Nat /\ faltan[n] >= 1
      /\ Sigue(g) /\ progamCounter[g] + faltan[n] <= rafaga[g] /\ Guion(g) /\ Tramo(n)
      /\ \A m \in Niveles \ {n} : pcb[m] = g => pc[m] \in {"post", "fin"}
  BY <1>1, <1>2, ConLinea DEF EnTurno, Turno, Avance
<1>4. \/ TrasLinea(n, e) \in {"sacar", "finQuantum"}
      \/ TrasLinea(n, e) = "leer" /\ faltan[n] > 1
      \/ TrasLinea(n, e) = "fin" /\ faltan[n] = 1 /\ ~quantumEntero[n]
  BY <1>3 DEF TrasLinea
<1>5. pc'[n] = TrasLinea(n, e) /\ \A m \in Niveles \ {n} : pc'[m] = pc[m]
  BY <1>4, OtroPaso DEF Inv
<1>6. /\ progamCounter'[g] = progamCounter[g] + 1
      /\ faltan'[n] = IF TrasLinea(n, e) = "leer" THEN faltan[n] - 1 ELSE 0
      /\ TrasLinea(n, e) = "leer" => quantumEntero'[n] = quantumEntero[n]
      /\ \A m \in Niveles \ {n} : faltan'[m] = faltan[m] /\ quantumEntero'[m] = quantumEntero[m]
      /\ \A h \in Pedidos \ {g} : progamCounter'[h] = progamCounter[h] /\ fallo'[h] = fallo[h]
  BY <1>1, <1>2 DEF Inv, TypeOK
<1>7. SoloToca(n)
  BY <1>1, <1>2, <1>5, <1>6 DEF SoloToca
<1>8. Guion(g)'
  BY <1>1, <1>3, <1>6 DEF Guion, Sigue
<1>9. Atendido(g)'
  <2>1. pc'[n] = "fin" => progamCounter'[g] = rafaga[g]
    BY <1>1, <1>2, <1>3, <1>4, <1>5, <1>6 DEF Tramo
  <2>2. pc'[n] = "leer" \/ pc'[n] \in {"sacar", "finQuantum"} \/ pc'[n] = "fin"
    BY <1>4, <1>5
  <2>3. Atiende(n, g)'
    BY <1>1, <1>2, <2>1, <2>2 DEF Atiende
  <2>. QED
    BY <2>3 DEF Atendido
<1>10. Tramo(n)'
  <2>1. pc'[n] = "leer" /\ ~quantumEntero'[n] => progamCounter'[g] + faltan'[n] = rafaga[g]
    BY <1>1, <1>2, <1>3, <1>4, <1>5, <1>6 DEF Tramo
  <2>2. rafaga[g] >= 0 /\ pc'[n] # "resolver"
    BY <1>3, <1>4, <1>5 DEF Sigue
  <2>. QED
    BY <1>1, <1>2, <2>1, <2>2 DEF Tramo
<1>. QED
  BY <1>1, <1>2, <1>3, <1>6, <1>7, <1>8, <1>9, <1>10, AvanceDeNivel

LEMMA AvanceFinQuantum ==
  ASSUME Inv, Avance, NEW n \in Niveles, FinQuantum(n)
  PROVE  Avance'
<1>1. /\ pc[n] = "finQuantum"
      /\ UNCHANGED <<estado, rafaga, progamCounter, fallo, leidas, archivo, salidos, pcb, faltan,
                     quantumEntero>>
  BY DEF FinQuantum, pcbs
<1>2. PICK g \in Pedidos : pcb[n] = g
  BY <1>1, PcbDeNivel
<1>3. Guion(g) /\ Tramo(n) /\ progamCounter[g] \in Nat /\ rafaga[g] \in Int /\ ejecutando[g] \in {0, 1}
  BY NumerosDe, UnaEjecucion DEF Avance
<1>4. /\ pc'[n] \in {"devolver", "sacar", "fin"} /\ \A m \in Niveles \ {n} : pc'[m] = pc[m]
      /\ pc'[n] = "devolver" => ejecutando' = [ejecutando EXCEPT ![g] = @ - 1] /\ ejecutando[g] > 0
      /\ pc'[n] = "sacar" => ejecutando' = ejecutando /\ ~(rafaga[g] > progamCounter[g])
      /\ pc'[n] = "fin" => ejecutando' = ejecutando /\ estado[g] # "ejecucion"
  <2>1. CASE estado[g] = "ejecucion" /\ rafaga[g] > progamCounter[g]
    <3>1. ejecutando' = [ejecutando EXCEPT ![g] = @ - 1] /\ Ir(n, "devolver")
      BY <1>2, <2>1 DEF FinQuantum
    <3>2. ejecutando[g] = 1
      BY <1>1, <1>2, <1>3, <2>1, ConLinea DEF EnTurno, Turno
    <3>. QED
      BY <3>1, <3>2, OtroPaso DEF Inv
  <2>2. CASE estado[g] = "ejecucion" /\ ~(rafaga[g] > progamCounter[g])
    <3>1. ejecutando' = ejecutando /\ Ir(n, "sacar")
      BY <1>2, <2>2 DEF FinQuantum
    <3>. QED
      BY <2>2, <3>1, OtroPaso DEF Inv
  <2>3. CASE estado[g] # "ejecucion"
    <3>1. ejecutando' = ejecutando /\ Ir(n, "fin")
      BY <1>2, <2>3 DEF FinQuantum
    <3>. QED
      BY <2>3, <3>1, OtroPaso DEF Inv
  <2>. QED
    BY <2>1, <2>2, <2>3
<1>5. \A h \in Pedidos \ {g} : ejecutando'[h] = ejecutando[h]
  BY <1>4 DEF Inv, TypeOK
<1>6. pc'[n] = "devolver" => ejecutando'[g] = 0
  BY <1>3, <1>4 DEF Inv, TypeOK
<1>7. SoloToca(n)
  BY <1>1, <1>2, <1>4, <1>5 DEF SoloToca
<1>8. Guion(g)'
  BY <1>1, <1>3, <1>4, <1>6 DEF Guion
<1>9. Atendido(g)'
  BY <1>1, <1>2, <1>3, <1>4, <1>6 DEF Atendido, Atiende, Guion
<1>10. Tramo(n)'
  BY <1>1, <1>2, <1>3, <1>4 DEF Tramo, Acaba
<1>. QED
  BY <1>1, <1>2, <1>7, <1>8, <1>9, <1>10, AvanceDeNivel

LEMMA AvanceSacar ==
  ASSUME Inv, Avance, NEW n \in Niveles, SacarDeEjecucion(n)
  PROVE  Avance'
<1>1. /\ pc[n] = "sacar" /\ Ir(n, "cerrar") /\ ejecutando[pcb[n]] > 0
      /\ ejecutando' = [ejecutando EXCEPT ![pcb[n]] = @ - 1]
      /\ UNCHANGED <<estado, rafaga, progamCounter, fallo, leidas, archivo, salidos, pcb, faltan,
                     quantumEntero>>
  BY DEF SacarDeEjecucion, pcbs
<1>2. PICK g \in Pedidos : pcb[n] = g
  BY <1>1, PcbDeNivel
<1>3. Guion(g) /\ Tramo(n) /\ ejecutando[g] \in {0, 1}
  BY UnaEjecucion DEF Avance
<1>4. pc'[n] = "cerrar" /\ \A m \in Niveles \ {n} : pc'[m] = pc[m]
  BY <1>1, OtroPaso DEF Inv
<1>5. ejecutando'[g] = 0 /\ \A h \in Pedidos \ {g} : ejecutando'[h] = ejecutando[h]
  BY <1>1, <1>2, <1>3 DEF Inv, TypeOK
<1>6. SoloToca(n)
  BY <1>1, <1>2, <1>4, <1>5 DEF SoloToca
<1>7. Guion(g)' /\ Atendido(g)' /\ Tramo(n)'
  BY <1>1, <1>2, <1>3, <1>4, <1>5 DEF Guion, Atendido, Tramo, Acaba
<1>. QED
  BY <1>1, <1>2, <1>6, <1>7, AvanceDeNivel

LEMMA AvanceExit ==
  ASSUME Inv, Avance, NEW n \in Niveles, AgregarAExit(n)
  PROVE  Avance'
<1>1. /\ pc[n] = "cerrar" /\ Ir(n, "esperar") /\ pcb' = [pcb EXCEPT ![n] = Nadie]
      /\ estado' = [estado EXCEPT ![pcb[n]] = "exit"]
      /\ UNCHANGED <<rafaga, progamCounter, ejecutando, quantumEntero, faltan>>
  BY DEF AgregarAExit
<1>2. pc'[n] = "esperar" /\ \A m \in Niveles \ {n} : pc'[m] = pc[m]
  BY <1>1, OtroPaso DEF Inv
<1>3. \A m \in Niveles \ {n} : pcb'[m] = pcb[m]
  BY <1>1 DEF Inv, TypeOK
<1>4. pcb[n] \in Pedidos /\ ejecutando[pcb[n]] = 0 /\ estado[pcb[n]] # "ninguno"
  BY <1>1, Exclusivo DEF EnMano
<1>5. \A g \in Pedidos : estado'[g] = IF g = pcb[n] THEN "exit" ELSE estado[g]
  BY <1>1 DEF Inv, TypeOK
<1>6. \A g \in Pedidos : Guion(g)' /\ ~Atiende(n, g)
  BY <1>1, <1>4, <1>5 DEF Guion, Avance, Atiende
<1>. QED
  BY <1>1, <1>2, <1>3, <1>6, AvanceSinTurno

LEMMA AvanceConsola ==
  ASSUME Inv, Avance, NEW g \in Pedidos, Ingresar(g) \/ (ConsolaAListo /\ consola.pedido = g)
  PROVE  Avance'
<1>1. /\ UNCHANGED <<progamCounter, ejecutando, nivel>>
      /\ \/ /\ estado[g] = "ninguno" /\ estado' = [estado EXCEPT ![g] = "nuevo"]
            /\ \E r \in -1..MaxRafaga : rafaga' = [rafaga EXCEPT ![g] = r]
         \/ /\ estado[g] = "nuevo" /\ estado' = [estado EXCEPT ![g] = "listo"]
            /\ UNCHANGED rafaga
  <2>1. CASE Ingresar(g)
    <3>1. RafagasDe(g) \subseteq -1..MaxRafaga
      BY DEF RafagasDe, PlanificadorAssumption
    <3>. QED
      BY <2>1, <3>1 DEF Ingresar, colas
  <2>2. CASE ConsolaAListo /\ consola.pedido = g
    BY <2>2 DEF ConsolaAListo, AgregarAListo, Inv, DeConsola
  <2>. QED
    BY <2>1, <2>2
<1>2. /\ \A h \in Pedidos \ {g} : estado'[h] = estado[h] /\ rafaga'[h] = rafaga[h]
      /\ \/ estado[g] = "ninguno" /\ estado'[g] = "nuevo" /\ rafaga'[g] \in Int /\ rafaga'[g] >= -1
         \/ estado[g] = "nuevo" /\ estado'[g] = "listo" /\ rafaga'[g] = rafaga[g]
  BY <1>1 DEF Inv, TypeOK
<1>3. ejecutando[g] = 0
  BY <1>1, UnaEjecucion
<1>4. ASSUME NEW h \in Pedidos PROVE Guion(h)' /\ Atendido(h)'
  <2>1. CASE h = g
    BY <1>1, <1>2, <1>3, <2>1, NumerosDe DEF Avance, Guion, Atendido
  <2>2. CASE h # g
    BY <1>1, <1>2, <2>2 DEF Avance, Guion, Atendido, Atiende, nivel
  <2>. QED
    BY <2>1, <2>2
<1>5. ASSUME NEW m \in Niveles PROVE Tramo(m)'
  <2>1. CASE pcb[m] = g
    <3>1. pc[m] \in {"post", "fin"}
      BY <1>1, <2>1, PcbDeNivel DEF Nivel, EnTurno, Turno, Sigue, Acaba, Acabado
    <3>. QED
      BY <1>1, <3>1 DEF Tramo, Acaba, nivel
  <2>2. CASE pcb[m] \in Pedidos /\ pcb[m] # g
    BY <1>1, <1>2, <2>2 DEF Avance, Tramo, Acaba, nivel
  <2>3. CASE pcb[m] \notin Pedidos
    BY <1>1, <2>3, PcbDeNivel DEF Tramo, Acaba, nivel
  <2>. QED
    BY <2>1, <2>2, <2>3
<1>. QED
  BY <1>4, <1>5 DEF Avance

LEMMA AvanceQuieto ==
  ASSUME Avance, UNCHANGED <<ejecutando, pcbs, nivel>>
  PROVE  Avance'
BY DEF Avance, Guion, Atendido, Atiende, Tramo, Acaba, pcbs, nivel

LEMMA AvanceNext == Inv /\ Avance /\ [Next]_vars => Avance'
<1>. SUFFICES ASSUME Inv, Avance, [Next]_vars PROVE Avance'
  OBVIOUS
<1>1. CASE Consola
  <2>1. CASE ConsolaAListo
    <3>1. consola.pedido \in Pedidos
      BY <2>1 DEF ConsolaAListo, Inv, DeConsola
    <3>2. PICK g \in Pedidos : consola.pedido = g
      BY <3>1
    <3>. QED
      BY <2>1, <3>2, AvanceConsola
  <2>2. CASE ConsolaPost
    BY <2>2, AvanceQuieto DEF ConsolaPost
  <2>. QED
    BY <1>1, <2>1, <2>2 DEF Consola
<1>2. CASE \E g \in Pedidos : Ingresar(g)
  BY <1>2, AvanceConsola
<1>3. CASE Salir \/ RecargarConfiguracion \/ UNCHANGED vars
  BY <1>3, AvanceQuieto DEF Salir, RecargarConfiguracion, vars, colas
<1>4. ASSUME NEW n \in Niveles, Ejecutar(n) PROVE Avance'
  <2>1. CASE SacarFalla(n)
    BY <2>1, AvanceQuieto DEF SacarFalla, colas
  <2>. QED
    BY <1>4, <2>1, AvanceEsperar, AvanceObtener, AvanceAgregar, AvanceLeer, AvanceResolver,
       AvanceFinQuantum, AvanceDevolver, AvanceFinEjecutar, AvanceSacar, AvanceExit DEF Ejecutar
<1>. QED
  BY <1>1, <1>2, <1>3, <1>4 DEF Next

\* No more scripts with a file are in EXEC than there are levels.
LEMMA TurnosAcotados ==
  Avance => Cardinality({h \in {g \in Pedidos : ejecutando[g] > 0} : rafaga[h] # -1})
              <= Cardinality(Niveles)
<1>. SUFFICES ASSUME Avance
              PROVE Cardinality({h \in {g \in Pedidos : ejecutando[g] > 0} : rafaga[h] # -1})
                      <= Cardinality(Niveles)
  OBVIOUS
<1>. DEFINE S == {h \in {g \in Pedidos : ejecutando[g] > 0} : rafaga[h] # -1}
            f == [h \in S |-> CHOOSE n \in Niveles : Atiende(n, h)]
<1>1. \A h \in S : f[h] \in Niveles /\ Atiende(f[h], h)
  BY DEF Avance, Atendido
<1>2. \A h, k \in S : f[h] = f[k] => h = k
  BY <1>1 DEF Atiende
<1>3. f \in [S -> Niveles]
  BY <1>1
<1>. HIDE DEF S, f
<1>4. f \in Injection(S, Niveles)
  BY <1>2, <1>3 DEF Injection, IsInjective
<1>. QED
  BY <1>4, FS_Injection DEF PlanificadorAssumption, S

-----------------------------------------------------------------------------
(* The mapping of Guiones, and the steps.                                  *)

Ingresados == {g \in Pedidos : estado[g] # "ninguno"}
Fallidos == {g \in Pedidos : fallo[g]}
EnTurnos == {g \in Pedidos : ejecutando[g] > 0}
Terminados == {g \in Pedidos : salidos[g] > 0}

\* What a step leaves when it is none of Guiones.
Tartamudeo == UNCHANGED <<Ingresados, rafaga, progamCounter, Fallidos, EnTurnos, Terminados, vivo>>

LEMMA GuionInit == Init => Abstracto!Init
BY DEF Init, Abstracto!Init

LEMMA GuionTartamudeo == Tartamudeo => UNCHANGED Abstracto!vars
BY DEF Tartamudeo, Abstracto!vars, Ingresados, Fallidos, EnTurnos, Terminados

LEMMA GuionIngresar ==
  ASSUME Inv, NEW g \in Pedidos, Ingresar(g)
  PROVE  Abstracto!Ingresar(g)
<1>1. /\ estado[g] = "ninguno" /\ estado' = [estado EXCEPT ![g] = "nuevo"]
      /\ UNCHANGED <<vivo, progamCounter, fallo, ejecutando, salidos>>
  BY DEF Ingresar, colas
<1>2. rafaga' = [rafaga EXCEPT ![g] = rafaga'[g]]
  BY DEF Ingresar, Inv, TypeOK
<1>3. {h \in Pedidos : estado[h] # "ninguno"}' = {h \in Pedidos : estado[h] # "ninguno"} \cup {g}
  BY <1>1 DEF Inv, TypeOK
<1>. QED
  BY <1>1, <1>2, <1>3 DEF Abstracto!Ingresar

LEMMA TurnosTrasPaso ==
  Avance' => Cardinality({h \in {g \in Pedidos : ejecutando'[g] > 0} : rafaga'[h] # -1})
               <= Cardinality(Niveles)
<1>1. (Avance => Cardinality({h \in {g \in Pedidos : ejecutando[g] > 0} : rafaga[h] # -1})
                   <= Cardinality(Niveles))'
  BY TurnosAcotados, PTL
<1>. QED
  BY <1>1

LEMMA GuionDarTurno ==
  ASSUME Inv, Avance, Avance', NEW n \in Niveles, AgregarAEjecutando(n),
         NEW g \in Pedidos, pcb[n] = g
  PROVE  Abstracto!DarTurno(g)
<1>1. /\ pc[n] = "agregar" /\ ejecutando' = [ejecutando EXCEPT ![g] = @ + 1]
      /\ estado' = [estado EXCEPT ![g] = "ejecucion"]
      /\ UNCHANGED <<vivo, rafaga, progamCounter, fallo, salidos>>
  BY DEF AgregarAEjecutando
<1>2. /\ estado[g] = "listo" /\ ejecutando[g] = 0 /\ salidos[g] = 0 /\ ~fallo[g]
      /\ progamCounter[g] < rafaga[g] \/ rafaga[g] <= 0
  BY <1>1, PcbDeNivel, Exclusivo DEF Nivel, EnMano, Inv, SinFallar, Avance, Guion
<1>3. /\ {h \in Pedidos : ejecutando[h] > 0}' = {h \in Pedidos : ejecutando[h] > 0} \cup {g}
      /\ {h \in Pedidos : estado[h] # "ninguno"}' = {h \in Pedidos : estado[h] # "ninguno"}
  BY <1>1, <1>2 DEF Inv, TypeOK
<1>4. Cardinality({h \in {k \in Pedidos : ejecutando[k] > 0}' : rafaga[h] # -1})
        <= Cardinality(Niveles)
  <2>1. rafaga' = rafaga
    BY <1>1
  <2>. QED
    BY <2>1, TurnosTrasPaso
<1>5. g \in {h \in Pedidos : estado[h] # "ninguno"}
           \ ({h \in Pedidos : ejecutando[h] > 0} \cup {h \in Pedidos : salidos[h] > 0})
  BY <1>2
<1>6. g \notin {h \in Pedidos : fallo[h]}
  BY <1>2
<1>7. Abstracto!Cardinality({h \in {k \in Pedidos : ejecutando[k] > 0}' : rafaga[h] # -1})
        = Cardinality({h \in {k \in Pedidos : ejecutando[k] > 0}' : rafaga[h] # -1})
  BY DEF Abstracto!Cardinality, Cardinality
<1>. QED
  BY <1>1, <1>2, <1>3, <1>4, <1>5, <1>6, <1>7 DEF Abstracto!DarTurno

LEMMA GuionEjecutarLinea ==
  ASSUME Inv, NEW n \in Niveles, ResolverLinea(n), NEW g \in Pedidos, pcb[n] = g
  PROVE  Abstracto!EjecutarLinea(g)
<1>1. /\ pc[n] = "resolver" /\ progamCounter' = [progamCounter EXCEPT ![g] = @ + 1]
      /\ \E e \in BOOLEAN : fallo' = [fallo EXCEPT ![g] = e]
      /\ UNCHANGED <<vivo, estado, rafaga, ejecutando, salidos>>
  BY DEF ResolverLinea, colas
<1>2. Sigue(g) /\ ejecutando[g] = 1
  BY <1>1, ConLinea DEF EnTurno, Turno
<1>3. {h \in Pedidos : fallo[h]}' \in
        {{h \in Pedidos : fallo[h]}, {h \in Pedidos : fallo[h]} \cup {g}}
  BY <1>1, <1>2 DEF Inv, TypeOK, Sigue
<1>. QED
  BY <1>1, <1>2, <1>3 DEF Abstracto!EjecutarLinea, Sigue

LEMMA GuionQuitarTurno ==
  ASSUME Inv, NEW g \in Pedidos, ejecutando[g] > 0, ejecutando' = [ejecutando EXCEPT ![g] = @ - 1],
         UNCHANGED <<vivo, estado, rafaga, progamCounter, fallo, salidos>>
  PROVE  Abstracto!QuitarTurno(g)
<1>1. ejecutando[g] = 1
  BY UnaEjecucion
<1>2. {h \in Pedidos : ejecutando[h] > 0}' = {h \in Pedidos : ejecutando[h] > 0} \ {g}
  BY <1>1 DEF Inv, TypeOK
<1>. QED
  BY <1>2 DEF Abstracto!QuitarTurno

LEMMA GuionTerminar ==
  ASSUME Inv, Avance, NEW n \in Niveles, AgregarAExit(n), NEW g \in Pedidos, pcb[n] = g
  PROVE  Abstracto!Terminar(g)
<1>1. /\ pc[n] = "cerrar" /\ estado' = [estado EXCEPT ![g] = "exit"]
      /\ salidos' = [salidos EXCEPT ![g] = @ + 1]
      /\ UNCHANGED <<vivo, rafaga, progamCounter, fallo, ejecutando>>
  BY DEF AgregarAExit
<1>2. /\ ejecutando[g] = 0 /\ salidos[g] = 0 /\ estado[g] # "ninguno" /\ Acabado(g) /\ Guion(g)
      /\ rafaga[g] >= 0 /\ rafaga[g] \in Int /\ progamCounter[g] \in Int
  BY <1>1, PcbDeNivel, Exclusivo, NumerosDe DEF Nivel, Acaba, EnMano, Avance, Tramo
<1>3. /\ {h \in Pedidos : salidos[h] > 0}' = {h \in Pedidos : salidos[h] > 0} \cup {g}
      /\ {h \in Pedidos : estado[h] # "ninguno"}' = {h \in Pedidos : estado[h] # "ninguno"}
  BY <1>1, <1>2 DEF Inv, TypeOK
<1>4. fallo[g] \/ progamCounter[g] = rafaga[g]
  BY <1>2 DEF Acabado, Guion
<1>. QED
  BY <1>1, <1>2, <1>3, <1>4 DEF Abstracto!Terminar

\* What maps to the same state of Guiones.
LEMMA GuionIgual ==
  ASSUME Inv, UNCHANGED <<vivo, rafaga, progamCounter, fallo, ejecutando, salidos>>,
         \A g \in Pedidos : estado'[g] # "ninguno" <=> estado[g] # "ninguno"
  PROVE  UNCHANGED Abstracto!vars
<1>1. Tartamudeo
  BY DEF Tartamudeo, Ingresados, Fallidos, EnTurnos, Terminados
<1>. QED
  BY <1>1, GuionTartamudeo

LEMMA GuionCaer ==
  ASSUME vivo, vivo' = FALSE, UNCHANGED <<estado, rafaga, progamCounter, fallo, ejecutando, salidos>>
  PROVE  Abstracto!Caer
BY DEF Abstracto!Caer

LEMMA GuionNivel ==
  ASSUME Inv, Avance, Avance', NEW n \in Niveles, Ejecutar(n)
  PROVE  [Abstracto!Next]_Abstracto!vars
<1>. USE DEF Ejecutar
<1>1. CASE Esperar(n) \/ ObtenerColaListos(n) \/ DevolverPost(n)
  BY <1>1, GuionIgual DEF Esperar, ObtenerColaListos, DevolverPost, pcbs
<1>2. CASE LeerLinea(n) \/ FinEjecutar(n)
  BY <1>2, GuionIgual DEF LeerLinea, FinEjecutar, colas, pcbs
<1>3. CASE Devolver(n)
  <2>1. pcb[n] \in Pedidos /\ Sigue(pcb[n])
    BY <1>3, PcbDeNivel DEF Devolver, Nivel
  <2>2. \A g \in Pedidos : estado'[g] # "ninguno" <=> estado[g] # "ninguno"
    BY <1>3, <2>1 DEF Devolver, AgregarAListo, Inv, TypeOK, Sigue
  <2>. QED
    BY <1>3, <2>2, GuionIgual DEF Devolver
<1>4. CASE AgregarAEjecutando(n)
  <2>1. PICK g \in Pedidos : pcb[n] = g
    BY <1>4, PcbDeNivel DEF AgregarAEjecutando
  <2>. QED
    BY <1>4, <2>1, GuionDarTurno DEF Abstracto!Next
<1>5. CASE ResolverLinea(n)
  <2>1. PICK g \in Pedidos : pcb[n] = g
    BY <1>5, PcbDeNivel DEF ResolverLinea
  <2>. QED
    BY <1>5, <2>1, GuionEjecutarLinea DEF Abstracto!Next
<1>6. CASE FinQuantum(n)
  <2>1. PICK g \in Pedidos : pcb[n] = g
    BY <1>6, PcbDeNivel DEF FinQuantum
  <2>2. UNCHANGED <<vivo, estado, rafaga, progamCounter, fallo, salidos>>
    BY <1>6 DEF FinQuantum, pcbs
  <2>3. CASE estado[g] = "ejecucion" /\ rafaga[g] > progamCounter[g]
    <3>1. EnTurno(n) /\ ejecutando' = [ejecutando EXCEPT ![g] = @ - 1]
      BY <1>6, <2>1, <2>3, NumerosDe DEF FinQuantum, EnTurno
    <3>2. ejecutando[g] > 0
      BY <2>1, <3>1, ConLinea DEF Turno
    <3>. QED
      BY <2>2, <3>1, <3>2, GuionQuitarTurno DEF Abstracto!Next
  <2>4. CASE ~(estado[g] = "ejecucion" /\ rafaga[g] > progamCounter[g])
    <3>1. ejecutando' = ejecutando
      BY <1>6, <2>1, <2>4 DEF FinQuantum
    <3>. QED
      BY <2>2, <3>1, GuionIgual
  <2>. QED
    BY <2>3, <2>4
<1>7. CASE SacarDeEjecucion(n)
  <2>1. PICK g \in Pedidos : pcb[n] = g
    BY <1>7, PcbDeNivel DEF SacarDeEjecucion
  <2>. QED
    BY <1>7, <2>1, GuionQuitarTurno DEF SacarDeEjecucion, pcbs, Abstracto!Next
<1>8. CASE SacarFalla(n)
  BY <1>8, GuionCaer DEF SacarFalla, colas, pcbs, Abstracto!Next
<1>9. CASE AgregarAExit(n)
  <2>1. PICK g \in Pedidos : pcb[n] = g
    BY <1>9, PcbDeNivel DEF AgregarAExit
  <2>. QED
    BY <1>9, <2>1, GuionTerminar DEF Abstracto!Next
<1>. QED
  BY <1>1, <1>2, <1>3, <1>4, <1>5, <1>6, <1>7, <1>8, <1>9

LEMMA GuionNext == Inv /\ Avance /\ Avance' /\ [Next]_vars => [Abstracto!Next]_Abstracto!vars
<1>. SUFFICES ASSUME Inv, Avance, Avance', [Next]_vars PROVE [Abstracto!Next]_Abstracto!vars
  OBVIOUS
<1>1. CASE Consola
  <2>1. CASE ConsolaPost
    BY <2>1, GuionIgual DEF ConsolaPost, pcbs
  <2>2. CASE ConsolaAListo
    <3>1. consola.pedido \in Pedidos /\ estado[consola.pedido] = "nuevo"
      BY <2>2 DEF ConsolaAListo, Inv, DeConsola
    <3>2. \A g \in Pedidos : estado'[g] # "ninguno" <=> estado[g] # "ninguno"
      BY <2>2, <3>1 DEF ConsolaAListo, AgregarAListo, Inv, TypeOK
    <3>. QED
      BY <2>2, <3>2, GuionIgual DEF ConsolaAListo
  <2>. QED
    BY <1>1, <2>1, <2>2 DEF Consola
<1>2. CASE vivo /\ \E g \in Pedidos : Ingresar(g)
  BY <1>2, GuionIngresar DEF Abstracto!Next
<1>3. CASE vivo /\ Salir
  BY <1>3, GuionCaer DEF Salir, colas, pcbs, Abstracto!Next
<1>4. CASE RecargarConfiguracion \/ UNCHANGED vars
  BY <1>4, GuionIgual DEF RecargarConfiguracion, vars, colas, pcbs
<1>5. CASE \E n \in Niveles : Ejecutar(n)
  BY <1>5, GuionNivel
<1>. QED
  BY <1>1, <1>2, <1>3, <1>4, <1>5 DEF Next

(* The scheduler implements what the Kernel promises of the scripts, for   *)
(* every number of levels, scripts and lines: lines in order and one at a  *)
(* time, within a turn, none after an error, and one end.                  *)
THEOREM ImplementaGuiones == Spec => GuionesSpec
BY InvSiempre, AvanceInit, AvanceNext, GuionInit, GuionNext, PTL DEF Spec, GuionesSpec, Abstracto!Spec
====
