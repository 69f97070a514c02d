------------------------------ MODULE LFS_proofs ------------------------------
(***************************************************************************)
(* Theorems of LFS for any tables, keys, partitions, clients and bounds:   *)
(* its types, the fusion of records, the locks and the life of a table,    *)
(* its files, that it implements Almacen, and what a SELECT answers.       *)
(***************************************************************************)
EXTENDS LFS, WellFoundedInduction, TLAPS

----------------------------------------------------------------------------
(* What the operators on sets of records return, for any set of records    *)
(* with bounded timestamps *)

\* A nonempty set of naturals that has an upper bound has a greatest element.
LEMMA MaximoExiste ==
  ASSUME NEW N \in Nat, NEW T, T \subseteq 0..N, T # {}
  PROVE  \E x \in T : \A y \in T : y <= x
<1>. DEFINE R == OpToRel(<, Nat)
            U == {N - x : x \in T}
<1>1. U \subseteq Nat /\ U # {}
  <2>1. \A x \in T : N - x \in Nat
    OBVIOUS
  <2>2. PICK x \in T : TRUE
    OBVIOUS
  <2>3. N - x \in U
    BY <2>2
  <2>. QED
    BY <2>1, <2>3
<1>2. IsWellFoundedOn(R, Nat)
  BY NatLessThanWellFounded
<1>3. \E u \in U : \A v \in U : ~ (<<v, u>> \in R)
  <2>. HIDE DEF R, U
  <2>. QED
    BY <1>1, <1>2, WFMin
<1>4. PICK u \in U : \A v \in U : ~ (v < u)
  BY <1>1, <1>3 DEF OpToRel
<1>5. PICK x \in T : u = N - x
  BY <1>4
<1>6. \A y \in T : ~ (N - y < N - x)
  BY <1>4, <1>5
<1>. QED
  BY <1>5, <1>6

\* Of every record there is a newest one of its key.
LEMMA UltimoExiste ==
  ASSUME NEW N \in Nat, NEW S, \A r \in S : r.ts \in 0..N,
         NEW r \in S
  PROVE  \E d \in S : /\ d.key = r.key /\ d.ts >= r.ts
                      /\ \A s \in S : s.key = r.key => s.ts <= d.ts
<1>. DEFINE T == {s.ts : s \in {q \in S : q.key = r.key}}
<1>1. T \subseteq 0..N /\ r.ts \in T
  OBVIOUS
<1>2. PICK x \in T : \A y \in T : y <= x
  <2>. HIDE DEF T
  <2>. QED
    BY <1>1, MaximoExiste
<1>3. PICK d \in S : d.key = r.key /\ d.ts = x
  BY <1>2
<1>4. \A s \in S : s.key = r.key => s.ts <= d.ts
  BY <1>2, <1>3
<1>. QED
  BY <1>3, <1>4

\* The fusion of a set of records loses none but for a newer one of its key,
\* and has one timestamp for each key.
THEOREM FusionDomina ==
  ASSUME NEW N \in Nat, NEW S, \A r \in S : r.ts \in 0..N
  PROVE  /\ Fusion(S) \subseteq S
         /\ Domina(Fusion(S), S)
         /\ \A r, s \in Fusion(S) : r.key = s.key => r.ts = s.ts
<1>1. Fusion(S) \subseteq S
  BY DEF Fusion
<1>2. Domina(Fusion(S), S)
  <2>. SUFFICES ASSUME NEW r \in S
                PROVE  \E d \in Fusion(S) : d.key = r.key /\ d.ts >= r.ts
    BY DEF Domina
  <2>1. PICK d \in S : /\ d.key = r.key /\ d.ts >= r.ts
                       /\ \A s \in S : s.key = r.key => s.ts <= d.ts
    BY UltimoExiste
  <2>2. d \in Fusion(S)
    BY <2>1 DEF Fusion
  <2>. QED
    BY <2>1, <2>2
<1>3. \A r, s \in Fusion(S) : r.key = s.key => r.ts = s.ts
  BY DEF Fusion
<1>. QED
  BY <1>1, <1>2, <1>3

\* Domination is a preorder that respects union.
LEMMA DominaReflexiva ==
  ASSUME NEW N \in Nat, NEW S, NEW D, \A r \in S : r.ts \in 0..N, S \subseteq D
  PROVE  Domina(D, S)
  BY DEF Domina

LEMMA DominaTransitiva ==
  ASSUME NEW N \in Nat, NEW A, NEW B, NEW C,
         \A r \in A \cup B \cup C : r.ts \in 0..N,
         Domina(A, B), Domina(B, C)
  PROVE  Domina(A, C)
  BY DEF Domina

LEMMA DominaUnion ==
  ASSUME NEW A, NEW B, NEW C, Domina(A, B), Domina(A, C)
  PROVE  Domina(A, B \cup C)
  BY DEF Domina

LEMMA DominaMayor ==
  ASSUME NEW A, NEW B, NEW C, Domina(A, B), A \subseteq C
  PROVE  Domina(C, B)
  BY DEF Domina

----------------------------------------------------------------------------
USE LFSAssumption

----------------------------------------------------------------------------
(* Types *)

\* TypeOK as an inductive invariant: an INSERT about to be added has a
\* timestamp, and a dump that is due has a number left.
Tipos ==
    /\ TypeOK
    /\ \A c \in Clientes : pc[c] = "ins_memtable" => ped[c].ts \in 1..MaxTs
    /\ dump # "durmiendo" => cantidadDumps < MaxDumps

LEMMA PedidoNuloTipo == PedidoNulo \in Pedido
<1>1. (CHOOSE t \in Tablas : TRUE) \in Tablas
  BY DEF LFSAssumption
<1>2. (CHOOSE k \in Claves : TRUE) \in Claves
  BY DEF LFSAssumption
<1>3. 0 \in 0..MaxTs
  BY DEF LFSAssumption
<1>. QED
  BY <1>1, <1>2, <1>3 DEF PedidoNulo, Pedido

LEMMA NuevoTipo ==
  ASSUME NEW t \in Tablas, NEW k \in Claves, NEW m \in 0..MaxTs
  PROVE  /\ Nuevo(t, k, m) \in Pedido
         /\ Nuevo(t, k, m).tabla = t
         /\ Nuevo(t, k, m).ts = m
  BY PedidoNuloTipo DEF Nuevo, Pedido

LEMMA PedidoVolcado ==
  ASSUME NEW r \in Pedido, NEW b \in BOOLEAN
  PROVE  /\ [r EXCEPT !.volcado = b] \in Pedido
         /\ [r EXCEPT !.volcado = b].ts = r.ts
         /\ [r EXCEPT !.volcado = b].tabla = r.tabla
  BY DEF Pedido

LEMMA DumpFinPed ==
  ASSUME TypeOK, DumpFin, NEW c \in Clientes
  PROVE  /\ ped'[c] \in Pedido
         /\ ped'[c].ts = ped[c].ts
         /\ ped'[c].tabla = ped[c].tabla
<1>. DEFINE b == ped[c].volcado \/ pc[c] = "sel_memtable"
<1>1. b \in BOOLEAN
  OBVIOUS
<1>2. ped'[c] = [ped[c] EXCEPT !.volcado = b]
  BY DEF DumpFin
<1>3. ped[c] \in Pedido
  BY DEF TypeOK
<1>. HIDE DEF b
<1>. QED
  BY <1>1, <1>2, <1>3, PedidoVolcado

LEMMA TiposInit == Init => Tipos
<1>. SUFFICES ASSUME Init PROVE Tipos
  OBVIOUS
<1>1. PedidoNulo \in Pedido
  BY PedidoNuloTipo
<1>2. 0 \in 0..MaxDumps /\ 0 \in 0..Particiones /\ 0 \in 0..MaxCaidas
  BY DEF LFSAssumption
<1>. QED
  BY <1>1, <1>2 DEF Init, Tipos, TypeOK, PCs, EstadosComp, LFSAssumption

LEMMA TiposCaer == Tipos /\ Caer => Tipos'
<1>. SUFFICES ASSUME Tipos, Caer PROVE Tipos'
  OBVIOUS
<1>1. PedidoNulo \in Pedido
  BY PedidoNuloTipo
<1>2. 0 \in 0..MaxDumps /\ 0 \in 0..Particiones
  BY DEF LFSAssumption
<1>. QED
  BY <1>1, <1>2 DEF Caer, Tipos, TypeOK, PCs, EstadosComp, disco

LEMMA TiposNext == Tipos /\ [Next]_vars => Tipos'
<1>. SUFFICES ASSUME Tipos, [Next]_vars PROVE Tipos'
  OBVIOUS
<1>. USE DEF Tipos, TypeOK, disco, archivos, memoria, cerrojos, clientes,
             volcado, compactacion, proceso
<1>1. CASE UNCHANGED vars
  BY <1>1 DEF vars
<1>2. ASSUME NEW c \in Clientes, NEW t \in Tablas, Pedir(c, t) PROVE Tipos'
  <2>1. ASSUME NEW k \in Claves, NEW m \in 1..MaxTs, InsertVerificar(c, t, k, m)
        PROVE Tipos'
    <3>1. m \in 0..MaxTs
      BY DEF LFSAssumption
    <3>. QED
      BY <2>1, <3>1, NuevoTipo DEF InsertVerificar, Empezar, PCs
  <2>2. ASSUME NEW k \in Claves, NEW m \in 0..MaxTs, SelectVerificar(c, t, k, m)
        PROVE Tipos'
    <3>1. Nuevo(t, k, 0) \in Pedido
      BY NuevoTipo DEF LFSAssumption
    <3>2. [Nuevo(t, k, 0) EXCEPT !.piso = m] \in Pedido
      BY <3>1 DEF Pedido
    <3>. QED
      BY <2>2, <3>2 DEF SelectVerificar, Empezar, PCs
  <2>3. CASE CreateVerificar(c, t)
    BY <2>3, PedidoNuloTipo DEF CreateVerificar, Empezar, Pedido, PCs
  <2>4. CASE DropVerificar(c, t)
    BY <2>4, PedidoNuloTipo DEF DropVerificar, Empezar, Pedido, PCs
  <2>. QED
    BY <1>2, <2>1, <2>2, <2>3, <2>4 DEF Pedir
<1>3. ASSUME NEW c \in Clientes, PasoCliente(c) PROVE Tipos'
  <2>. USE PedidoNuloTipo DEF Seguir, Contestar, PCs, EstadosComp
  <2>0. ped[c] \in Pedido /\ ped[c].tabla \in Tablas
    BY DEF Pedido
  <2>1. CASE InsertAgregar(c)
    <3>1. [key |-> ped[c].key, ts |-> ped[c].ts] \in Registros
      BY <2>1 DEF InsertAgregar, Pedido, Registros
    <3>. QED
      BY <2>0, <2>1, <3>1 DEF InsertAgregar
  <2>2. CASE SelectSemaforo(c)
    BY <2>0, <2>2 DEF SelectSemaforo
  <2>3. ASSUME NEW m \in 0..MaxTs, SelectLeerDisco(c, m) PROVE Tipos'
    BY <2>0, <2>3 DEF SelectLeerDisco, Pedido
  <2>4. CASE SelectTablaBorrada(c)
    BY <2>0, <2>4 DEF SelectTablaBorrada
  <2>5. ASSUME NEW m \in 0..MaxTs, SelectLeerMemtable(c, m) PROVE Tipos'
    BY <2>0, <2>5 DEF SelectLeerMemtable, Pedido
  <2>6. CASE SelectResponder(c)
    BY <2>0, <2>6 DEF SelectResponder
  <2>7. CASE CreateDirectorio(c)
    BY <2>0, <2>7 DEF CreateDirectorio
  <2>8. CASE CreateSemaforos(c)
    BY <2>0, <2>8 DEF CreateSemaforos
  <2>9. CASE CreateMetadata(c)
    BY <2>0, <2>9 DEF CreateMetadata
  <2>10. ASSUME NEW i \in Parts, CreateParticion(c, i) PROVE Tipos'
    BY <2>0, <2>10 DEF CreateParticion
  <2>11. CASE CreateHilo(c)
    BY <2>0, <2>11 DEF CreateHilo
  <2>12. CASE DropSemaforo(c)
    BY <2>0, <2>12 DEF DropSemaforo
  <2>13. CASE DropMx(c)
    BY <2>0, <2>13 DEF DropMx
  <2>14. CASE DropRw(c)
    BY <2>0, <2>14 DEF DropRw
  <2>15. CASE DropMemtable(c)
    BY <2>0, <2>15 DEF DropMemtable
  <2>16. CASE DropParticiones(c)
    BY <2>0, <2>16 DEF DropParticiones
  <2>17. CASE DropTemporales(c)
    BY <2>0, <2>17 DEF DropTemporales
  <2>18. CASE DropMetadata(c)
    BY <2>0, <2>18 DEF DropMetadata
  <2>19. CASE DropDirectorio(c)
    BY <2>0, <2>19 DEF DropDirectorio
  <2>20. CASE DropFin(c)
    BY <2>0, <2>20 DEF DropFin
  <2>21. CASE FallaCliente(c)
    BY <2>21, TiposCaer DEF FallaCliente
  <2>. QED
    BY <1>3, <2>1, <2>2, <2>3, <2>4, <2>5, <2>6, <2>7, <2>8, <2>9, <2>10, <2>11,
       <2>12, <2>13, <2>14, <2>15, <2>16, <2>17, <2>18, <2>19,
       <2>20, <2>21
       DEF PasoCliente
<1>4. CASE PasoDump
  <2>1. CASE DumpDespertar
    BY <2>1 DEF DumpDespertar
  <2>2. CASE DumpBloquear
    BY <2>2 DEF DumpBloquear
  <2>3. ASSUME NEW t \in Tablas, DumpTabla(t) PROVE Tipos'
    BY <2>3 DEF DumpTabla
  <2>4. CASE DumpFin
    <3>1. cantidadDumps + 1 \in 0..MaxDumps
      BY <2>4 DEF DumpFin, LFSAssumption
    <3>2. ASSUME NEW c \in Clientes
          PROVE  ped'[c] \in Pedido /\ ped'[c].ts = ped[c].ts
      BY <2>4, DumpFinPed DEF TypeOK
    <3>3. ped' \in [Clientes -> Pedido]
      BY <2>4, <3>2 DEF DumpFin
    <3>. QED
      BY <2>4, <3>1, <3>2, <3>3 DEF DumpFin
  <2>5. CASE FallaDump
    BY <2>5, TiposCaer DEF FallaDump
  <2>. QED
    BY <1>4, <2>1, <2>2, <2>3, <2>4, <2>5 DEF PasoDump
<1>5. ASSUME NEW t \in Tablas, PasoCompactacion(t) PROVE Tipos'
  <2>. USE DEF EstadosComp
  <2>1. CASE CoListar(t)
    BY <2>1 DEF CoListar, HayTmp
  <2>2. CASE CoTomarMx(t)
    BY <2>2 DEF CoTomarMx
  <2>3. CASE CoRenombrar(t)
    BY <2>3 DEF CoRenombrar
  <2>4. ASSUME NEW n \in 1..Particiones, CoLeer(t, n) PROVE Tipos'
    <3>1. ListasDe(t, n) \in [Parts -> SUBSET Registros]
      BY DEF ListasDe, Fusion, RegsTmpc
    <3>2. n \in 0..Particiones
      BY DEF LFSAssumption
    <3>. QED
      BY <2>4, <3>1, <3>2 DEF CoLeer
  <2>5. CASE CoTomarRw(t)
    BY <2>5 DEF CoTomarRw
  <2>6. CASE CoBorrarTmpc(t)
    BY <2>6 DEF CoBorrarTmpc
  <2>7. CASE CoBorrarBin(t)
    BY <2>7 DEF CoBorrarBin
  <2>8. ASSUME NEW i \in Parts, CoGuardar(t, i) PROVE Tipos'
    BY <2>8 DEF CoGuardar
  <2>9. CASE CoFin(t)
    BY <2>9 DEF CoFin, LFSAssumption
  <2>10. CASE FallaCompactacion(t)
    BY <2>10, TiposCaer DEF FallaCompactacion
  <2>. QED
    BY <1>5, <2>1, <2>2, <2>3, <2>4, <2>5, <2>6, <2>7, <2>8, <2>9, <2>10
       DEF PasoCompactacion
<1>6. CASE Terminar
  BY <1>6, TiposCaer DEF Terminar
<1>7. CASE Levantar
  BY <1>7 DEF Levantar, EstadosComp, LFSAssumption
<1>. QED
  BY <1>1, <1>2, <1>3, <1>4, <1>5, <1>6, <1>7 DEF Next

\* Every variable keeps its type.
THEOREM TipoCorrecto == Spec => []TypeOK
<1>1. Tipos => TypeOK
  BY DEF Tipos
<1>. QED
  BY <1>1, TiposInit, TiposNext, PTL DEF Spec

----------------------------------------------------------------------------
(* A process that has ended *)

\* No thread is left, and nothing in memory: the only step is to start again.
Muerto ==
    ~vivo =>
        /\ \A c \in Clientes : pc[c] = "libre"
        /\ dump = "durmiendo" /\ insertadas = {}
        /\ \A t \in Tablas :
              /\ comp[t] = "sin_hilo" /\ rwTabla[t] = "libre"
              /\ memtable[t] = {}

LEMMA MuertoCaer == Caer => Muerto'
  BY DEF Caer, Muerto

\* Only Caer ends the process.
LEMMA SoloCaer == Next /\ vivo /\ ~vivo' => Caer
<1>. SUFFICES ASSUME Next, vivo, ~vivo' PROVE Caer
  OBVIOUS
<1>. USE DEF proceso
<1>1. ASSUME NEW c \in Clientes, NEW t \in Tablas PROVE ~Pedir(c, t)
  BY DEF Pedir, InsertVerificar, SelectVerificar, CreateVerificar,
         DropVerificar
<1>2. ASSUME NEW c \in Clientes, PasoCliente(c) PROVE Caer
  BY <1>2
     DEF PasoCliente, InsertAgregar, SelectSemaforo, SelectLeerDisco,
         SelectTablaBorrada, SelectLeerMemtable, SelectResponder,
         CreateDirectorio, CreateSemaforos, CreateMetadata, CreateParticion,
         CreateHilo, DropSemaforo, DropMx, DropRw, DropMemtable,
         DropParticiones, DropTemporales, DropMetadata, DropDirectorio,
         DropFin, FallaCliente
<1>3. PasoDump => Caer
  BY DEF PasoDump, DumpDespertar, DumpBloquear, DumpTabla, DumpFin, FallaDump
<1>4. ASSUME NEW t \in Tablas, PasoCompactacion(t) PROVE Caer
  BY <1>4
     DEF PasoCompactacion, CoListar, CoTomarMx, CoRenombrar, CoLeer,
         CoTomarRw, CoBorrarTmpc, CoBorrarBin, CoGuardar, CoFin,
         FallaCompactacion
<1>. QED
  BY <1>1, <1>2, <1>3, <1>4 DEF Next, Terminar, Levantar

\* A process that has ended can only start again.
LEMMA SoloLevantar == Muerto /\ ~vivo /\ Next => Levantar
<1>. SUFFICES ASSUME Muerto, ~vivo, Next PROVE Levantar
  OBVIOUS
<1>1. ASSUME NEW c \in Clientes, NEW t \in Tablas PROVE ~Pedir(c, t)
  BY DEF Pedir, InsertVerificar, SelectVerificar, CreateVerificar,
         DropVerificar, Empezar
<1>2. ASSUME NEW c \in Clientes PROVE ~PasoCliente(c)
  <2>1. pc[c] = "libre"
    BY DEF Muerto
  <2>. QED
    BY <2>1
       DEF PasoCliente, InsertAgregar, SelectSemaforo, SelectLeerDisco,
           SelectTablaBorrada, SelectLeerMemtable, SelectResponder,
           CreateDirectorio, CreateSemaforos, CreateMetadata, CreateParticion,
           CreateHilo, DropSemaforo, DropMx, DropRw, DropMemtable,
           DropParticiones, DropTemporales, DropMetadata, DropDirectorio,
           DropFin, FallaCliente
<1>3. ~PasoDump
  BY DEF Muerto, PasoDump, DumpDespertar, DumpBloquear, DumpTabla, DumpFin,
         FallaDump
<1>4. ASSUME NEW t \in Tablas PROVE ~PasoCompactacion(t)
  <2>1. comp[t] = "sin_hilo"
    BY DEF Muerto
  <2>. QED
    BY <2>1
       DEF PasoCompactacion, CoListar, CoTomarMx, CoRenombrar, CoLeer,
           CoTomarRw, CoBorrarTmpc, CoBorrarBin, CoGuardar, CoFin,
           FallaCompactacion
<1>. QED
  BY <1>1, <1>2, <1>3, <1>4 DEF Next, Terminar

LEMMA MuertoInit == Init => Muerto
  BY DEF Init, Muerto

LEMMA MuertoNext == Muerto /\ [Next]_vars => Muerto'
<1>. SUFFICES ASSUME Muerto, [Next]_vars PROVE Muerto'
  OBVIOUS
<1>1. CASE UNCHANGED vars
  BY <1>1 DEF vars, Muerto, memoria, cerrojos, clientes, volcado, compactacion,
              proceso
<1>2. CASE Next /\ vivo
  BY <1>2, SoloCaer, MuertoCaer DEF Muerto
<1>3. CASE Next /\ ~vivo
  BY <1>3, SoloLevantar DEF Levantar, Muerto
<1>. QED
  BY <1>1, <1>2, <1>3

----------------------------------------------------------------------------
(* Locks *)

\* Where a compaction holds drop_mx, and where rwLockTabla too.
CoConRw == {"borrar_tmpc", "borrar_bin", "guardar"}
CoConMx == CoConRw \cup {"renombrar", "leer", "por_escribir"}

\* Who is past a lock holds it: a DROP and a compaction of one table, or two
\* DROPs of it, exclude each other.
Cerrojos ==
    /\ \A c \in Clientes :
          /\ pc[c] \in DropConMx => dropMx[ped[c].tabla] = "drop"
          /\ pc[c] \in DropConRw => rwTabla[ped[c].tabla] = "drop"
    /\ \A c, d \in Clientes :
          (/\ pc[c] \in DropConMx
           /\ pc[d] \in DropConMx
           /\ ped[c].tabla = ped[d].tabla) => c = d
    /\ \A t \in Tablas :
          /\ comp[t] \in CoConMx => dropMx[t] = "compactacion"
          /\ comp[t] \in CoConRw => rwTabla[t] = "compactacion"

LEMMA CerrojosInit == Init => Cerrojos
<1>. SUFFICES ASSUME Init PROVE Cerrojos
  OBVIOUS
<1>1. ASSUME NEW c \in Clientes PROVE pc[c] \notin DropConMx \cup DropConRw
  BY DEF Init, DropConMx, DropConRw
<1>2. ASSUME NEW t \in Tablas PROVE comp[t] \notin CoConMx \cup CoConRw
  BY DEF Init, CoConMx, CoConRw
<1>. QED
  BY <1>1, <1>2 DEF Cerrojos

LEMMA CerrojosCaer == Caer => Cerrojos'
<1>. SUFFICES ASSUME Caer PROVE Cerrojos'
  OBVIOUS
<1>1. ASSUME NEW c \in Clientes PROVE pc'[c] \notin DropConMx \cup DropConRw
  BY DEF Caer, DropConMx, DropConRw
<1>2. ASSUME NEW t \in Tablas PROVE comp'[t] \notin CoConMx \cup CoConRw
  BY DEF Caer, CoConMx, CoConRw
<1>. QED
  BY <1>1, <1>2 DEF Cerrojos

LEMMA CerrojosNext == TypeOK /\ Cerrojos /\ [Next]_vars => Cerrojos'
<1>. SUFFICES ASSUME TypeOK, Cerrojos, [Next]_vars PROVE Cerrojos'
  OBVIOUS
<1>. USE DEF TypeOK, Cerrojos, disco, archivos, memoria, cerrojos, clientes,
             volcado, compactacion, proceso, DropConMx, DropConRw, CoConMx,
             CoConRw, Seguir, Contestar
<1>1. CASE UNCHANGED vars
  BY <1>1 DEF vars
<1>2. ASSUME NEW c \in Clientes, NEW t \in Tablas, Pedir(c, t) PROVE Cerrojos'
  <2>1. ASSUME NEW k \in Claves, NEW m \in 1..MaxTs, InsertVerificar(c, t, k, m)
        PROVE Cerrojos'
    BY <2>1 DEF InsertVerificar, Empezar
  <2>2. ASSUME NEW k \in Claves, NEW m \in 0..MaxTs, SelectVerificar(c, t, k, m)
        PROVE Cerrojos'
    BY <2>2 DEF SelectVerificar, Empezar
  <2>3. CASE CreateVerificar(c, t)
    BY <2>3 DEF CreateVerificar, Empezar
  <2>4. CASE DropVerificar(c, t)
    BY <2>4 DEF DropVerificar, Empezar
  <2>. QED
    BY <1>2, <2>1, <2>2, <2>3, <2>4 DEF Pedir
<1>3. ASSUME NEW c \in Clientes, PasoCliente(c) PROVE Cerrojos'
  <2>0. ped[c].tabla \in Tablas
    BY DEF Pedido
  <2>1. CASE InsertAgregar(c)
    BY <2>0, <2>1 DEF InsertAgregar
  <2>2. CASE SelectSemaforo(c)
    BY <2>0, <2>2 DEF SelectSemaforo
  <2>3. ASSUME NEW m \in 0..MaxTs, SelectLeerDisco(c, m) PROVE Cerrojos'
    BY <2>0, <2>3 DEF SelectLeerDisco
  <2>4. CASE SelectTablaBorrada(c)
    BY <2>0, <2>4 DEF SelectTablaBorrada
  <2>5. ASSUME NEW m \in 0..MaxTs, SelectLeerMemtable(c, m) PROVE Cerrojos'
    BY <2>0, <2>5 DEF SelectLeerMemtable
  <2>6. CASE SelectResponder(c)
    BY <2>0, <2>6 DEF SelectResponder
  <2>7. CASE CreateDirectorio(c)
    BY <2>0, <2>7 DEF CreateDirectorio
  <2>8. CASE CreateSemaforos(c)
    BY <2>0, <2>8 DEF CreateSemaforos
  <2>9. CASE CreateMetadata(c)
    BY <2>0, <2>9 DEF CreateMetadata
  <2>10. ASSUME NEW i \in Parts, CreateParticion(c, i) PROVE Cerrojos'
    BY <2>0, <2>10 DEF CreateParticion
  <2>11. CASE CreateHilo(c)
    BY <2>0, <2>11 DEF CreateHilo
  <2>12. CASE DropSemaforo(c)
    BY <2>0, <2>12 DEF DropSemaforo
  <2>13. CASE DropMx(c)
    BY <2>0, <2>13 DEF DropMx
  <2>14. CASE DropRw(c)
    BY <2>0, <2>14 DEF DropRw
  <2>15. CASE DropMemtable(c)
    BY <2>0, <2>15 DEF DropMemtable
  <2>16. CASE DropParticiones(c)
    BY <2>0, <2>16 DEF DropParticiones
  <2>17. CASE DropTemporales(c)
    BY <2>0, <2>17 DEF DropTemporales
  <2>18. CASE DropMetadata(c)
    BY <2>0, <2>18 DEF DropMetadata
  <2>19. CASE DropDirectorio(c)
    BY <2>0, <2>19 DEF DropDirectorio
  <2>20. CASE DropFin(c)
    <3>. DEFINE t == ped[c].tabla
    <3>1. /\ pc[c] = "drop_fin"
          /\ pc' = [pc EXCEPT ![c] = "libre"]
          /\ ped' = [ped EXCEPT ![c] = PedidoNulo]
          /\ comp' = [comp EXCEPT ![t] = "sin_hilo"]
          /\ rwTabla' = [rwTabla EXCEPT ![t] = "libre"]
          /\ dropMx' = [dropMx EXCEPT ![t] = "libre"]
      BY <2>20 DEF DropFin
    <3>2. ASSUME NEW d \in Clientes, pc'[d] \in DropConMx
          PROVE  d # c /\ pc'[d] = pc[d] /\ ped'[d] = ped[d]
                 /\ ped[d].tabla # t /\ ped[d].tabla \in Tablas
      BY <3>1, <3>2 DEF Pedido
    <3>3. ASSUME NEW d \in Clientes
          PROVE  /\ pc'[d] \in DropConMx => dropMx'[ped'[d].tabla] = "drop"
                 /\ pc'[d] \in DropConRw => rwTabla'[ped'[d].tabla] = "drop"
      BY <3>1, <3>2
    <3>4. ASSUME NEW d \in Clientes, NEW e \in Clientes,
                 pc'[d] \in DropConMx, pc'[e] \in DropConMx,
                 ped'[d].tabla = ped'[e].tabla
          PROVE  d = e
      BY <3>2, <3>4
    <3>5. ASSUME NEW u \in Tablas
          PROVE  /\ comp'[u] \in CoConMx => dropMx'[u] = "compactacion"
                 /\ comp'[u] \in CoConRw => rwTabla'[u] = "compactacion"
      BY <2>0, <3>1
    <3>. QED
      BY <3>3, <3>4, <3>5
  <2>21. CASE FallaCliente(c)
    BY <2>21, CerrojosCaer DEF FallaCliente
  <2>. QED
    BY <1>3, <2>1, <2>2, <2>3, <2>4, <2>5, <2>6, <2>7, <2>8, <2>9, <2>10,
       <2>11, <2>12, <2>13, <2>14, <2>15, <2>16, <2>17, <2>18,
       <2>19, <2>20, <2>21
       DEF PasoCliente
<1>4. CASE PasoDump
  <2>1. CASE DumpDespertar
    BY <2>1 DEF DumpDespertar
  <2>2. CASE DumpBloquear
    BY <2>2 DEF DumpBloquear
  <2>3. ASSUME NEW t \in Tablas, DumpTabla(t) PROVE Cerrojos'
    BY <2>3 DEF DumpTabla
  <2>4. CASE DumpFin
    <3>1. ASSUME NEW c \in Clientes PROVE ped'[c].tabla = ped[c].tabla
      BY <2>4, DumpFinPed
    <3>2. /\ pc' = pc /\ rwTabla' = rwTabla /\ dropMx' = dropMx
          /\ comp' = comp
      BY <2>4 DEF DumpFin
    <3>. HIDE DEF TypeOK
    <3>. QED
      BY <3>1, <3>2
  <2>5. CASE FallaDump
    BY <2>5, CerrojosCaer DEF FallaDump
  <2>. QED
    BY <1>4, <2>1, <2>2, <2>3, <2>4, <2>5 DEF PasoDump
<1>5. ASSUME NEW t \in Tablas, PasoCompactacion(t) PROVE Cerrojos'
  <2>1. CASE CoListar(t)
    BY <2>1 DEF CoListar
  <2>2. CASE CoTomarMx(t)
    BY <2>2 DEF CoTomarMx
  <2>3. CASE CoRenombrar(t)
    BY <2>3 DEF CoRenombrar
  <2>4. ASSUME NEW n \in 1..Particiones, CoLeer(t, n) PROVE Cerrojos'
    BY <2>4 DEF CoLeer
  <2>5. CASE CoTomarRw(t)
    BY <2>5 DEF CoTomarRw
  <2>6. CASE CoBorrarTmpc(t)
    BY <2>6 DEF CoBorrarTmpc
  <2>7. CASE CoBorrarBin(t)
    BY <2>7 DEF CoBorrarBin
  <2>8. ASSUME NEW i \in Parts, CoGuardar(t, i) PROVE Cerrojos'
    BY <2>8 DEF CoGuardar
  <2>9. CASE CoFin(t)
    BY <2>9 DEF CoFin
  <2>10. CASE FallaCompactacion(t)
    BY <2>10, CerrojosCaer DEF FallaCompactacion
  <2>. QED
    BY <1>5, <2>1, <2>2, <2>3, <2>4, <2>5, <2>6, <2>7, <2>8, <2>9, <2>10
       DEF PasoCompactacion
<1>6. CASE Terminar
  BY <1>6, CerrojosCaer DEF Terminar
<1>7. CASE Levantar
  BY <1>7 DEF Levantar
<1>. QED
  BY <1>1, <1>2, <1>3, <1>4, <1>5, <1>6, <1>7 DEF Next

\* A DROP cancels the compaction thread of its table only where the thread has
\* changed nothing: asleep, or waiting for drop_mx.
THEOREM BajaRespetaCompactacion == Spec => BajaNoCortaCompactacion
<1>. DEFINE A == \A t \in Tablas :
                   comp[t] # "sin_hilo" /\ comp'[t] = "sin_hilo" /\ vivo'
                     => comp[t] \in {"durmiendo", "por_bloquear"}
<1>1. TypeOK /\ Muerto /\ Cerrojos /\ [Next]_vars => [A]_vars
  <2>. SUFFICES ASSUME TypeOK, Muerto, Cerrojos, Next,
                       NEW t \in Tablas, comp[t] # "sin_hilo",
                       comp'[t] = "sin_hilo", vivo'
                PROVE  comp[t] \in {"durmiendo", "por_bloquear"}
    BY DEF vars
  <2>. USE DEF TypeOK, compactacion
  <2>1. ~Caer
    BY DEF Caer
  <2>2. ASSUME NEW c \in Clientes, DropFin(c)
        PROVE  comp[t] \in {"durmiendo", "por_bloquear"}
    <3>1. pc[c] = "drop_fin" /\ ped[c].tabla = t
      BY <2>2 DEF DropFin
    <3>2. dropMx[t] = "drop" /\ rwTabla[t] = "drop"
      BY <3>1 DEF Cerrojos, DropConMx, DropConRw
    <3>3. comp[t] \notin CoConMx \cup CoConRw
      BY <3>2 DEF Cerrojos
    <3>. QED
      BY <3>3 DEF EstadosComp, CoConMx, CoConRw
  <2>3. ASSUME NEW c \in Clientes, PasoCliente(c)
        PROVE  comp'[t] = comp[t] \/ comp'[t] = "durmiendo" \/ DropFin(c)
    <3>1. comp' = comp \/ CreateHilo(c) \/ DropFin(c)
      BY <2>1, <2>3
         DEF PasoCliente, InsertAgregar, SelectSemaforo, SelectLeerDisco,
             SelectTablaBorrada, SelectLeerMemtable, SelectResponder,
             CreateDirectorio, CreateSemaforos, CreateMetadata, CreateParticion,
             DropSemaforo, DropMx, DropRw, DropMemtable, DropParticiones,
             DropTemporales, DropMetadata, DropDirectorio, FallaCliente
    <3>. QED
      BY <3>1 DEF CreateHilo
  <2>4. ASSUME PasoDump PROVE comp' = comp
    BY <2>1, <2>4 DEF PasoDump, DumpDespertar, DumpBloquear, DumpTabla, DumpFin,
                      FallaDump
  <2>5. ASSUME NEW u \in Tablas, PasoCompactacion(u)
        PROVE  comp'[t] # "sin_hilo"
    BY <2>1, <2>5
       DEF PasoCompactacion, CoListar, CoTomarMx, CoRenombrar, CoLeer,
           CoTomarRw, CoBorrarTmpc, CoBorrarBin, CoGuardar, CoFin,
           FallaCompactacion
  <2>6. ASSUME NEW c \in Clientes, NEW u \in Tablas, Pedir(c, u)
        PROVE  comp' = comp
    BY <2>6 DEF Pedir, InsertVerificar, SelectVerificar, CreateVerificar,
                DropVerificar
  <2>. QED
    BY <2>1, <2>2, <2>3, <2>4, <2>5, <2>6
       DEF Next, Terminar, Levantar, Muerto
<1>. QED
  BY <1>1, TipoCorrecto, MuertoInit, MuertoNext, CerrojosInit, CerrojosNext, PTL
     DEF Spec, BajaNoCortaCompactacion

----------------------------------------------------------------------------
(* What each kind of step leaves alone *)

\* The memtable changes with an INSERT, a DROP, the end of a dump and the end
\* of the process.
LEMMA CambiaMemoria ==
  ASSUME [Next]_vars
  PROVE  \/ UNCHANGED memoria
         \/ \E c \in Clientes : InsertAgregar(c) \/ DropMemtable(c)
         \/ DumpFin
         \/ Caer
<1>1. CASE UNCHANGED vars
  BY <1>1 DEF vars
<1>2. ASSUME NEW c \in Clientes, NEW t \in Tablas, Pedir(c, t)
      PROVE  UNCHANGED memoria
  BY <1>2 DEF Pedir, InsertVerificar, SelectVerificar, CreateVerificar,
              DropVerificar
<1>3. ASSUME NEW c \in Clientes, PasoCliente(c)
      PROVE  UNCHANGED memoria \/ InsertAgregar(c) \/ DropMemtable(c) \/ Caer
  BY <1>3
     DEF PasoCliente, SelectSemaforo, SelectLeerDisco, SelectTablaBorrada,
         SelectLeerMemtable, SelectResponder, CreateDirectorio,
         CreateSemaforos, CreateMetadata, CreateParticion, CreateHilo,
         DropSemaforo, DropMx, DropRw, DropParticiones, DropTemporales,
         DropMetadata, DropDirectorio, DropFin, FallaCliente
<1>4. ASSUME PasoDump PROVE UNCHANGED memoria \/ DumpFin \/ Caer
  BY <1>4 DEF PasoDump, DumpDespertar, DumpBloquear, DumpTabla, FallaDump
<1>5. ASSUME NEW t \in Tablas, PasoCompactacion(t)
      PROVE  UNCHANGED memoria \/ Caer
  BY <1>5
     DEF PasoCompactacion, CoListar, CoTomarMx, CoRenombrar, CoLeer, CoTomarRw,
         CoBorrarTmpc, CoBorrarBin, CoGuardar, CoFin, FallaCompactacion
<1>. QED
  BY <1>1, <1>2, <1>3, <1>4, <1>5 DEF Next, Terminar, Levantar

\* A client is moved by its own steps and by the end of the process.
LEMMA CambiaCliente ==
  ASSUME TypeOK, [Next]_vars, NEW c \in Clientes
  PROVE  \/ pc'[c] = pc[c] /\ ped'[c].tabla = ped[c].tabla
         \/ \E t \in Tablas : Pedir(c, t)
         \/ PasoCliente(c)
         \/ Caer
<1>. DEFINE Igual == pc'[c] = pc[c] /\ ped'[c].tabla = ped[c].tabla
<1>. USE DEF clientes
<1>0. pc \in [Clientes -> PCs] /\ ped \in [Clientes -> Pedido]
  BY DEF TypeOK
<1>1. CASE UNCHANGED vars
  BY <1>1 DEF vars
<1>2. ASSUME NEW d \in Clientes \ {c}, NEW t \in Tablas, Pedir(d, t)
      PROVE  Igual
  BY <1>0, <1>2 DEF Pedir, InsertVerificar, SelectVerificar, CreateVerificar,
              DropVerificar, Empezar
<1>3. ASSUME NEW d \in Clientes \ {c}, PasoCliente(d) PROVE Igual \/ Caer
  BY <1>0, <1>3
     DEF PasoCliente, InsertAgregar, SelectSemaforo, SelectLeerDisco,
         SelectTablaBorrada, SelectLeerMemtable, SelectResponder,
         CreateDirectorio, CreateSemaforos, CreateMetadata, CreateParticion,
         CreateHilo, DropSemaforo, DropMx, DropRw, DropMemtable,
         DropParticiones, DropTemporales, DropMetadata, DropDirectorio,
         DropFin, FallaCliente, Seguir, Contestar
<1>4. ASSUME PasoDump PROVE Igual \/ Caer
  <2>1. CASE DumpFin
    BY <2>1, DumpFinPed DEF DumpFin
  <2>. QED
    BY <1>4, <2>1 DEF PasoDump, DumpDespertar, DumpBloquear, DumpTabla,
                      FallaDump
<1>5. ASSUME NEW t \in Tablas, PasoCompactacion(t) PROVE Igual \/ Caer
  BY <1>5
     DEF PasoCompactacion, CoListar, CoTomarMx, CoRenombrar, CoLeer, CoTomarRw,
         CoBorrarTmpc, CoBorrarBin, CoGuardar, CoFin, FallaCompactacion
<1>. QED
  BY <1>1, <1>2, <1>3, <1>4, <1>5 DEF Next, Terminar, Levantar

----------------------------------------------------------------------------
(* The list of tables and the memtable *)

LEMMA InsertadasInit == Init => InsertadasAlDia
  BY DEF Init, InsertadasAlDia

LEMMA InsertadasNext ==
  TypeOK /\ InsertadasAlDia /\ [Next]_vars => InsertadasAlDia'
<1>. SUFFICES ASSUME TypeOK, InsertadasAlDia, [Next]_vars
              PROVE  InsertadasAlDia'
  OBVIOUS
<1>. USE DEF TypeOK, InsertadasAlDia
<1>1. CASE UNCHANGED memoria
  BY <1>1 DEF memoria
<1>2. ASSUME NEW c \in Clientes, InsertAgregar(c) PROVE InsertadasAlDia'
  <2>1. ped[c].tabla \in Tablas
    BY DEF Pedido
  <2>. QED
    BY <1>2, <2>1 DEF InsertAgregar
<1>3. ASSUME NEW c \in Clientes, DropMemtable(c) PROVE InsertadasAlDia'
  <2>1. ped[c].tabla \in Tablas
    BY DEF Pedido
  <2>. QED
    BY <1>3, <2>1 DEF DropMemtable
<1>4. CASE DumpFin
  BY <1>4 DEF DumpFin
<1>5. CASE Caer
  BY <1>5 DEF Caer
<1>. QED
  BY <1>1, <1>2, <1>3, <1>4, <1>5, CambiaMemoria

\* A table is in listaTablasInsertadas exactly when it has records in the
\* memtable: the dump misses no table and writes no empty file.
THEOREM ListaAlDia == Spec => []InsertadasAlDia
  BY InsertadasInit, InsertadasNext, TipoCorrecto, PTL DEF Spec

----------------------------------------------------------------------------
(* The life of a table *)

\* From CREATE to DROP: which files and threads a table has at each step, and
\* that a CREATE of it excludes another CREATE and every DROP; and who holds
\* the table's lock when it is taken.
CicloDeVida ==
    /\ metadata \subseteq existe
    /\ \A c \in Clientes :
          /\ pc[c] \in Creando \ {"cre_directorio"} => ped[c].tabla \in existe
          /\ pc[c] = "cre_particiones" => ped[c].tabla \in metadata
          /\ pc[c] \in {"drop_directorio", "drop_fin"}
                => ped[c].tabla \notin metadata
          /\ pc[c] = "drop_fin" => ped[c].tabla \notin existe
          /\ pc[c] \in Creando => comp[ped[c].tabla] = "sin_hilo"
    /\ \A c, d \in Clientes :
          (/\ pc[c] \in Creando
           /\ pc[d] \in Creando \cup Borrando
           /\ ped[c].tabla = ped[d].tabla) => c = d
    /\ \A t \in Tablas :
          /\ comp[t] # "sin_hilo" =>
                t \in metadata \/ Ocupada(t, {"drop_directorio", "drop_fin"})
          /\ rwTabla[t] = "compactacion" => comp[t] \in CoConRw
          /\ rwTabla[t] = "drop" => Ocupada(t, DropConRw)

LEMMA CicloInit == Init => CicloDeVida
<1>. SUFFICES ASSUME Init PROVE CicloDeVida
  OBVIOUS
<1>1. ASSUME NEW c \in Clientes PROVE pc[c] = "libre"
  BY DEF Init
<1>2. ASSUME NEW t \in Tablas
      PROVE  rwTabla[t] = "libre" /\ (comp[t] # "sin_hilo" => t \in metadata)
  BY DEF Init
<1>3. metadata \subseteq existe
  BY DEF Init
<1>. QED
  BY <1>1, <1>2, <1>3 DEF CicloDeVida, Creando

LEMMA CicloCaer == CicloDeVida /\ Caer => CicloDeVida'
<1>. SUFFICES ASSUME CicloDeVida, Caer PROVE CicloDeVida'
  OBVIOUS
<1>1. ASSUME NEW c \in Clientes PROVE pc'[c] = "libre"
  BY DEF Caer
<1>2. ASSUME NEW t \in Tablas
      PROVE  rwTabla'[t] = "libre" /\ comp'[t] = "sin_hilo"
  BY DEF Caer
<1>3. metadata' \subseteq existe'
  BY DEF Caer, CicloDeVida, disco
<1>. QED
  BY <1>1, <1>2, <1>3 DEF CicloDeVida, Creando

LEMMA CicloNext ==
  TypeOK /\ Muerto /\ Cerrojos /\ CicloDeVida /\ [Next]_vars => CicloDeVida'
<1>. SUFFICES ASSUME TypeOK, Muerto, Cerrojos, CicloDeVida, [Next]_vars
              PROVE  CicloDeVida'
  OBVIOUS
<1>. USE DEF Cerrojos, CicloDeVida, Ocupada, disco, archivos,
             memoria, cerrojos, clientes, volcado, compactacion, proceso,
             Creando, Borrando, DropConMx, DropConRw, CoConMx, CoConRw, Seguir,
             Contestar
<1>0. /\ pc \in [Clientes -> PCs] /\ comp \in [Tablas -> EstadosComp]
      /\ rwTabla \in [Tablas -> {"libre", "drop", "compactacion"}]
      /\ ped \in [Clientes -> Pedido]
      /\ \A c \in Clientes : ped[c].tabla \in Tablas
  BY DEF TypeOK, Pedido
<1>1. CASE UNCHANGED vars
  BY <1>1 DEF vars
<1>2. ASSUME NEW c \in Clientes, NEW t \in Tablas, Pedir(c, t) PROVE CicloDeVida'
  <2>1. ASSUME NEW k \in Claves, NEW m \in 1..MaxTs, InsertVerificar(c, t, k, m)
        PROVE CicloDeVida'
    BY <1>0, <2>1 DEF InsertVerificar, Empezar
  <2>2. ASSUME NEW k \in Claves, NEW m \in 0..MaxTs, SelectVerificar(c, t, k, m)
        PROVE CicloDeVida'
    BY <1>0, <2>2 DEF SelectVerificar, Empezar
  <2>3. CASE CreateVerificar(c, t)
    BY <1>0, <2>3 DEF CreateVerificar, Empezar
  <2>4. CASE DropVerificar(c, t)
    BY <1>0, <2>4 DEF DropVerificar, Empezar
  <2>. QED
    BY <1>2, <2>1, <2>2, <2>3, <2>4 DEF Pedir
<1>3. ASSUME NEW c \in Clientes, PasoCliente(c) PROVE CicloDeVida'
  <2>0. ped[c].tabla \in Tablas
    BY <1>0
  <2>1. CASE InsertAgregar(c)
    BY <1>0, <2>1 DEF InsertAgregar
  <2>2. CASE SelectSemaforo(c)
    BY <1>0, <2>2 DEF SelectSemaforo
  <2>3. ASSUME NEW m \in 0..MaxTs, SelectLeerDisco(c, m) PROVE CicloDeVida'
    BY <1>0, <2>3 DEF SelectLeerDisco
  <2>4. CASE SelectTablaBorrada(c)
    BY <1>0, <2>4 DEF SelectTablaBorrada
  <2>5. ASSUME NEW m \in 0..MaxTs, SelectLeerMemtable(c, m) PROVE CicloDeVida'
    BY <1>0, <2>5 DEF SelectLeerMemtable
  <2>6. CASE SelectResponder(c)
    BY <1>0, <2>6 DEF SelectResponder
  <2>7. CASE CreateDirectorio(c)
    BY <1>0, <2>7 DEF CreateDirectorio
  <2>8. CASE CreateSemaforos(c)
    BY <1>0, <2>8 DEF CreateSemaforos
  <2>9. CASE CreateMetadata(c)
    BY <1>0, <2>9 DEF CreateMetadata
  <2>10. ASSUME NEW i \in Parts, CreateParticion(c, i) PROVE CicloDeVida'
    BY <1>0, <2>10 DEF CreateParticion
  <2>11. CASE CreateHilo(c)
    BY <1>0, <2>11 DEF CreateHilo
  <2>12. CASE DropSemaforo(c)
    BY <1>0, <2>12 DEF DropSemaforo
  <2>13. CASE DropMx(c)
    BY <1>0, <2>13 DEF DropMx
  <2>14. CASE DropRw(c)
    BY <1>0, <2>14 DEF DropRw
  <2>15. CASE DropMemtable(c)
    BY <1>0, <2>15 DEF DropMemtable
  <2>16. CASE DropParticiones(c)
    BY <1>0, <2>16 DEF DropParticiones
  <2>17. CASE DropTemporales(c)
    BY <1>0, <2>17 DEF DropTemporales
  <2>18. CASE DropMetadata(c)
    BY <1>0, <2>18 DEF DropMetadata
  <2>19. CASE DropDirectorio(c)
    BY <1>0, <2>19 DEF DropDirectorio
  <2>20. CASE DropFin(c)
    BY <1>0, <2>20 DEF DropFin
  <2>21. CASE FallaCliente(c)
    BY <2>21, CicloCaer DEF FallaCliente
  <2>. QED
    BY <1>3, <2>1, <2>2, <2>3, <2>4, <2>5, <2>6, <2>7, <2>8, <2>9, <2>10,
       <2>11, <2>12, <2>13, <2>14, <2>15, <2>16, <2>17, <2>18,
       <2>19, <2>20, <2>21
       DEF PasoCliente
<1>4. CASE PasoDump
  <2>1. CASE DumpDespertar
    BY <1>0, <2>1 DEF DumpDespertar
  <2>2. CASE DumpBloquear
    BY <1>0, <2>2 DEF DumpBloquear
  <2>3. ASSUME NEW t \in Tablas, DumpTabla(t) PROVE CicloDeVida'
    BY <1>0, <2>3 DEF DumpTabla
  <2>4. CASE DumpFin
    <3>1. ASSUME NEW c \in Clientes PROVE ped'[c].tabla = ped[c].tabla
      BY <2>4, DumpFinPed
    <3>2. /\ pc' = pc /\ rwTabla' = rwTabla /\ comp' = comp
          /\ existe' = existe /\ metadata' = metadata
      BY <2>4 DEF DumpFin
    <3>. QED
      BY <3>1, <3>2
  <2>5. CASE FallaDump
    BY <2>5, CicloCaer DEF FallaDump
  <2>. QED
    BY <1>4, <2>1, <2>2, <2>3, <2>4, <2>5 DEF PasoDump
<1>5. ASSUME NEW t \in Tablas, PasoCompactacion(t) PROVE CicloDeVida'
  <2>1. CASE CoListar(t)
    BY <1>0, <2>1 DEF CoListar
  <2>2. CASE CoTomarMx(t)
    BY <1>0, <2>2 DEF CoTomarMx
  <2>3. CASE CoRenombrar(t)
    BY <1>0, <2>3 DEF CoRenombrar
  <2>4. ASSUME NEW n \in 1..Particiones, CoLeer(t, n) PROVE CicloDeVida'
    BY <1>0, <2>4 DEF CoLeer
  <2>5. CASE CoTomarRw(t)
    BY <1>0, <2>5 DEF CoTomarRw
  <2>6. CASE CoBorrarTmpc(t)
    BY <1>0, <2>6 DEF CoBorrarTmpc
  <2>7. CASE CoBorrarBin(t)
    BY <1>0, <2>7 DEF CoBorrarBin
  <2>8. ASSUME NEW i \in Parts, CoGuardar(t, i) PROVE CicloDeVida'
    BY <1>0, <2>8 DEF CoGuardar
  <2>9. CASE CoFin(t)
    BY <1>0, <2>9 DEF CoFin
  <2>10. CASE FallaCompactacion(t)
    BY <2>10, CicloCaer DEF FallaCompactacion
  <2>. QED
    BY <1>5, <2>1, <2>2, <2>3, <2>4, <2>5, <2>6, <2>7, <2>8, <2>9, <2>10
       DEF PasoCompactacion
<1>6. CASE Terminar
  BY <1>6, CicloCaer DEF Terminar
<1>7. CASE Levantar
  <2>1. ASSUME NEW c \in Clientes PROVE pc'[c] = "libre"
    BY <1>7 DEF Levantar, Muerto
  <2>2. ASSUME NEW t \in Tablas
        PROVE  /\ rwTabla'[t] = "libre"
               /\ comp'[t] # "sin_hilo" => t \in metadata'
    BY <1>7 DEF Levantar, Muerto
  <2>3. metadata' \subseteq existe'
    BY <1>7 DEF Levantar
  <2>. QED
    BY <2>1, <2>2, <2>3
<1>. QED
  BY <1>1, <1>2, <1>3, <1>4, <1>5, <1>6, <1>7 DEF Next

LEMMA Base == Spec => [](TypeOK /\ Muerto /\ Cerrojos /\ CicloDeVida)
  BY TipoCorrecto, MuertoInit, MuertoNext, CerrojosInit, CerrojosNext,
     CicloInit, CicloNext, PTL DEF Spec

----------------------------------------------------------------------------
(* Who changes the files, the lists and the lock of a table *)

\* Which steps change the files of t.
LEMMA CambiaArchivos ==
  ASSUME TypeOK, [Next]_vars, NEW t \in Tablas
  PROVE  \/ /\ tmp'[t] = tmp[t] /\ tmpc'[t] = tmpc[t]
            /\ bin'[t] = bin[t] /\ hayBin'[t] = hayBin[t]
         \/ DumpTabla(t)
         \/ CoRenombrar(t) \/ CoBorrarTmpc(t) \/ CoBorrarBin(t)
         \/ \E i \in Parts : CoGuardar(t, i)
         \/ \E c \in Clientes :
               /\ ped[c].tabla = t
               /\ \/ DropParticiones(c) \/ DropTemporales(c)
                  \/ \E i \in Parts : CreateParticion(c, i)
<1>. DEFINE Igual == /\ tmp'[t] = tmp[t] /\ tmpc'[t] = tmpc[t]
                     /\ bin'[t] = bin[t] /\ hayBin'[t] = hayBin[t]
<1>0. /\ DOMAIN tmp = Tablas /\ DOMAIN tmpc = Tablas
      /\ DOMAIN bin = Tablas /\ DOMAIN hayBin = Tablas
      /\ tmp = [u \in Tablas |-> tmp[u]] /\ tmpc = [u \in Tablas |-> tmpc[u]]
      /\ bin = [u \in Tablas |-> bin[u]]
      /\ hayBin = [u \in Tablas |-> hayBin[u]]
  BY DEF TypeOK
<1>. USE DEF disco, archivos
<1>1. CASE UNCHANGED vars
  BY <1>1 DEF vars
<1>2. ASSUME NEW c \in Clientes, NEW u \in Tablas, Pedir(c, u) PROVE Igual
  BY <1>2 DEF Pedir, InsertVerificar, SelectVerificar, CreateVerificar,
              DropVerificar
<1>3. ASSUME NEW c \in Clientes, PasoCliente(c)
      PROVE  \/ Igual
             \/ /\ ped[c].tabla = t
                /\ \/ DropParticiones(c) \/ DropTemporales(c)
                   \/ \E i \in Parts : CreateParticion(c, i)
  <2>1. CASE DropParticiones(c)
    BY <1>0, <2>1 DEF DropParticiones
  <2>2. CASE DropTemporales(c)
    BY <1>0, <2>2 DEF DropTemporales
  <2>3. ASSUME NEW i \in Parts, CreateParticion(c, i)
        PROVE  Igual \/ ped[c].tabla = t
    BY <1>0, <2>3 DEF CreateParticion
  <2>. QED
    BY <1>3, <2>1, <2>2, <2>3
       DEF PasoCliente, InsertAgregar, SelectSemaforo, SelectLeerDisco,
           SelectTablaBorrada, SelectLeerMemtable, SelectResponder,
           CreateDirectorio, CreateSemaforos, CreateMetadata, CreateHilo,
           DropSemaforo, DropMx, DropRw, DropMemtable, DropMetadata,
           DropDirectorio, DropFin, FallaCliente, Caer
<1>4. ASSUME PasoDump PROVE Igual \/ DumpTabla(t)
  <2>1. ASSUME NEW u \in Tablas, DumpTabla(u) PROVE Igual \/ u = t
    BY <1>0, <2>1 DEF DumpTabla
  <2>. QED
    BY <1>4, <2>1 DEF PasoDump, DumpDespertar, DumpBloquear, DumpFin, FallaDump,
                      Caer
<1>5. ASSUME NEW u \in Tablas, PasoCompactacion(u)
      PROVE  \/ Igual
             \/ CoRenombrar(t) \/ CoBorrarTmpc(t) \/ CoBorrarBin(t)
             \/ \E i \in Parts : CoGuardar(t, i)
  <2>1. CASE CoRenombrar(u)
    BY <1>0, <2>1 DEF CoRenombrar
  <2>2. CASE CoBorrarTmpc(u)
    BY <1>0, <2>2 DEF CoBorrarTmpc
  <2>3. CASE CoBorrarBin(u)
    BY <1>0, <2>3 DEF CoBorrarBin
  <2>4. ASSUME NEW i \in Parts, CoGuardar(u, i) PROVE Igual \/ u = t
    BY <1>0, <2>4 DEF CoGuardar
  <2>. QED
    BY <1>5, <2>1, <2>2, <2>3, <2>4
       DEF PasoCompactacion, CoListar, CoTomarMx, CoLeer, CoTomarRw, CoFin,
           FallaCompactacion, Caer
<1>. QED
  BY <1>1, <1>2, <1>3, <1>4, <1>5 DEF Next, Terminar, Levantar, Caer

\* Which steps change the compaction thread of t and its lists.
LEMMA CambiaCompactacion ==
  ASSUME TypeOK, [Next]_vars, NEW t \in Tablas
  PROVE  \/ /\ comp'[t] = comp[t] /\ listas'[t] = listas[t]
            /\ nListas'[t] = nListas[t]
         \/ PasoCompactacion(t)
         \/ \E c \in Clientes :
               ped[c].tabla = t /\ (CreateHilo(c) \/ DropFin(c))
         \/ Caer \/ Levantar
<1>. DEFINE Igual == /\ comp'[t] = comp[t] /\ listas'[t] = listas[t]
                     /\ nListas'[t] = nListas[t]
<1>0. /\ comp \in [Tablas -> EstadosComp]
      /\ listas = [u \in Tablas |-> listas[u]]
      /\ nListas = [u \in Tablas |-> nListas[u]]
  BY DEF TypeOK
<1>. USE DEF compactacion
<1>1. CASE UNCHANGED vars
  BY <1>1 DEF vars
<1>2. ASSUME NEW c \in Clientes, NEW u \in Tablas, Pedir(c, u) PROVE Igual
  BY <1>2 DEF Pedir, InsertVerificar, SelectVerificar, CreateVerificar,
              DropVerificar
<1>3. ASSUME NEW c \in Clientes, PasoCliente(c)
      PROVE  \/ Igual \/ Caer
             \/ ped[c].tabla = t /\ (CreateHilo(c) \/ DropFin(c))
  <2>1. CASE CreateHilo(c)
    BY <1>0, <2>1 DEF CreateHilo
  <2>2. CASE DropFin(c)
    BY <1>0, <2>2 DEF DropFin
  <2>. QED
    BY <1>3, <2>1, <2>2
       DEF PasoCliente, InsertAgregar, SelectSemaforo, SelectLeerDisco,
           SelectTablaBorrada, SelectLeerMemtable, SelectResponder,
           CreateDirectorio, CreateSemaforos, CreateMetadata, CreateParticion,
           DropSemaforo, DropMx, DropRw, DropMemtable, DropParticiones,
           DropTemporales, DropMetadata, DropDirectorio, FallaCliente
<1>4. ASSUME PasoDump PROVE Igual \/ Caer
  BY <1>4 DEF PasoDump, DumpDespertar, DumpBloquear, DumpTabla, DumpFin,
              FallaDump
<1>5. ASSUME NEW u \in Tablas \ {t}, PasoCompactacion(u)
      PROVE  Igual \/ Caer
  BY <1>0, <1>5
     DEF PasoCompactacion, CoListar, CoTomarMx, CoRenombrar, CoLeer, CoTomarRw,
         CoBorrarTmpc, CoBorrarBin, CoGuardar, CoFin, FallaCompactacion
<1>. QED
  BY <1>1, <1>2, <1>3, <1>4, <1>5 DEF Next, Terminar

\* Which steps change the lock of t.
LEMMA CambiaRw ==
  ASSUME TypeOK, [Next]_vars, NEW t \in Tablas
  PROVE  \/ rwTabla'[t] = rwTabla[t]
         \/ CoTomarRw(t) \/ CoFin(t)
         \/ \E c \in Clientes : ped[c].tabla = t /\ (DropRw(c) \/ DropFin(c))
         \/ Caer
<1>. DEFINE Igual == rwTabla'[t] = rwTabla[t]
<1>0. rwTabla = [u \in Tablas |-> rwTabla[u]]
  BY DEF TypeOK
<1>. USE DEF cerrojos
<1>1. CASE UNCHANGED vars
  BY <1>1 DEF vars
<1>2. ASSUME NEW c \in Clientes, NEW u \in Tablas, Pedir(c, u) PROVE Igual
  BY <1>2 DEF Pedir, InsertVerificar, SelectVerificar, CreateVerificar,
              DropVerificar
<1>3. ASSUME NEW c \in Clientes, PasoCliente(c)
      PROVE  \/ Igual \/ Caer
             \/ ped[c].tabla = t /\ (DropRw(c) \/ DropFin(c))
  <2>1. CASE DropRw(c)
    BY <1>0, <2>1 DEF DropRw
  <2>2. CASE DropFin(c)
    BY <1>0, <2>2 DEF DropFin
  <2>. QED
    BY <1>3, <2>1, <2>2
       DEF PasoCliente, InsertAgregar, SelectSemaforo, SelectLeerDisco,
           SelectTablaBorrada, SelectLeerMemtable, SelectResponder,
           CreateDirectorio, CreateSemaforos, CreateMetadata, CreateParticion,
           CreateHilo, DropSemaforo, DropMx, DropMemtable, DropParticiones,
           DropTemporales, DropMetadata, DropDirectorio, FallaCliente
<1>4. ASSUME PasoDump PROVE Igual \/ Caer
  BY <1>4 DEF PasoDump, DumpDespertar, DumpBloquear, DumpTabla, DumpFin,
              FallaDump
<1>5. ASSUME NEW u \in Tablas, PasoCompactacion(u)
      PROVE  Igual \/ CoTomarRw(t) \/ CoFin(t) \/ Caer
  <2>1. CASE CoTomarRw(u)
    BY <1>0, <2>1 DEF CoTomarRw
  <2>2. CASE CoFin(u)
    BY <1>0, <2>2 DEF CoFin
  <2>. QED
    BY <1>5, <2>1, <2>2
       DEF PasoCompactacion, CoListar, CoTomarMx, CoRenombrar, CoLeer,
           CoBorrarTmpc, CoBorrarBin, CoGuardar, FallaCompactacion
<1>. QED
  BY <1>1, <1>2, <1>3, <1>4, <1>5 DEF Next, Terminar, Levantar

----------------------------------------------------------------------------
(* What a DROP leaves *)

\* The files that a DROP in progress has removed stay removed.
SinArchivos ==
    \A c \in Clientes :
        /\ pc[c] \in {"drop_tmp", "drop_metadata", "drop_directorio",
                      "drop_fin"}
              => \A i \in Parts : bin[ped[c].tabla][i] = {}
        /\ pc[c] \in {"drop_metadata", "drop_directorio", "drop_fin"}
              => \A n \in Nums : /\ tmp[ped[c].tabla][n] = {}
                                 /\ tmpc[ped[c].tabla][n] = {}

LEMMA SinArchivosInit == Init => SinArchivos
  BY DEF Init, SinArchivos

\* While a DROP holds its table's lock, only that DROP changes the files.
LEMMA SoloLaBaja ==
  ASSUME TypeOK, Cerrojos, [Next]_vars,
         NEW c \in Clientes, pc[c] \in DropConRw,
         NEW t \in Tablas, t = ped[c].tabla
  PROVE  \/ /\ tmp'[t] = tmp[t] /\ tmpc'[t] = tmpc[t]
            /\ bin'[t] = bin[t]
         \/ DropParticiones(c) \/ DropTemporales(c)
<1>1. rwTabla[t] = "drop" /\ dropMx[t] = "drop"
  BY DEF Cerrojos, DropConMx
<1>2. comp[t] \notin CoConMx
  BY <1>1 DEF Cerrojos
<1>3. ~DumpTabla(t) /\ ~CoRenombrar(t) /\ ~CoBorrarTmpc(t) /\ ~CoBorrarBin(t)
  BY <1>1, <1>2 DEF DumpTabla, CoRenombrar, CoBorrarTmpc, CoBorrarBin, CoConMx,
                    CoConRw
<1>4. ASSUME NEW i \in Parts PROVE ~CoGuardar(t, i)
  BY <1>2 DEF CoGuardar, CoConMx, CoConRw
<1>5. ASSUME NEW d \in Clientes, ped[d].tabla = t,
             DropParticiones(d) \/ DropTemporales(d)
      PROVE  d = c
  <2>1. pc[d] \in DropConMx
    BY <1>5 DEF DropParticiones, DropTemporales, DropConMx, DropConRw
  <2>. QED
    BY <1>5, <2>1 DEF Cerrojos, DropConMx
<1>6. ASSUME NEW d \in Clientes, ped[d].tabla = t, NEW i \in Parts,
             CreateParticion(d, i)
      PROVE  tmp' = tmp /\ tmpc' = tmpc /\ bin' = bin
  BY <1>6 DEF CreateParticion
<1>. QED
  BY <1>3, <1>4, <1>5, <1>6, CambiaArchivos

LEMMA SinArchivosNext ==
  TypeOK /\ Cerrojos /\ SinArchivos /\ [Next]_vars => SinArchivos'
<1>. SUFFICES ASSUME TypeOK, Cerrojos, SinArchivos, [Next]_vars,
                     NEW c \in Clientes,
                     pc'[c] \in {"drop_tmp", "drop_metadata",
                                 "drop_directorio", "drop_fin"}
              PROVE  /\ \A i \in Parts : bin'[ped'[c].tabla][i] = {}
                     /\ pc'[c] # "drop_tmp" =>
                          \A n \in Nums : /\ tmp'[ped'[c].tabla][n] = {}
                                          /\ tmpc'[ped'[c].tabla][n] = {}
  BY DEF SinArchivos
<1>. DEFINE t == ped[c].tabla
<1>0. /\ t \in Tablas /\ pc[c] \in PCs
      /\ pc = [d \in Clientes |-> pc[d]] /\ ped = [d \in Clientes |-> ped[d]]
      /\ tmp = [u \in Tablas |-> tmp[u]] /\ tmpc = [u \in Tablas |-> tmpc[u]]
      /\ bin = [u \in Tablas |-> bin[u]]
  BY DEF TypeOK, Pedido
<1>1. ~Caer
  BY DEF Caer
<1>2. ASSUME NEW u \in Tablas PROVE ~Pedir(c, u)
  BY <1>0 DEF Pedir, InsertVerificar, SelectVerificar, CreateVerificar,
              DropVerificar, Empezar
<1>3. CASE DropParticiones(c)
  BY <1>0, <1>3 DEF DropParticiones, Seguir
<1>4. CASE DropTemporales(c)
  <2>1. \A i \in Parts : bin[t][i] = {}
    BY <1>4 DEF DropTemporales, SinArchivos
  <2>. QED
    BY <1>0, <1>4, <2>1 DEF DropTemporales, Seguir
<1>5. CASE ~DropParticiones(c) /\ ~DropTemporales(c)
  <2>1. /\ ped'[c].tabla = t
        /\ pc[c] \in {"drop_tmp", "drop_metadata", "drop_directorio",
                      "drop_fin"}
        /\ pc'[c] # "drop_tmp" => pc[c] # "drop_tmp"
    <3>1. CASE pc'[c] = pc[c] /\ ped'[c].tabla = ped[c].tabla
      BY <3>1
    <3>2. CASE PasoCliente(c)
      <4>1. CASE DropMetadata(c)
        BY <1>0, <4>1 DEF DropMetadata, Seguir
      <4>2. CASE DropDirectorio(c)
        BY <1>0, <4>2 DEF DropDirectorio, Seguir
      <4>3. ASSUME NEW i \in Parts, CreateParticion(c, i) PROVE FALSE
        BY <4>3 DEF CreateParticion, clientes
      <4>4. CASE InsertAgregar(c) \/ SelectTablaBorrada(c)
                 \/ SelectResponder(c) \/ CreateHilo(c) \/ DropFin(c)
        BY <1>0, <4>4 DEF InsertAgregar, SelectTablaBorrada, SelectResponder,
                          CreateHilo, DropFin, Contestar
      <4>5. CASE SelectSemaforo(c) \/ CreateDirectorio(c)
                 \/ CreateSemaforos(c) \/ CreateMetadata(c)
                 \/ DropSemaforo(c) \/ DropMx(c) \/ DropRw(c)
                 \/ DropMemtable(c)
        BY <1>0, <4>5 DEF SelectSemaforo, CreateDirectorio, CreateSemaforos,
                          CreateMetadata, DropSemaforo, DropMx, DropRw,
                          DropMemtable, Seguir
      <4>6. ASSUME NEW m \in 0..MaxTs,
                   SelectLeerDisco(c, m) \/ SelectLeerMemtable(c, m)
            PROVE  FALSE
        BY <1>0, <4>6 DEF SelectLeerDisco, SelectLeerMemtable
      <4>. QED
        BY <1>1, <1>5, <3>2, <4>1, <4>2, <4>3, <4>4, <4>5, <4>6
           DEF PasoCliente, FallaCliente
    <3>. QED
      BY <1>1, <1>2, <3>1, <3>2, CambiaCliente
  <2>2. tmp'[t] = tmp[t] /\ tmpc'[t] = tmpc[t] /\ bin'[t] = bin[t]
    BY <1>0, <1>5, <2>1, SoloLaBaja DEF DropConRw
  <2>3. \A i \in Parts : bin[t][i] = {}
    BY <2>1 DEF SinArchivos
  <2>4. pc'[c] # "drop_tmp" =>
          \A n \in Nums : tmp[t][n] = {} /\ tmpc[t][n] = {}
    BY <2>1 DEF SinArchivos
  <2>. QED
    BY <2>1, <2>2, <2>3, <2>4
<1>. QED
  BY <1>3, <1>4, <1>5

\* Once a DROP has removed the .tmp and .tmpc files of its table, no dump or
\* compaction writes one before the locks are released.
THEOREM BajaCompleta == Spec => []BajaBorraTodo
<1>1. TypeOK /\ Cerrojos /\ SinArchivos => BajaBorraTodo
  <2>. SUFFICES ASSUME TypeOK, Cerrojos, SinArchivos, NEW c \in Clientes,
                       pc[c] \in {"drop_metadata", "drop_directorio",
                                  "drop_fin"}
                PROVE  EnDisco(ped[c].tabla) = {}
    BY DEF BajaBorraTodo
  <2>. DEFINE t == ped[c].tabla
  <2>1. t \in Tablas
    BY DEF TypeOK, Pedido
  <2>2. ~Reescribiendo(t)
    BY <2>1 DEF Cerrojos, Reescribiendo, DropConMx, DropConRw, CoConMx, CoConRw
  <2>3. RegsTmp(t) = {} /\ RegsTmpc(t) = {} /\ RegsBin(t) = {}
    BY DEF SinArchivos, RegsTmp, RegsTmpc, RegsBin
  <2>. QED
    BY <2>2, <2>3 DEF EnDisco
<1>. QED
  BY <1>1, Base, SinArchivosInit, SinArchivosNext, PTL DEF Spec

----------------------------------------------------------------------------
(* The partitions of a table *)

\* ParticionesCompletas, and that the compaction that is going to write the
\* partitions again has a list for each of them.
Completas ==
    vivo /\ caidas = 0 =>
        /\ \A t \in metadata :
              hayBin[t] # Parts => rwTabla[t] # "libre" \/ Ocupada(t, Creando)
        /\ \A t \in Tablas :
              comp[t] \in CoConRw \cup {"por_escribir"}
                => nListas[t] = Particiones

LEMMA CompletasInit == Init => Completas
  BY DEF Init, Completas, CoConRw

\* Until the process first ends, a step is of a process that has not ended.
LEMMA SanoAntes ==
  ASSUME TypeOK, [Next]_vars, vivo', caidas' = 0
  PROVE  vivo /\ caidas = 0 /\ ~Caer /\ ~Levantar
<1>1. ~Caer
  BY DEF Caer
<1>2. ~Levantar
  BY DEF Levantar, TypeOK, LFSAssumption
<1>. USE DEF proceso
<1>3. CASE UNCHANGED vars
  BY <1>1, <1>2, <1>3 DEF vars
<1>4. ASSUME NEW c \in Clientes, NEW t \in Tablas, Pedir(c, t)
      PROVE  vivo' = vivo /\ caidas' = caidas
  BY <1>4 DEF Pedir, InsertVerificar, SelectVerificar, CreateVerificar,
              DropVerificar
<1>5. ASSUME NEW c \in Clientes, PasoCliente(c)
      PROVE  vivo' = vivo /\ caidas' = caidas
  BY <1>1, <1>5
     DEF PasoCliente, InsertAgregar, SelectSemaforo, SelectLeerDisco,
         SelectTablaBorrada, SelectLeerMemtable, SelectResponder,
         CreateDirectorio, CreateSemaforos, CreateMetadata, CreateParticion,
         CreateHilo, DropSemaforo, DropMx, DropRw, DropMemtable,
         DropParticiones, DropTemporales, DropMetadata, DropDirectorio,
         DropFin, FallaCliente
<1>6. ASSUME PasoDump PROVE vivo' = vivo /\ caidas' = caidas
  BY <1>1, <1>6 DEF PasoDump, DumpDespertar, DumpBloquear, DumpTabla, DumpFin,
                    FallaDump
<1>7. ASSUME NEW t \in Tablas, PasoCompactacion(t)
      PROVE  vivo' = vivo /\ caidas' = caidas
  BY <1>1, <1>7
     DEF PasoCompactacion, CoListar, CoTomarMx, CoRenombrar, CoLeer, CoTomarRw,
         CoBorrarTmpc, CoBorrarBin, CoGuardar, CoFin, FallaCompactacion
<1>. QED
  BY <1>1, <1>2, <1>3, <1>4, <1>5, <1>6, <1>7 DEF Next, Terminar

\* A compaction reads all the partitions of its table.
LEMMA LeeTodas ==
  ASSUME TypeOK, Cerrojos, CicloDeVida, Completas, vivo, caidas = 0,
         NEW t \in Tablas, comp[t] = "leer"
  PROVE  hayBin[t] = Parts
<1>1. dropMx[t] = "compactacion"
  BY DEF Cerrojos, CoConMx
<1>2. ~Ocupada(t, DropConRw)
  BY <1>1 DEF Cerrojos, DropConMx, Ocupada
<1>3. rwTabla[t] = "libre"
  BY <1>2 DEF TypeOK, CicloDeVida, CoConRw
<1>4. t \in metadata
  BY <1>2 DEF CicloDeVida, Ocupada, DropConRw
<1>5. ~Ocupada(t, Creando)
  BY DEF CicloDeVida, Ocupada
<1>. QED
  BY <1>3, <1>4, <1>5 DEF Completas

LEMMA Intervalo ==
  ASSUME NEW n \in Nat \ {0}, 0..(n - 1) = Parts
  PROVE  n = Particiones
<1>1. n - 1 \in Parts /\ Particiones - 1 \in 0..(n - 1)
  BY DEF Parts, LFSAssumption
<1>. QED
  BY <1>1 DEF Parts, LFSAssumption

\* Only a CREATE completes the metadata of a table.
LEMMA CambiaMetadata ==
  ASSUME [Next]_vars, NEW t \in metadata', t \notin metadata
  PROVE  \E c \in Clientes : CreateMetadata(c) /\ ped[c].tabla = t
<1>. USE DEF disco
<1>1. CASE UNCHANGED vars
  BY <1>1 DEF vars
<1>2. ASSUME NEW c \in Clientes, NEW u \in Tablas, Pedir(c, u)
      PROVE  metadata' = metadata
  BY <1>2 DEF Pedir, InsertVerificar, SelectVerificar, CreateVerificar,
              DropVerificar
<1>3. ASSUME NEW c \in Clientes, PasoCliente(c)
      PROVE  CreateMetadata(c) /\ ped[c].tabla = t
  BY <1>3
     DEF PasoCliente, InsertAgregar, SelectSemaforo, SelectLeerDisco,
         SelectTablaBorrada, SelectLeerMemtable, SelectResponder,
         CreateDirectorio, CreateSemaforos, CreateMetadata, CreateParticion,
         CreateHilo, DropSemaforo, DropMx, DropRw, DropMemtable,
         DropParticiones, DropTemporales, DropMetadata, DropDirectorio,
         DropFin, FallaCliente, Caer
<1>4. ASSUME PasoDump PROVE metadata' = metadata
  BY <1>4 DEF PasoDump, DumpDespertar, DumpBloquear, DumpTabla, DumpFin,
              FallaDump, Caer
<1>5. ASSUME NEW u \in Tablas, PasoCompactacion(u)
      PROVE  metadata' = metadata
  BY <1>5
     DEF PasoCompactacion, CoListar, CoTomarMx, CoRenombrar, CoLeer, CoTomarRw,
         CoBorrarTmpc, CoBorrarBin, CoGuardar, CoFin, FallaCompactacion, Caer
<1>. QED
  BY <1>1, <1>2, <1>3, <1>4, <1>5 DEF Next, Terminar, Levantar, Caer

LEMMA CompletasNext ==
  TypeOK /\ TypeOK' /\ Muerto /\ Cerrojos /\ CicloDeVida /\ Completas
    /\ [Next]_vars => Completas'
<1>. SUFFICES ASSUME TypeOK, TypeOK', Muerto, Cerrojos, CicloDeVida, Completas,
                     [Next]_vars, vivo', caidas' = 0
              PROVE  /\ \A t \in metadata' :
                           hayBin'[t] # Parts =>
                             rwTabla'[t] # "libre" \/ Ocupada(t, Creando)'
                     /\ \A t \in Tablas :
                           comp'[t] \in CoConRw \cup {"por_escribir"}
                             => nListas'[t] = Particiones
  BY DEF Completas
<1>1. vivo /\ caidas = 0 /\ ~Caer /\ ~Levantar
  BY SanoAntes
<1>2. ASSUME NEW t \in Tablas,
             comp'[t] \in CoConRw \cup {"por_escribir"}
      PROVE  nListas'[t] = Particiones
  <2>0. /\ comp \in [Tablas -> EstadosComp]
        /\ nListas \in [Tablas -> 0..Particiones]
    BY DEF TypeOK
  <2>1. comp[t] \in CoConRw \cup {"por_escribir"} => nListas[t] = Particiones
    BY <1>1 DEF Completas
  <2>2. ASSUME NEW n \in 1..Particiones, CoLeer(t, n)
        PROVE  nListas'[t] = Particiones
    <3>1. hayBin[t] = Parts
      BY <1>1, <2>2, LeeTodas DEF CoLeer
    <3>2. n = Particiones
      BY <2>2, <3>1, Intervalo DEF CoLeer, LFSAssumption
    <3>. QED
      BY <2>0, <2>2, <3>2 DEF CoLeer
  <2>3. CASE PasoCompactacion(t)
    BY <1>1, <1>2, <2>0, <2>1, <2>2, <2>3
       DEF PasoCompactacion, CoListar, CoTomarMx, CoRenombrar, CoTomarRw,
           CoBorrarTmpc, CoBorrarBin, CoGuardar, CoFin, FallaCompactacion,
           CoConRw, compactacion
  <2>4. ASSUME NEW c \in Clientes, ped[c].tabla = t,
               CreateHilo(c) \/ DropFin(c)
        PROVE  FALSE
    BY <1>2, <2>0, <2>4 DEF CreateHilo, DropFin, CoConRw
  <2>. QED
    BY <1>1, <1>2, <2>1, <2>3, <2>4, CambiaCompactacion
<1>3. ASSUME NEW t \in metadata', hayBin'[t] # Parts, rwTabla'[t] = "libre"
      PROVE  Ocupada(t, Creando)'
  <2>0. /\ rwTabla \in [Tablas -> {"libre", "drop", "compactacion"}]
        /\ hayBin \in [Tablas -> SUBSET Parts] /\ t \in Tablas
        /\ pc \in [Clientes -> PCs]
    BY DEF TypeOK
  <2>1. CASE t \notin metadata
    <3>1. PICK c \in Clientes : CreateMetadata(c) /\ ped[c].tabla = t
      BY <1>1, <1>3, <2>1, CambiaMetadata
    <3>2. pc'[c] = "cre_particiones" /\ ped'[c].tabla = t
      BY <2>0, <3>1 DEF CreateMetadata, Seguir
    <3>. QED
      BY <3>2 DEF Ocupada, Creando
  <2>2. CASE t \in metadata /\ hayBin[t] = Parts
    <3>1. ~CoBorrarBin(t)
      BY <1>3, <2>0 DEF CoBorrarBin, Cerrojos, CoConRw, cerrojos
    <3>2. ASSUME NEW c \in Clientes, ped[c].tabla = t
          PROVE  ~DropParticiones(c)
      BY <1>3, <2>0, <3>2 DEF DropParticiones, Cerrojos, DropConRw, cerrojos
    <3>3. ASSUME NEW c \in Clientes, ped[c].tabla = t, NEW i \in Parts,
                 CreateParticion(c, i)
          PROVE  hayBin'[t] = Parts
      BY <2>0, <2>2, <3>3 DEF CreateParticion
    <3>4. ASSUME NEW i \in Parts, CoGuardar(t, i) PROVE hayBin'[t] = Parts
      BY <2>0, <2>2, <3>4 DEF CoGuardar
    <3>5. ASSUME NEW c \in Clientes, DropTemporales(c)
          PROVE  hayBin' = hayBin
      BY <3>5 DEF DropTemporales
    <3>6. DumpTabla(t) \/ CoRenombrar(t) \/ CoBorrarTmpc(t)
            => hayBin' = hayBin
      BY DEF DumpTabla, CoRenombrar, CoBorrarTmpc
    <3>. QED
      BY <1>3, <2>0, <2>2, <3>1, <3>2, <3>3, <3>4, <3>5, <3>6, CambiaArchivos
  <2>3. CASE t \in metadata /\ hayBin[t] # Parts
    <3>1. rwTabla[t] = "libre"
      <4>1. ~CoFin(t)
        <5>1. CoFin(t) => nListas[t] = Particiones
          BY <1>1, <2>0 DEF CoFin, Completas, CoConRw
        <5>. QED
          BY <2>3, <5>1 DEF CoFin, Parts
      <4>2. ~CoTomarRw(t)
        BY <1>3, <2>0 DEF CoTomarRw
      <4>3. ASSUME NEW c \in Clientes, ped[c].tabla = t, DropRw(c)
            PROVE  FALSE
        BY <1>3, <2>0, <4>3 DEF DropRw
      <4>4. ASSUME NEW c \in Clientes, ped[c].tabla = t, DropFin(c)
            PROVE  FALSE
        BY <2>3, <4>4 DEF DropFin, CicloDeVida
      <4>. QED
        BY <1>1, <1>3, <2>0, <4>1, <4>2, <4>3, <4>4, CambiaRw
    <3>2. PICK d \in Clientes : pc[d] \in Creando /\ ped[d].tabla = t
      BY <1>1, <2>3, <3>1 DEF Completas, Ocupada
    <3>3. ASSUME NEW u \in Tablas PROVE ~Pedir(d, u)
      BY <3>2 DEF Pedir, InsertVerificar, SelectVerificar, CreateVerificar,
                  DropVerificar, Empezar, Creando
    <3>4. ASSUME PasoCliente(d) PROVE pc'[d] \in Creando /\ ped' = ped
      <4>1. ~CreateHilo(d)
        BY <2>3, <3>2 DEF CreateHilo
      <4>2. CASE CreateDirectorio(d) \/ CreateSemaforos(d) \/ CreateMetadata(d)
        BY <2>0, <4>2 DEF CreateDirectorio, CreateSemaforos, CreateMetadata,
                          Seguir, Creando
      <4>3. ASSUME NEW i \in Parts, CreateParticion(d, i)
            PROVE  pc'[d] \in Creando /\ ped' = ped
        BY <3>2, <4>3 DEF CreateParticion, clientes
      <4>. QED
        BY <1>1, <3>2, <3>4, <4>1, <4>2, <4>3
           DEF PasoCliente, InsertAgregar, SelectSemaforo, SelectLeerDisco,
               SelectTablaBorrada, SelectLeerMemtable, SelectResponder,
               DropSemaforo, DropMx, DropRw, DropMemtable, DropParticiones,
               DropTemporales, DropMetadata, DropDirectorio, DropFin,
               FallaCliente, Creando
    <3>. QED
      BY <1>1, <3>2, <3>3, <3>4, CambiaCliente DEF Ocupada
  <2>. QED
    BY <2>1, <2>2, <2>3
<1>. QED
  BY <1>2, <1>3

LEMMA CompletasSiempre == Spec => []Completas
  BY Base, CompletasInit, CompletasNext, PTL DEF Spec

\* While a table has its metadata and not all of its partitions, a compaction
\* or a DROP has it locked, or its CREATE is not finished.
THEOREM ParticionesEnteras == Spec => []ParticionesCompletas
<1>1. Completas => ParticionesCompletas
  BY DEF Completas, ParticionesCompletas
<1>. QED
  BY <1>1, CompletasSiempre, PTL

----------------------------------------------------------------------------
(* The records of a partition *)

\* Records of partition i, one of each key.
BienFormado(S, i) ==
    \A r \in S : /\ ParticionDe(r.key, Particiones) = i
                 /\ \A s \in S : s.key = r.key => s = r

\* Partitions, and the lists that are written to them.
Formados ==
    caidas = 0 =>
        \A t \in Tablas, i \in Parts :
            BienFormado(bin[t][i], i) /\ BienFormado(listas[t][i], i)

LEMMA FormadosInit == Init => Formados
  BY DEF Init, Formados, BienFormado

\* The merge leaves one record of each key.
LEMMA FusionUnica ==
  ASSUME NEW S \in SUBSET Registros, NEW i,
         \A r \in S : ParticionDe(r.key, Particiones) = i
  PROVE  BienFormado(Fusion(S), i)
<1>1. ASSUME NEW r \in Fusion(S), NEW s \in Fusion(S), s.key = r.key
      PROVE  s = r
  <2>1. r.ts <= s.ts /\ s.ts <= r.ts
    BY <1>1 DEF Fusion
  <2>2. r \in Registros /\ s \in Registros
    BY DEF Fusion
  <2>3. r.ts \in Nat /\ s.ts \in Nat
    BY <2>2 DEF Registros
  <2>4. r.ts = s.ts
    BY <2>1, <2>3
  <2>. QED
    BY <1>1, <2>2, <2>4 DEF Registros
<1>2. Fusion(S) \subseteq S
  BY DEF Fusion
<1>. QED
  BY <1>1, <1>2 DEF BienFormado

\* A compaction that reads all the partitions gives each list its records.
LEMMA ListasFormadas ==
  ASSUME TypeOK, Formados, caidas = 0, NEW t \in Tablas, NEW i \in Parts
  PROVE  BienFormado(ListasDe(t, Particiones)[i], i)
<1>. DEFINE S == bin[t][i] \cup
                   {r \in RegsTmpc(t) : ParticionDe(r.key, Particiones) = i}
<1>1. i < Particiones
  BY DEF Parts, LFSAssumption
<1>2. ListasDe(t, Particiones)[i] = Fusion(S)
  BY <1>1 DEF ListasDe
<1>3. S \in SUBSET Registros
  BY DEF TypeOK, RegsTmpc
<1>4. \A r \in S : ParticionDe(r.key, Particiones) = i
  BY DEF Formados, BienFormado
<1>. QED
  BY <1>2, <1>3, <1>4, FusionUnica

LEMMA FormadosNext ==
  TypeOK /\ TypeOK' /\ Muerto /\ Cerrojos /\ CicloDeVida /\ Completas
    /\ Formados /\ [Next]_vars => Formados'
<1>. SUFFICES ASSUME TypeOK, TypeOK', Muerto, Cerrojos, CicloDeVida, Completas,
                     Formados, [Next]_vars, caidas' = 0,
                     NEW t \in Tablas, NEW i \in Parts
              PROVE  BienFormado(bin'[t][i], i) /\ BienFormado(listas'[t][i], i)
  BY DEF Formados, BienFormado
<1>0. /\ bin \in [Tablas -> [Parts -> SUBSET Registros]]
      /\ listas \in [Tablas -> [Parts -> SUBSET Registros]]
  BY DEF TypeOK
<1>1. caidas = 0
  <2>1. CASE vivo'
    BY <2>1, SanoAntes
  <2>2. CASE Caer
    BY <2>2 DEF Caer
  <2>3. CASE ~vivo' /\ vivo /\ ~Caer
    BY <2>3, SoloCaer DEF vars, proceso
  <2>4. CASE ~vivo' /\ ~vivo
    BY <2>4, SoloLevantar DEF Levantar, vars, proceso
  <2>. QED
    BY <2>1, <2>2, <2>3, <2>4 DEF TypeOK
<1>2. BienFormado(bin[t][i], i) /\ BienFormado(listas[t][i], i)
  BY <1>1 DEF Formados
<1>3. BienFormado({}, i)
  BY DEF BienFormado
<1>4. BienFormado(bin'[t][i], i)
  <2>1. CASE bin'[t] = bin[t]
    BY <1>2, <2>1
  <2>2. CASE CoBorrarBin(t)
    BY <1>0, <1>3, <2>2 DEF CoBorrarBin
  <2>3. ASSUME NEW j \in Parts, CoGuardar(t, j)
        PROVE  BienFormado(bin'[t][i], i)
    <3>1. bin'[t][i] = IF i = j THEN listas[t][i] ELSE bin[t][i]
      BY <1>0, <2>3 DEF CoGuardar
    <3>. QED
      BY <1>2, <3>1
  <2>4. ASSUME NEW c \in Clientes, ped[c].tabla = t, DropParticiones(c)
        PROVE  BienFormado(bin'[t][i], i)
    BY <1>0, <1>3, <2>4 DEF DropParticiones
  <2>5. ASSUME \/ DumpTabla(t) \/ CoRenombrar(t) \/ CoBorrarTmpc(t)
               \/ \E c \in Clientes : \/ DropTemporales(c)
                                      \/ \E j \in Parts : CreateParticion(c, j)
        PROVE  bin' = bin
    BY <2>5 DEF DumpTabla, CoRenombrar, CoBorrarTmpc, DropTemporales,
           CreateParticion
  <2>. QED
    BY <2>1, <2>2, <2>3, <2>4, <2>5, CambiaArchivos
<1>5. BienFormado(listas'[t][i], i)
  <2>1. CASE listas'[t] = listas[t]
    BY <1>2, <2>1
  <2>2. ASSUME NEW n \in 1..Particiones, CoLeer(t, n)
        PROVE  BienFormado(listas'[t][i], i)
    <3>1. vivo
      BY <2>2 DEF CoLeer, Muerto
    <3>2. hayBin[t] = Parts
      BY <1>1, <2>2, <3>1, LeeTodas DEF CoLeer
    <3>3. n = Particiones
      BY <2>2, <3>2, Intervalo DEF CoLeer, LFSAssumption
    <3>4. listas'[t] = ListasDe(t, Particiones)
      BY <1>0, <2>2, <3>3 DEF CoLeer
    <3>. QED
      BY <1>1, <3>4, ListasFormadas
  <2>3. CASE CoFin(t)
    BY <1>0, <1>3, <2>3 DEF CoFin
  <2>4. CASE Caer
    BY <1>3, <2>4 DEF Caer
  <2>5. Levantar => listas' = listas
    BY DEF Levantar
  <2>6. ASSUME NEW c \in Clientes, CreateHilo(c) \/ DropFin(c)
        PROVE  listas' = listas
    BY <2>6 DEF CreateHilo, DropFin
  <2>7. CASE PasoCompactacion(t)
    BY <2>1, <2>2, <2>3, <2>4, <2>7
       DEF PasoCompactacion, CoListar, CoTomarMx, CoRenombrar, CoTomarRw,
           CoBorrarTmpc, CoBorrarBin, CoGuardar, FallaCompactacion,
           compactacion
  <2>. QED
    BY <2>1, <2>4, <2>5, <2>6, <2>7, CambiaCompactacion
<1>. QED
  BY <1>4, <1>5

\* Every record of a .bin is in the partition of its key, and is the only one
\* of its key there, until the process first ends.
THEOREM ParticionesFormadas == Spec => []BinBienFormado
<1>1. Formados => BinBienFormado
  BY DEF Formados, BienFormado, BinBienFormado
<1>. QED
  BY <1>1, Base, CompletasSiempre, FormadosInit, FormadosNext, PTL DEF Spec

----------------------------------------------------------------------------
(* The temporal files *)

\* In the process that started with the files empty, the dump in progress is
\* the first to write its number, and a table has .tmpc files only from the
\* rename to their removal.
TemporalesNuevos ==
    vivo /\ caidas = 0 =>
        \A t \in Tablas, n \in Nums :
            /\ tmp[t][n] # {} =>
                  \/ n < cantidadDumps
                  \/ n = cantidadDumps /\ dump = "volcando" /\ t \notin pendientes
            /\ tmpc[t][n] # {} => comp[t] \in {"leer", "por_escribir", "borrar_tmpc"}

LEMMA TemporalesInit == Init => TemporalesNuevos
  BY DEF Init, TemporalesNuevos

\* Which steps change the number of dumps, and which take a table from those
\* that the dump has to write.
LEMMA CambiaVolcado ==
  ASSUME TypeOK, [Next]_vars
  PROVE  \/ UNCHANGED volcado
         \/ DumpDespertar \/ DumpBloquear \/ DumpFin
         \/ \E t \in Tablas : DumpTabla(t)
         \/ dump' = dump /\ cantidadDumps' = cantidadDumps /\ pendientes' \subseteq pendientes
         \/ Caer
<1>. USE DEF volcado
<1>1. CASE UNCHANGED vars
  BY <1>1 DEF vars
<1>2. ASSUME NEW c \in Clientes, NEW t \in Tablas, Pedir(c, t)
      PROVE  UNCHANGED volcado
  BY <1>2 DEF Pedir, InsertVerificar, SelectVerificar, CreateVerificar,
              DropVerificar
<1>3. ASSUME NEW c \in Clientes, PasoCliente(c), ~Caer
      PROVE  dump' = dump /\ cantidadDumps' = cantidadDumps /\ pendientes' \subseteq pendientes
  BY <1>3
     DEF PasoCliente, InsertAgregar, SelectSemaforo, SelectLeerDisco,
         SelectTablaBorrada, SelectLeerMemtable, SelectResponder,
         CreateDirectorio, CreateSemaforos, CreateMetadata, CreateParticion,
         CreateHilo, DropSemaforo, DropMx, DropRw, DropMemtable,
         DropParticiones, DropTemporales, DropMetadata, DropDirectorio,
         DropFin, FallaCliente
<1>4. ASSUME NEW t \in Tablas, PasoCompactacion(t)
      PROVE  UNCHANGED volcado \/ Caer
  BY <1>4
     DEF PasoCompactacion, CoListar, CoTomarMx, CoRenombrar, CoLeer, CoTomarRw,
         CoBorrarTmpc, CoBorrarBin, CoGuardar, CoFin, FallaCompactacion
<1>5. Levantar => UNCHANGED volcado
  BY DEF Levantar
<1>. QED
  BY <1>1, <1>2, <1>3, <1>4, <1>5 DEF Next, Terminar, PasoDump, FallaDump

LEMMA TemporalesNext ==
  TypeOK /\ Muerto /\ Cerrojos /\ CicloDeVida /\ TemporalesNuevos /\ [Next]_vars
    => TemporalesNuevos'
<1>. SUFFICES ASSUME TypeOK, Muerto, Cerrojos, CicloDeVida, TemporalesNuevos,
                     [Next]_vars, vivo', caidas' = 0,
                     NEW t \in Tablas, NEW n \in Nums
              PROVE  /\ tmp'[t][n] # {} =>
                           \/ n < cantidadDumps'
                           \/ /\ n = cantidadDumps' /\ dump' = "volcando"
                              /\ t \notin pendientes'
                     /\ tmpc'[t][n] # {} =>
                           comp'[t] \in {"leer", "por_escribir", "borrar_tmpc"}
  BY DEF TemporalesNuevos
<1>0. /\ tmp \in [Tablas -> [Nums -> SUBSET Registros]]
      /\ tmpc \in [Tablas -> [Nums -> SUBSET Registros]]
      /\ comp \in [Tablas -> EstadosComp] /\ cantidadDumps \in Nat /\ n \in Nat
  BY DEF TypeOK, Nums, LFSAssumption
<1>1. vivo /\ caidas = 0 /\ ~Caer /\ ~Levantar
  BY SanoAntes
<1>2. /\ tmp[t][n] # {} =>
            \/ n < cantidadDumps
            \/ n = cantidadDumps /\ dump = "volcando" /\ t \notin pendientes
      /\ tmpc[t][n] # {} => comp[t] \in {"leer", "por_escribir", "borrar_tmpc"}
  BY <1>1 DEF TemporalesNuevos
<1>3. ASSUME tmp'[t][n] # {}
      PROVE  \/ n < cantidadDumps'
             \/ n = cantidadDumps' /\ dump' = "volcando" /\ t \notin pendientes'
  <2>1. CASE DumpTabla(t)
    <3>1. tmp'[t][n] = IF n = cantidadDumps THEN memtable[t] ELSE tmp[t][n]
      BY <1>0, <2>1 DEF DumpTabla
    <3>. QED
      BY <1>2, <1>3, <2>1, <3>1 DEF DumpTabla
  <2>2. CASE ~DumpTabla(t)
    <3>1. tmp[t][n] # {}
      <4>1. tmp'[t] = tmp[t] \/ CoRenombrar(t)
              \/ \E c \in Clientes : ped[c].tabla = t /\ DropTemporales(c)
        BY <2>2, CambiaArchivos
           DEF CoBorrarTmpc, CoBorrarBin, CoGuardar, DropParticiones, CreateParticion
      <4>2. CoRenombrar(t) => tmp'[t][n] \in {{}, tmp[t][n]}
        BY <1>0 DEF CoRenombrar
      <4>3. ASSUME NEW c \in Clientes, ped[c].tabla = t, DropTemporales(c)
            PROVE  tmp'[t][n] = {}
        BY <1>0, <4>3 DEF DropTemporales
      <4>. QED
        BY <1>3, <4>1, <4>2, <4>3
    <3>2. CASE UNCHANGED volcado
      BY <1>2, <3>1, <3>2 DEF volcado
    <3>3. CASE DumpDespertar \/ DumpBloquear
      BY <1>2, <3>1, <3>3 DEF DumpDespertar, DumpBloquear
    <3>4. CASE DumpFin
      BY <1>0, <1>2, <3>1, <3>4 DEF DumpFin
    <3>5. ASSUME NEW u \in Tablas, DumpTabla(u)
          PROVE  dump' = dump /\ cantidadDumps' = cantidadDumps /\ pendientes' \subseteq pendientes
      BY <3>5 DEF DumpTabla
    <3>6. CASE dump' = dump /\ cantidadDumps' = cantidadDumps /\ pendientes' \subseteq pendientes
      BY <1>2, <3>1, <3>6
    <3>. QED
      BY <1>1, <3>2, <3>3, <3>4, <3>5, <3>6, CambiaVolcado
  <2>. QED
    BY <2>1, <2>2
<1>4. ASSUME tmpc'[t][n] # {}
      PROVE  comp'[t] \in {"leer", "por_escribir", "borrar_tmpc"}
  <2>1. CASE CoRenombrar(t)
    BY <1>0, <2>1 DEF CoRenombrar
  <2>2. CASE CoBorrarTmpc(t)
    BY <1>0, <1>4, <2>2 DEF CoBorrarTmpc
  <2>3. CASE ~CoRenombrar(t) /\ ~CoBorrarTmpc(t)
    <3>1. tmpc[t][n] # {}
      <4>1. tmpc'[t] = tmpc[t]
              \/ \E c \in Clientes : ped[c].tabla = t /\ DropTemporales(c)
        BY <2>3, CambiaArchivos
           DEF DumpTabla, CoBorrarBin, CoGuardar, DropParticiones, CreateParticion
      <4>2. ASSUME NEW c \in Clientes, ped[c].tabla = t, DropTemporales(c)
            PROVE  tmpc'[t][n] = {}
        BY <1>0, <4>2 DEF DropTemporales
      <4>. QED
        BY <1>4, <4>1, <4>2
    <3>2. comp[t] \in {"leer", "por_escribir", "borrar_tmpc"}
      BY <1>2, <3>1
    <3>3. ASSUME NEW c \in Clientes, ped[c].tabla = t, CreateHilo(c) \/ DropFin(c)
          PROVE  FALSE
      <4>1. CASE CreateHilo(c)
        BY <3>2, <3>3, <4>1 DEF CreateHilo, CicloDeVida, Creando
      <4>2. CASE DropFin(c)
        <5>1. dropMx[t] = "drop" /\ rwTabla[t] = "drop"
          BY <3>3, <4>2 DEF DropFin, Cerrojos, DropConMx, DropConRw
        <5>. QED
          BY <3>2, <5>1 DEF Cerrojos, CoConMx, CoConRw
      <4>. QED
        BY <3>3, <4>1, <4>2
    <3>4. CASE PasoCompactacion(t)
      BY <1>0, <1>1, <2>3, <3>2, <3>4
         DEF PasoCompactacion, CoListar, CoTomarMx, CoLeer, CoTomarRw,
             CoBorrarBin, CoGuardar, CoFin, FallaCompactacion, compactacion
    <3>. QED
      BY <1>1, <3>2, <3>3, <3>4, CambiaCompactacion
  <2>. QED
    BY <2>1, <2>2, <2>3
<1>. QED
  BY <1>3, <1>4

\* A dump writes no .tmp, and a compaction renames none to a .tmpc, over one
\* that is there, when the process that found the files empty is not started
\* again.
THEOREM NadieSePisa ==
  ASSUME MaxCaidas = 0
  PROVE  Spec => TemporalesNoSePisan
<1>. DEFINE A == \A t \in Tablas, n \in Nums :
                   /\ tmp[t][n] # {} => tmp'[t][n] \in {tmp[t][n], {}}
                   /\ tmpc[t][n] # {} => tmpc'[t][n] \in {tmpc[t][n], {}}
<1>1. TypeOK /\ Muerto /\ TemporalesNuevos /\ [Next]_vars => [A]_vars
  <2>. SUFFICES ASSUME TypeOK, Muerto, TemporalesNuevos, Next,
                       NEW t \in Tablas, NEW n \in Nums
                PROVE  /\ tmp[t][n] # {} => tmp'[t][n] \in {tmp[t][n], {}}
                       /\ tmpc[t][n] # {} => tmpc'[t][n] \in {tmpc[t][n], {}}
    BY DEF vars
  <2>0. /\ tmp \in [Tablas -> [Nums -> SUBSET Registros]]
        /\ tmpc \in [Tablas -> [Nums -> SUBSET Registros]]
        /\ caidas = 0 /\ cantidadDumps \in Nat /\ n \in Nat
    BY DEF TypeOK, Nums, LFSAssumption
  <2>1. vivo
    BY <2>0, SoloLevantar DEF Levantar
  <2>2. /\ tmp[t][n] # {} =>
              \/ n < cantidadDumps
              \/ n = cantidadDumps /\ dump = "volcando" /\ t \notin pendientes
        /\ tmpc[t][n] # {} => comp[t] \in {"leer", "por_escribir", "borrar_tmpc"}
    BY <2>0, <2>1 DEF TemporalesNuevos
  <2>3. CASE DumpTabla(t)
    <3>1. n = cantidadDumps => tmp[t][n] = {}
      BY <2>0, <2>2, <2>3 DEF DumpTabla
    <3>2. tmp'[t][n] = (IF n = cantidadDumps THEN memtable[t] ELSE tmp[t][n])
            /\ tmpc' = tmpc
      BY <2>0, <2>3 DEF DumpTabla
    <3>. QED
      BY <3>1, <3>2
  <2>4. CASE CoRenombrar(t)
    <3>1. tmpc[t][n] = {}
      BY <2>2, <2>4 DEF CoRenombrar
    <3>2. tmp'[t][n] \in {tmp[t][n], {}}
      BY <2>0, <2>4 DEF CoRenombrar
    <3>. QED
      BY <3>1, <3>2
  <2>5. CASE CoBorrarTmpc(t)
    BY <2>0, <2>5 DEF CoBorrarTmpc
  <2>6. ASSUME NEW c \in Clientes, ped[c].tabla = t, DropTemporales(c)
        PROVE  tmp'[t][n] = {} /\ tmpc'[t][n] = {}
    BY <2>0, <2>6 DEF DropTemporales
  <2>7. ASSUME \/ CoBorrarBin(t) \/ \E i \in Parts : CoGuardar(t, i)
               \/ \E c \in Clientes : \/ DropParticiones(c)
                                      \/ \E i \in Parts : CreateParticion(c, i)
        PROVE  tmp' = tmp /\ tmpc' = tmpc
    BY <2>7 DEF CoBorrarBin, CoGuardar, DropParticiones, CreateParticion
  <2>. QED
    BY <2>3, <2>4, <2>5, <2>6, <2>7, CambiaArchivos
<1>. QED
  BY <1>1, Base, TemporalesInit, TemporalesNext, PTL DEF Spec, TemporalesNoSePisan

----------------------------------------------------------------------------
(* The invariants *)

\* The process has not ended since it first started.
Sano == vivo /\ caidas = 0

\* Tables that do not exist, that a DROP is deleting, or whose memtable has
\* records of the table that was deleted: deBaja of Almacen.
EnBaja == {t \in Tablas : DeBaja(t)} \cup huerfanas

Leida == {"por_escribir", "borrar_tmpc"}

\* What a compaction has read comes from the files, whatever DROP and the dump
\* do before it takes the lock to write.
ListasDeArchivos ==
    \A t \in Tablas :
        comp[t] \in Leida => RegsListas(t) \subseteq RegsTmpc(t) \cup RegsBin(t)

\* And stands for all of them, until it is in the partitions.
ListasFieles ==
    Sano =>
        \A t \in Tablas :
            /\ comp[t] \in Leida =>
                  Domina(RegsListas(t), RegsTmpc(t) \cup RegsBin(t))
            /\ Reescribiendo(t) => Domina(RegsListas(t), RegsBin(t))
            /\ comp[t] = "guardar" =>
                  \A i \in hayBin[t] : bin[t][i] = listas[t][i]

\* The records in memory of a table that is not there, or whose DROP has passed
\* the memtable, were added afterwards.
SinDuenio ==
    \A t \in Tablas :
        t \notin existe \/ Ocupada(t, DropConRw \ {"drop_memtable"})
            => t \in huerfanas \/ memtable[t] = {}

\* What a dump in progress has written stays on disk until it empties the
\* memtable, although the compaction may already have merged it.
VolcadoEnDisco ==
    /\ dump = "volcando" => rwMem = "dump"
    /\ Sano /\ dump = "volcando" =>
          \A t \in Tablas \ (pendientes \cup EnBaja) :
              Domina(EnDisco(t), memtable[t])

----------------------------------------------------------------------------
(* Records and domination *)

LEMMA RegistrosDe ==
  ASSUME TypeOK, NEW t \in Tablas
  PROVE  /\ RegsTmp(t) \subseteq Registros /\ RegsTmpc(t) \subseteq Registros
         /\ RegsBin(t) \subseteq Registros /\ RegsListas(t) \subseteq Registros
         /\ memtable[t] \subseteq Registros /\ EnDisco(t) \subseteq Registros
         /\ Visible(t) \subseteq Registros
<1>1. /\ RegsTmp(t) \subseteq Registros /\ RegsTmpc(t) \subseteq Registros
      /\ RegsBin(t) \subseteq Registros /\ RegsListas(t) \subseteq Registros
      /\ memtable[t] \subseteq Registros
  BY DEF TypeOK, RegsTmp, RegsTmpc, RegsBin, RegsListas
<1>. QED
  BY <1>1 DEF EnDisco, Visible

LEMMA DominaIncluida ==
  ASSUME NEW A, NEW B \in SUBSET Registros, B \subseteq A
  PROVE  Domina(A, B)
  BY DEF Domina, Registros

LEMMA DominaSigue ==
  ASSUME NEW A \in SUBSET Registros, NEW B \in SUBSET Registros,
         NEW C \in SUBSET Registros, Domina(A, B), Domina(B, C)
  PROVE  Domina(A, C)
  BY DEF Domina, Registros

LEMMA DominaJuntas ==
  ASSUME NEW A, NEW B, NEW C, NEW D, Domina(A, B), Domina(C, D)
  PROVE  Domina(A \cup C, B \cup D)
  BY DEF Domina

----------------------------------------------------------------------------
(* What changes the records on disk *)

LEMMA CambiaEnDisco ==
  ASSUME TypeOK, Muerto, CicloDeVida, [Next]_vars, NEW t \in Tablas
  PROVE  \/ EnDisco(t)' = EnDisco(t)
         \/ DumpTabla(t)
         \/ CoRenombrar(t) \/ CoBorrarTmpc(t) \/ CoBorrarBin(t) \/ CoFin(t)
         \/ \E i \in Parts : CoGuardar(t, i)
         \/ \E c \in Clientes :
               /\ ped[c].tabla = t
               /\ DropParticiones(c) \/ DropTemporales(c) \/ DropFin(c)
         \/ Caer
<1>. DEFINE Otra ==
         \/ DumpTabla(t)
         \/ CoRenombrar(t) \/ CoBorrarTmpc(t) \/ CoBorrarBin(t) \/ CoFin(t)
         \/ \E i \in Parts : CoGuardar(t, i)
         \/ \E c \in Clientes :
               /\ ped[c].tabla = t
               /\ DropParticiones(c) \/ DropTemporales(c) \/ DropFin(c)
         \/ Caer
<1>. SUFFICES ASSUME ~Otra PROVE EnDisco(t)' = EnDisco(t)
  OBVIOUS
<1>1. tmp'[t] = tmp[t] /\ tmpc'[t] = tmpc[t] /\ bin'[t] = bin[t]
  <2>1. ASSUME NEW c \in Clientes, NEW i \in Parts, CreateParticion(c, i)
        PROVE  tmp' = tmp /\ tmpc' = tmpc /\ bin' = bin
    BY <2>1 DEF CreateParticion
  <2>. QED
    BY <2>1, CambiaArchivos
<1>2. \/ comp'[t] = comp[t] /\ listas'[t] = listas[t]
      \/ ~Reescribiendo(t) /\ ~Reescribiendo(t)'
  <2>0. comp \in [Tablas -> EstadosComp]
    BY DEF TypeOK
  <2>1. CASE PasoCompactacion(t)
    BY <2>0, <2>1
       DEF PasoCompactacion, CoListar, CoTomarMx, CoLeer, CoTomarRw,
           FallaCompactacion, Reescribiendo
  <2>2. ASSUME NEW c \in Clientes, ped[c].tabla = t, CreateHilo(c)
        PROVE  ~Reescribiendo(t) /\ ~Reescribiendo(t)'
    <3>1. comp[t] = "sin_hilo"
      BY <2>2 DEF CreateHilo, CicloDeVida, Creando
    <3>2. comp'[t] = "durmiendo"
      BY <2>0, <2>2 DEF CreateHilo
    <3>. QED
      BY <3>1, <3>2 DEF Reescribiendo
  <2>3. CASE Levantar
    BY <2>3 DEF Levantar, Muerto, Reescribiendo
  <2>. QED
    BY <2>1, <2>2, <2>3, CambiaCompactacion
<1>. QED
  BY <1>1, <1>2 DEF EnDisco, RegsTmp, RegsTmpc, RegsBin, RegsListas, Reescribiendo

\* The steps of a compaction, on the sets of records.
LEMMA EfectoRenombrar ==
  ASSUME TypeOK, NEW t \in Tablas, CoRenombrar(t)
  PROVE  /\ (RegsTmp(t) \cup RegsTmpc(t))' \subseteq RegsTmp(t) \cup RegsTmpc(t)
         /\ (\A n \in Nums : tmpc[t][n] = {}) =>
               (RegsTmp(t) \cup RegsTmpc(t))' = RegsTmp(t) \cup RegsTmpc(t)
         /\ RegsBin(t)' = RegsBin(t)
         /\ ~Reescribiendo(t) /\ ~Reescribiendo(t)'
<1>0. /\ tmp \in [Tablas -> [Nums -> SUBSET Registros]]
      /\ tmpc \in [Tablas -> [Nums -> SUBSET Registros]]
      /\ comp \in [Tablas -> EstadosComp]
  BY DEF TypeOK
<1>1. ASSUME NEW n \in Nums
      PROVE  /\ tmp'[t][n] = IF n \in listados[t] THEN {} ELSE tmp[t][n]
             /\ tmpc'[t][n] = IF n \in listados[t] THEN tmp[t][n] ELSE tmpc[t][n]
  BY <1>0 DEF CoRenombrar
<1>2. bin' = bin /\ comp[t] = "renombrar" /\ comp'[t] = "leer"
  BY <1>0 DEF CoRenombrar
<1>3. RegsBin(t)' = RegsBin(t) /\ ~Reescribiendo(t) /\ ~Reescribiendo(t)'
  BY <1>2 DEF RegsBin, Reescribiendo
<1>4. (RegsTmp(t) \cup RegsTmpc(t))' \subseteq RegsTmp(t) \cup RegsTmpc(t)
  BY <1>1 DEF RegsTmp, RegsTmpc
<1>5. ASSUME \A n \in Nums : tmpc[t][n] = {}
      PROVE  RegsTmp(t) \cup RegsTmpc(t) \subseteq (RegsTmp(t) \cup RegsTmpc(t))'
  <2>1. ASSUME NEW n \in Nums PROVE tmp[t][n] \subseteq tmp'[t][n] \cup tmpc'[t][n]
    BY <1>1, <2>1
  <2>. QED
    BY <1>5, <2>1 DEF RegsTmp, RegsTmpc
<1>. QED
  BY <1>3, <1>4, <1>5

LEMMA EfectoDump ==
  ASSUME TypeOK, NEW t \in Tablas, DumpTabla(t)
  PROVE  /\ EnDisco(t)' \subseteq EnDisco(t) \cup memtable[t]
         /\ cantidadDumps \in Nums => memtable[t] \subseteq EnDisco(t)'
         /\ (\A n \in Nums : n = cantidadDumps => tmp[t][n] = {}) =>
               EnDisco(t) \subseteq EnDisco(t)'
<1>1. tmp \in [Tablas -> [Nums -> SUBSET Registros]]
  BY DEF TypeOK
<1>2. ASSUME NEW n \in Nums
      PROVE  tmp'[t][n] = IF n = cantidadDumps THEN memtable[t] ELSE tmp[t][n]
  BY <1>1 DEF DumpTabla
<1>3. tmpc' = tmpc /\ bin' = bin /\ UNCHANGED compactacion
  BY DEF DumpTabla
<1>4. /\ RegsTmpc(t)' = RegsTmpc(t) /\ RegsBin(t)' = RegsBin(t)
      /\ RegsListas(t)' = RegsListas(t) /\ Reescribiendo(t)' = Reescribiendo(t)
  BY <1>3 DEF RegsTmpc, RegsBin, RegsListas, Reescribiendo, compactacion
<1>5. RegsTmp(t)' \subseteq RegsTmp(t) \cup memtable[t]
  BY <1>2 DEF RegsTmp
<1>6. cantidadDumps \in Nums => memtable[t] \subseteq RegsTmp(t)'
  BY <1>2 DEF RegsTmp
<1>7. ASSUME \A n \in Nums : n = cantidadDumps => tmp[t][n] = {}
      PROVE  RegsTmp(t) \subseteq RegsTmp(t)'
  <2>1. ASSUME NEW n \in Nums PROVE tmp[t][n] \subseteq tmp'[t][n]
    BY <1>2, <1>7, <2>1
  <2>. QED
    BY <2>1 DEF RegsTmp
<1>. QED
  BY <1>4, <1>5, <1>6, <1>7 DEF EnDisco
LEMMA EfectoBorrarTmpc ==
  ASSUME TypeOK, NEW t \in Tablas, CoBorrarTmpc(t)
  PROVE  /\ EnDisco(t) = RegsTmp(t) \cup RegsTmpc(t) \cup RegsBin(t)
         /\ EnDisco(t)' = RegsTmp(t) \cup RegsBin(t) \cup RegsListas(t)
         /\ RegsListas(t)' = RegsListas(t) /\ RegsBin(t)' = RegsBin(t)
<1>0. tmpc \in [Tablas -> [Nums -> SUBSET Registros]] /\ comp \in [Tablas -> EstadosComp]
  BY DEF TypeOK
<1>1. /\ tmp' = tmp /\ bin' = bin /\ listas' = listas
      /\ comp[t] = "borrar_tmpc" /\ comp'[t] = "borrar_bin"
      /\ \A n \in Nums : tmpc'[t][n] = {}
  BY <1>0 DEF CoBorrarTmpc
<1>2. /\ RegsTmp(t)' = RegsTmp(t) /\ RegsBin(t)' = RegsBin(t)
      /\ RegsListas(t)' = RegsListas(t) /\ RegsTmpc(t)' = {}
  BY <1>1 DEF RegsTmp, RegsBin, RegsListas, RegsTmpc
<1>3. ~Reescribiendo(t) /\ Reescribiendo(t)'
  BY <1>1 DEF Reescribiendo
<1>. QED
  BY <1>2, <1>3 DEF EnDisco

LEMMA EfectoBorrarBin ==
  ASSUME TypeOK, NEW t \in Tablas, CoBorrarBin(t)
  PROVE  /\ EnDisco(t) = RegsTmp(t) \cup RegsTmpc(t) \cup RegsBin(t) \cup RegsListas(t)
         /\ EnDisco(t)' = RegsTmp(t) \cup RegsTmpc(t) \cup RegsListas(t)
         /\ RegsListas(t)' = RegsListas(t) /\ RegsBin(t)' = {} /\ hayBin'[t] = {}
<1>0. /\ bin \in [Tablas -> [Parts -> SUBSET Registros]] /\ comp \in [Tablas -> EstadosComp]
      /\ hayBin \in [Tablas -> SUBSET Parts]
  BY DEF TypeOK
<1>1. /\ tmp' = tmp /\ tmpc' = tmpc /\ listas' = listas
      /\ comp[t] = "borrar_bin" /\ comp'[t] = "guardar" /\ hayBin'[t] = {}
      /\ \A i \in Parts : bin'[t][i] = {}
  BY <1>0 DEF CoBorrarBin
<1>2. /\ RegsTmp(t)' = RegsTmp(t) /\ RegsTmpc(t)' = RegsTmpc(t)
      /\ RegsListas(t)' = RegsListas(t) /\ RegsBin(t)' = {}
  BY <1>1 DEF RegsTmp, RegsBin, RegsListas, RegsTmpc
<1>3. Reescribiendo(t) /\ Reescribiendo(t)'
  BY <1>1 DEF Reescribiendo
<1>. QED
  BY <1>1, <1>2, <1>3 DEF EnDisco

LEMMA EfectoGuardar ==
  ASSUME TypeOK, NEW t \in Tablas, NEW i \in Parts, CoGuardar(t, i)
  PROVE  /\ EnDisco(t) = RegsTmp(t) \cup RegsTmpc(t) \cup RegsBin(t) \cup RegsListas(t)
         /\ EnDisco(t)' = RegsTmp(t) \cup RegsTmpc(t) \cup RegsBin(t)' \cup RegsListas(t)
         /\ RegsListas(t)' = RegsListas(t)
         /\ RegsBin(t)' \subseteq RegsBin(t) \cup RegsListas(t)
<1>0. bin \in [Tablas -> [Parts -> SUBSET Registros]]
  BY DEF TypeOK
<1>1. /\ tmp' = tmp /\ tmpc' = tmpc /\ listas' = listas /\ comp' = comp
      /\ comp[t] = "guardar"
      /\ \A j \in Parts : bin'[t][j] = IF j = i THEN listas[t][i] ELSE bin[t][j]
  BY <1>0 DEF CoGuardar, compactacion
<1>2. /\ RegsTmp(t)' = RegsTmp(t) /\ RegsTmpc(t)' = RegsTmpc(t)
      /\ RegsListas(t)' = RegsListas(t)
      /\ RegsBin(t)' \subseteq RegsBin(t) \cup RegsListas(t)
  BY <1>1 DEF RegsTmp, RegsBin, RegsListas, RegsTmpc
<1>3. Reescribiendo(t) /\ Reescribiendo(t)'
  BY <1>1 DEF Reescribiendo
<1>. QED
  BY <1>2, <1>3 DEF EnDisco

LEMMA EfectoFin ==
  ASSUME TypeOK, NEW t \in Tablas, CoFin(t)
  PROVE  /\ EnDisco(t) = RegsTmp(t) \cup RegsTmpc(t) \cup RegsBin(t) \cup RegsListas(t)
         /\ EnDisco(t)' = RegsTmp(t) \cup RegsTmpc(t) \cup RegsBin(t)
<1>0. comp \in [Tablas -> EstadosComp]
  BY DEF TypeOK
<1>1. /\ tmp' = tmp /\ tmpc' = tmpc /\ bin' = bin
      /\ comp[t] = "guardar" /\ comp'[t] = "durmiendo"
  BY <1>0 DEF CoFin, disco
<1>2. /\ RegsTmp(t)' = RegsTmp(t) /\ RegsTmpc(t)' = RegsTmpc(t) /\ RegsBin(t)' = RegsBin(t)
  BY <1>1 DEF RegsTmp, RegsBin, RegsTmpc
<1>3. Reescribiendo(t) /\ ~Reescribiendo(t)'
  BY <1>1 DEF Reescribiendo
<1>. QED
  BY <1>2, <1>3 DEF EnDisco

\* A DROP, and the end of the process, only take away.
LEMMA EfectoBaja ==
  ASSUME TypeOK, NEW t \in Tablas,
         \/ Caer
         \/ \E c \in Clientes :
               /\ ped[c].tabla = t
               /\ DropParticiones(c) \/ DropTemporales(c) \/ DropFin(c)
  PROVE  EnDisco(t)' \subseteq EnDisco(t)
<1>0. /\ bin \in [Tablas -> [Parts -> SUBSET Registros]] /\ comp \in [Tablas -> EstadosComp]
      /\ tmp \in [Tablas -> [Nums -> SUBSET Registros]]
      /\ tmpc \in [Tablas -> [Nums -> SUBSET Registros]]
  BY DEF TypeOK
<1>1. CASE Caer
  <2>1. tmp' = tmp /\ tmpc' = tmpc /\ bin' = bin /\ comp'[t] = "sin_hilo"
    BY <1>1 DEF Caer, disco
  <2>. QED
    BY <2>1 DEF EnDisco, RegsTmp, RegsTmpc, RegsBin, Reescribiendo
<1>2. ASSUME NEW c \in Clientes, ped[c].tabla = t, DropParticiones(c)
      PROVE  EnDisco(t)' \subseteq EnDisco(t)
  <2>1. /\ tmp' = tmp /\ tmpc' = tmpc /\ UNCHANGED compactacion
        /\ \A i \in Parts : bin'[t][i] = {}
    BY <1>0, <1>2 DEF DropParticiones
  <2>. QED
    BY <2>1 DEF EnDisco, RegsTmp, RegsTmpc, RegsBin, RegsListas, Reescribiendo, compactacion
<1>3. ASSUME NEW c \in Clientes, ped[c].tabla = t, DropTemporales(c)
      PROVE  EnDisco(t)' \subseteq EnDisco(t)
  <2>1. /\ bin' = bin /\ UNCHANGED compactacion
        /\ \A n \in Nums : tmp'[t][n] = {} /\ tmpc'[t][n] = {}
    BY <1>0, <1>3 DEF DropTemporales
  <2>. QED
    BY <2>1 DEF EnDisco, RegsTmp, RegsTmpc, RegsBin, RegsListas, Reescribiendo, compactacion
<1>4. ASSUME NEW c \in Clientes, ped[c].tabla = t, DropFin(c)
      PROVE  EnDisco(t)' \subseteq EnDisco(t)
  <2>1. tmp' = tmp /\ tmpc' = tmpc /\ bin' = bin /\ comp'[t] = "sin_hilo"
    BY <1>0, <1>4 DEF DropFin, disco
  <2>. QED
    BY <2>1 DEF EnDisco, RegsTmp, RegsTmpc, RegsBin, Reescribiendo
<1>. QED
  BY <1>1, <1>2, <1>3, <1>4

\* No step puts on disk what was not there, or in the memtable.
LEMMA EnDiscoNoInventa ==
  ASSUME TypeOK, Muerto, CicloDeVida, ListasDeArchivos, [Next]_vars, NEW t \in Tablas
  PROVE  EnDisco(t)' \subseteq EnDisco(t) \cup memtable[t]
<1>1. CASE CoRenombrar(t)
  BY <1>1, EfectoRenombrar DEF EnDisco
<1>2. CASE CoBorrarTmpc(t)
  <2>1. RegsListas(t) \subseteq RegsTmpc(t) \cup RegsBin(t)
    BY <1>2 DEF ListasDeArchivos, Leida, CoBorrarTmpc
  <2>. QED
    BY <1>2, <2>1, EfectoBorrarTmpc
<1>3. ASSUME NEW i \in Parts, CoGuardar(t, i)
      PROVE  EnDisco(t)' \subseteq EnDisco(t) \cup memtable[t]
  BY <1>3, EfectoGuardar
<1>. QED
  BY <1>1, <1>2, <1>3, CambiaEnDisco, EfectoDump, EfectoBorrarBin, EfectoFin, EfectoBaja
----------------------------------------------------------------------------
(* The lists of a compaction *)

\* Who is past drop_mx in a compaction of t shuts the DROPs of t out.
LEMMA SinBajaEnCurso ==
  ASSUME Cerrojos, NEW t \in Tablas, comp[t] \in CoConMx \cup CoConRw
  PROVE  \A c \in Clientes : ped[c].tabla = t => pc[c] \notin DropConRw
<1>1. comp[t] \in CoConMx
  BY DEF CoConMx
<1>. QED
  BY <1>1 DEF Cerrojos, DropConMx

LEMMA EntraLeida ==
  ASSUME TypeOK, [Next]_vars, NEW t \in Tablas, comp'[t] \in Leida
  PROVE  comp[t] \in Leida \/ \E n \in 1..Particiones : CoLeer(t, n)
<1>0. comp \in [Tablas -> EstadosComp]
  BY DEF TypeOK
<1>1. CASE PasoCompactacion(t)
  BY <1>0, <1>1
     DEF PasoCompactacion, CoListar, CoTomarMx, CoRenombrar, CoTomarRw,
         CoBorrarTmpc, CoBorrarBin, CoGuardar, CoFin, FallaCompactacion, Caer,
         compactacion, Leida
<1>2. ASSUME NEW c \in Clientes, ped[c].tabla = t, CreateHilo(c) \/ DropFin(c)
      PROVE  FALSE
  BY <1>0, <1>2 DEF CreateHilo, DropFin, Leida
<1>3. ~Caer /\ ~Levantar
  BY DEF Caer, Levantar, Leida
<1>. QED
  BY <1>1, <1>2, <1>3, CambiaCompactacion

\* From the read to the removal of the .tmpc nobody changes those nor the .bin.
LEMMA LeidaFija ==
  ASSUME TypeOK, Cerrojos, [Next]_vars, NEW t \in Tablas,
         comp[t] \in Leida, comp'[t] \in Leida
  PROVE  /\ RegsTmpc(t)' = RegsTmpc(t) /\ RegsBin(t)' = RegsBin(t)
         /\ RegsListas(t)' = RegsListas(t)
<1>0. comp \in [Tablas -> EstadosComp]
  BY DEF TypeOK
<1>1. \A c \in Clientes : ped[c].tabla = t => pc[c] \notin DropConRw
  BY SinBajaEnCurso DEF CoConMx, CoConRw, Leida
<1>2. tmpc'[t] = tmpc[t] /\ bin'[t] = bin[t]
  <2>1. ~CoRenombrar(t) /\ ~CoBorrarTmpc(t) /\ ~CoBorrarBin(t)
    BY <1>0 DEF CoRenombrar, CoBorrarTmpc, CoBorrarBin, Leida
  <2>2. \A i \in Parts : ~CoGuardar(t, i)
    BY DEF CoGuardar, Leida
  <2>3. \A c \in Clientes : ped[c].tabla = t => ~DropParticiones(c) /\ ~DropTemporales(c)
    BY <1>1 DEF DropParticiones, DropTemporales, DropConRw
  <2>4. \A c \in Clientes, i \in Parts :
           CreateParticion(c, i) => tmpc' = tmpc /\ bin' = bin
    BY DEF CreateParticion
  <2>5. DumpTabla(t) => tmpc' = tmpc /\ bin' = bin
    BY DEF DumpTabla
  <2>. QED
    BY <2>1, <2>2, <2>3, <2>4, <2>5, CambiaArchivos
<1>3. listas'[t] = listas[t]
  <2>1. CASE PasoCompactacion(t)
    BY <1>0, <2>1
       DEF PasoCompactacion, CoListar, CoTomarMx, CoRenombrar, CoLeer, CoTomarRw,
           CoBorrarTmpc, CoBorrarBin, CoGuardar, CoFin, FallaCompactacion, Caer,
           compactacion, Leida
  <2>2. ASSUME NEW c \in Clientes, CreateHilo(c) \/ DropFin(c) PROVE listas' = listas
    BY <2>2 DEF CreateHilo, DropFin
  <2>3. ~Caer /\ ~Levantar
    BY DEF Caer, Levantar, Leida
  <2>. QED
    BY <2>1, <2>2, <2>3, CambiaCompactacion
<1>. QED
  BY <1>2, <1>3 DEF RegsTmpc, RegsBin, RegsListas

LEMMA EfectoLeer ==
  ASSUME TypeOK, NEW t \in Tablas, NEW n \in 1..Particiones, CoLeer(t, n)
  PROVE  /\ RegsTmpc(t)' = RegsTmpc(t) /\ RegsBin(t)' = RegsBin(t)
         /\ RegsListas(t)' = UNION {ListasDe(t, n)[i] : i \in Parts}
         /\ RegsListas(t)' \subseteq RegsTmpc(t) \cup RegsBin(t)
<1>0. listas = [u \in Tablas |-> listas[u]]
  BY DEF TypeOK
<1>1. listas'[t] = ListasDe(t, n) /\ tmpc' = tmpc /\ bin' = bin
  BY <1>0 DEF CoLeer, disco
<1>2. ASSUME NEW i \in Parts PROVE ListasDe(t, n)[i] \subseteq RegsTmpc(t) \cup RegsBin(t)
  BY DEF ListasDe, Fusion, RegsBin
<1>3. RegsListas(t)' = UNION {ListasDe(t, n)[i] : i \in Parts}
  BY <1>1 DEF RegsListas
<1>. QED
  BY <1>1, <1>2, <1>3 DEF RegsTmpc, RegsBin

LEMMA ListasDeArchivosInit == Init => ListasDeArchivos
  BY DEF Init, ListasDeArchivos, Leida

LEMMA ListasDeArchivosNext ==
  TypeOK /\ Cerrojos /\ ListasDeArchivos /\ [Next]_vars => ListasDeArchivos'
<1>. SUFFICES ASSUME TypeOK, Cerrojos, ListasDeArchivos, [Next]_vars,
                     NEW t \in Tablas, comp'[t] \in Leida
              PROVE  RegsListas(t)' \subseteq RegsTmpc(t)' \cup RegsBin(t)'
  BY DEF ListasDeArchivos
<1>1. CASE comp[t] \in Leida
  BY <1>1, LeidaFija DEF ListasDeArchivos
<1>2. ASSUME NEW n \in 1..Particiones, CoLeer(t, n)
      PROVE  RegsListas(t)' \subseteq RegsTmpc(t)' \cup RegsBin(t)'
  BY <1>2, EfectoLeer
<1>. QED
  BY <1>1, <1>2, EntraLeida

\* The lists of a compaction that read all the partitions have, of every
\* record, a newest of its key.
LEMMA ListasDominan ==
  ASSUME TypeOK, NEW t \in Tablas
  PROVE  Domina(UNION {ListasDe(t, Particiones)[i] : i \in Parts},
                RegsTmpc(t) \cup RegsBin(t))
<1>. DEFINE S(i) == bin[t][i] \cup
                      {r \in RegsTmpc(t) : ParticionDe(r.key, Particiones) = i}
<1>1. ASSUME NEW i \in Parts
      PROVE  ListasDe(t, Particiones)[i] = Fusion(S(i)) /\ S(i) \subseteq Registros
  <2>1. i < Particiones
    BY DEF Parts, LFSAssumption
  <2>2. bin[t][i] \subseteq Registros
    BY DEF TypeOK
  <2>. QED
    BY <2>1, <2>2, RegistrosDe DEF ListasDe
<1>2. ASSUME NEW i \in Parts, NEW r \in S(i)
      PROVE  \E d \in UNION {ListasDe(t, Particiones)[j] : j \in Parts} :
                d.key = r.key /\ d.ts >= r.ts
  <2>1. \A s \in S(i) : s.ts \in 0..MaxTs
    <3>1. \A s \in Registros : s.ts \in 0..MaxTs
      BY DEF Registros, LFSAssumption
    <3>. HIDE DEF S
    <3>. QED
      BY <1>1, <3>1
  <2>2. Domina(Fusion(S(i)), S(i))
    <3>. HIDE DEF S
    <3>. QED
      BY <2>1, FusionDomina, LFSAssumption
  <2>3. PICK d \in Fusion(S(i)) : d.key = r.key /\ d.ts >= r.ts
    BY <2>2 DEF Domina
  <2>. QED
    BY <1>1, <2>3
<1>3. ASSUME NEW r \in RegsTmpc(t) \cup RegsBin(t) PROVE \E i \in Parts : r \in S(i)
  <2>1. CASE r \in RegsBin(t)
    BY <2>1 DEF RegsBin
  <2>2. CASE r \in RegsTmpc(t)
    <3>1. r.key \in Nat
      BY <2>2, RegistrosDe DEF Registros, LFSAssumption
    <3>2. ParticionDe(r.key, Particiones) \in Parts
      BY <3>1 DEF ParticionDe, Parts, LFSAssumption
    <3>. QED
      BY <2>2, <3>2
  <2>. QED
    BY <2>1, <2>2
<1>. HIDE DEF S
<1>. QED
  BY <1>2, <1>3 DEF Domina
LEMMA ListasFielesInit == Init => ListasFieles
  BY DEF Init, ListasFieles, Leida, Reescribiendo

\* Which steps change the partitions and the lists while they are written.
LEMMA Reescrita ==
  ASSUME TypeOK, Muerto, Cerrojos, CicloDeVida, [Next]_vars, NEW t \in Tablas,
         Reescribiendo(t), Reescribiendo(t)'
  PROVE  \/ /\ bin'[t] = bin[t] /\ hayBin'[t] = hayBin[t]
            /\ listas'[t] = listas[t] /\ comp'[t] = comp[t]
         \/ CoBorrarBin(t)
         \/ \E i \in Parts : CoGuardar(t, i)
<1>0. comp \in [Tablas -> EstadosComp]
  BY DEF TypeOK
<1>. SUFFICES ASSUME ~CoBorrarBin(t), \A i \in Parts : ~CoGuardar(t, i)
              PROVE  /\ bin'[t] = bin[t] /\ hayBin'[t] = hayBin[t]
                     /\ listas'[t] = listas[t] /\ comp'[t] = comp[t]
  OBVIOUS
<1>1. \A c \in Clientes : ped[c].tabla = t => pc[c] \notin DropConRw \cup Creando
  <2>1. \A c \in Clientes : ped[c].tabla = t => pc[c] \notin DropConRw
    BY SinBajaEnCurso DEF CoConMx, CoConRw, Reescribiendo
  <2>. QED
    BY <2>1 DEF CicloDeVida, Reescribiendo
<1>2. bin'[t] = bin[t] /\ hayBin'[t] = hayBin[t]
  <2>1. ~CoRenombrar(t) /\ ~CoBorrarTmpc(t)
    BY DEF CoRenombrar, CoBorrarTmpc, Reescribiendo
  <2>2. \A c \in Clientes, i \in Parts :
          ped[c].tabla = t => ~DropParticiones(c) /\ ~DropTemporales(c) /\ ~CreateParticion(c, i)
    BY <1>1 DEF DropParticiones, DropTemporales, CreateParticion, DropConRw, Creando
  <2>3. \A c \in Clientes : ped[c].tabla = t => ~DropParticiones(c) /\ ~DropTemporales(c)
    BY <1>1 DEF DropParticiones, DropTemporales, DropConRw
  <2>4. DumpTabla(t) => bin' = bin /\ hayBin' = hayBin
    BY DEF DumpTabla
  <2>. QED
    BY <2>1, <2>2, <2>3, <2>4, CambiaArchivos
<1>3. listas'[t] = listas[t] /\ comp'[t] = comp[t]
  <2>1. CASE PasoCompactacion(t)
    BY <1>0, <2>1
       DEF PasoCompactacion, CoListar, CoTomarMx, CoRenombrar, CoLeer, CoTomarRw,
           CoBorrarTmpc, CoFin, FallaCompactacion, Caer, Reescribiendo
  <2>2. ASSUME NEW c \in Clientes, ped[c].tabla = t, CreateHilo(c) \/ DropFin(c)
        PROVE  FALSE
    BY <1>1, <2>2 DEF CreateHilo, DropFin, DropConRw, Creando
  <2>3. ~Caer /\ ~Levantar
    BY DEF Caer, Levantar, Muerto, Reescribiendo
  <2>. QED
    BY <2>1, <2>2, <2>3, CambiaCompactacion
<1>. QED
  BY <1>2, <1>3

\* The partitions begin to be written after the .tmpc are removed.
LEMMA EntraReescribiendo ==
  ASSUME TypeOK, [Next]_vars, NEW t \in Tablas, ~Reescribiendo(t), Reescribiendo(t)'
  PROVE  CoBorrarTmpc(t)
<1>0. comp \in [Tablas -> EstadosComp]
  BY DEF TypeOK
<1>1. CASE PasoCompactacion(t)
  BY <1>0, <1>1
     DEF PasoCompactacion, CoListar, CoTomarMx, CoRenombrar, CoLeer, CoTomarRw,
         CoBorrarBin, CoGuardar, CoFin, FallaCompactacion, Caer, compactacion,
         Reescribiendo
<1>2. ASSUME NEW c \in Clientes, ped[c].tabla = t, CreateHilo(c) \/ DropFin(c)
      PROVE  FALSE
  BY <1>0, <1>2 DEF CreateHilo, DropFin, Reescribiendo
<1>3. ~Caer /\ ~Levantar
  BY DEF Caer, Levantar, Reescribiendo
<1>. QED
  BY <1>1, <1>2, <1>3, CambiaCompactacion DEF Reescribiendo

LEMMA ListasFielesNext ==
  TypeOK /\ Muerto /\ Cerrojos /\ CicloDeVida /\ Completas /\ ListasFieles
    /\ [Next]_vars => ListasFieles'
<1>. SUFFICES ASSUME TypeOK, Muerto, Cerrojos, CicloDeVida, Completas, ListasFieles,
                     [Next]_vars, vivo', caidas' = 0, NEW t \in Tablas
              PROVE  /\ comp'[t] \in Leida =>
                           Domina(RegsListas(t)', RegsTmpc(t)' \cup RegsBin(t)')
                     /\ Reescribiendo(t)' => Domina(RegsListas(t)', RegsBin(t)')
                     /\ comp'[t] = "guardar" =>
                           \A i \in hayBin'[t] : bin'[t][i] = listas'[t][i]
  BY DEF ListasFieles, Sano, Domina, Reescribiendo
<1>0. /\ comp \in [Tablas -> EstadosComp] /\ hayBin \in [Tablas -> SUBSET Parts]
      /\ bin \in [Tablas -> [Parts -> SUBSET Registros]]
  BY DEF TypeOK
<1>1. vivo /\ caidas = 0
  BY SanoAntes
<1>2. /\ comp[t] \in Leida => Domina(RegsListas(t), RegsTmpc(t) \cup RegsBin(t))
      /\ Reescribiendo(t) => Domina(RegsListas(t), RegsBin(t))
      /\ comp[t] = "guardar" => \A i \in hayBin[t] : bin[t][i] = listas[t][i]
  BY <1>1 DEF ListasFieles, Sano
<1>3. ASSUME comp'[t] \in Leida
      PROVE  Domina(RegsListas(t)', RegsTmpc(t)' \cup RegsBin(t)')
  <2>1. CASE comp[t] \in Leida
    BY <1>2, <1>3, <2>1, LeidaFija
  <2>2. ASSUME NEW n \in 1..Particiones, CoLeer(t, n)
        PROVE  Domina(RegsListas(t)', RegsTmpc(t)' \cup RegsBin(t)')
    <3>1. hayBin[t] = Parts
      BY <1>1, <2>2, LeeTodas DEF CoLeer
    <3>2. n = Particiones
      BY <2>2, <3>1, Intervalo DEF CoLeer, LFSAssumption
    <3>. QED
      BY <2>2, <3>2, EfectoLeer, ListasDominan
  <2>. QED
    BY <1>3, <2>1, <2>2, EntraLeida
<1>4. ASSUME Reescribiendo(t)' PROVE Domina(RegsListas(t)', RegsBin(t)')
  <2>1. CASE ~Reescribiendo(t)
    <3>1. CoBorrarTmpc(t)
      BY <1>4, <2>1, EntraReescribiendo
    <3>2. Domina(RegsListas(t), RegsTmpc(t) \cup RegsBin(t))
      BY <1>2, <3>1 DEF CoBorrarTmpc, Leida
    <3>3. Domina(RegsListas(t), RegsBin(t))
      BY <3>2 DEF Domina
    <3>. QED
      BY <3>1, <3>3, EfectoBorrarTmpc
  <2>2. CASE Reescribiendo(t)
    <3>1. CASE bin'[t] = bin[t] /\ listas'[t] = listas[t]
      BY <1>2, <2>2, <3>1 DEF RegsListas, RegsBin
    <3>2. CASE CoBorrarBin(t)
      BY <3>2, EfectoBorrarBin DEF Domina
    <3>3. ASSUME NEW i \in Parts, CoGuardar(t, i)
          PROVE  Domina(RegsListas(t)', RegsBin(t)')
      <4>1. Domina(RegsListas(t), RegsListas(t))
        BY RegistrosDe, DominaIncluida
      <4>2. Domina(RegsListas(t), RegsBin(t) \cup RegsListas(t))
        BY <1>2, <2>2, <4>1, DominaUnion
      <4>. QED
        BY <3>3, <4>2, EfectoGuardar DEF Domina
    <3>. QED
      BY <1>4, <2>2, <3>1, <3>2, <3>3, Reescrita
  <2>. QED
    BY <2>1, <2>2
<1>5. ASSUME comp'[t] = "guardar", NEW i \in hayBin'[t]
      PROVE  bin'[t][i] = listas'[t][i]
  <2>1. Reescribiendo(t)'
    BY <1>5 DEF Reescribiendo
  <2>2. CASE ~Reescribiendo(t)
    <3>1. CoBorrarTmpc(t)
      BY <2>1, <2>2, EntraReescribiendo
    <3>. QED
      BY <1>0, <1>5, <3>1 DEF CoBorrarTmpc
  <2>3. CASE CoBorrarBin(t)
    BY <1>5, <2>3, EfectoBorrarBin
  <2>4. ASSUME NEW j \in Parts, CoGuardar(t, j)
        PROVE  bin'[t][i] = listas'[t][i]
    <3>1. /\ i \in hayBin[t] \cup {j} /\ i \in Parts
          /\ bin'[t][i] = IF i = j THEN listas[t][j] ELSE bin[t][i]
          /\ listas' = listas /\ comp[t] = "guardar"
      BY <1>0, <1>5, <2>4 DEF CoGuardar, compactacion
    <3>. QED
      BY <1>2, <3>1
  <2>5. CASE /\ bin'[t] = bin[t] /\ hayBin'[t] = hayBin[t]
             /\ listas'[t] = listas[t] /\ comp'[t] = comp[t]
    BY <1>2, <1>5, <2>5
  <2>. QED
    BY <2>1, <2>2, <2>3, <2>4, <2>5, Reescrita
<1>. QED
  BY <1>3, <1>4, <1>5
----------------------------------------------------------------------------
(* No record is lost on disk *)

LEMMA EnDiscoDomina ==
  ASSUME TypeOK, Muerto, Cerrojos, CicloDeVida, Completas, TemporalesNuevos, ListasFieles,
         [Next]_vars, vivo', caidas' = 0, NEW t \in Tablas, ~DeBaja(t)
  PROVE  Domina(EnDisco(t)', EnDisco(t))
<1>1. vivo /\ caidas = 0 /\ ~Caer
  BY SanoAntes
<1>2. /\ comp[t] \in Leida => Domina(RegsListas(t), RegsTmpc(t) \cup RegsBin(t))
      /\ Reescribiendo(t) => Domina(RegsListas(t), RegsBin(t))
      /\ comp[t] = "guardar" => \A i \in hayBin[t] : bin[t][i] = listas[t][i]
  BY <1>1 DEF ListasFieles, Sano
<1>3. /\ RegsTmp(t) \subseteq Registros /\ RegsTmpc(t) \subseteq Registros
      /\ RegsBin(t) \subseteq Registros /\ RegsListas(t) \subseteq Registros
      /\ EnDisco(t) \subseteq Registros
  BY RegistrosDe
<1>4. CASE EnDisco(t) \subseteq EnDisco(t)'
  BY <1>3, <1>4, DominaIncluida
<1>5. CASE DumpTabla(t)
  <2>1. \A n \in Nums : n = cantidadDumps => tmp[t][n] = {}
    <3>1. t \in pendientes /\ cantidadDumps \in Nat
      BY <1>5 DEF DumpTabla, TypeOK, LFSAssumption
    <3>. QED
      BY <1>1, <3>1 DEF TemporalesNuevos
  <2>. QED
    BY <1>4, <1>5, <2>1, EfectoDump
<1>6. CASE CoRenombrar(t)
  <2>1. \A n \in Nums : tmpc[t][n] = {}
    BY <1>1, <1>6 DEF CoRenombrar, TemporalesNuevos
  <2>. QED
    BY <1>4, <1>6, <2>1, EfectoRenombrar DEF EnDisco
<1>7. CASE CoBorrarTmpc(t)
  <2>1. Domina(RegsListas(t), RegsTmpc(t) \cup RegsBin(t))
    BY <1>2, <1>7 DEF CoBorrarTmpc, Leida
  <2>2. Domina(RegsTmp(t), RegsTmp(t))
    BY <1>3, DominaIncluida
  <2>3. Domina(RegsTmp(t) \cup RegsListas(t), RegsTmp(t) \cup (RegsTmpc(t) \cup RegsBin(t)))
    BY <2>1, <2>2, DominaJuntas
  <2>. QED
    BY <1>7, <2>3, EfectoBorrarTmpc DEF Domina
<1>8. CASE CoBorrarBin(t)
  <2>1. Domina(RegsListas(t), RegsBin(t))
    BY <1>2, <1>8 DEF CoBorrarBin, Reescribiendo
  <2>2. Domina(EnDisco(t)', RegsTmp(t) \cup RegsTmpc(t) \cup RegsListas(t))
    BY <1>3, <1>8, EfectoBorrarBin, DominaIncluida
  <2>. QED
    BY <1>8, <2>1, <2>2, EfectoBorrarBin DEF Domina
<1>9. ASSUME NEW i \in Parts, CoGuardar(t, i) PROVE Domina(EnDisco(t)', EnDisco(t))
  <2>1. Domina(RegsListas(t), RegsBin(t))
    BY <1>2, <1>9 DEF CoGuardar, Reescribiendo
  <2>2. Domina(EnDisco(t)', RegsTmp(t) \cup RegsTmpc(t) \cup RegsListas(t))
    BY <1>3, <1>9, EfectoGuardar, DominaIncluida
  <2>3. Domina(EnDisco(t)', RegsBin(t))
    BY <1>9, <2>1, EfectoGuardar DEF Domina
  <2>. QED
    BY <1>9, <2>2, <2>3, EfectoGuardar DEF Domina
<1>10. CASE CoFin(t)
  <2>1. comp[t] = "guardar" /\ hayBin[t] = 0..(nListas[t] - 1) /\ nListas[t] = Particiones
    BY <1>1, <1>10 DEF CoFin, Completas, CoConRw
  <2>2. \A i \in Parts : bin[t][i] = listas[t][i]
    BY <1>2, <2>1 DEF Parts
  <2>3. RegsListas(t) = RegsBin(t)
    BY <2>2 DEF RegsListas, RegsBin
  <2>. QED
    BY <1>4, <1>10, <2>3, EfectoFin
<1>11. ASSUME NEW c \in Clientes, ped[c].tabla = t,
              DropParticiones(c) \/ DropTemporales(c) \/ DropFin(c)
       PROVE  FALSE
  BY <1>11 DEF DropParticiones, DropTemporales, DropFin, DeBaja, Ocupada, DropConRw
<1>. QED
  BY <1>1, <1>4, <1>5, <1>6, <1>7, <1>8, <1>9, <1>10, <1>11, CambiaEnDisco

----------------------------------------------------------------------------
(* The tables that are being deleted *)

LEMMA CambiaExiste ==
  ASSUME [Next]_vars
  PROVE  \/ existe' = existe
         \/ \E c \in Clientes : CreateDirectorio(c) \/ DropDirectorio(c)
<1>. USE DEF disco
<1>1. CASE UNCHANGED vars
  BY <1>1 DEF vars
<1>2. ASSUME NEW c \in Clientes, NEW t \in Tablas, Pedir(c, t) PROVE existe' = existe
  BY <1>2 DEF Pedir, InsertVerificar, SelectVerificar, CreateVerificar,
              DropVerificar
<1>3. ASSUME NEW c \in Clientes, PasoCliente(c)
      PROVE  existe' = existe \/ CreateDirectorio(c) \/ DropDirectorio(c)
  BY <1>3
     DEF PasoCliente, InsertAgregar, SelectSemaforo, SelectLeerDisco,
         SelectTablaBorrada, SelectLeerMemtable, SelectResponder,
         CreateSemaforos, CreateMetadata, CreateParticion,
         CreateHilo, DropSemaforo, DropMx, DropRw, DropMemtable,
         DropParticiones, DropTemporales, DropMetadata, DropFin, FallaCliente, Caer
<1>4. ASSUME PasoDump PROVE existe' = existe
  BY <1>4 DEF PasoDump, DumpDespertar, DumpBloquear, DumpTabla, DumpFin,
              FallaDump, Caer
<1>5. ASSUME NEW t \in Tablas, PasoCompactacion(t) PROVE existe' = existe
  BY <1>5
     DEF PasoCompactacion, CoListar, CoTomarMx, CoRenombrar, CoLeer, CoTomarRw,
         CoBorrarTmpc, CoBorrarBin, CoGuardar, CoFin, FallaCompactacion, Caer
<1>. QED
  BY <1>1, <1>2, <1>3, <1>4, <1>5 DEF Next, Terminar, Levantar, Caer

\* Where a client that has the lock of its table for a DROP comes from.
LEMMA EntraConRw ==
  ASSUME TypeOK, [Next]_vars, NEW c \in Clientes, pc'[c] \in DropConRw
  PROVE  /\ ped'[c].tabla = ped[c].tabla
         /\ \/ DropRw(c) /\ pc'[c] = "drop_memtable"
            \/ DropMemtable(c)
            \/ pc[c] = pc'[c]
            \/ pc[c] \in DropConRw \ {"drop_memtable"}
<1>0. pc \in [Clientes -> PCs]
  BY DEF TypeOK
<1>1. ASSUME NEW t \in Tablas PROVE ~Pedir(c, t)
  BY <1>0 DEF Pedir, InsertVerificar, SelectVerificar, CreateVerificar,
              DropVerificar, Empezar, DropConRw
<1>2. ~Caer
  BY DEF Caer, DropConRw
<1>3. ASSUME PasoCliente(c)
      PROVE  /\ ped' = ped
             /\ \/ DropRw(c) /\ pc'[c] = "drop_memtable"
                \/ DropMemtable(c)
                \/ pc[c] = pc'[c]
                \/ pc[c] \in DropConRw \ {"drop_memtable"}
  <2>1. CASE CreateDirectorio(c) \/ CreateSemaforos(c) \/ CreateMetadata(c)
               \/ SelectSemaforo(c) \/ DropSemaforo(c) \/ DropMx(c)
    BY <1>0, <2>1 DEF CreateDirectorio, CreateSemaforos, CreateMetadata,
           SelectSemaforo, DropSemaforo, DropMx, Seguir, DropConRw
  <2>2. ASSUME NEW i \in Parts, CreateParticion(c, i) PROVE ped' = ped /\ pc' = pc
    BY <2>2 DEF CreateParticion, clientes
  <2>3. CASE InsertAgregar(c) \/ SelectTablaBorrada(c) \/ SelectResponder(c)
               \/ CreateHilo(c) \/ DropFin(c)
    BY <1>0, <2>3 DEF InsertAgregar, SelectTablaBorrada, SelectResponder, CreateHilo,
           DropFin, Contestar, DropConRw
  <2>4. ASSUME NEW m, SelectLeerDisco(c, m) \/ SelectLeerMemtable(c, m) PROVE FALSE
    BY <1>0, <2>4 DEF SelectLeerDisco, SelectLeerMemtable, DropConRw
  <2>5. CASE DropRw(c) \/ DropMemtable(c)
    BY <1>0, <2>5 DEF DropRw, DropMemtable, Seguir
  <2>6. CASE DropParticiones(c) \/ DropTemporales(c) \/ DropMetadata(c) \/ DropDirectorio(c)
    BY <2>6 DEF DropParticiones, DropTemporales, DropMetadata, DropDirectorio, Seguir,
           DropConRw
  <2>. QED
    BY <1>2, <1>3, <2>1, <2>2, <2>3, <2>4, <2>5, <2>6 DEF PasoCliente, FallaCliente
<1>. QED
  BY <1>1, <1>2, <1>3, CambiaCliente

\* And where it goes.
LEMMA SigueConRw ==
  ASSUME TypeOK, [Next]_vars, NEW c \in Clientes, pc[c] \in DropConRw
  PROVE  \/ pc'[c] \in DropConRw /\ ped'[c].tabla = ped[c].tabla
         \/ DropFin(c) \/ Caer
<1>0. pc \in [Clientes -> PCs]
  BY DEF TypeOK
<1>1. ASSUME NEW t \in Tablas PROVE ~Pedir(c, t)
  BY DEF Pedir, InsertVerificar, SelectVerificar, CreateVerificar,
         DropVerificar, Empezar, DropConRw
<1>2. ASSUME PasoCliente(c)
      PROVE  (pc'[c] \in DropConRw /\ ped' = ped) \/ DropFin(c) \/ Caer
  BY <1>0, <1>2
     DEF PasoCliente, InsertAgregar, SelectSemaforo, SelectLeerDisco,
         SelectTablaBorrada, SelectLeerMemtable, SelectResponder,
         CreateDirectorio, CreateSemaforos, CreateMetadata, CreateParticion,
         CreateHilo, DropSemaforo, DropMx, DropRw, DropMemtable,
         DropParticiones, DropTemporales, DropMetadata, DropDirectorio,
         FallaCliente, Seguir, DropConRw
<1>. QED
  BY <1>1, <1>2, CambiaCliente
\* A table begins to be deleted with the lock that a DROP takes.
LEMMA EntraEnBaja ==
  ASSUME TypeOK, [Next]_vars, ~Caer, NEW t \in Tablas, t \in EnBaja', t \notin EnBaja
  PROVE  \E c \in Clientes : DropRw(c) /\ ped[c].tabla = t
<1>0. t \in existe /\ ~Ocupada(t, DropConRw) /\ t \notin huerfanas
  BY DEF EnBaja, DeBaja
<1>1. CASE t \notin existe'
  <2>1. ASSUME NEW c \in Clientes, DropDirectorio(c) PROVE FALSE
    <3>1. ped[c].tabla = t /\ pc[c] \in DropConRw
      BY <1>0, <1>1, <2>1 DEF DropDirectorio, DropConRw
    <3>. QED
      BY <1>0, <3>1 DEF Ocupada
  <2>2. ASSUME NEW c \in Clientes, CreateDirectorio(c) PROVE FALSE
    BY <1>0, <1>1, <2>2 DEF CreateDirectorio
  <2>. QED
    BY <1>0, <1>1, <2>1, <2>2, CambiaExiste
<1>2. CASE Ocupada(t, DropConRw)'
  <2>1. PICK d \in Clientes : pc'[d] \in DropConRw /\ ped'[d].tabla = t
    BY <1>2 DEF Ocupada
  <2>2. ped[d].tabla = t /\ pc[d] \notin DropConRw
    BY <1>0, <2>1, EntraConRw DEF Ocupada
  <2>3. ~DropMemtable(d)
    BY <2>2 DEF DropMemtable, DropConRw
  <2>. QED
    BY <2>1, <2>2, <2>3, EntraConRw
<1>3. CASE t \in huerfanas'
  <2>1. ASSUME NEW c \in Clientes, InsertAgregar(c) PROVE FALSE
    BY <1>0, <1>3, <2>1 DEF InsertAgregar, DeBaja
  <2>2. ASSUME NEW c \in Clientes, DropMemtable(c) PROVE FALSE
    BY <1>0, <1>3, <2>2 DEF DropMemtable
  <2>3. ~DumpFin
    BY <1>3 DEF DumpFin
  <2>. QED
    BY <1>0, <1>3, <2>1, <2>2, <2>3, CambiaMemoria DEF memoria
<1>. QED
  BY <1>1, <1>2, <1>3 DEF EnBaja, DeBaja

LEMMA SinDuenioInit == Init => SinDuenio
  BY DEF Init, SinDuenio

LEMMA SinDuenioNext ==
  TypeOK /\ SinDuenio /\ [Next]_vars => SinDuenio'
<1>. DEFINE Pasada == DropConRw \ {"drop_memtable"}
<1>. SUFFICES ASSUME TypeOK, SinDuenio, [Next]_vars, NEW t \in Tablas,
                     t \notin existe' \/ Ocupada(t, Pasada)'
              PROVE  t \in huerfanas' \/ memtable'[t] = {}
  BY DEF SinDuenio
<1>0. /\ memtable = [u \in Tablas |-> memtable[u]]
      /\ \A c \in Clientes : ped[c].tabla \in Tablas
  BY DEF TypeOK, Pedido
<1>1. \/ t \notin existe \/ Ocupada(t, Pasada)
      \/ \E d \in Clientes : DropMemtable(d) /\ ped[d].tabla = t
  <2>1. CASE t \in existe /\ t \notin existe'
    <3>1. ASSUME NEW c \in Clientes, DropDirectorio(c)
          PROVE  pc[c] \in Pasada /\ ped[c].tabla = t
      BY <2>1, <3>1 DEF DropDirectorio, DropConRw
    <3>2. ASSUME NEW c \in Clientes, CreateDirectorio(c) PROVE FALSE
      BY <2>1, <3>2 DEF CreateDirectorio
    <3>. QED
      BY <2>1, <3>1, <3>2, CambiaExiste DEF Ocupada
  <2>2. CASE Ocupada(t, Pasada)'
    <3>1. PICK d \in Clientes : pc'[d] \in Pasada /\ ped'[d].tabla = t
      BY <2>2 DEF Ocupada
    <3>. QED
      BY <3>1, EntraConRw DEF Ocupada
  <2>. QED
    BY <2>1, <2>2
<1>2. ASSUME NEW d \in Clientes, DropMemtable(d), ped[d].tabla = t
      PROVE  memtable'[t] = {}
  BY <1>0, <1>2 DEF DropMemtable
<1>3. CASE t \notin existe \/ Ocupada(t, Pasada)
  <2>0. t \in huerfanas \/ memtable[t] = {}
    BY <1>3 DEF SinDuenio
  <2>1. ASSUME NEW c \in Clientes, InsertAgregar(c)
        PROVE  t \in huerfanas' \/ memtable'[t] = {}
    <3>1. DeBaja(t)
      BY <1>3 DEF DeBaja, Ocupada
    <3>2. CASE ped[c].tabla = t
      BY <2>1, <3>1, <3>2 DEF InsertAgregar
    <3>3. CASE ped[c].tabla # t
      BY <1>0, <2>0, <2>1, <3>3 DEF InsertAgregar
    <3>. QED
      BY <3>2, <3>3
  <2>2. ASSUME NEW c \in Clientes, DropMemtable(c), ped[c].tabla # t
        PROVE  t \in huerfanas' \/ memtable'[t] = {}
    BY <1>0, <2>0, <2>2 DEF DropMemtable
  <2>3. CASE DumpFin \/ Caer
    BY <2>3 DEF DumpFin, Caer
  <2>4. CASE UNCHANGED memoria
    BY <2>0, <2>4 DEF memoria
  <2>. QED
    BY <1>2, <2>1, <2>2, <2>3, <2>4, CambiaMemoria
<1>. QED
  BY <1>1, <1>2, <1>3

\* A table that is no longer being deleted has nothing in memory.
LEMMA SaleDeBaja ==
  ASSUME TypeOK, CicloDeVida, SinDuenio, [Next]_vars, NEW t \in Tablas,
         t \in EnBaja, t \notin EnBaja'
  PROVE  memtable'[t] = {}
<1>0. /\ memtable = [u \in Tablas |-> memtable[u]]
      /\ \A c \in Clientes : ped[c].tabla \in Tablas
  BY DEF TypeOK, Pedido
<1>1. t \in existe' /\ ~Ocupada(t, DropConRw)' /\ t \notin huerfanas'
  BY DEF EnBaja, DeBaja
<1>2. CASE DumpFin \/ Caer
  BY <1>2 DEF DumpFin, Caer
<1>3. ASSUME NEW c \in Clientes, DropMemtable(c), ped[c].tabla = t PROVE memtable'[t] = {}
  BY <1>0, <1>3 DEF DropMemtable
<1>4. ASSUME ~DumpFin, ~Caer,
             \A c \in Clientes : DropMemtable(c) => ped[c].tabla # t
      PROVE  memtable'[t] = {}
  <2>1. t \notin huerfanas
    BY <1>0, <1>1, <1>4, CambiaMemoria DEF InsertAgregar, DropMemtable, memoria
  <2>2. t \notin existe
    <3>1. CASE Ocupada(t, DropConRw)
      <4>1. PICK c \in Clientes : pc[c] \in DropConRw /\ ped[c].tabla = t
        BY <3>1 DEF Ocupada
      <4>2. DropFin(c)
        BY <1>1, <1>4, <4>1, SigueConRw DEF Ocupada
      <4>. QED
        BY <4>1, <4>2 DEF DropFin, CicloDeVida
    <3>. QED
      BY <2>1, <3>1 DEF EnBaja, DeBaja
  <2>3. memtable[t] = {}
    BY <2>1, <2>2 DEF SinDuenio
  <2>4. ASSUME NEW c \in Clientes, InsertAgregar(c) PROVE ped[c].tabla # t
    BY <1>1, <2>2, <2>4 DEF InsertAgregar, DeBaja
  <2>. QED
    BY <1>0, <1>4, <2>3, <2>4, CambiaMemoria DEF InsertAgregar, DropMemtable, memoria
<1>. QED
  BY <1>2, <1>3, <1>4

----------------------------------------------------------------------------
(* The dump in progress *)

LEMMA CambiaDump ==
  ASSUME [Next]_vars
  PROVE  \/ rwMem' = rwMem /\ dump' = dump
         \/ DumpDespertar \/ DumpBloquear \/ DumpFin \/ Caer
<1>. USE DEF cerrojos, volcado
<1>1. CASE UNCHANGED vars
  BY <1>1 DEF vars
<1>2. ASSUME NEW c \in Clientes, NEW t \in Tablas, Pedir(c, t)
      PROVE  rwMem' = rwMem /\ dump' = dump
  BY <1>2 DEF Pedir, InsertVerificar, SelectVerificar, CreateVerificar,
              DropVerificar
<1>3. ASSUME NEW c \in Clientes, PasoCliente(c)
      PROVE  (rwMem' = rwMem /\ dump' = dump) \/ Caer
  BY <1>3
     DEF PasoCliente, InsertAgregar, SelectSemaforo, SelectLeerDisco,
         SelectTablaBorrada, SelectLeerMemtable, SelectResponder,
         CreateDirectorio, CreateSemaforos, CreateMetadata, CreateParticion,
         CreateHilo, DropSemaforo, DropMx, DropRw, DropMemtable,
         DropParticiones, DropTemporales, DropMetadata, DropDirectorio,
         DropFin, FallaCliente
<1>4. ASSUME NEW t \in Tablas, DumpTabla(t) PROVE rwMem' = rwMem /\ dump' = dump
  BY <1>4 DEF DumpTabla
<1>5. ASSUME NEW t \in Tablas, PasoCompactacion(t)
      PROVE  (rwMem' = rwMem /\ dump' = dump) \/ Caer
  BY <1>5
     DEF PasoCompactacion, CoListar, CoTomarMx, CoRenombrar, CoLeer, CoTomarRw,
         CoBorrarTmpc, CoBorrarBin, CoGuardar, CoFin, FallaCompactacion
<1>6. Levantar => rwMem' = rwMem /\ dump' = dump
  BY DEF Levantar
<1>. QED
  BY <1>1, <1>2, <1>3, <1>4, <1>5, <1>6 DEF Next, Terminar, PasoDump, FallaDump

\* A table is no longer to be written because it was, or because it was deleted.
LEMMA SalePendiente ==
  ASSUME TypeOK, [Next]_vars, NEW t \in pendientes, t \notin pendientes', ~Caer,
         ~DumpBloquear
  PROVE  \/ DumpTabla(t)
         \/ \E c \in Clientes : DropFin(c) /\ ped[c].tabla = t
<1>0. t \in Tablas
  BY DEF TypeOK
<1>. USE DEF volcado
<1>1. ~(UNCHANGED vars) /\ ~DumpDespertar /\ ~DumpFin /\ ~Levantar
  BY DEF vars, DumpDespertar, DumpFin, Levantar
<1>2. ASSUME NEW c \in Clientes, NEW u \in Tablas PROVE ~Pedir(c, u)
  BY DEF Pedir, InsertVerificar, SelectVerificar, CreateVerificar,
         DropVerificar
<1>3. ASSUME NEW c \in Clientes, PasoCliente(c)
      PROVE  DropFin(c) /\ ped[c].tabla = t
  BY <1>3
     DEF PasoCliente, InsertAgregar, SelectSemaforo, SelectLeerDisco,
         SelectTablaBorrada, SelectLeerMemtable, SelectResponder,
         CreateDirectorio, CreateSemaforos, CreateMetadata, CreateParticion,
         CreateHilo, DropSemaforo, DropMx, DropRw, DropMemtable,
         DropParticiones, DropTemporales, DropMetadata, DropDirectorio,
         DropFin, FallaCliente
<1>4. ASSUME NEW u \in Tablas, DumpTabla(u) PROVE u = t
  BY <1>4 DEF DumpTabla
<1>5. ASSUME NEW u \in Tablas PROVE ~PasoCompactacion(u)
  BY DEF PasoCompactacion, CoListar, CoTomarMx, CoRenombrar, CoLeer, CoTomarRw,
         CoBorrarTmpc, CoBorrarBin, CoGuardar, CoFin, FallaCompactacion
<1>. QED
  BY <1>0, <1>1, <1>2, <1>3, <1>4, <1>5 DEF Next, Terminar, PasoDump, FallaDump

LEMMA VolcadoInit == Init => VolcadoEnDisco
  BY DEF Init, VolcadoEnDisco

LEMMA VolcadoNext ==
  Tipos /\ Muerto /\ Cerrojos /\ CicloDeVida /\ Completas /\ TemporalesNuevos
    /\ InsertadasAlDia /\ ListasDeArchivos /\ ListasFieles /\ SinDuenio
    /\ VolcadoEnDisco /\ [Next]_vars => VolcadoEnDisco'
<1>. SUFFICES ASSUME Tipos, Muerto, Cerrojos, CicloDeVida, Completas, TemporalesNuevos,
                     InsertadasAlDia, ListasDeArchivos, ListasFieles, SinDuenio,
                     VolcadoEnDisco, [Next]_vars, dump' = "volcando"
              PROVE  /\ rwMem' = "dump"
                     /\ vivo' /\ caidas' = 0 =>
                           \A t \in Tablas \ (pendientes' \cup EnBaja') :
                               Domina(EnDisco(t)', memtable'[t])
  BY DEF VolcadoEnDisco, Sano, Domina
<1>0. TypeOK
  BY DEF Tipos
<1>1. rwMem' = "dump"
  BY CambiaDump DEF DumpDespertar, DumpBloquear, DumpFin, Caer, VolcadoEnDisco
<1>2. ASSUME vivo', caidas' = 0, NEW t \in Tablas, t \notin pendientes', t \notin EnBaja'
      PROVE  Domina(EnDisco(t)', memtable'[t])
  <2>1. vivo /\ caidas = 0 /\ ~Caer
    BY <1>0, <1>2, SanoAntes
  <2>2. CASE memtable'[t] = {}
    BY <2>2 DEF Domina
  <2>3. CASE DumpBloquear
    <3>1. t \notin insertadas /\ memtable' = memtable
      BY <1>2, <2>3 DEF DumpBloquear, memoria
    <3>2. memtable[t] = {}
      BY <3>1 DEF InsertadasAlDia
    <3>. QED
      BY <2>2, <3>1, <3>2
  <2>4. CASE ~DumpBloquear /\ memtable'[t] # {}
    <3>1. dump = "volcando" /\ rwMem = "dump"
      BY <2>1, <2>4, CambiaDump DEF DumpDespertar, DumpFin, VolcadoEnDisco
    <3>2. t \notin EnBaja
      BY <1>0, <1>2, <2>4, SaleDeBaja
    <3>3. memtable' = memtable
      <4>1. ASSUME NEW c \in Clientes PROVE ~InsertAgregar(c) /\ ~DropMemtable(c)
        BY <3>1 DEF InsertAgregar, DropMemtable
      <4>2. ~DumpFin
        BY DEF DumpFin
      <4>. QED
        BY <2>1, <4>1, <4>2, CambiaMemoria DEF memoria
    <3>4. CASE t \in pendientes
      <4>1. ASSUME NEW c \in Clientes, DropFin(c), ped[c].tabla = t PROVE FALSE
        BY <3>2, <4>1 DEF DropFin, EnBaja, DeBaja, Ocupada, DropConRw
      <4>2. DumpTabla(t)
        BY <1>0, <1>2, <2>1, <2>4, <3>4, <4>1, SalePendiente
      <4>3. cantidadDumps \in Nums
        BY <3>1 DEF Tipos, TypeOK, Nums, LFSAssumption
      <4>4. memtable[t] \subseteq EnDisco(t)'
        BY <1>0, <4>2, <4>3, EfectoDump
      <4>. QED
        BY <1>0, <3>3, <4>4, RegistrosDe, DominaIncluida
    <3>5. CASE t \notin pendientes
      <4>1. Domina(EnDisco(t), memtable[t])
        BY <2>1, <3>1, <3>2, <3>5 DEF VolcadoEnDisco, Sano
      <4>2. Domina(EnDisco(t)', EnDisco(t))
        BY <1>0, <1>2, <3>2, EnDiscoDomina DEF EnBaja
      <4>3. /\ EnDisco(t) \in SUBSET Registros /\ memtable[t] \in SUBSET Registros
            /\ EnDisco(t)' \in SUBSET Registros
        BY <1>0, RegistrosDe, EnDiscoNoInventa
      <4>. QED
        BY <3>3, <4>1, <4>2, <4>3, DominaSigue
    <3>. QED
      BY <3>4, <3>5
  <2>. QED
    BY <2>2, <2>3, <2>4
<1>. QED
  BY <1>1, <1>2
----------------------------------------------------------------------------
(* What the process knows of a table *)

LEMMA CambiaUnaMemtable ==
  ASSUME TypeOK, [Next]_vars, NEW t \in Tablas,
         \A c \in Clientes : ~(InsertAgregar(c) /\ ped[c].tabla = t)
  PROVE  memtable'[t] = memtable[t] \/ memtable'[t] = {}
<1>0. /\ memtable = [u \in Tablas |-> memtable[u]]
      /\ \A c \in Clientes : ped[c].tabla \in Tablas
  BY DEF TypeOK, Pedido
<1>. QED
  BY <1>0, CambiaMemoria DEF InsertAgregar, DropMemtable, DumpFin, Caer, memoria

\* No step but the end of an INSERT puts a record in a table.
LEMMA VisibleNoInventa ==
  ASSUME TypeOK, Muerto, CicloDeVida, ListasDeArchivos, [Next]_vars, NEW t \in Tablas,
         \A c \in Clientes : ~(InsertAgregar(c) /\ ped[c].tabla = t)
  PROVE  Visible(t)' \subseteq Visible(t)
<1>1. EnDisco(t)' \subseteq EnDisco(t) \cup memtable[t]
  BY EnDiscoNoInventa
<1>2. memtable'[t] \subseteq memtable[t]
  BY CambiaUnaMemtable
<1>. QED
  BY <1>1, <1>2 DEF Visible

\* Of a table that is not being deleted a process loses no record, while it has
\* not ended, but for a newer one of its key.
LEMMA VisibleDomina ==
  ASSUME TypeOK, Muerto, Cerrojos, CicloDeVida, Completas, TemporalesNuevos,
         ListasDeArchivos, ListasFieles, VolcadoEnDisco, [Next]_vars, vivo', caidas' = 0,
         NEW t \in Tablas, t \notin EnBaja
  PROVE  Domina(Visible(t)', Visible(t))
<1>0. /\ memtable = [u \in Tablas |-> memtable[u]]
      /\ \A c \in Clientes : ped[c].tabla \in Tablas
  BY DEF TypeOK, Pedido
<1>1. Domina(EnDisco(t)', EnDisco(t))
  BY EnDiscoDomina DEF EnBaja
<1>2. /\ vivo /\ caidas = 0 /\ ~Caer
  BY SanoAntes
<1>3. memtable[t] \in SUBSET Registros
  BY DEF TypeOK
<1>4. CASE memtable[t] \subseteq memtable'[t]
  <2>1. Domina(memtable'[t], memtable[t])
    BY <1>3, <1>4, DominaIncluida
  <2>2. Domina(memtable'[t] \cup EnDisco(t)', memtable[t] \cup EnDisco(t))
    BY <1>1, <2>1, DominaJuntas
  <2>. QED
    BY <2>2 DEF Visible
<1>5. CASE DumpFin
  <2>1. /\ EnDisco(t)' = EnDisco(t) /\ memtable'[t] = {}
    BY <1>5 DEF DumpFin, EnDisco, RegsTmp, RegsTmpc, RegsBin, RegsListas, Reescribiendo,
                disco, compactacion
  <2>2. Domina(EnDisco(t), memtable[t])
    BY <1>2, <1>5 DEF DumpFin, VolcadoEnDisco, Sano
  <2>3. Domina(EnDisco(t)', EnDisco(t))
    BY <1>1
  <2>. QED
    BY <2>1, <2>2, <2>3 DEF Visible, Domina
<1>6. ASSUME NEW c \in Clientes, DropMemtable(c) PROVE memtable'[t] = memtable[t]
  <2>1. ped[c].tabla # t
    BY <1>6 DEF DropMemtable, EnBaja, DeBaja, Ocupada, DropConRw
  <2>. QED
    BY <1>0, <1>6, <2>1 DEF DropMemtable
<1>7. ASSUME NEW c \in Clientes, InsertAgregar(c) PROVE memtable[t] \subseteq memtable'[t]
  BY <1>0, <1>7 DEF InsertAgregar
<1>. QED
  BY <1>2, <1>4, <1>5, <1>6, <1>7, CambiaMemoria DEF memoria

----------------------------------------------------------------------------
(* The refinement *)

regAlm == [t \in Tablas |-> Visible(t)]

LEMMA AlmacenInit == Init => Alm!Init
<1>. SUFFICES ASSUME Init PROVE Alm!Init
  OBVIOUS
<1>1. Tipos
  BY TiposInit
<1>2. \A t \in Tablas : Visible(t) \in SUBSET Registros
  BY <1>1, RegistrosDe DEF Tipos
<1>3. {t \in Tablas : DeBaja(t)} \cup huerfanas \in SUBSET Tablas
  BY DEF Init
<1>4. vivo /\ caidas = 0
  BY DEF Init
<1>. QED
  BY <1>2, <1>3, <1>4 DEF Alm!Init

\* The record of an INSERT, and what it changes.
LEMMA EfectoInsertar ==
  ASSUME Tipos, NEW c \in Clientes, InsertAgregar(c),
         NEW t, t = ped[c].tabla,
         NEW r, r = [key |-> ped[c].key, ts |-> ped[c].ts]
  PROVE  t \in Tablas /\ r \in Registros /\ Alm!Insertar(t, r)
<1>1. t \in Tablas /\ r \in Registros
  <2>1. pc[c] = "ins_memtable" /\ ped[c] \in Pedido
    BY DEF Tipos, TypeOK, InsertAgregar
  <2>. QED
    BY <2>1 DEF Tipos, Pedido, Registros
<1>2. memtable = [u \in Tablas |-> memtable[u]] /\ pc = [d \in Clientes |-> pc[d]]
      /\ ped = [d \in Clientes |-> ped[d]]
  BY DEF Tipos, TypeOK
<1>3. /\ memtable'[t] = memtable[t] \cup {r}
      /\ \A u \in Tablas \ {t} : memtable'[u] = memtable[u]
  BY <1>1, <1>2 DEF InsertAgregar
<1>4. ASSUME NEW u \in Tablas PROVE EnDisco(u)' = EnDisco(u)
  BY DEF InsertAgregar, EnDisco, RegsTmp, RegsTmpc, RegsBin, RegsListas, Reescribiendo,
         disco, compactacion
<1>5. /\ Visible(t)' = Visible(t) \cup {r}
      /\ \A u \in Tablas \ {t} : Visible(u)' = Visible(u)
  BY <1>1, <1>3, <1>4 DEF Visible
<1>6. Domina(Visible(t)', Visible(t))
  <2>1. Visible(t) \in SUBSET Registros
    BY <1>1, RegistrosDe DEF Tipos
  <2>2. Visible(t) \subseteq Visible(t)'
    BY <1>5
  <2>. QED
    BY <2>1, <2>2, DominaIncluida
<1>7. UNCHANGED <<existe, vivo, caidas>>
  BY DEF InsertAgregar, disco, proceso
<1>8. ASSUME NEW u \in Tablas PROVE Ocupada(u, DropConRw)' <=> Ocupada(u, DropConRw)
  <2>1. ASSUME NEW d \in Clientes
        PROVE  (pc'[d] \in DropConRw /\ ped'[d].tabla = u)
                  <=> (pc[d] \in DropConRw /\ ped[d].tabla = u)
    BY <1>2 DEF InsertAgregar, Contestar, DropConRw
  <2>. QED
    BY <2>1 DEF Ocupada
<1>9. huerfanas' = huerfanas \/ (DeBaja(t) /\ huerfanas' = huerfanas \cup {t})
  BY DEF InsertAgregar
<1>10. ({u \in Tablas : DeBaja(u)} \cup huerfanas)' = {u \in Tablas : DeBaja(u)} \cup huerfanas
  BY <1>1, <1>7, <1>8, <1>9 DEF DeBaja
<1>11. [u \in Tablas |-> Visible(u)'] = [[u \in Tablas |-> Visible(u)] EXCEPT ![t] = Visible(t)']
  BY <1>1, <1>5
<1>12. /\ r \in [u \in Tablas |-> Visible(u)'][t]
       /\ [u \in Tablas |-> Visible(u)'][t] = Visible(t) \cup {r}
       /\ [u \in Tablas |-> Visible(u)][t] = Visible(t)
       /\ Alm!Domina([u \in Tablas |-> Visible(u)'][t], [u \in Tablas |-> Visible(u)][t])
  BY <1>1, <1>5, <1>6 DEF Domina, Alm!Domina
<1>13. Alm!Insertar(t, r)
  BY <1>1, <1>5, <1>7, <1>10, <1>11, <1>12 DEF Alm!Insertar
<1>. QED
  BY <1>1, <1>13
\* A DROP that takes its table's lock loses nothing yet.
LEMMA EfectoDarDeBaja ==
  ASSUME TypeOK, [Next]_vars, NEW c \in Clientes, DropRw(c), NEW t, t = ped[c].tabla
  PROVE  t \in Tablas /\ Alm!DarDeBaja(t)
<1>0. /\ pc = [d \in Clientes |-> pc[d]] /\ pc[c] = "drop_rw"
      /\ t \in Tablas
  BY DEF TypeOK, Pedido, DropRw
<1>1. /\ UNCHANGED <<disco, memoria, listas, comp, ped, vivo, caidas>>
      /\ pc' = [pc EXCEPT ![c] = "drop_memtable"]
  BY DEF DropRw, Seguir, compactacion, proceso
<1>2. ASSUME NEW u \in Tablas PROVE Visible(u)' = Visible(u)
  BY <1>1 DEF Visible, EnDisco, RegsTmp, RegsTmpc, RegsBin, RegsListas, Reescribiendo,
              disco, memoria
<1>3. ASSUME NEW u \in Tablas
      PROVE  Ocupada(u, DropConRw)' <=> (Ocupada(u, DropConRw) \/ u = t)
  <2>1. ASSUME NEW d \in Clientes
        PROVE  pc'[d] \in DropConRw <=> pc[d] \in DropConRw \/ d = c
    BY <1>0, <1>1, <2>1 DEF DropConRw
  <2>. QED
    BY <1>1, <2>1 DEF Ocupada
<1>4. ({u \in Tablas : DeBaja(u)} \cup huerfanas)'
        = ({u \in Tablas : DeBaja(u)} \cup huerfanas) \cup {t}
  BY <1>0, <1>1, <1>3 DEF DeBaja, disco, memoria
<1>5. [u \in Tablas |-> Visible(u)'] = [u \in Tablas |-> Visible(u)]
  BY <1>2
<1>. QED
  BY <1>0, <1>1, <1>4, <1>5 DEF Alm!DarDeBaja

\* All that Olvidar and Depurar ask for but who is forgotten.
LEMMA VisibleSePierde ==
  ASSUME Tipos, Muerto, CicloDeVida, ListasDeArchivos, [Next]_vars,
         \A c \in Clientes : ~InsertAgregar(c)
  PROVE  /\ [u \in Tablas |-> Visible(u)'] \in [Tablas -> SUBSET Registros]
         /\ \A t \in Tablas : [u \in Tablas |-> Visible(u)'][t]
                                \subseteq [u \in Tablas |-> Visible(u)][t]
<1>1. ASSUME NEW t \in Tablas PROVE Visible(t)' \subseteq Visible(t)
  BY VisibleNoInventa DEF Tipos
<1>2. ASSUME NEW t \in Tablas PROVE Visible(t) \subseteq Registros
  BY RegistrosDe DEF Tipos
<1>. QED
  BY <1>1, <1>2

LEMMA AlmacenNext ==
  Tipos /\ Muerto /\ Cerrojos /\ CicloDeVida /\ Completas /\ TemporalesNuevos
    /\ ListasDeArchivos /\ ListasFieles /\ VolcadoEnDisco /\ [Next]_vars
    => [Alm!Next]_Alm!vars
<1>. SUFFICES ASSUME Tipos, Muerto, Cerrojos, CicloDeVida, Completas, TemporalesNuevos,
                     ListasDeArchivos, ListasFieles, VolcadoEnDisco, [Next]_vars
              PROVE  Alm!Next
  OBVIOUS
<1>0. TypeOK /\ TypeOK'
  BY TiposNext DEF Tipos
<1>1. ASSUME NEW c \in Clientes, InsertAgregar(c) PROVE Alm!Next
  BY <1>1, EfectoInsertar DEF Alm!Next
<1>2. ASSUME NEW c \in Clientes, DropRw(c) PROVE Alm!Next
  BY <1>0, <1>2, EfectoDarDeBaja DEF Alm!Next
<1>3. ASSUME \A c \in Clientes : ~InsertAgregar(c) /\ ~DropRw(c) PROVE Alm!Next
  <2>1. /\ [u \in Tablas |-> Visible(u)'] \in [Tablas -> SUBSET Registros]
        /\ \A t \in Tablas : [u \in Tablas |-> Visible(u)'][t]
                               \subseteq [u \in Tablas |-> Visible(u)][t]
    BY <1>3, VisibleSePierde
  <2>2. CASE ~(vivo' /\ caidas' = 0)
    <3>1. ({t \in Tablas : DeBaja(t)} \cup huerfanas)' \in SUBSET Tablas
      BY <1>0 DEF TypeOK
    <3>2. (vivo /\ caidas = 0)' = FALSE
      BY <2>2
    <3>3. Alm!Olvidar
      BY <2>1, <3>1, <3>2 DEF Alm!Olvidar
    <3>. QED
      BY <3>3 DEF Alm!Next
  <2>3. CASE vivo' /\ caidas' = 0
    <3>1. vivo /\ caidas = 0 /\ ~Caer
      BY <1>0, <2>3, SanoAntes
    <3>2. EnBaja' \subseteq EnBaja
      <4>1. ASSUME NEW t \in EnBaja' PROVE t \in Tablas
        BY <1>0, <4>1 DEF EnBaja, TypeOK
      <4>. QED
        BY <1>0, <1>3, <3>1, <4>1, EntraEnBaja
    <3>3. ASSUME NEW t \in Tablas, t \notin EnBaja
          PROVE  Alm!Domina([u \in Tablas |-> Visible(u)'][t],
                            [u \in Tablas |-> Visible(u)][t])
      <4>1. Domina(Visible(t)', Visible(t))
        BY <1>0, <2>3, <3>3, VisibleDomina
      <4>. QED
        BY <4>1 DEF Domina, Alm!Domina
    <3>4. (vivo /\ caidas = 0)' = (vivo /\ caidas = 0)
      BY <2>3, <3>1
    <3>5. Alm!Depurar
      BY <2>1, <3>2, <3>3, <3>4 DEF Alm!Depurar, EnBaja
    <3>. QED
      BY <3>5 DEF Alm!Next
  <2>. QED
    BY <2>2, <2>3
<1>. QED
  BY <1>1, <1>2, <1>3

LEMMA AlmacenSiempre ==
  Spec => [](/\ Tipos /\ Muerto /\ Cerrojos /\ CicloDeVida /\ Completas
             /\ TemporalesNuevos /\ InsertadasAlDia /\ ListasDeArchivos /\ ListasFieles
             /\ SinDuenio /\ VolcadoEnDisco)
<1>1. Tipos => TypeOK
  BY DEF Tipos
<1>2. Spec => [](Tipos /\ TypeOK)
  BY <1>1, TiposInit, TiposNext, PTL DEF Spec
<1>3. Spec => [](TemporalesNuevos /\ InsertadasAlDia)
  BY Base, ListaAlDia, TemporalesInit, TemporalesNext, PTL DEF Spec
<1>4. Spec => []ListasDeArchivos
  BY Base, ListasDeArchivosInit, ListasDeArchivosNext, PTL DEF Spec
<1>5. Spec => []ListasFieles
  BY Base, CompletasSiempre, ListasFielesInit, ListasFielesNext, PTL DEF Spec
<1>6. Spec => []SinDuenio
  BY Base, SinDuenioInit, SinDuenioNext, PTL DEF Spec
<1>7. Spec => []VolcadoEnDisco
  BY <1>2, <1>3, <1>4, <1>5, <1>6, Base, CompletasSiempre, VolcadoInit, VolcadoNext,
     PTL DEF Spec
<1>. QED
  BY <1>2, <1>3, <1>4, <1>5, <1>6, <1>7, Base, CompletasSiempre, PTL

\* LFS implements Almacen, for any tables, keys, partitions, clients, dumps and
\* restarts: whatever the requests, the dump and the compaction do, an inserted
\* record is forgotten only for a newer one of its key, by a DROP or with the
\* process, and no record appears that nobody inserted.
THEOREM ImplementaAlmacen == Spec => AlmacenSpec
BY AlmacenSiempre, AlmacenInit, AlmacenNext, PTL DEF Spec, AlmacenSpec, Alm!Spec
----------------------------------------------------------------------------
(* What a SELECT answers *)

Leyendo == {"sel_semaforo", "sel_disco", "sel_memtable", "sel_respuesta"}

\* S has a record of the key of c's SELECT as new as any there was when it
\* started.
Alcanza(S, c) ==
    \/ ped[c].piso = 0
    \/ \E r \in S : r.key = ped[c].key /\ r.ts >= ped[c].piso

\* No table goes away when nobody drops one.
SinBajas ==
    /\ \A c \in Clientes : pc[c] \notin Borrando
    /\ huerfanas = {}
    /\ \A c \in Clientes :
          pc[c] \in Leyendo \cup {"ins_memtable"} => ped[c].tabla \in existe

\* Until it reads the files, the newest record is in what the process knows;
\* then, if they did not have it, in the memtable, until a dump ends.
PisoAlAlcance ==
    Sano =>
        \A c \in Clientes :
            /\ pc[c] \in {"sel_semaforo", "sel_disco"} => Alcanza(Visible(ped[c].tabla), c)
            /\ pc[c] = "sel_memtable" /\ ~ped[c].volcado
                 => \/ ped[c].ts >= ped[c].piso
                    \/ Alcanza(memtable[ped[c].tabla], c)
            /\ pc[c] = "sel_respuesta" /\ ~ped[c].volcado => ped[c].ts >= ped[c].piso

\* The end of a dump leaves a request as it is, but that a SELECT between its
\* two reads has seen it.
LEMMA DumpFinSelect ==
  ASSUME TypeOK, DumpFin, NEW c \in Clientes
  PROVE  /\ pc'[c] = pc[c] /\ ped'[c].tabla = ped[c].tabla /\ ped'[c].key = ped[c].key
         /\ ped'[c].piso = ped[c].piso /\ ped'[c].ts = ped[c].ts
         /\ pc[c] = "sel_memtable" => ped'[c].volcado
         /\ pc[c] # "sel_memtable" => ped'[c].volcado = ped[c].volcado
<1>. DEFINE b == ped[c].volcado \/ pc[c] = "sel_memtable"
<1>1. b \in BOOLEAN /\ (pc[c] = "sel_memtable" => b)
  OBVIOUS
<1>2. ped'[c] = [ped[c] EXCEPT !.volcado = b] /\ pc' = pc
  BY DEF DumpFin
<1>3. ped[c] \in Pedido
  BY DEF TypeOK
<1>4. pc[c] # "sel_memtable" => b = ped[c].volcado
  BY <1>3 DEF Pedido
<1>. HIDE DEF b
<1>. QED
  BY <1>1, <1>2, <1>3, <1>4 DEF Pedido

LEMMA CambiaSelect ==
  ASSUME TypeOK, [Next]_vars, NEW c \in Clientes, pc'[c] \in Leyendo
  PROVE  \/ pc'[c] = pc[c] /\ ped'[c] = ped[c] /\ ~DumpFin
         \/ DumpFin
         \/ \E t \in Tablas, k \in Claves, m \in 0..MaxTs : SelectVerificar(c, t, k, m)
         \/ SelectSemaforo(c)
         \/ \E m \in 0..MaxTs : SelectLeerDisco(c, m) \/ SelectLeerMemtable(c, m)
<1>. DEFINE Igual == pc'[c] = pc[c] /\ ped'[c] = ped[c]
<1>. USE DEF clientes
<1>. SUFFICES ASSUME ~DumpFin,
                     \A t \in Tablas, k \in Claves, m \in 0..MaxTs : ~SelectVerificar(c, t, k, m),
                     ~SelectSemaforo(c),
                     \A m \in 0..MaxTs : ~SelectLeerDisco(c, m) /\ ~SelectLeerMemtable(c, m)
              PROVE  Igual
  OBVIOUS
<1>0. pc \in [Clientes -> PCs] /\ ped \in [Clientes -> Pedido]
  BY DEF TypeOK
<1>1. CASE UNCHANGED vars
  BY <1>1 DEF vars
<1>2. ASSUME NEW d \in Clientes, NEW t \in Tablas, Pedir(d, t)
      PROVE  Igual
  <2>1. CASE d = c
    BY <1>0, <1>2, <2>1 DEF Pedir, InsertVerificar, CreateVerificar,
              DropVerificar, Empezar, Leyendo
  <2>2. CASE d # c
    BY <1>0, <1>2, <2>2 DEF Pedir, InsertVerificar, SelectVerificar, CreateVerificar,
              DropVerificar, Empezar
  <2>. QED
    BY <2>1, <2>2
<1>3. ~Caer
  BY DEF Caer, Leyendo
<1>4. ASSUME NEW d \in Clientes \ {c}, PasoCliente(d) PROVE Igual
  BY <1>0, <1>3, <1>4
     DEF PasoCliente, InsertAgregar, SelectSemaforo, SelectLeerDisco,
         SelectTablaBorrada, SelectLeerMemtable, SelectResponder,
         CreateDirectorio, CreateSemaforos, CreateMetadata, CreateParticion,
         CreateHilo, DropSemaforo, DropMx, DropRw, DropMemtable,
         DropParticiones, DropTemporales, DropMetadata, DropDirectorio,
         DropFin, FallaCliente, Seguir, Contestar
<1>5. ASSUME PasoCliente(c) PROVE Igual
  BY <1>0, <1>3, <1>5
     DEF PasoCliente, InsertAgregar,
         SelectTablaBorrada, SelectResponder,
         CreateDirectorio, CreateSemaforos, CreateMetadata, CreateParticion,
         CreateHilo, DropSemaforo, DropMx, DropRw, DropMemtable,
         DropParticiones, DropTemporales, DropMetadata, DropDirectorio,
         DropFin, FallaCliente, Seguir, Contestar, Leyendo
<1>6. ASSUME PasoDump PROVE Igual
  BY <1>3, <1>6 DEF PasoDump, DumpDespertar, DumpBloquear, DumpTabla, FallaDump
<1>7. ASSUME NEW t \in Tablas, PasoCompactacion(t) PROVE Igual
  BY <1>3, <1>7
     DEF PasoCompactacion, CoListar, CoTomarMx, CoRenombrar, CoLeer, CoTomarRw,
         CoBorrarTmpc, CoBorrarBin, CoGuardar, CoFin, FallaCompactacion
<1>. QED
  BY <1>1, <1>2, <1>3, <1>4, <1>5, <1>6, <1>7 DEF Next, Terminar, Levantar
LEMMA SinBajasInit == Init => SinBajas
  BY DEF Init, SinBajas, Borrando, DropConMx, DropConRw, Leyendo

LEMMA SinBajasNext ==
  ASSUME "DROP" \notin Pedidos, TypeOK, SinBajas, [Next]_vars
  PROVE  SinBajas'
<1>. DEFINE Con == Leyendo \cup {"ins_memtable"}
<1>0. /\ pc \in [Clientes -> PCs] /\ ped \in [Clientes -> Pedido]
      /\ \A c \in Clientes : ped[c].tabla \in Tablas
  BY DEF TypeOK, Pedido
<1>1. ASSUME NEW c \in Clientes, NEW t \in Tablas, Pedir(c, t)
      PROVE  /\ pc'[c] \notin Borrando
             /\ pc'[c] \in Con => ped'[c].tabla \in existe
  <2>1. ASSUME NEW k \in Claves, NEW m \in 1..MaxTs, InsertVerificar(c, t, k, m)
        PROVE  pc'[c] = "ins_memtable" /\ ped'[c].tabla = t /\ t \in existe
    <3>1. m \in 0..MaxTs
      BY DEF LFSAssumption
    <3>. QED
      BY <1>0, <2>1, <3>1, NuevoTipo DEF InsertVerificar, Empezar
  <2>2. ASSUME NEW k \in Claves, NEW m \in 0..MaxTs, SelectVerificar(c, t, k, m)
        PROVE  pc'[c] = "sel_semaforo" /\ ped'[c].tabla = t /\ t \in existe
    <3>1. 0 \in 0..MaxTs
      BY DEF LFSAssumption
    <3>2. Nuevo(t, k, 0) \in Pedido /\ Nuevo(t, k, 0).tabla = t
      BY <3>1, NuevoTipo
    <3>. QED
      BY <1>0, <2>2, <3>2 DEF SelectVerificar, Empezar, Pedido
  <2>3. CASE CreateVerificar(c, t)
    BY <1>0, <2>3 DEF CreateVerificar, Empezar, Borrando, DropConMx, DropConRw, Leyendo
  <2>4. ~DropVerificar(c, t)
    BY DEF DropVerificar, Empezar
  <2>. QED
    BY <1>1, <2>1, <2>2, <2>3, <2>4 DEF Pedir, Borrando, DropConMx, DropConRw
<1>2. ASSUME NEW c \in Clientes, PasoCliente(c), ~Caer
      PROVE  /\ pc'[c] \notin Borrando
             /\ pc'[c] \in Con => pc[c] \in Con /\ ped'[c].tabla = ped[c].tabla
  <2>0. pc[c] \notin Borrando
    BY DEF SinBajas
  <2>1. CASE CreateDirectorio(c) \/ CreateSemaforos(c) \/ CreateMetadata(c)
               \/ SelectSemaforo(c)
    BY <1>0, <2>1 DEF CreateDirectorio, CreateSemaforos, CreateMetadata,
           SelectSemaforo, Seguir, Borrando, DropConMx, DropConRw, Leyendo
  <2>2. ASSUME NEW i \in Parts, CreateParticion(c, i) PROVE ped' = ped /\ pc' = pc
    BY <2>2 DEF CreateParticion, clientes
  <2>3. CASE InsertAgregar(c) \/ SelectTablaBorrada(c) \/ SelectResponder(c)
               \/ CreateHilo(c)
    BY <1>0, <2>3 DEF InsertAgregar, SelectTablaBorrada, SelectResponder, CreateHilo,
           Contestar, Borrando, DropConMx, DropConRw, Leyendo
  <2>4. ASSUME NEW m, SelectLeerDisco(c, m) \/ SelectLeerMemtable(c, m)
        PROVE  /\ pc'[c] \in Leyendo /\ pc'[c] \notin Borrando /\ pc[c] \in Leyendo
               /\ ped'[c].tabla = ped[c].tabla
    BY <1>0, <2>4 DEF SelectLeerDisco, SelectLeerMemtable, Borrando, DropConMx,
                      DropConRw, Leyendo, Pedido
  <2>5. ~DropSemaforo(c) /\ ~DropMx(c) /\ ~DropRw(c) /\ ~DropMemtable(c)
          /\ ~DropParticiones(c) /\ ~DropTemporales(c) /\ ~DropMetadata(c)
          /\ ~DropDirectorio(c) /\ ~DropFin(c)
    BY <2>0 DEF DropSemaforo, DropMx, DropRw, DropMemtable, DropParticiones,
                DropTemporales, DropMetadata, DropDirectorio, DropFin, Borrando,
                DropConMx, DropConRw
  <2>. QED
    BY <1>2, <2>0, <2>1, <2>2, <2>3, <2>4, <2>5 DEF PasoCliente, FallaCliente
<1>3. ASSUME NEW c \in Clientes PROVE ~DropDirectorio(c) /\ ~DropMemtable(c)
  BY DEF SinBajas, DropDirectorio, DropMemtable, Borrando, DropConMx, DropConRw
<1>4. existe \subseteq existe'
  BY <1>3, CambiaExiste DEF CreateDirectorio
<1>5. huerfanas' = {}
  <2>1. ASSUME NEW c \in Clientes, InsertAgregar(c) PROVE huerfanas' = {}
    <3>1. ~DeBaja(ped[c].tabla)
      BY <2>1 DEF SinBajas, InsertAgregar, DeBaja, Ocupada, Borrando, DropConMx
    <3>. QED
      BY <2>1, <3>1 DEF InsertAgregar, SinBajas
  <2>. QED
    BY <1>3, <2>1, CambiaMemoria DEF SinBajas, DumpFin, Caer, memoria
<1>6. ASSUME NEW c \in Clientes
      PROVE  /\ pc'[c] \notin Borrando
             /\ pc'[c] \in Con => ped'[c].tabla \in existe
  <2>1. CASE Caer
    BY <2>1 DEF Caer, Borrando, DropConMx, DropConRw, Leyendo
  <2>. QED
    BY <1>1, <1>2, <2>1, CambiaCliente DEF SinBajas
<1>. QED
  BY <1>4, <1>5, <1>6 DEF SinBajas

LEMMA PisoInit == Init => PisoAlAlcance
  BY DEF Init, PisoAlAlcance

\* A record that is reached in A is reached in what dominates it.
LEMMA AlcanzaSigue ==
  ASSUME NEW A \in SUBSET Registros, NEW B \in SUBSET Registros, Domina(B, A),
         NEW k, NEW p \in Nat, \E r \in A : r.key = k /\ r.ts >= p
  PROVE  \E r \in B : r.key = k /\ r.ts >= p
  BY DEF Domina, Registros

\* The two reads of a SELECT find what they could find.
LEMMA UltimoAlcanza ==
  ASSUME NEW S \in SUBSET Registros, NEW m \in 0..MaxTs, NEW k, EsUltimo(m, S, k),
         NEW p \in Nat, \E r \in S : r.key = k /\ r.ts >= p
  PROVE  m >= p
<1>1. PICK r \in S : r.key = k /\ r.ts >= p
  OBVIOUS
<1>2. r.ts <= m
  BY <1>1 DEF EsUltimo
<1>3. r.ts \in Nat
  BY <1>1 DEF Registros
<1>. QED
  BY <1>1, <1>2, <1>3 DEF LFSAssumption

LEMMA LeidoAlcanza ==
  ASSUME TypeOK, Cerrojos, Formados, caidas = 0, NEW t \in Tablas, rwTabla[t] = "libre",
         NEW k \in Claves, NEW r \in EnDisco(t), r.key = k
  PROVE  r \in LeidoEnDisco(t, k)
<1>1. ~Reescribiendo(t)
  BY DEF Cerrojos, Reescribiendo, CoConRw
<1>2. CASE r \in RegsBin(t)
  <2>1. PICK i \in Parts : r \in bin[t][i]
    BY <1>2 DEF RegsBin
  <2>2. ParticionDe(k, Particiones) = i
    BY <2>1 DEF Formados, BienFormado
  <2>. QED
    BY <2>1, <2>2 DEF LeidoEnDisco
<1>. QED
  BY <1>1, <1>2 DEF EnDisco, LeidoEnDisco
LEMMA PisoNext ==
  ASSUME "DROP" \notin Pedidos, TypeOK, TypeOK', Muerto, Cerrojos, CicloDeVida, Completas,
         TemporalesNuevos, Formados, ListasDeArchivos, ListasFieles, VolcadoEnDisco,
         SinBajas, PisoAlAlcance, [Next]_vars
  PROVE  PisoAlAlcance'
<1>. SUFFICES ASSUME Sano', NEW c \in Clientes
              PROVE  /\ pc'[c] \in {"sel_semaforo", "sel_disco"}
                          => Alcanza(Visible(ped[c].tabla), c)'
                     /\ pc'[c] = "sel_memtable" /\ ~ped'[c].volcado
                          => \/ ped'[c].ts >= ped'[c].piso
                             \/ Alcanza(memtable[ped[c].tabla], c)'
                     /\ pc'[c] = "sel_respuesta" /\ ~ped'[c].volcado
                          => ped'[c].ts >= ped'[c].piso
  BY DEF PisoAlAlcance
<1>. SUFFICES ASSUME pc'[c] \in Leyendo
              PROVE  /\ pc'[c] \in {"sel_semaforo", "sel_disco"}
                          => Alcanza(Visible(ped[c].tabla), c)'
                     /\ pc'[c] = "sel_memtable" /\ ~ped'[c].volcado
                          => \/ ped'[c].ts >= ped'[c].piso
                             \/ Alcanza(memtable[ped[c].tabla], c)'
                     /\ pc'[c] = "sel_respuesta" /\ ~ped'[c].volcado
                          => ped'[c].ts >= ped'[c].piso
  BY DEF Leyendo
<1>0. /\ pc \in [Clientes -> PCs] /\ ped \in [Clientes -> Pedido]
      /\ ped[c].tabla \in Tablas /\ ped[c].key \in Claves
      /\ ped[c].piso \in 0..MaxTs /\ ped[c].ts \in 0..MaxTs /\ ped'[c].tabla \in Tablas
      /\ ped'[c].ts \in 0..MaxTs /\ ped'[c].piso \in 0..MaxTs
  BY DEF TypeOK, Pedido
<1>1. vivo' /\ caidas' = 0 /\ vivo /\ caidas = 0 /\ ~Caer /\ Sano
  BY SanoAntes DEF Sano
<1>2. /\ pc[c] \in {"sel_semaforo", "sel_disco"} => Alcanza(Visible(ped[c].tabla), c)
      /\ pc[c] = "sel_memtable" /\ ~ped[c].volcado
           => ped[c].ts >= ped[c].piso \/ Alcanza(memtable[ped[c].tabla], c)
      /\ pc[c] = "sel_respuesta" /\ ~ped[c].volcado => ped[c].ts >= ped[c].piso
  BY <1>1 DEF PisoAlAlcance
\* Whatever happens, what was visible of the table is reached.
<1>3. ASSUME pc[c] \in Leyendo, ped'[c].tabla = ped[c].tabla, ped'[c].key = ped[c].key,
             ped'[c].piso = ped[c].piso, Alcanza(Visible(ped[c].tabla), c)
      PROVE  Alcanza(Visible(ped[c].tabla), c)'
  <2>. DEFINE t == ped[c].tabla
  <2>1. t \in Tablas /\ t \notin EnBaja
    BY <1>0, <1>3 DEF SinBajas, EnBaja, DeBaja, Ocupada, Borrando, DropConMx
  <2>. HIDE DEF t
  <2>2. ASSUME NEW u, u = t
        PROVE  /\ Domina(Visible(u)', Visible(u))
               /\ Visible(u) \in SUBSET Registros
               /\ Visible(u)' \in SUBSET Registros
    <3>1. u \in Tablas /\ u \notin EnBaja
      BY <2>1, <2>2
    <3>2. Domina(Visible(u)', Visible(u))
      BY <1>1, <3>1, VisibleDomina
    <3>3. Visible(u) \in SUBSET Registros
      BY <3>1, RegistrosDe
    <3>4. memtable'[u] \subseteq Registros
      BY <3>1 DEF TypeOK
    <3>5. EnDisco(u)' \subseteq EnDisco(u) \cup memtable[u]
      BY <3>1, EnDiscoNoInventa
    <3>6. EnDisco(u) \cup memtable[u] \subseteq Registros
      BY <3>1, RegistrosDe
    <3>. QED
      BY <3>2, <3>3, <3>4, <3>5, <3>6 DEF Visible
  <2>3. ASSUME NEW u, u = t, ped[c].piso # 0
        PROVE  \E r \in Visible(u)' : r.key = ped[c].key /\ r.ts >= ped[c].piso
    <3>1. \E r \in Visible(u) : r.key = ped[c].key /\ r.ts >= ped[c].piso
      BY <1>3, <2>3 DEF Alcanza, t
    <3>2. ped[c].piso \in Nat
      BY <1>0 DEF LFSAssumption
    <3>. QED
      BY <2>2, <2>3, <3>1, <3>2, AlcanzaSigue
  <2>. QED
    BY <1>3, <2>3 DEF Alcanza, t
<1>4. CASE pc'[c] = pc[c] /\ ped'[c] = ped[c] /\ ~DumpFin
  <2>1. pc[c] \in Leyendo
    BY <1>4
  <2>2. CASE pc[c] \in {"sel_semaforo", "sel_disco"}
    BY <1>2, <1>3, <1>4, <2>1, <2>2
  <2>3. CASE pc[c] = "sel_memtable" /\ ~ped[c].volcado
    <3>1. CASE ped[c].ts >= ped[c].piso
      BY <1>4, <2>3, <3>1
    <3>2. CASE Alcanza(memtable[ped[c].tabla], c)
      <4>1. memtable[ped[c].tabla] \subseteq memtable'[ped[c].tabla]
        <5>1. memtable = [u \in Tablas |-> memtable[u]]
          BY DEF TypeOK
        <5>2. ASSUME NEW d \in Clientes PROVE ~DropMemtable(d)
          BY DEF SinBajas, DropMemtable, Borrando, DropConMx, DropConRw
        <5>. QED
          BY <1>0, <1>1, <1>4, <5>1, <5>2, CambiaMemoria DEF InsertAgregar, memoria
      <4>. QED
        BY <1>4, <2>3, <3>2, <4>1 DEF Alcanza
    <3>. QED
      BY <1>2, <2>3, <3>1, <3>2
  <2>4. CASE pc[c] = "sel_respuesta"
    BY <1>2, <1>4, <2>4
  <2>. QED
    BY <1>4, <2>1, <2>2, <2>3, <2>4 DEF Leyendo
<1>5. CASE DumpFin
  BY <1>2, <1>3, <1>5, DumpFinSelect DEF Leyendo
<1>6. ASSUME NEW t \in Tablas, NEW k \in Claves, NEW m \in 0..MaxTs,
             SelectVerificar(c, t, k, m)
      PROVE  pc'[c] = "sel_semaforo" /\ Alcanza(Visible(ped[c].tabla), c)'
  <2>1. 0 \in 0..MaxTs
    BY DEF LFSAssumption
  <2>2. /\ Nuevo(t, k, 0) \in Pedido
        /\ Nuevo(t, k, 0).tabla = t /\ Nuevo(t, k, 0).key = k
    BY <2>1, PedidoNuloTipo DEF Nuevo, Pedido
  <2>3. pc'[c] = "sel_semaforo" /\ ped'[c] = [Nuevo(t, k, 0) EXCEPT !.piso = m]
    BY <1>0, <1>6 DEF SelectVerificar, Empezar
  <2>4. ped'[c].tabla = t /\ ped'[c].key = k /\ ped'[c].piso = m
    BY <2>2, <2>3 DEF Pedido
  <2>5. UNCHANGED <<disco, memoria, compactacion>>
    BY <1>6 DEF SelectVerificar
  <2>6. Visible(t)' = Visible(t)
    BY <2>5 DEF Visible, EnDisco, RegsTmp, RegsTmpc, RegsBin, RegsListas, Reescribiendo,
                disco, memoria, compactacion
  <2>7. m = 0 \/ \E r \in Visible(t) : r.key = k /\ r.ts >= m
    BY <1>6 DEF SelectVerificar, EsUltimo
  <2>. QED
    BY <2>3, <2>4, <2>6, <2>7 DEF Alcanza
<1>7. CASE SelectSemaforo(c)
  <2>1. pc[c] = "sel_semaforo" /\ pc'[c] = "sel_disco" /\ ped'[c] = ped[c]
    BY <1>0, <1>7 DEF SelectSemaforo, Seguir
  <2>. QED
    BY <1>2, <1>3, <2>1 DEF Leyendo
<1>8. ASSUME NEW m \in 0..MaxTs, SelectLeerDisco(c, m)
      PROVE  /\ pc'[c] = "sel_memtable"
             /\ ped'[c].ts >= ped'[c].piso \/ Alcanza(memtable[ped[c].tabla], c)'
  <2>1. /\ pc[c] = "sel_disco" /\ pc'[c] = "sel_memtable"
        /\ ped'[c].tabla = ped[c].tabla /\ ped'[c].key = ped[c].key
        /\ ped'[c].piso = ped[c].piso /\ ped'[c].ts = m
        /\ rwTabla[ped[c].tabla] = "libre" /\ memtable' = memtable
        /\ EsUltimo(m, LeidoEnDisco(ped[c].tabla, ped[c].key), ped[c].key)
    BY <1>0, <1>8 DEF SelectLeerDisco, Pedido, memoria
  <2>2. CASE ped[c].piso = 0
    BY <2>1, <2>2 DEF Alcanza
  <2>3. CASE ped[c].piso # 0
    <3>1. PICK r \in Visible(ped[c].tabla) : r.key = ped[c].key /\ r.ts >= ped[c].piso
      BY <1>2, <2>1, <2>3 DEF Alcanza
    <3>2. CASE r \in memtable[ped[c].tabla]
      BY <2>1, <3>1, <3>2 DEF Alcanza
    <3>3. CASE r \in EnDisco(ped[c].tabla)
      <4>1. r \in LeidoEnDisco(ped[c].tabla, ped[c].key)
        BY <1>0, <1>1, <2>1, <3>1, <3>3, LeidoAlcanza
      <4>2. r.ts <= m
        BY <2>1, <3>1, <4>1 DEF EsUltimo
      <4>3. r.ts \in Nat
        BY <1>0, <3>1, RegistrosDe DEF Registros
      <4>. QED
        BY <1>0, <2>1, <3>1, <4>2, <4>3 DEF LFSAssumption
    <3>. QED
      BY <3>1, <3>2, <3>3 DEF Visible
  <2>. QED
    BY <2>1, <2>2, <2>3
<1>9. ASSUME NEW m \in 0..MaxTs, SelectLeerMemtable(c, m), ~ped'[c].volcado
      PROVE  pc'[c] = "sel_respuesta" /\ ped'[c].ts >= ped'[c].piso
  <2>1. /\ pc[c] = "sel_memtable" /\ pc'[c] = "sel_respuesta"
        /\ ped'[c].piso = ped[c].piso /\ ped'[c].volcado = ped[c].volcado
        /\ ped'[c].ts = IF m > ped[c].ts THEN m ELSE ped[c].ts
        /\ EsUltimo(m, memtable[ped[c].tabla], ped[c].key)
    BY <1>0, <1>9 DEF SelectLeerMemtable, Pedido
  <2>2. CASE ped[c].ts >= ped[c].piso
    BY <1>0, <2>1, <2>2 DEF LFSAssumption
  <2>3. CASE ped[c].piso = 0
    BY <1>0, <2>1, <2>3 DEF LFSAssumption
  <2>4. CASE \E r \in memtable[ped[c].tabla] : r.key = ped[c].key /\ r.ts >= ped[c].piso
    <3>1. memtable[ped[c].tabla] \in SUBSET Registros
      BY <1>0 DEF TypeOK
    <3>2. ped[c].piso \in Nat
      BY <1>0 DEF LFSAssumption
    <3>3. m >= ped[c].piso
      BY <2>1, <2>4, <3>1, <3>2, UltimoAlcanza
    <3>. QED
      BY <1>0, <2>1, <3>3 DEF LFSAssumption
  <2>. QED
    BY <1>2, <1>9, <2>1, <2>2, <2>3, <2>4 DEF Alcanza
<1>10. CASE \E t \in Tablas, k \in Claves, m \in 0..MaxTs : SelectVerificar(c, t, k, m)
  BY <1>6, <1>10
<1>11. CASE \E m \in 0..MaxTs : SelectLeerDisco(c, m)
  BY <1>8, <1>11
<1>12. CASE \E m \in 0..MaxTs : SelectLeerMemtable(c, m)
  <2>1. pc'[c] = "sel_respuesta"
    BY <1>0, <1>12 DEF SelectLeerMemtable
  <2>. QED
    BY <1>9, <1>12, <2>1
<1>. QED
  BY <1>4, <1>5, <1>7, <1>10, <1>11, <1>12, CambiaSelect

\* A SELECT answers the newest record of its key among all that had been
\* inserted when it started, or a newer one, unless a dump ended between its two
\* reads: for any tables, keys, clients and dumps, of a process that was never
\* started again and whose clients drop no table. (A DROP and a CREATE between
\* two steps of a SELECT rightly change its answer.)
THEOREM SelectCompleto ==
  ASSUME "DROP" \notin Pedidos
  PROVE  Spec => [](caidas = 0 => SelectCompletoSinDump)
<1>1. Spec => []SinBajas
  BY Base, SinBajasInit, SinBajasNext, PTL DEF Spec
<1>2. Spec => []Formados
  BY Base, CompletasSiempre, FormadosInit, FormadosNext, PTL DEF Spec
<1>3. Spec => []PisoAlAlcance
  BY <1>1, <1>2, Base, AlmacenSiempre, PisoInit, PisoNext, PTL DEF Spec
<1>4. Muerto /\ PisoAlAlcance => (caidas = 0 => SelectCompletoSinDump)
  <2>. SUFFICES ASSUME Muerto, PisoAlAlcance, caidas = 0, NEW c \in Clientes,
                       pc[c] = "sel_respuesta", ~ped[c].volcado
                PROVE  ped[c].ts >= ped[c].piso
    BY DEF SelectCompletoSinDump
  <2>1. vivo
    BY DEF Muerto
  <2>. QED
    BY <2>1 DEF PisoAlAlcance, Sano
<1>. QED
  BY <1>3, <1>4, Base, PTL
=============================================================================
