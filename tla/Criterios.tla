---- MODULE Criterios ----
(***************************************************************************)
(* The Kernel's memories (kernel.c): which it knows, which are assigned to *)
(* the criteria SC, SHC and EC, and what its threads do with a request:    *)
(* choose a memory, connect, send, and take a memory that does not answer  *)
(* out of everything. The memories and the LFS behind them are external.   *)
(* A definition whose name has Sin... after that of another, and is called *)
(* a mutant, is not of the code.                                           *)
(***************************************************************************)
EXTENDS Integers, Sequences, FiniteSets, SequencesExt

CONSTANTS Memorias, Tablas,
          Keys,              \* keys of a table, numbers
          Consola, Refresco, \* the threads of the console and of the metadata
          Ejecutores,        \* the threads that execute lines
          Nadie,
          Previos,           \* the criteria of the tables of the LFS before ("no": not there)
          MaxAltas,          \* bound: ADDs and JOURNALs entered at the console
          MaxPedidos,        \* bound: lines that are executed
          MaxCaidas          \* bound: times a memory goes down

Hilos == Ejecutores \cup {Consola, Refresco}
Nombres == {"SC", "SHC", "EC"}

ASSUME CriteriosAssumption ==
  /\ IsFiniteSet(Tablas) /\ Keys \subseteq Nat /\ Previos \subseteq Nombres \cup {"no"}
  /\ Consola # Refresco /\ {Consola, Refresco} \cap Ejecutores = {}
  /\ Nadie \notin Memorias \cup Hilos
  /\ MaxAltas \in Nat /\ MaxPedidos \in Nat /\ MaxCaidas \in Nat

VARIABLES vivo,
          arriba,       \* the memories that are up
          lfs,          \* of each table, the criterion it was created with ("no": none)
          conocidas,    \* memoriasConocidasKernel: those of the last gossiping
          sc, shc, ec,  \* listMemorias of each criterion
          asociadas,    \* g_lista_memorias_asociadas
          metricas,     \* operaciones_memorias: how many entries each memory has
          operaciones,  \* the operations of its first entry
          totales,      \* operaciones_totales
          tablas,       \* g_lista_tablas
          cerrojo,      \* who holds lista_memorias_criterio_mutex
          pc, op,       \* of each thread: the next step, and its request
          altas, pedidos, caidas,
          sinJournal    \* history: keys each memory was sent by SHC since its last JOURNAL,
                \* its end or its removal from SHC

externas == <<arriba, caidas, lfs, sinJournal>>
miembros == <<sc, shc, ec, asociadas>>
contadores == <<metricas, operaciones, totales>>
cuentas == <<altas, pedidos>>
vars == <<vivo, externas, conocidas, miembros, contadores, tablas, cerrojo, pc, op, cuentas>>

Pedido == [tipo |-> "nada", tabla |-> Nadie, key |-> 0, criterio |-> "no", mem |-> Nadie,
           lista |-> {}, respuesta |-> {}]

Entrada == [tabla : Tablas, criterio : Nombres]

TypeOK ==
  /\ vivo \in BOOLEAN
  /\ arriba \subseteq Memorias /\ conocidas \subseteq Memorias /\ asociadas \subseteq Memorias
  /\ lfs \in [Tablas -> Nombres \cup {"no"}]
  /\ sc \subseteq Memorias /\ Cardinality(sc) <= 1
  /\ shc \in Seq(Memorias) /\ IsInjective(shc)
  /\ ec \subseteq Memorias
  /\ metricas \in [Memorias -> Nat] /\ operaciones \in [Memorias -> Nat] /\ totales \in Nat
  /\ tablas \in Seq(Entrada)
  /\ cerrojo \in Hilos \cup {Nadie}
  /\ pc \in [Hilos -> {"libre", "elegir", "conectar", "enviar", "contar", "guardar", "sacar",
                       "sacarCriterios", "sacarMetricas", "agregar", "vaciar", "asociar",
                       "asociarMetricas"}]
  /\ \A h \in Hilos : /\ op[h].lista \subseteq Memorias
                      /\ op[h].respuesta \subseteq Entrada
                      /\ op[h].mem \in Memorias \cup {Nadie}
  /\ sinJournal \in [Memorias -> SUBSET Keys]
  /\ altas \in 0..MaxAltas /\ pedidos \in 0..MaxPedidos /\ caidas \in 0..MaxCaidas

Init ==
  /\ vivo = TRUE
  /\ arriba = Memorias /\ lfs \in [Tablas -> Previos]
  /\ sinJournal = [m \in Memorias |-> {}]
  /\ conocidas = {}
  /\ sc = {} /\ shc = << >> /\ ec = {} /\ asociadas = {}
  /\ metricas = [m \in Memorias |-> 0] /\ operaciones = [m \in Memorias |-> 0]
  /\ totales = 0
  /\ tablas = << >>
  /\ cerrojo = Nadie
  /\ pc = [h \in Hilos |-> "libre"] /\ op = [h \in Hilos |-> Pedido]
  /\ altas = 0 /\ pedidos = 0 /\ caidas = 0

Ir(h, paso) == pc' = [pc EXCEPT ![h] = paso]
\* of the request, only the memory is needed from here on
Olvidar(h, m) == op' = [op EXCEPT ![h] = [Pedido EXCEPT !.mem = m]]
Responder(h) == Ir(h, "libre") /\ op' = [op EXCEPT ![h] = Pedido]

-----------------------------------------------------------------------------
(* Outside of the Kernel.                                                  *)

\* a memory that ends loses what it had not journalled; it may come back
Bajar(m) ==
  /\ m \in arriba /\ caidas < MaxCaidas
  /\ caidas' = caidas + 1
  /\ arriba' = arriba \ {m}
  /\ sinJournal' = [sinJournal EXCEPT ![m] = {}]

Caer(m) ==
  /\ Bajar(m)
  /\ UNCHANGED <<vivo, lfs, conocidas, miembros, contadores, tablas, cerrojo, pc, op, cuentas>>

Volver(m) ==
  /\ m \notin arriba
  /\ arriba' = arriba \cup {m}
  /\ UNCHANGED <<vivo, lfs, caidas, sinJournal, conocidas, miembros, contadores, tablas, cerrojo, pc, op,
                 cuentas>>

(* A round of gossiping ends. What is known may be old by the time it is   *)
(* read, and nothing takes a memory that went down out of the criteria.    *)
ActualizarMemoriasDisponibles ==
  /\ conocidas' = arriba /\ conocidas' # conocidas
  /\ UNCHANGED <<vivo, externas, miembros, contadores, tablas, cerrojo, pc, op, cuentas>>

-----------------------------------------------------------------------------
(* Requests.                                                               *)

\* buscarCriterioTabla: the first entry of the table
CriterioDe(t) ==
  LET suyas == {i \in 1..Len(tablas) : tablas[i].tabla = t}
  IN IF suyas = {} THEN "no"
     ELSE tablas[CHOOSE i \in suyas : \A j \in suyas : i <= j].criterio

\* numMemoriaHash
Indice(k) == (k % Len(shc)) + 1

\* elegirMemoriaCriterio: one memory, or any of them for EC
Candidatas(c, k) ==
  CASE c = "SC" -> sc
    [] c = "SHC" -> IF shc = << >> THEN {} ELSE {shc[Indice(k)]}
    [] OTHER -> ec

\* SELECT or INSERT; one whose table is not known is answered at once
PedirPagina(h) ==
  /\ pc[h] = "libre" /\ pedidos < MaxPedidos
  /\ \E t \in Tablas, k \in Keys :
       /\ CriterioDe(t) # "no"
       /\ op' = [op EXCEPT ![h] = [Pedido EXCEPT !.tipo = "PAGINA", !.key = k,
                                                 !.criterio = CriterioDe(t)]]
  /\ pedidos' = pedidos + 1
  /\ Ir(h, "elegir")
  /\ UNCHANGED <<vivo, externas, conocidas, miembros, contadores, tablas, cerrojo, altas>>

ElegirMemoriaCriterio(h) ==
  LET c == Candidatas(op[h].criterio, op[h].key) IN
  /\ pc[h] = "elegir" /\ cerrojo = Nadie
  /\ \/ c = {} /\ Responder(h)
     \/ \E m \in c : op' = [op EXCEPT ![h].mem = m] /\ Ir(h, "conectar")
  /\ UNCHANGED <<vivo, externas, conocidas, miembros, contadores, tablas, cerrojo, cuentas>>

\* elegirMemoria: any memory of the Kernel, for CREATE, DROP and DESCRIBE
ElegirMemoria(h, tipo, t, c) ==
  /\ pc[h] = "libre"
  /\ \E m \in asociadas :
       op' = [op EXCEPT ![h] = [Pedido EXCEPT !.tipo = tipo, !.tabla = t, !.criterio = c,
                                              !.mem = m]]
  /\ Ir(h, "conectar")
  /\ UNCHANGED <<vivo, externas, conocidas, miembros, contadores, tablas, cerrojo>>

PedirTabla(h) ==
  /\ pedidos < MaxPedidos
  /\ \E t \in Tablas :
       \/ \E c \in Nombres : ElegirMemoria(h, "CREATE", t, c)
       \/ ElegirMemoria(h, "DROP", t, "no")
       \/ ElegirMemoria(h, "DESCRIBE", t, "no")
  /\ pedidos' = pedidos + 1
  /\ UNCHANGED altas

\* actualizarMetadataTablas, and DESCRIBE without a table
PedirMetadata == ElegirMemoria(Refresco, "DESCRIBE", Nadie, "no") /\ UNCHANGED cuentas

Conectar(h) ==
  /\ pc[h] = "conectar"
  /\ IF op[h].mem \in arriba
       THEN Ir(h, "enviar") /\ UNCHANGED op
       ELSE Ir(h, "sacar") /\ Olvidar(h, op[h].mem)
  /\ UNCHANGED <<vivo, externas, conocidas, miembros, contadores, tablas, cerrojo, cuentas>>

(* An INSERT by SHC that is sent while its memory still is the one of the  *)
(* key is followed; one that was overtaken by a change of SHC is not.      *)
EnviarPagina(h) ==
  LET o == op[h] IN
  /\ pc[h] = "enviar" /\ o.tipo = "PAGINA"
  /\ \/ UNCHANGED sinJournal
     \/ /\ o.criterio = "SHC" /\ o.mem \in arriba
        /\ cerrojo = Nadie /\ Candidatas("SHC", o.key) = {o.mem}
        /\ sinJournal' = [sinJournal EXCEPT ![o.mem] = @ \cup {o.key}]
  /\ Ir(h, "contar") /\ Olvidar(h, o.mem)
  /\ UNCHANGED <<vivo, arriba, caidas, lfs, conocidas, miembros, contadores, tablas, cerrojo,
                 cuentas>>

Todas == {e \in Entrada : lfs[e.tabla] = e.criterio}

\* what the memory answers to a request about tables: the entries of an answer that is RESP_OK
Respuesta(o) ==
  CASE o.tipo = "CREATE" -> IF lfs[o.tabla] = "no" THEN {[tabla |-> o.tabla, criterio |-> o.criterio]}
                            ELSE {}
    [] o.tipo = "DESCRIBE" -> {e \in Todas : o.tabla \in {Nadie, e.tabla}}
    [] OTHER -> {}

\* the memory does it and answers, or goes down before it does either, or between the two
EnviarTabla(h) ==
  LET o == op[h]
      Hacer == lfs' = CASE o.tipo = "CREATE" /\ Respuesta(o) # {} ->
                             [lfs EXCEPT ![o.tabla] = o.criterio]
                        [] o.tipo = "DROP" -> [lfs EXCEPT ![o.tabla] = "no"]
                        [] OTHER -> lfs
  IN /\ pc[h] = "enviar" /\ o.tipo \in {"CREATE", "DROP", "DESCRIBE"}
     /\ \/ /\ o.mem \in arriba /\ Hacer
           /\ UNCHANGED <<arriba, caidas, sinJournal>>
           /\ IF Respuesta(o) = {} THEN Responder(h)
              ELSE /\ op' = [op EXCEPT ![h] = [Pedido EXCEPT !.tabla = o.tabla,
                                                             !.respuesta = Respuesta(o)]]
                   /\ Ir(h, "guardar")
        \/ Bajar(o.mem) /\ Hacer /\ Responder(h)
        \/ o.mem \notin arriba /\ Responder(h) /\ UNCHANGED externas
     /\ UNCHANGED <<vivo, conocidas, miembros, contadores, tablas, cerrojo, cuentas>>

(* actualizarTablasCriterios replaces the list; agregarTablaCriterio       *)
(* appends to it, also when the table is in it. The answer may be old.     *)
GuardarTablas(h) ==
  LET o == op[h] IN
  /\ pc[h] = "guardar"
  /\ tablas' = IF o.tabla = Nadie THEN SetToSeq(o.respuesta) ELSE tablas \o SetToSeq(o.respuesta)
  /\ Responder(h)
  /\ UNCHANGED <<vivo, externas, conocidas, miembros, contadores, cerrojo, cuentas>>

\* mutant: the total of operations is not counted
ContarSinTotal(h) ==
  /\ pc[h] = "contar"
  /\ operaciones' = IF metricas[op[h].mem] > 0 THEN [operaciones EXCEPT ![op[h].mem] = @ + 1]
                    ELSE operaciones
  /\ Responder(h)
  /\ UNCHANGED <<vivo, externas, conocidas, miembros, metricas, totales, tablas, cerrojo, cuentas>>

\* contar_select, contar_insert: also of a request that failed, and of a memory that was removed
Contar(h) ==
  /\ pc[h] = "contar"
  /\ totales' = totales + 1
  /\ operaciones' = IF metricas[op[h].mem] > 0 THEN [operaciones EXCEPT ![op[h].mem] = @ + 1]
                    ELSE operaciones
  /\ Responder(h)
  /\ UNCHANGED <<vivo, externas, conocidas, miembros, metricas, tablas, cerrojo, cuentas>>

ReiniciarMetricas ==
  /\ totales > 0
  /\ totales' = 0 /\ operaciones' = [m \in Memorias |-> 0]
  /\ UNCHANGED <<vivo, externas, conocidas, miembros, metricas, tablas, cerrojo, pc, op, cuentas>>

-----------------------------------------------------------------------------
(* eliminarMemoriaAsociada: three locks, one after the other.              *)

\* eliminarMemoriaCriterio, of a list whose order matters
Quitar(s, m) == IF Contains(s, m) THEN RemoveAt(s, CHOOSE i \in DOMAIN s : s[i] = m) ELSE s

\* mutant: a memory that is removed stays in its criteria
SacarSinCriterios(h) ==
  /\ pc[h] = "sacar"
  /\ asociadas' = asociadas \ {op[h].mem}
  /\ Ir(h, "sacarMetricas")
  /\ UNCHANGED <<vivo, externas, conocidas, sc, shc, ec, contadores, tablas, cerrojo, op, cuentas>>

Sacar(h) ==
  /\ pc[h] = "sacar"
  /\ asociadas' = asociadas \ {op[h].mem}
  /\ Ir(h, "sacarCriterios")
  /\ UNCHANGED <<vivo, externas, conocidas, sc, shc, ec, contadores, tablas, cerrojo, op, cuentas>>

(* The mutex is not recursive: a thread that comes here from a JOURNAL to  *)
(* the SHC memories, which it sends while it holds it, waits for itself.   *)
SacarCriterios(h) ==
  LET m == op[h].mem
      resto == Quitar(shc, m)
  IN /\ pc[h] = "sacarCriterios" /\ cerrojo = Nadie
     /\ sc' = sc \ {m} /\ ec' = ec \ {m} /\ shc' = resto
     /\ sinJournal' = [sinJournal EXCEPT ![m] = {}]
     /\ IF resto # shc
          THEN /\ cerrojo' = h
               /\ op' = [op EXCEPT ![h].lista = Range(resto)]
               /\ Ir(h, "vaciar")
          ELSE Ir(h, "sacarMetricas") /\ UNCHANGED <<cerrojo, op>>
     /\ UNCHANGED <<vivo, arriba, caidas, lfs, conocidas, asociadas, contadores, tablas, cuentas>>

SacarMetricas(h) ==
  LET m == op[h].mem IN
  /\ pc[h] = "sacarMetricas"
  /\ metricas' = [metricas EXCEPT ![m] = IF @ > 0 THEN @ - 1 ELSE 0]
  /\ operaciones' = [operaciones EXCEPT ![m] = 0]
  /\ Responder(h)
  /\ UNCHANGED <<vivo, externas, conocidas, miembros, totales, tablas, cerrojo, cuentas>>

-----------------------------------------------------------------------------
(* JOURNAL: of the console or a script to all memories of a copy of the    *)
(* list; of SHC (vaciarMemoriasSHC) with the mutex of the criteria held.   *)

PedirJournal(h) ==
  /\ pc[h] = "libre"
  /\ op' = [op EXCEPT ![h] = [Pedido EXCEPT !.tipo = "JOURNAL", !.lista = asociadas]]
  /\ Ir(h, "vaciar")
  /\ UNCHANGED <<vivo, externas, conocidas, miembros, contadores, tablas, cerrojo>>

\* resolverJournal ends at the first memory that cannot be connected to
Vaciar(h) ==
  /\ pc[h] = "vaciar"
  /\ \E m \in op[h].lista :
       IF m \in arriba
         THEN /\ sinJournal' = [sinJournal EXCEPT ![m] = {}]
              /\ op' = [op EXCEPT ![h].lista = @ \ {m}]
              /\ UNCHANGED pc
         ELSE /\ Olvidar(h, m)
              /\ Ir(h, "sacar")
              /\ UNCHANGED sinJournal
  /\ UNCHANGED <<vivo, arriba, caidas, lfs, conocidas, miembros, contadores, tablas, cerrojo,
                 cuentas>>

(* The copy of the list has the pointers of the list: another thread frees *)
(* the memory it removes, and reading it may end the process.              *)
VaciarLiberada(h) ==
  /\ pc[h] = "vaciar" /\ cerrojo # h
  /\ op[h].lista \ asociadas # {}
  /\ vivo' = FALSE
  /\ UNCHANGED <<externas, conocidas, miembros, contadores, tablas, cerrojo, pc, op, cuentas>>

VaciarFin(h) ==
  /\ pc[h] = "vaciar" /\ op[h].lista = {}
  /\ CASE cerrojo # h -> Responder(h) /\ UNCHANGED <<shc, cerrojo>>
       [] cerrojo = h /\ op[h].tipo = "ADD" ->
            /\ shc' = Append(shc, op[h].mem)
            /\ cerrojo' = Nadie
            /\ Ir(h, "asociar") /\ Olvidar(h, op[h].mem)
       [] OTHER -> cerrojo' = Nadie /\ Ir(h, "sacarMetricas") /\ UNCHANGED <<shc, op>>
  /\ UNCHANGED <<vivo, externas, conocidas, sc, ec, asociadas, contadores, tablas, cuentas>>

-----------------------------------------------------------------------------
(* ADD MEMORY <m> TO <c>, which only the console does.                     *)

PedirAlta ==
  /\ pc[Consola] = "libre" /\ altas < MaxAltas
  /\ \E m \in conocidas, c \in Nombres :
       op' = [op EXCEPT ![Consola] = [Pedido EXCEPT !.tipo = "ADD", !.mem = m, !.criterio = c]]
  /\ altas' = altas + 1
  /\ Ir(Consola, "agregar")
  /\ UNCHANGED <<vivo, externas, conocidas, miembros, contadores, tablas, cerrojo, pedidos>>

\* mutant: a memory comes to SHC without a JOURNAL to the others
AgregarSinVaciar ==
  LET m == op[Consola].mem
      c == op[Consola].criterio
  IN /\ pc[Consola] = "agregar" /\ cerrojo = Nadie
     /\ IF (c = "SC" /\ sc # {}) \/ (c = "SHC" /\ Contains(shc, m)) \/ (c = "EC" /\ m \in ec)
          THEN Responder(Consola) /\ UNCHANGED <<sc, shc, ec>>
          ELSE /\ sc' = IF c = "SC" THEN sc \cup {m} ELSE sc
               /\ ec' = IF c = "EC" THEN ec \cup {m} ELSE ec
               /\ shc' = IF c = "SHC" THEN Append(shc, m) ELSE shc
               /\ Ir(Consola, "asociar") /\ Olvidar(Consola, m)
     /\ UNCHANGED <<vivo, externas, conocidas, asociadas, contadores, tablas, cerrojo, cuentas>>

\* mutant: SC takes a second memory
AgregarSinLugar ==
  LET m == op[Consola].mem
      c == op[Consola].criterio
  IN /\ pc[Consola] = "agregar" /\ cerrojo = Nadie
     /\ sc' = IF c = "SC" THEN sc \cup {m} ELSE sc
     /\ ec' = IF c = "EC" THEN ec \cup {m} ELSE ec
     /\ Ir(Consola, "asociar") /\ Olvidar(Consola, m)
     /\ UNCHANGED <<vivo, externas, conocidas, shc, asociadas, contadores, tablas, cerrojo, cuentas>>

\* agregarMemoriaCriterio
Agregar ==
  LET m == op[Consola].mem
      c == op[Consola].criterio
  IN /\ pc[Consola] = "agregar" /\ cerrojo = Nadie
     /\ CASE (c = "SC" /\ sc # {}) \/ (c = "SHC" /\ Contains(shc, m)) \/ (c = "EC" /\ m \in ec) ->
               Responder(Consola) /\ UNCHANGED <<sc, ec, cerrojo>>
          [] c = "SHC" /\ ~Contains(shc, m) ->
               /\ cerrojo' = Consola
               /\ op' = [op EXCEPT ![Consola].lista = Range(shc)]
               /\ Ir(Consola, "vaciar")
               /\ UNCHANGED <<sc, ec>>
          [] OTHER ->
               /\ sc' = IF c = "SC" THEN sc \cup {m} ELSE sc
               /\ ec' = IF c = "EC" THEN ec \cup {m} ELSE ec
               /\ Ir(Consola, "asociar") /\ Olvidar(Consola, m)
               /\ UNCHANGED cerrojo
     /\ UNCHANGED <<vivo, externas, conocidas, shc, asociadas, contadores, tablas, cuentas>>

\* agregarMemoriaAsociada; its check and its list_add are one step, for only the console adds
Asociar ==
  /\ pc[Consola] = "asociar"
  /\ IF op[Consola].mem \in asociadas
       THEN Responder(Consola) /\ UNCHANGED asociadas
       ELSE /\ asociadas' = asociadas \cup {op[Consola].mem}
            /\ Ir(Consola, "asociarMetricas")
            /\ UNCHANGED op
  /\ UNCHANGED <<vivo, externas, conocidas, sc, shc, ec, contadores, tablas, cerrojo, cuentas>>

AsociarMetricas ==
  /\ pc[Consola] = "asociarMetricas"
  /\ metricas' = [metricas EXCEPT ![op[Consola].mem] = @ + 1]
  /\ Responder(Consola)
  /\ UNCHANGED <<vivo, externas, conocidas, miembros, operaciones, totales, tablas, cerrojo,
                 cuentas>>

-----------------------------------------------------------------------------
Seguir(h) ==
  /\ vivo
  /\ \/ ElegirMemoriaCriterio(h) \/ Conectar(h) \/ EnviarPagina(h) \/ EnviarTabla(h)
     \/ GuardarTablas(h) \/ Contar(h) \/ Sacar(h) \/ SacarCriterios(h) \/ SacarMetricas(h)
     \/ Vaciar(h) \/ VaciarLiberada(h) \/ VaciarFin(h)
     \/ h = Consola /\ (Agregar \/ Asociar \/ AsociarMetricas)

Pedir ==
  \/ PedirAlta
  \/ PedirJournal(Consola) /\ altas < MaxAltas /\ altas' = altas + 1 /\ UNCHANGED pedidos
  \/ \E h \in Ejecutores :
       \/ PedirPagina(h) \/ PedirTabla(h)
       \/ PedirJournal(h) /\ pedidos < MaxPedidos /\ pedidos' = pedidos + 1 /\ UNCHANGED altas

Afuera == \E m \in Memorias : Caer(m) \/ Volver(m)

Next ==
  \/ \E h \in Hilos : Seguir(h)
  \/ vivo /\ (Pedir \/ PedirMetadata \/ ReiniciarMetricas \/ ActualizarMemoriasDisponibles \/ Afuera)

Spec == Init /\ [][Next]_vars

-----------------------------------------------------------------------------
(* A memory of a criterion is among those of the Kernel, so that CREATE    *)
(* and JOURNAL reach it too, but while it is being added or removed: ADD   *)
(* and the removals by other threads take the two lists' locks one after   *)
(* the other, in opposite orders, and still leave them agreeing.           *)
CriterioAsociada ==
  \A m \in sc \cup Range(shc) \cup ec :
    \/ m \in asociadas
    \/ \E h \in Hilos : op[h].mem = m /\ pc[h] \in {"sacarCriterios", "asociar"}

(* SHC: the memory that took an INSERT of a key and has not been told to   *)
(* journal it is the one a SELECT of the key goes to, however memories     *)
(* come and go, for every change is preceded by a JOURNAL to those that    *)
(* stay. (A request that chose its memory before a change and was sent     *)
(* after it is the exception: nothing in the code orders the two.)         *)
SHCConJournal ==
  cerrojo = Nadie =>
    \A m \in Range(shc) : \A k \in sinJournal[m] : shc[Indice(k)] = m

(* The load of the memories (operations of each over the total) never is   *)
(* more than all of it, although memories come and go and the counters are *)
(* set to zero while requests are between their answer and their count:    *)
(* the i-th operations of each memory m are no more than the total.        *)
CargaAcotada ==
  Cardinality(UNION {{m} \X (1..operaciones[m]) : m \in Memorias}) <= totales
====
