------------------------------ MODULE Memoria ------------------------------
(***************************************************************************)
(* One process of Pool-Memorias: frames with pages, segments, LRU, the     *)
(* journal, and the requests INSERT, SELECT, DROP and JOURNAL, which the   *)
(* console's thread and a thread per connection run concurrently with the  *)
(* thread of the automatic journal. The LFS is external: of each key it    *)
(* has the newest record it was sent.                                      *)
(*                                                                         *)
(* The step of a thread is what it does between two points at which        *)
(* another thread can be observed: a lock it waits for, a message to the   *)
(* LFS, or a structure another thread may change meanwhile. The mutexes    *)
(* that are taken and released within one step (mutex_memoria,             *)
(* mutex_bitmap, mutex_bloquear_select_por_limpieza and the like) are not  *)
(* variables.                                                              *)
(*                                                                         *)
(* A definition whose name ends in Sin... is not of the code: it is the    *)
(* next definition with a mistake in it.                                   *)
(***************************************************************************)
EXTENDS Naturals, Integers, FiniteSets, ConjuntosDeRegistros

CONSTANTS
    Tablas,      \* names of tables
    Claves,      \* keys
    CantPaginas, \* cantPaginasTotales
    Nadie,       \* not a thread: a lock that is free
    Clientes,    \* threads that resolve requests (hilo_cliente, consola)
    Pedidos,     \* the requests the clients send
    Automatico,  \* RETARDO_JOURNAL passes before the clients are done
    LfsFalla,    \* the LFS may not answer
    MaxReloj,    \* bound: the clock, in milliseconds
    MaxPedidos   \* bound: requests

Comandos == {"INSERT", "SELECT", "DROP", "JOURNAL"}

\* Threads of the automatic journal, in the order they are created: the first
\* by hilo_consola, and one by each procesoJournal.
Hilos == 0..MaxPedidos
Hebras == Clientes \cup Hilos
Marcos == 0..(CantPaginas - 1)

ASSUME MemoriaAssumption ==
    /\ Tablas # {}
    /\ Claves # {}
    /\ CantPaginas \in Nat \ {0}
    /\ Pedidos \subseteq Comandos
    /\ Automatico \in BOOLEAN
    /\ LfsFalla \in BOOLEAN
    /\ MaxReloj \in Nat \ {0, 1}
    /\ MaxPedidos \in Nat
    /\ IsFiniteSet(Clientes)
    /\ Nadie \notin Hebras
    /\ Clientes \cap Hilos = {}

VARIABLES
    reloj,       \* timestamp()
    (* bloque_memoria, bloque_LRU and the structures over them *)
    bloque,      \* bloque[f]: the page and the LRU node of frame f
    bitmap,      \* frames in use
    segmentos,   \* segmentos[t]: frames of the pages of t, {} for no segment
    (* locks: the thread that holds each one, or Nadie *)
    accionLRU,   \* ACCIONLRU
    journalHecho,\* JOURNALHecho
    verificar,   \* verificarSiBitmapLleno
    escritor,    \* sem_insert_select, for writing
    lectores,    \* sem_insert_select, for reading
    (* threads *)
    pc, ped,     \* where each thread is; the request of each client
    journalHilo, \* the thread of the automatic journal that was last created
    cancelados,  \* threads that were cancelled
    envio,       \* records the journal in progress has not sent yet
    pasados,     \* its cant_pasados
    pedidos,     \* requests so far
    vivo,        \* the process is running
    (* the LFS *)
    lfs,         \* lfs[t][k]: timestamp of its newest record, 0 for none
    lfsTablas    \* tables it has

paginas == <<bloque, bitmap, segmentos>>
cerrojos == <<accionLRU, journalHecho, verificar, escritor, lectores>>
journal == <<journalHilo, cancelados, envio, pasados>>
externo == <<lfs, lfsTablas>>
vars == <<reloj, paginas, cerrojos, pc, ped, journal, pedidos, vivo, externo>>

Tiempos == 0..MaxReloj
Registros == [key : Claves, ts : 1..MaxReloj]

\* rancia is history: the page was filled with an answer of the LFS that was
\* older than the last journal.
Pagina == [tabla : Tablas, key : Claves, ts : Tiempos, estado : BOOLEAN,
           acceso : Tiempos, rancia : BOOLEAN]

PaginaNula == [tabla |-> CHOOSE t \in Tablas : TRUE,
               key |-> CHOOSE k \in Claves : TRUE,
               ts |-> 0, estado |-> FALSE, acceso |-> 0, rancia |-> FALSE]

\* seg is what an INSERT or a DROP has for a pointer to the segment. piso and
\* limpiado are history: the newest timestamp of the key when a SELECT started,
\* and whether the memory was emptied since the LFS answered it.
Pedido == [cmd : Comandos, tabla : Tablas, key : Claves, ts : Tiempos,
           marco : Marcos, seg : {"nulo", "segmento", "liberado"},
           piso : Tiempos, limpiado : BOOLEAN]
PedidoNulo == [cmd |-> "JOURNAL",
               tabla |-> PaginaNula.tabla, key |-> PaginaNula.key,
               ts |-> 0, marco |-> 0, seg |-> "nulo", piso |-> 0,
               limpiado |-> FALSE]

Init ==
    /\ reloj = 2
    /\ bloque = [f \in Marcos |-> PaginaNula]
    /\ bitmap = {}
    /\ segmentos = [t \in Tablas |-> {}]
    /\ accionLRU = Nadie
    /\ journalHecho = Nadie
    /\ verificar = Nadie
    /\ escritor = Nadie
    /\ lectores = {}
    /\ pc = [x \in Hebras |-> IF x \in Clientes THEN "libre"
                              ELSE IF x = 0 THEN "durmiendo" ELSE "sin_hilo"]
    /\ ped = [c \in Clientes |-> PedidoNulo]
    /\ journalHilo = 0
    /\ cancelados = {}
    /\ envio = {}
    /\ pasados = 0
    /\ pedidos = 0
    /\ vivo = TRUE
    /\ lfs \in {[t \in Tablas |-> [k \in Claves |-> n]] : n \in {0, 1}}
    /\ lfsTablas = Tablas

----------------------------------------------------------------------------
(* Pages *)

\* buscarEntreTodasLasTablaPaginasLaKey: where a segment has a page of the key.
Paginas(t, k) == {f \in segmentos[t] : bloque[f].key = k}

\* What an INSERT gets with a page it does not find.
PunteroSegmento(t) == IF segmentos[t] = {} THEN "nulo" ELSE "segmento"

\* The unmodified pages that were used least recently, before this millisecond.
CandidatosSinEstado ==
    {f \in bitmap : /\ bloque[f].acceso < reloj
                    /\ \A g \in bitmap : bloque[f].acceso <= bloque[g].acceso}
\* buscarEnBloqueLRUElProximoAQuitar, which takes the first of them.
Candidatos ==
    LET limpias == {f \in bitmap : ~bloque[f].estado} IN
    {f \in limpias : /\ bloque[f].acceso < reloj
                     /\ \A g \in limpias : bloque[f].acceso <= bloque[g].acceso}

\* obtener_todos_journal: it goes by the frames, not by the segments.
Modificadas ==
    {[tabla |-> bloque[f].tabla, key |-> bloque[f].key, ts |-> bloque[f].ts] :
        f \in {g \in bitmap : bloque[g].estado}}

\* The records of a table that are in the LFS, or will be sent to it.
Guardados(t) ==
    {[key |-> k, ts |-> lfs[t][k]] : k \in {l \in Claves : lfs[t][l] > 0}}
PorGuardar(t) ==
    {[key |-> bloque[f].key, ts |-> bloque[f].ts] :
        f \in {g \in bitmap : bloque[g].estado /\ bloque[g].tabla = t}}
Registrados(t) == Guardados(t) \cup PorGuardar(t)

----------------------------------------------------------------------------
(* States *)

\* The INSERT of a request, or of what the LFS answered a SELECT.
Insertando == {"ins_lru", "ins_rw", "ins_jh", "ins_bitmap", "ins_accion",
               "ins_rebuscar", "ins_crear", "ins_modificar"}
Journalizando == {"jou_hecho", "jou_recolectar", "jou_enviar"}
Borrando == {"drop_buscar", "drop_borrar", "drop_lfs"}
PCs == Insertando \cup Journalizando \cup Borrando
         \cup {"libre", "sel_rw", "sel_leer", "sel_lfs", "sel_responder",
               "jou_rw", "sin_hilo", "durmiendo", "tim_hecho", "tim_bitmap",
               "tim_rw", "tim_informe", "muerto"}

DeBaja(t) ==
    \/ t \notin lfsTablas
    \/ \E c \in Clientes : pc[c] \in Borrando /\ ped[c].tabla = t

Ir(x, p) == pc' = [pc EXCEPT ![x] = p]
Seguir(c, p) == Ir(c, p) /\ UNCHANGED ped
Contestar(c) == Ir(c, "libre") /\ ped' = [ped EXCEPT ![c] = PedidoNulo]

Empezar(c, cmd, p, r) ==
    /\ vivo
    /\ cmd \in Pedidos
    /\ pedidos < MaxPedidos
    /\ pedidos' = pedidos + 1
    /\ pc[c] = "libre"
    /\ Ir(c, p)
    /\ ped' = [ped EXCEPT ![c] = [r EXCEPT !.cmd = cmd]]
    /\ UNCHANGED <<reloj, paginas, cerrojos, journal, vivo, externo>>

\* sem_insert_select can be taken for writing. Whoever reads does not keep it
\* to wait for another lock.
RwLibre == escritor = Nadie /\ lectores = {}

----------------------------------------------------------------------------
(* The process and its clock *)

Tick ==
    /\ vivo
    /\ reloj < MaxReloj
    /\ reloj' = reloj + 1
    /\ UNCHANGED <<paginas, cerrojos, pc, ped, journal, pedidos, vivo, externo>>

\* The process ends, by SALIR, by a signal or by a fault; no journal is made.
\* A new process starts as in Init, with the LFS as it is.
Caer ==
    /\ vivo' = FALSE
    /\ bloque' = [f \in Marcos |-> PaginaNula]
    /\ bitmap' = {}
    /\ segmentos' = [t \in Tablas |-> {}]
    /\ accionLRU' = Nadie
    /\ journalHecho' = Nadie
    /\ verificar' = Nadie
    /\ escritor' = Nadie
    /\ lectores' = {}
    /\ pc' = [x \in Hebras |-> IF x \in Clientes THEN "libre" ELSE "sin_hilo"]
    /\ ped' = [c \in Clientes |-> PedidoNulo]
    /\ journalHilo' = 0
    /\ cancelados' = {}
    /\ envio' = {}
    /\ pasados' = 0
    /\ UNCHANGED <<reloj, pedidos, externo>>

Terminar == vivo /\ Caer

----------------------------------------------------------------------------
(* INSERT: funcionInsert *)

InsertPedir(c, t, k) ==
    Empezar(c, "INSERT", "ins_lru",
            [PedidoNulo EXCEPT !.tabla = t, !.key = k])

\* It waits until no LRU and no DROP is in progress, and goes on without the
\* lock.
InsertEsperar(c) ==
    /\ pc[c] = "ins_lru"
    /\ accionLRU = Nadie
    /\ Seguir(c, "ins_rw")
    /\ UNCHANGED <<reloj, paginas, cerrojos, journal, pedidos, vivo, externo>>

InsertTomarRwSinEsperar(c) ==
    /\ pc[c] = "ins_rw"
    /\ escritor' = c
    /\ Seguir(c, "ins_jh")
    /\ UNCHANGED <<reloj, paginas, accionLRU, journalHecho, verificar,
                   lectores, journal, pedidos, vivo, externo>>

InsertTomarRw(c) ==
    /\ pc[c] = "ins_rw"
    /\ RwLibre
    /\ escritor' = c
    /\ Seguir(c, "ins_jh")
    /\ UNCHANGED <<reloj, paginas, accionLRU, journalHecho, verificar,
                   lectores, journal, pedidos, vivo, externo>>

\* The search goes to the page it finds; without one, to pc p.
Buscar(c, p) ==
    LET t == ped[c].tabla
        halladas == Paginas(t, ped[c].key)
    IN \/ \E f \in halladas :
             /\ Ir(c, "ins_modificar")
             /\ ped' = [ped EXCEPT ![c].marco = f]
       \/ /\ halladas = {}
          /\ Ir(c, p)
          /\ ped' = [ped EXCEPT ![c].seg = PunteroSegmento(t)]

\* It waits for the journal in progress.
InsertBuscar(c) ==
    /\ pc[c] = "ins_jh"
    /\ journalHecho = Nadie
    /\ Buscar(c, "ins_bitmap")
    /\ UNCHANGED <<reloj, paginas, cerrojos, journal, pedidos, vivo, externo>>

InsertHayMarco(c) ==
    /\ pc[c] = "ins_bitmap"
    /\ verificar = Nadie
    /\ bitmap # Marcos
    /\ Seguir(c, "ins_crear")
    /\ UNCHANGED <<reloj, paginas, cerrojos, journal, pedidos, vivo, externo>>

InsertBitmapLleno(c) ==
    /\ pc[c] = "ins_bitmap"
    /\ verificar = Nadie
    /\ bitmap = Marcos
    /\ verificar' = c
    /\ Seguir(c, "ins_accion")
    /\ UNCHANGED <<reloj, paginas, accionLRU, journalHecho, escritor, lectores,
                   journal, pedidos, vivo, externo>>

LruReemplazarSinSegmento(c, f) ==
    /\ pc[c] = "ins_accion"
    /\ accionLRU = Nadie
    /\ f \in Candidatos
    /\ \A g \in Candidatos : f <= g
    /\ bitmap' = bitmap \ {f}
    /\ Seguir(c, "ins_rebuscar")
    /\ UNCHANGED <<reloj, bloque, segmentos, cerrojos, journal, pedidos, vivo,
                   externo>>

\* LRU and segmento_eliminar_nro_pagina: the page leaves its segment and the
\* bitmap.
LruReemplazar(c, f) ==
    LET u == bloque[f].tabla IN
    /\ pc[c] = "ins_accion"
    /\ accionLRU = Nadie
    /\ f \in Candidatos
    /\ \A g \in Candidatos : f <= g
    /\ f \in segmentos[u]
    /\ segmentos' = [segmentos EXCEPT ![u] = @ \ {f}]
    /\ bitmap' = bitmap \ {f}
    /\ Seguir(c, "ins_rebuscar")
    /\ UNCHANGED <<reloj, bloque, cerrojos, journal, pedidos, vivo, externo>>

\* Nothing can be replaced: it makes a journal (procesoJournal) and keeps
\* ACCIONLRU meanwhile.
LruSinCandidato(c) ==
    /\ pc[c] = "ins_accion"
    /\ accionLRU = Nadie
    /\ Candidatos = {}
    /\ accionLRU' = c
    /\ Seguir(c, "jou_hecho")
    /\ UNCHANGED <<reloj, paginas, journalHecho, verificar, escritor, lectores,
                   journal, pedidos, vivo, externo>>

InsertRebuscar(c) ==
    /\ pc[c] = "ins_rebuscar"
    /\ verificar' = Nadie
    /\ Buscar(c, "ins_crear")
    /\ UNCHANGED <<reloj, paginas, accionLRU, journalHecho, escritor, lectores,
                   journal, pedidos, vivo, externo>>

\* The timestamp of an INSERT is the clock, that of a fill the LFS's.
TiempoDe(c) == IF ped[c].cmd = "INSERT" THEN reloj ELSE ped[c].ts

\* An INSERT is answered; a SELECT that filled a page answers what it put there.
TrasInsertar(c) ==
    IF ped[c].cmd = "INSERT" THEN Contestar(c) ELSE Seguir(c, "sel_responder")

\* tabla_pagina_crear and insertCrearPaginaConNuevoSegmento: the first frame
\* that is free, in a new segment or in the one that was found.
InsertCrear(c, f) ==
    LET t == ped[c].tabla IN
    /\ pc[c] = "ins_crear"
    /\ f \in Marcos \ bitmap
    /\ \A g \in Marcos \ bitmap : f <= g
    /\ bloque' = [bloque EXCEPT ![f] =
                    [tabla |-> t, key |-> ped[c].key, ts |-> TiempoDe(c),
                     estado |-> ped[c].cmd = "INSERT", acceso |-> reloj,
                     rancia |-> ped[c].limpiado]]
    /\ bitmap' = bitmap \cup {f}
    /\ \/ /\ ped[c].seg # "liberado"
          /\ segmentos' = [segmentos EXCEPT ![t] = @ \cup {f}]
       \/ /\ ped[c].seg = "liberado"  \* into memory that was freed
          /\ UNCHANGED segmentos
    /\ escritor' = Nadie
    /\ TrasInsertar(c)
    /\ UNCHANGED <<reloj, accionLRU, journalHecho, verificar, lectores,
                   journal, pedidos, vivo, externo>>

Escribir(c, f) ==
    bloque' = [bloque EXCEPT ![f].ts = TiempoDe(c), ![f].estado = TRUE,
                             ![f].acceso = reloj, ![f].rancia = ped[c].limpiado]

InsertModificarSinComparar(c) ==
    /\ pc[c] = "ins_modificar"
    /\ Escribir(c, ped[c].marco)
    /\ escritor' = Nadie
    /\ TrasInsertar(c)
    /\ UNCHANGED <<reloj, bitmap, segmentos, accionLRU, journalHecho, verificar,
                   lectores, journal, pedidos, vivo, externo>>

\* modificarValoresDeTablaYMemoriaAsociadasAKEY: a record that is not newer is
\* ignored; any other leaves the page modified, also when a SELECT fills it.
InsertModificar(c) ==
    LET f == ped[c].marco IN
    /\ pc[c] = "ins_modificar"
    /\ \/ TiempoDe(c) > bloque[f].ts /\ Escribir(c, f)
       \/ TiempoDe(c) <= bloque[f].ts /\ UNCHANGED bloque
    /\ escritor' = Nadie
    /\ TrasInsertar(c)
    /\ UNCHANGED <<reloj, bitmap, segmentos, accionLRU, journalHecho, verificar,
                   lectores, journal, pedidos, vivo, externo>>

----------------------------------------------------------------------------
(* SELECT: resolver_select, select_memoria *)

SelectPedir(c, t, k, m) ==
    /\ EsUltimo(m, Registrados(t), k)
    /\ Empezar(c, "SELECT", "sel_rw",
               [PedidoNulo EXCEPT !.tabla = t, !.key = k, !.piso = m])

SelectNoEsta(c) ==
    /\ pc[c] = "sel_rw"
    /\ escritor = Nadie
    /\ Paginas(ped[c].tabla, ped[c].key) = {}
    /\ Seguir(c, "sel_lfs")
    /\ UNCHANGED <<reloj, paginas, cerrojos, journal, pedidos, vivo, externo>>

SelectEsta(c) ==
    /\ pc[c] = "sel_rw"
    /\ escritor = Nadie
    /\ Paginas(ped[c].tabla, ped[c].key) # {}
    /\ lectores' = lectores \cup {c}
    /\ Seguir(c, "sel_leer")
    /\ UNCHANGED <<reloj, paginas, accionLRU, journalHecho, verificar, escritor,
                   journal, pedidos, vivo, externo>>

\* The page is searched again, under the same lock, and read.
SelectLeer(c, f) ==
    /\ pc[c] = "sel_leer"
    /\ f \in Paginas(ped[c].tabla, ped[c].key)
    /\ bloque' = [bloque EXCEPT ![f].acceso = reloj]
    /\ lectores' = lectores \ {c}
    /\ Ir(c, "sel_responder")
    /\ ped' = [ped EXCEPT ![c].ts = bloque[f].ts,
                          ![c].piso = IF bloque[f].rancia THEN 0 ELSE @]
    /\ UNCHANGED <<reloj, bitmap, segmentos, accionLRU, journalHecho, verificar,
                   escritor, journal, pedidos, vivo, externo>>

\* A DROP removed the page after the first search: what lies before the block
\* of memory is answered, or is a fault.
SelectSinPagina(c) ==
    /\ pc[c] = "sel_leer"
    /\ Paginas(ped[c].tabla, ped[c].key) = {}
    /\ lectores' = lectores \ {c}
    /\ Contestar(c)
    /\ UNCHANGED <<reloj, paginas, accionLRU, journalHecho, verificar, escritor,
                   journal, pedidos, vivo, externo>>

\* The LFS answers with a record, which is then inserted as unmodified.
SelectLfs(c) ==
    LET n == lfs[ped[c].tabla][ped[c].key] IN
    /\ pc[c] = "sel_lfs"
    /\ n > 0
    /\ Ir(c, "ins_lru")
    /\ ped' = [ped EXCEPT ![c].ts = n]
    /\ UNCHANGED <<reloj, paginas, cerrojos, journal, pedidos, vivo, externo>>

\* It has no such table or key, or does not answer: the answer is an error.
SelectError(c) ==
    /\ pc[c] = "sel_lfs"
    /\ LfsFalla \/ lfs[ped[c].tabla][ped[c].key] = 0
    /\ Contestar(c)
    /\ UNCHANGED <<reloj, paginas, cerrojos, journal, pedidos, vivo, externo>>

SelectResponder(c) ==
    /\ pc[c] = "sel_responder"
    /\ Contestar(c)
    /\ UNCHANGED <<reloj, paginas, cerrojos, journal, pedidos, vivo, externo>>

----------------------------------------------------------------------------
(* DROP: resolver_drop, funcionDrop *)

DropPedir(c, t) ==
    Empezar(c, "DROP", "drop_buscar", [PedidoNulo EXCEPT !.tabla = t])

DropSinSegmentoSinSoltar(c) ==
    /\ pc[c] = "drop_buscar"
    /\ accionLRU = Nadie
    /\ segmentos[ped[c].tabla] = {}
    /\ accionLRU' = c
    /\ Seguir(c, "drop_lfs")
    /\ UNCHANGED <<reloj, paginas, journalHecho, verificar, escritor, lectores,
                   journal, pedidos, vivo, externo>>

DropSinSegmento(c) ==
    /\ pc[c] = "drop_buscar"
    /\ accionLRU = Nadie
    /\ segmentos[ped[c].tabla] = {}
    /\ Seguir(c, "drop_lfs")
    /\ UNCHANGED <<reloj, paginas, cerrojos, journal, pedidos, vivo, externo>>

DropBuscar(c) ==
    /\ pc[c] = "drop_buscar"
    /\ accionLRU = Nadie
    /\ segmentos[ped[c].tabla] # {}
    /\ accionLRU' = c
    /\ Ir(c, "drop_borrar")
    /\ ped' = [ped EXCEPT ![c].seg = "segmento"]
    /\ UNCHANGED <<reloj, paginas, journalHecho, verificar, escritor, lectores,
                   journal, pedidos, vivo, externo>>

\* Whoever has a pointer to one of the segments has one to freed memory.
SinSegmento(r, ts) ==
    IF r.seg = "segmento" /\ r.tabla \in ts
    THEN [r EXCEPT !.seg = "liberado"] ELSE r

\* limpiar_todos_los_elementos_de_1_segmento.
DropBorrar(c) ==
    LET t == ped[c].tabla IN
    /\ pc[c] = "drop_borrar"
    /\ ped[c].seg = "segmento"
    /\ segmentos' = [segmentos EXCEPT ![t] = {}]
    /\ bitmap' = bitmap \ segmentos[t]
    /\ accionLRU' = Nadie
    /\ Ir(c, "drop_lfs")
    /\ ped' = [d \in Clientes |-> SinSegmento(ped[d], {t})]
    /\ UNCHANGED <<reloj, bloque, journalHecho, verificar, escritor, lectores,
                   journal, pedidos, vivo, externo>>

DropLfs(c) ==
    LET t == ped[c].tabla IN
    /\ pc[c] = "drop_lfs"
    /\ lfsTablas' = lfsTablas \ {t}
    /\ lfs' = [lfs EXCEPT ![t] = [k \in Claves |-> 0]]
    /\ Contestar(c)
    /\ UNCHANGED <<reloj, paginas, cerrojos, journal, pedidos, vivo>>

DropError(c) ==
    /\ pc[c] = "drop_lfs"
    /\ LfsFalla
    /\ Contestar(c)
    /\ UNCHANGED <<reloj, paginas, cerrojos, journal, pedidos, vivo, externo>>

----------------------------------------------------------------------------
(* The journal: resolver_journal, procesoJournal, JOURNAL *)

JournalPedir(c) == Empezar(c, "JOURNAL", "jou_rw", PedidoNulo)

JournalTomarRw(c) ==
    /\ pc[c] = "jou_rw"
    /\ RwLibre
    /\ escritor' = c
    /\ Seguir(c, "jou_hecho")
    /\ UNCHANGED <<reloj, paginas, accionLRU, journalHecho, verificar, lectores,
                   journal, pedidos, vivo, externo>>

\* procesoJournal: the thread of the automatic journal is cancelled.
JournalBloquear(c) ==
    /\ pc[c] = "jou_hecho"
    /\ journalHecho = Nadie
    /\ journalHecho' = c
    /\ cancelados' = cancelados \cup {journalHilo}
    /\ Seguir(c, "jou_recolectar")
    /\ UNCHANGED <<reloj, paginas, accionLRU, verificar, escritor, lectores,
                   journalHilo, envio, pasados, pedidos, vivo, externo>>

JournalRecolectarSinPonerEnCero(x) ==
    /\ pc[x] = "jou_recolectar"
    /\ x \notin cancelados
    /\ envio' = Modificadas
    /\ Seguir(x, "jou_enviar")
    /\ UNCHANGED <<reloj, paginas, cerrojos, journalHilo, cancelados, pasados,
                   pedidos, vivo, externo>>

JournalRecolectar(x) ==
    /\ pc[x] = "jou_recolectar"
    /\ x \notin cancelados
    /\ envio' = Modificadas
    /\ pasados' = 0
    /\ Seguir(x, "jou_enviar")
    /\ UNCHANGED <<reloj, paginas, cerrojos, journalHilo, cancelados, pedidos,
                   vivo, externo>>

\* pasarValoresALisandra finds no LFS to connect to.
JournalSinConexion(x) ==
    /\ pc[x] = "jou_recolectar"
    /\ x \notin cancelados
    /\ LfsFalla
    /\ envio' = {}
    /\ pasados' = -1
    /\ Seguir(x, "jou_enviar")
    /\ UNCHANGED <<reloj, paginas, cerrojos, journalHilo, cancelados, pedidos,
                   vivo, externo>>

Mayor(m, n) == IF m > n THEN m ELSE n

\* One INSERT is sent to the LFS, which answers with an error when it does not
\* have the table.
JournalEnviar(x, r) ==
    /\ pc[x] = "jou_enviar"
    /\ r \in envio
    /\ envio' = envio \ {r}
    /\ \/ /\ r.tabla \in lfsTablas
          /\ lfs' = [lfs EXCEPT ![r.tabla][r.key] = Mayor(@, r.ts)]
          /\ pasados' = pasados + 1
       \/ /\ r.tabla \notin lfsTablas
          /\ UNCHANGED <<lfs, pasados>>
    /\ UNCHANGED <<reloj, paginas, cerrojos, pc, ped, journalHilo, cancelados,
                   pedidos, vivo, lfsTablas>>

\* The LFS goes away, before or after it takes the record: the rest is not sent.
JournalCortado(x, r) ==
    /\ pc[x] = "jou_enviar"
    /\ LfsFalla
    /\ r \in envio
    /\ envio' = {}
    /\ \/ UNCHANGED lfs
       \/ /\ r.tabla \in lfsTablas
          /\ lfs' = [lfs EXCEPT ![r.tabla][r.key] = Mayor(@, r.ts)]
    /\ UNCHANGED <<reloj, paginas, cerrojos, pc, ped, journalHilo, cancelados,
                   pasados, pedidos, vivo, lfsTablas>>

\* limpiezaGlobalDeMemoriaYSegmentos, whatever was sent.
Limpiar ==
    /\ bitmap' = {}
    /\ segmentos' = [t \in Tablas |-> {}]

\* A DROP has a pointer to freed memory; the answer of the LFS that a SELECT is
\* about to put in a page is from before.
Limpiado(d) ==
    [SinSegmento(ped[d], Tablas) EXCEPT
        !.limpiado = @ \/ (ped[d].cmd = "SELECT" /\ pc[d] \in Insertando)]

\* JOURNAL for a request, and the end of procesoJournal: a new thread.
JournalFin(c) ==
    /\ pc[c] = "jou_enviar"
    /\ envio = {}
    /\ ped[c].cmd = "JOURNAL"
    /\ Limpiar
    /\ journalHilo' = journalHilo + 1
    /\ journalHecho' = Nadie
    /\ escritor' = Nadie
    /\ pc' = [pc EXCEPT ![c] = "libre", ![journalHilo + 1] = "durmiendo"]
    /\ ped' = [d \in Clientes |-> IF d = c THEN PedidoNulo
                                  ELSE Limpiado(d)]
    /\ UNCHANGED <<reloj, bloque, accionLRU, verificar, lectores, cancelados,
                   envio, pasados, pedidos, vivo, externo>>

JournalFinLruSinHilo(c) ==
    /\ pc[c] = "jou_enviar"
    /\ envio = {}
    /\ ped[c].cmd # "JOURNAL"
    /\ Limpiar
    /\ journalHecho' = Nadie
    /\ accionLRU' = Nadie
    /\ pc' = [pc EXCEPT ![c] = "ins_rebuscar"]
    /\ ped' = [d \in Clientes |-> Limpiado(d)]
    /\ UNCHANGED <<reloj, bloque, verificar, escritor, lectores, journalHilo,
                   cancelados, envio, pasados, pedidos, vivo, externo>>

\* The same in an LRU, which ends with it.
JournalFinLru(c) ==
    /\ pc[c] = "jou_enviar"
    /\ envio = {}
    /\ ped[c].cmd # "JOURNAL"
    /\ Limpiar
    /\ journalHilo' = journalHilo + 1
    /\ journalHecho' = Nadie
    /\ accionLRU' = Nadie
    /\ pc' = [pc EXCEPT ![c] = "ins_rebuscar", ![journalHilo + 1] = "durmiendo"]
    /\ ped' = [d \in Clientes |-> Limpiado(d)]
    /\ UNCHANGED <<reloj, bloque, verificar, escritor, lectores, cancelados,
                   envio, pasados, pedidos, vivo, externo>>

----------------------------------------------------------------------------
(* The automatic journal: retardo_journal *)

HiloDespertar(h) ==
    /\ Automatico
    /\ pc[h] = "durmiendo"
    /\ h \notin cancelados
    /\ Seguir(h, "tim_hecho")
    /\ UNCHANGED <<reloj, paginas, cerrojos, journal, pedidos, vivo, externo>>

HiloTomarHecho(h) ==
    /\ pc[h] = "tim_hecho"
    /\ journalHecho = Nadie
    /\ journalHecho' = h
    /\ Seguir(h, "tim_bitmap")
    /\ UNCHANGED <<reloj, paginas, accionLRU, verificar, escritor, lectores,
                   journal, pedidos, vivo, externo>>

HiloTomarBitmap(h) ==
    /\ pc[h] = "tim_bitmap"
    /\ verificar = Nadie
    /\ verificar' = h
    /\ Seguir(h, "tim_rw")
    /\ UNCHANGED <<reloj, paginas, accionLRU, journalHecho, escritor, lectores,
                   journal, pedidos, vivo, externo>>

HiloTomarRwSinEsperar(h) ==
    /\ pc[h] = "tim_rw"
    /\ Seguir(h, "jou_recolectar")
    /\ UNCHANGED <<reloj, paginas, cerrojos, journal, pedidos, vivo, externo>>

HiloTomarRw(h) ==
    /\ pc[h] = "tim_rw"
    /\ RwLibre
    /\ escritor' = h
    /\ Seguir(h, "jou_recolectar")
    /\ UNCHANGED <<reloj, paginas, accionLRU, journalHecho, verificar, lectores,
                   journal, pedidos, vivo, externo>>

\* JOURNAL unlocks JOURNALHecho for this thread (activo_retardo_journal).
JournalFinHilo(h) ==
    /\ pc[h] = "jou_enviar"
    /\ envio = {}
    /\ Limpiar
    /\ journalHecho' = Nadie
    /\ escritor' = Nadie
    /\ Ir(h, "tim_informe")
    /\ ped' = [d \in Clientes |-> Limpiado(d)]
    /\ UNCHANGED <<reloj, bloque, accionLRU, verificar, lectores, journal,
                   pedidos, vivo, externo>>

HiloInformar(h) ==
    /\ pc[h] = "tim_informe"
    /\ verificar' = Nadie
    /\ Seguir(h, "durmiendo")
    /\ UNCHANGED <<reloj, paginas, accionLRU, journalHecho, escritor, lectores,
                   journal, pedidos, vivo, externo>>

\* A thread that was cancelled ends where it sleeps (it does not wake) or writes
\* to the log, with the locks it holds; not where it waits for a lock.
HiloMorir(h) ==
    /\ h \in cancelados
    /\ pc[h] \in {"jou_recolectar", "tim_informe"}
    /\ Seguir(h, "muerto")
    /\ UNCHANGED <<reloj, paginas, cerrojos, journal, pedidos, vivo, externo>>

----------------------------------------------------------------------------
(* Faults *)

\* What a DROP leaves others with: a frame it freed after the bitmap was found
\* full, whose LRU node is now garbage and may be chosen, or a frame that is in
\* no segment; a segment that was freed; a page that is no more. A DROP itself
\* frees again a segment that a journal freed.
Falla(c) ==
    /\ \/ /\ pc[c] = "ins_accion"
          /\ accionLRU = Nadie
          /\ \/ bitmap # Marcos
             \/ \E f \in Candidatos : f \notin segmentos[bloque[f].tabla]
       \/ pc[c] = "ins_crear" /\ ped[c].seg = "liberado"
       \/ pc[c] = "drop_borrar" /\ ped[c].seg = "liberado"
       \/ /\ pc[c] = "sel_leer"
          /\ Paginas(ped[c].tabla, ped[c].key) = {}
    /\ Caer

----------------------------------------------------------------------------
(* The system *)

Pedir(c) ==
    \/ \E t \in Tablas, k \in Claves : InsertPedir(c, t, k)
    \/ \E t \in Tablas, k \in Claves, m \in Tiempos : SelectPedir(c, t, k, m)
    \/ \E t \in Tablas : DropPedir(c, t)
    \/ JournalPedir(c)

PasoJournal(x) ==
    \/ JournalRecolectar(x)
    \/ JournalSinConexion(x)
    \/ \E r \in envio : JournalEnviar(x, r)
    \/ \E r \in envio : JournalCortado(x, r)

PasoCliente(c) ==
    \/ InsertEsperar(c)
    \/ InsertTomarRw(c)
    \/ InsertBuscar(c)
    \/ InsertHayMarco(c)
    \/ InsertBitmapLleno(c)
    \/ \E f \in Marcos : LruReemplazar(c, f)
    \/ LruSinCandidato(c)
    \/ InsertRebuscar(c)
    \/ \E f \in Marcos : InsertCrear(c, f)
    \/ InsertModificar(c)
    \/ SelectNoEsta(c)
    \/ SelectEsta(c)
    \/ \E f \in Marcos : SelectLeer(c, f)
    \/ SelectSinPagina(c)
    \/ SelectLfs(c)
    \/ SelectError(c)
    \/ SelectResponder(c)
    \/ DropSinSegmento(c)
    \/ DropBuscar(c)
    \/ DropBorrar(c)
    \/ DropLfs(c)
    \/ DropError(c)
    \/ JournalTomarRw(c)
    \/ JournalBloquear(c)
    \/ PasoJournal(c)
    \/ JournalFin(c)
    \/ JournalFinLru(c)
    \/ Falla(c)

PasoHilo(h) ==
    \/ HiloDespertar(h)
    \/ HiloTomarHecho(h)
    \/ HiloTomarBitmap(h)
    \/ HiloTomarRw(h)
    \/ PasoJournal(h)
    \/ JournalFinHilo(h)
    \/ HiloInformar(h)
    \/ HiloMorir(h)

Next ==
    \/ Tick
    \/ Terminar
    \/ \E c \in Clientes : Pedir(c)
    \/ \E c \in Clientes : PasoCliente(c)
    \/ \E h \in Hilos : PasoHilo(h)

\* The threads of the requests run, and the LFS answers or closes the socket.
\* A lock that stays free is given to who waits for it.
Fairness ==
    /\ \A c \in Clientes : WF_vars(PasoCliente(c))
    /\ \A h \in Hilos : WF_vars(PasoHilo(h))

Spec == Init /\ [][Next]_vars /\ Fairness

----------------------------------------------------------------------------
(* Properties *)

TypeOK ==
    /\ reloj \in Tiempos
    /\ bloque \in [Marcos -> Pagina]
    /\ bitmap \subseteq Marcos
    /\ segmentos \in [Tablas -> SUBSET Marcos]
    /\ accionLRU \in Clientes \cup {Nadie}
    /\ journalHecho \in Hebras \cup {Nadie}
    /\ verificar \in Hebras \cup {Nadie}
    /\ escritor \in Hebras \cup {Nadie}
    /\ lectores \subseteq Clientes
    /\ pc \in [Hebras -> PCs]
    /\ ped \in [Clientes -> Pedido]
    /\ journalHilo \in Hilos
    /\ cancelados \subseteq Hilos
    /\ envio \subseteq [tabla : Tablas, key : Claves, ts : Tiempos]
    /\ pasados \in -1..CantPaginas
    /\ pedidos \in 0..MaxPedidos
    /\ vivo \in BOOLEAN
    /\ lfs \in [Tablas -> [Claves -> Tiempos]]
    /\ lfsTablas \subseteq Tablas

\* A segment has at most one page of each key: an INSERT and the fill of a
\* SELECT that both miss do not both create one.
UnaPaginaPorClave ==
    \A t \in Tablas, f, g \in Marcos :
        {f, g} \subseteq segmentos[t] /\ bloque[f].key = bloque[g].key => f = g

\* The bitmap and the segments agree: a page of a segment is in a frame that is
\* in use, by that table, and by no other segment.
SegmentosEnBitmap ==
    \A t \in Tablas : \A f \in segmentos[t] :
        /\ f \in bitmap
        /\ bloque[f].tabla = t
        /\ \A u \in Tablas \ {t} : f \notin segmentos[u]

\* Whoever is going to create a page has a free frame: what LRU or a journal
\* has freed is not taken by another, and buscarPaginaDisponible is not -1.
HayMarcoParaCrear ==
    \A c \in Clientes : pc[c] = "ins_crear" => bitmap # Marcos

\* A SELECT of a table that is not being deleted answers the newest record that
\* was inserted before it started, or a newer one; unless it reads a page that
\* was filled with an answer the LFS gave before a journal.
SelectAlDia ==
    \A c \in Clientes :
        pc[c] = "sel_responder" /\ ~DeBaja(ped[c].tabla)
            => ped[c].ts >= ped[c].piso

\* Cancelling the automatic journal never leaves the process without it: when
\* no procesoJournal is in progress, journalHilo is a thread that goes on.
HiloVigente ==
    vivo /\ journalHecho \notin Clientes
        => journalHilo \notin cancelados

\* A request that is accepted is answered.
TodoPedidoTermina == \A c \in Clientes : pc[c] # "libre" ~> pc[c] = "libre"

Alm == INSTANCE Almacen WITH
          reg <- [t \in Tablas |-> Registrados(t)],
          deBaja <- {t \in Tablas : DeBaja(t)},
          sano <- vivo

\* While the LFS answers, a record that was inserted is forgotten only for a
\* newer one of its key, by a DROP or with the process, whatever is replaced,
\* journalled or filled.
AlmacenSpec == Alm!Spec
============================================================================
