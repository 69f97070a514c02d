-------------------------------- MODULE LFS --------------------------------
(***************************************************************************)
(* The storage engine of the LissandraFileSystem process: the memtable,    *)
(* the dump of the memtable to .tmp files, the compaction of a table into  *)
(* its .bin partitions, and the requests INSERT, SELECT, CREATE and DROP,  *)
(* which every connection's thread (and the console's) runs concurrently   *)
(* with the dump thread and with one compaction thread per table.          *)
(*                                                                         *)
(* The step of a thread is what it does between two points at which        *)
(* another thread can be observed: a lock it waits for, an unlock, or a    *)
(* file other threads read. The process may end between any two steps; the *)
(* files of one kind that a step renames or removes go together.           *)
(*                                                                         *)
(* A file is the set of its records; the blocks it is stored in are left   *)
(* out.                                                                    *)
(*                                                                         *)
(* A definition whose name ends in Sin..., DeMas or DesdeUno is not of the *)
(* code: it is the next definition with a mistake in it, with which the    *)
(* properties are seen to fail.                                            *)
(***************************************************************************)
EXTENDS Naturals, ConjuntosDeRegistros

CONSTANTS
    Tablas,       \* names of tables
    Claves,       \* keys: numbers of 16 bits
    Particiones,  \* the PARTITIONS of every table
    Clientes,     \* threads that resolve requests (hilo_cliente, consola)
    Pedidos,      \* the requests the clients send
    Iniciales,    \* tables that are on disk when the process first starts
    MaxTs,        \* bound: timestamps are 1..MaxTs, 0 is "no record"
    MaxDumps,     \* bound: dumps between two starts of the process
    MaxCaidas     \* bound: restarts of the process

Comandos == {"INSERT", "SELECT", "CREATE", "DROP"}

ASSUME LFSAssumption ==
    /\ Tablas # {}
    /\ Claves # {} /\ Claves \subseteq Nat
    /\ Particiones \in Nat \ {0}
    /\ Pedidos \subseteq Comandos
    /\ Iniciales \subseteq Tablas
    /\ MaxTs \in Nat
    /\ MaxDumps \in Nat
    /\ MaxCaidas \in Nat

Registros == [key : Claves, ts : 1..MaxTs]
Nums == 0..(MaxDumps - 1)      \* numbers of its .tmp and .tmpc files
Parts == 0..(Particiones - 1)  \* numbers of its .bin files

VARIABLES
    (* on disk *)
    existe,      \* tables that have a directory
    metadata,    \* tables whose metadata file is complete
    tmp,         \* tmp[t][n]: records of <n>.tmp, {} when there is no file
    tmpc,        \* tmpc[t][n]: records of <n>.tmpc
    bin,         \* bin[t][i]: records of <i>.bin
    hayBin,      \* hayBin[t]: the partitions that have a file
    (* in memory *)
    memtable,    \* memtable[t]: records, {} when the dictionary has no entry
    insertadas,  \* listaTablasInsertadas
    huerfanas,   \* history: tables whose memtable has records that were added
                 \* while a DROP was deleting the table, or had deleted it
    semaforos,   \* tables that have an entry in dicSemTablas
    rwMem,       \* who holds sem_rw_memtable for writing across steps
    rwTabla,     \* rwTabla[t]: who holds rwLockTabla for writing across steps
    dropMx,      \* dropMx[t]: who holds drop_mx
    (* threads *)
    pc, ped,         \* the clients: where each one is, and its request
    dump,            \* the dump thread
    pendientes,      \* tables the dump in progress has not written yet
    cantidadDumps,   \* cantidad_de_dumps
    comp,            \* comp[t]: the compaction thread of t
    listados,        \* listados[t]: the .tmp files it found
    listas,          \* listas[t][i]: i-th list of registros_tabla
    nListas,         \* nListas[t]: length of registros_tabla
    (* the process *)
    vivo,        \* the process is running
    caidas       \* times it was started again

disco == <<existe, metadata, tmp, tmpc, bin, hayBin>>
archivos == <<tmp, tmpc, bin, hayBin>>
memoria == <<memtable, insertadas, huerfanas>>
cerrojos == <<semaforos, rwMem, rwTabla, dropMx>>
clientes == <<pc, ped>>
volcado == <<dump, pendientes, cantidadDumps>>
compactacion == <<comp, listados, listas, nListas>>
proceso == <<vivo, caidas>>
vars == <<disco, memoria, cerrojos, clientes, volcado, compactacion, proceso>>

----------------------------------------------------------------------------
(* Records *)

RegsTmp(t) == UNION {tmp[t][n] : n \in Nums}
RegsTmpc(t) == UNION {tmpc[t][n] : n \in Nums}
RegsBin(t) == UNION {bin[t][i] : i \in Parts}
RegsListas(t) == UNION {listas[t][i] : i \in Parts}

Reescribiendo(t) == comp[t] \in {"borrar_bin", "guardar"}

\* What the process knows of a table: its files, the memtable, and, while the
\* compaction replaces the files, the lists it is about to write.
EnDisco(t) ==
    RegsTmp(t) \cup RegsTmpc(t) \cup RegsBin(t)
      \cup (IF Reescribiendo(t) THEN RegsListas(t) ELSE {})
Visible(t) == memtable[t] \cup EnDisco(t)

----------------------------------------------------------------------------
(* States *)

PCs == {"libre",
        "ins_memtable",
        "sel_semaforo", "sel_disco", "sel_memtable", "sel_respuesta",
        "cre_directorio", "cre_semaforos", "cre_metadata", "cre_particiones",
        "drop_semaforo", "drop_mx", "drop_rw", "drop_memtable", "drop_bin",
        "drop_tmp", "drop_metadata", "drop_directorio", "drop_fin"}

EstadosComp == {"sin_hilo", "durmiendo", "por_bloquear", "renombrar", "leer",
                "por_escribir", "borrar_tmpc", "borrar_bin", "guardar"}

Creando == {"cre_directorio", "cre_semaforos", "cre_metadata",
            "cre_particiones"}
\* Where a DROP holds the table's drop_mx, and where its rwLockTabla too.
DropConRw == {"drop_memtable", "drop_bin", "drop_tmp", "drop_metadata",
              "drop_directorio", "drop_fin"}
DropConMx == DropConRw \cup {"drop_rw"}
Borrando == DropConMx \cup {"drop_semaforo", "drop_mx"}

\* A request: its table, key and timestamp. For a SELECT ts is the newest
\* timestamp read so far; piso and volcado are history: the newest timestamp
\* the process knew when the SELECT started, and whether a dump ended between
\* its read of the files and its read of the memtable.
Pedido == [tabla : Tablas, key : Claves, ts : 0..MaxTs, piso : 0..MaxTs,
           volcado : BOOLEAN]
PedidoNulo == [tabla |-> CHOOSE t \in Tablas : TRUE,
               key |-> CHOOSE k \in Claves : TRUE,
               ts |-> 0, piso |-> 0, volcado |-> FALSE]

Init ==
    /\ existe = Iniciales
    /\ metadata = Iniciales
    /\ tmp = [t \in Tablas |-> [n \in Nums |-> {}]]
    /\ tmpc = [t \in Tablas |-> [n \in Nums |-> {}]]
    /\ bin = [t \in Tablas |-> [i \in Parts |-> {}]]
    /\ hayBin = [t \in Tablas |-> IF t \in Iniciales THEN Parts ELSE {}]
    /\ memtable = [t \in Tablas |-> {}]
    /\ insertadas = {}
    /\ huerfanas = {}
    /\ semaforos = Iniciales
    /\ rwMem = "libre"
    /\ rwTabla = [t \in Tablas |-> "libre"]
    /\ dropMx = [t \in Tablas |-> "libre"]
    /\ pc = [c \in Clientes |-> "libre"]
    /\ ped = [c \in Clientes |-> PedidoNulo]
    /\ dump = "durmiendo"
    /\ pendientes = {}
    /\ cantidadDumps = 0
    /\ comp = [t \in Tablas |-> IF t \in Iniciales THEN "durmiendo"
                                ELSE "sin_hilo"]
    /\ listados = [t \in Tablas |-> {}]
    /\ listas = [t \in Tablas |-> [i \in Parts |-> {}]]
    /\ nListas = [t \in Tablas |-> 0]
    /\ vivo = TRUE
    /\ caidas = 0

----------------------------------------------------------------------------
(* The end of the process, and its start *)

\* The process ends, killed, by a signal (INThandler), by SALIR (cerrarTodo) or
\* by a fault: the files stay, whatever it had in memory is gone. The memtable
\* is not dumped in any of these cases.
Caer ==
    /\ vivo' = FALSE
    /\ memtable' = [t \in Tablas |-> {}]
    /\ insertadas' = {}
    /\ huerfanas' = {}
    /\ semaforos' = {}
    /\ rwMem' = "libre"
    /\ rwTabla' = [t \in Tablas |-> "libre"]
    /\ dropMx' = [t \in Tablas |-> "libre"]
    /\ pc' = [c \in Clientes |-> "libre"]
    /\ ped' = [c \in Clientes |-> PedidoNulo]
    /\ dump' = "durmiendo"
    /\ pendientes' = {}
    /\ cantidadDumps' = 0
    /\ comp' = [t \in Tablas |-> "sin_hilo"]
    /\ listados' = [t \in Tablas |-> {}]
    /\ listas' = [t \in Tablas |-> [i \in Parts |-> {}]]
    /\ nListas' = [t \in Tablas |-> 0]
    /\ UNCHANGED <<disco, caidas>>

Terminar ==
    /\ vivo
    /\ caidas < MaxCaidas
    /\ Caer

\* LisandraSetUP and iniciarSemaforosCompactacion: every directory found gets
\* its locks and its compaction thread; one without metadata is a fault, so
\* such a process does not start. cantidad_de_dumps starts at 0 again.
Levantar ==
    /\ ~vivo
    /\ caidas < MaxCaidas
    /\ existe \subseteq metadata
    /\ vivo' = TRUE
    /\ caidas' = caidas + 1
    /\ semaforos' = existe
    /\ comp' = [t \in Tablas |-> IF t \in existe THEN "durmiendo"
                                 ELSE "sin_hilo"]
    /\ UNCHANGED <<disco, memoria, rwMem, rwTabla, dropMx, clientes, volcado,
                   listados, listas, nListas>>

----------------------------------------------------------------------------
(* Requests *)

\* Client c starts a request on table t and goes to pc p.
Empezar(c, cmd, p, r) ==
    /\ vivo
    /\ cmd \in Pedidos
    /\ pc[c] = "libre"
    /\ pc' = [pc EXCEPT ![c] = p]
    /\ ped' = [ped EXCEPT ![c] = r]

\* Client c goes on to pc p with the same request.
Seguir(c, p) ==
    /\ pc' = [pc EXCEPT ![c] = p]
    /\ UNCHANGED ped

\* The request is answered; nothing of the answer matters to what follows.
Contestar(c) ==
    /\ pc' = [pc EXCEPT ![c] = "libre"]
    /\ ped' = [ped EXCEPT ![c] = PedidoNulo]

\* Some client is at one of the pcs with a request on t.
Ocupada(t, pcs) == \E d \in Clientes : pc[d] \in pcs /\ ped[d].tabla = t

\* The table does not exist, or a DROP is deleting it.
DeBaja(t) == t \notin existe \/ Ocupada(t, DropConRw)

Nuevo(t, k, m) == [PedidoNulo EXCEPT !.tabla = t, !.key = k, !.ts = m]

(* INSERT. verificarTabla, then under sem_rw_memtable the record is added. *)
(* A table without a directory is answered with an error, and a value or   *)
(* key with ';' with RESP_OK and nothing else: neither changes any state.  *)
InsertVerificar(c, t, k, m) ==
    /\ t \in existe
    /\ Empezar(c, "INSERT", "ins_memtable", Nuevo(t, k, m))
    /\ UNCHANGED <<disco, memoria, cerrojos, volcado, compactacion, proceso>>

InsertAgregarSinCerrojo(c) ==
    LET t == ped[c].tabla IN
    /\ pc[c] = "ins_memtable"
    /\ memtable' = [memtable EXCEPT ![t] =
                      @ \cup {[key |-> ped[c].key, ts |-> ped[c].ts]}]
    /\ insertadas' = insertadas \cup {t}
    /\ huerfanas' = IF DeBaja(t) THEN huerfanas \cup {t} ELSE huerfanas
    /\ Contestar(c)
    /\ UNCHANGED <<disco, cerrojos, volcado, compactacion, proceso>>

InsertAgregar(c) ==
    LET t == ped[c].tabla IN
    /\ pc[c] = "ins_memtable"
    /\ rwMem = "libre"
    /\ memtable' = [memtable EXCEPT ![t] =
                      @ \cup {[key |-> ped[c].key, ts |-> ped[c].ts]}]
    /\ insertadas' = insertadas \cup {t}
    /\ huerfanas' = IF DeBaja(t) THEN huerfanas \cup {t} ELSE huerfanas
    /\ Contestar(c)
    /\ UNCHANGED <<disco, cerrojos, volcado, compactacion, proceso>>

(* SELECT. The files are read under the table's lock and, once it is        *)
(* released, the memtable under its own; the newest record of both wins.   *)
SelectVerificar(c, t, k, m) ==
    /\ t \in existe
    /\ EsUltimo(m, Visible(t), k)
    /\ Empezar(c, "SELECT", "sel_semaforo",
               [Nuevo(t, k, 0) EXCEPT !.piso = m])
    /\ UNCHANGED <<disco, memoria, cerrojos, volcado, compactacion, proceso>>

SelectSemaforo(c) ==
    /\ pc[c] = "sel_semaforo"
    /\ ped[c].tabla \in semaforos
    /\ Seguir(c, "sel_disco")
    /\ UNCHANGED <<disco, memoria, cerrojos, volcado, compactacion, proceso>>

LeidoSinTmpc(t, k) ==
    bin[t][ParticionDe(k, Particiones)] \cup RegsTmp(t)

\* The partition of the key, which stops at the first record found, and all
\* of the .tmp and .tmpc files.
LeidoEnDisco(t, k) ==
    bin[t][ParticionDe(k, Particiones)] \cup RegsTmp(t) \cup RegsTmpc(t)

SelectLeerDisco(c, m) ==
    LET t == ped[c].tabla IN
    /\ pc[c] = "sel_disco"
    /\ t \in existe
    /\ t \in semaforos
    /\ rwTabla[t] = "libre"
    /\ EsUltimo(m, LeidoEnDisco(t, ped[c].key), ped[c].key)
    /\ pc' = [pc EXCEPT ![c] = "sel_memtable"]
    /\ ped' = [ped EXCEPT ![c].ts = m]
    /\ UNCHANGED <<disco, memoria, cerrojos, volcado, compactacion, proceso>>

\* A DROP freed the lock the SELECT was waiting for, and if that is no fault
\* the metadata is not found: the answer is RESP_ERROR_METADATA.
SelectTablaBorrada(c) ==
    /\ pc[c] = "sel_disco"
    /\ ped[c].tabla \notin existe
    /\ ped[c].tabla \notin semaforos
    /\ Contestar(c)
    /\ UNCHANGED <<disco, memoria, cerrojos, volcado, compactacion, proceso>>

SelectLeerMemtable(c, m) ==
    /\ pc[c] = "sel_memtable"
    /\ rwMem = "libre"
    /\ EsUltimo(m, memtable[ped[c].tabla], ped[c].key)
    /\ pc' = [pc EXCEPT ![c] = "sel_respuesta"]
    /\ ped' = [ped EXCEPT ![c].ts = IF m > @ THEN m ELSE @]
    /\ UNCHANGED <<disco, memoria, cerrojos, volcado, compactacion, proceso>>

SelectResponder(c) ==
    /\ pc[c] = "sel_respuesta"
    /\ Contestar(c)
    /\ UNCHANGED <<disco, memoria, cerrojos, volcado, compactacion, proceso>>

(* CREATE. A table that has a directory is answered with an error. A CREATE *)
(* while another client creates or drops the same table is left out.       *)
CreateVerificar(c, t) ==
    /\ t \notin existe
    /\ ~Ocupada(t, Creando \cup Borrando)
    /\ Empezar(c, "CREATE", "cre_directorio",
               [PedidoNulo EXCEPT !.tabla = t])
    /\ UNCHANGED <<disco, memoria, cerrojos, volcado, compactacion, proceso>>

\* mkdir, and fopen of the metadata, which stays empty until it is written.
CreateDirectorio(c) ==
    /\ pc[c] = "cre_directorio"
    /\ existe' = existe \cup {ped[c].tabla}
    /\ Seguir(c, "cre_semaforos")
    /\ UNCHANGED <<metadata, archivos, memoria, cerrojos, volcado,
                   compactacion, proceso>>

CreateSemaforos(c) ==
    /\ pc[c] = "cre_semaforos"
    /\ semaforos' = semaforos \cup {ped[c].tabla}
    /\ Seguir(c, "cre_metadata")
    /\ UNCHANGED <<disco, memoria, rwMem, rwTabla, dropMx, volcado,
                   compactacion, proceso>>

CreateMetadata(c) ==
    /\ pc[c] = "cre_metadata"
    /\ metadata' = metadata \cup {ped[c].tabla}
    /\ Seguir(c, "cre_particiones")
    /\ UNCHANGED <<existe, archivos, memoria, cerrojos, volcado,
                   compactacion, proceso>>

\* One empty file per partition, in order.
CreateParticion(c, i) ==
    LET t == ped[c].tabla IN
    /\ pc[c] = "cre_particiones"
    /\ hayBin[t] = 0..(i - 1)
    /\ hayBin' = [hayBin EXCEPT ![t] = @ \cup {i}]
    /\ UNCHANGED <<existe, metadata, tmp, tmpc, bin, memoria, cerrojos,
                   clientes, volcado, compactacion, proceso>>

\* The compaction thread starts, asleep.
CreateHilo(c) ==
    LET t == ped[c].tabla IN
    /\ pc[c] = "cre_particiones"
    /\ hayBin[t] = Parts
    /\ comp' = [comp EXCEPT ![t] = "durmiendo"]
    /\ Contestar(c)
    /\ UNCHANGED <<disco, memoria, cerrojos, volcado, listados, listas,
                   nListas, proceso>>

(* DROP. drop_mx, the table's lock and the memtable's are taken in this     *)
(* order; the last one is released before the files are removed.           *)
DropVerificar(c, t) ==
    /\ t \in existe
    /\ ~Ocupada(t, Creando)
    /\ Empezar(c, "DROP", "drop_semaforo", [PedidoNulo EXCEPT !.tabla = t])
    /\ UNCHANGED <<disco, memoria, cerrojos, volcado, compactacion, proceso>>

DropSemaforo(c) ==
    /\ pc[c] = "drop_semaforo"
    /\ ped[c].tabla \in semaforos
    /\ Seguir(c, "drop_mx")
    /\ UNCHANGED <<disco, memoria, cerrojos, volcado, compactacion, proceso>>

DropMxSinEsperar(c) ==
    LET t == ped[c].tabla IN
    /\ pc[c] = "drop_mx"
    /\ t \in semaforos
    /\ dropMx' = [dropMx EXCEPT ![t] = "drop"]
    /\ Seguir(c, "drop_rw")
    /\ UNCHANGED <<disco, memoria, semaforos, rwMem, rwTabla, volcado,
                   compactacion, proceso>>

DropMx(c) ==
    LET t == ped[c].tabla IN
    /\ pc[c] = "drop_mx"
    /\ t \in semaforos
    /\ dropMx[t] = "libre"
    /\ dropMx' = [dropMx EXCEPT ![t] = "drop"]
    /\ Seguir(c, "drop_rw")
    /\ UNCHANGED <<disco, memoria, semaforos, rwMem, rwTabla, volcado,
                   compactacion, proceso>>

DropRw(c) ==
    LET t == ped[c].tabla IN
    /\ pc[c] = "drop_rw"
    /\ rwTabla[t] = "libre"
    /\ rwTabla' = [rwTabla EXCEPT ![t] = "drop"]
    /\ Seguir(c, "drop_memtable")
    /\ UNCHANGED <<disco, memoria, semaforos, rwMem, dropMx, volcado,
                   compactacion, proceso>>

DropMemtableSinLista(c) ==
    LET t == ped[c].tabla IN
    /\ pc[c] = "drop_memtable"
    /\ rwMem = "libre"
    /\ memtable' = [memtable EXCEPT ![t] = {}]
    /\ huerfanas' = huerfanas \ {t}
    /\ Seguir(c, "drop_bin")
    /\ UNCHANGED <<disco, insertadas, cerrojos, volcado, compactacion,
                   proceso>>

DropMemtable(c) ==
    LET t == ped[c].tabla IN
    /\ pc[c] = "drop_memtable"
    /\ rwMem = "libre"
    /\ memtable' = [memtable EXCEPT ![t] = {}]
    /\ insertadas' = insertadas \ {t}
    /\ huerfanas' = huerfanas \ {t}
    /\ Seguir(c, "drop_bin")
    /\ UNCHANGED <<disco, cerrojos, volcado, compactacion, proceso>>

\* eliminarTablaCompleta: the partitions, the .tmp and .tmpc files, the
\* metadata and, last, the directory.
DropParticiones(c) ==
    LET t == ped[c].tabla IN
    /\ pc[c] = "drop_bin"
    /\ bin' = [bin EXCEPT ![t] = [i \in Parts |-> {}]]
    /\ hayBin' = [hayBin EXCEPT ![t] = {}]
    /\ Seguir(c, "drop_tmp")
    /\ UNCHANGED <<existe, metadata, tmp, tmpc, memoria, cerrojos, volcado,
                   compactacion, proceso>>

DropTemporales(c) ==
    LET t == ped[c].tabla IN
    /\ pc[c] = "drop_tmp"
    /\ tmp' = [tmp EXCEPT ![t] = [n \in Nums |-> {}]]
    /\ tmpc' = [tmpc EXCEPT ![t] = [n \in Nums |-> {}]]
    /\ Seguir(c, "drop_metadata")
    /\ UNCHANGED <<existe, metadata, bin, hayBin, memoria, cerrojos, volcado,
                   compactacion, proceso>>

DropMetadata(c) ==
    /\ pc[c] = "drop_metadata"
    /\ metadata' = metadata \ {ped[c].tabla}
    /\ Seguir(c, "drop_directorio")
    /\ UNCHANGED <<existe, archivos, memoria, cerrojos, volcado,
                   compactacion, proceso>>

DropDirectorio(c) ==
    /\ pc[c] = "drop_directorio"
    /\ existe' = existe \ {ped[c].tabla}
    /\ Seguir(c, "drop_fin")
    /\ UNCHANGED <<metadata, archivos, memoria, cerrojos, volcado,
                   compactacion, proceso>>

\* pthread_cancel of the compaction thread, and the table's locks are taken
\* out of the dictionary, released and freed. A compaction thread that waits
\* for drop_mx is cancelled after it locks freed memory; a dump that waits for
\* the table's lock goes on, and has no directory to write to.
DropFin(c) ==
    LET t == ped[c].tabla IN
    /\ pc[c] = "drop_fin"
    /\ comp' = [comp EXCEPT ![t] = "sin_hilo"]
    /\ listados' = [listados EXCEPT ![t] = {}]
    /\ semaforos' = semaforos \ {t}
    /\ rwTabla' = [rwTabla EXCEPT ![t] = "libre"]
    /\ dropMx' = [dropMx EXCEPT ![t] = "libre"]
    /\ pendientes' \in {pendientes, pendientes \ {t}}
    /\ Contestar(c)
    /\ UNCHANGED <<disco, memoria, rwMem, dump, cantidadDumps, listas,
                   nListas, proceso>>

\* What ends the process in a request: the lock of a table that is not in
\* dicSemTablas, a null pointer, is locked (a DROP deleted the table, or its
\* CREATE has only made the directory); a lock is freed while this client, or
\* the compaction thread that this DROP cancels, waits for it; a SELECT uses
\* what an empty metadata file has not set, the number of partitions and a
\* pointer it frees.
FallaCliente(c) ==
    LET t == ped[c].tabla IN
    /\ \/ /\ pc[c] \in {"sel_semaforo", "sel_disco", "drop_semaforo",
                         "drop_mx"}
          /\ t \notin semaforos
       \/ /\ pc[c] = "sel_disco"
          /\ t \in existe \ metadata
          /\ rwTabla[t] = "libre"
       \/ /\ pc[c] = "drop_fin"
          /\ comp[t] = "por_bloquear"
    /\ Caer

----------------------------------------------------------------------------
(* The dump *)

\* The list of tables is looked at before any lock is taken.
DumpDespertar ==
    /\ dump = "durmiendo"
    /\ insertadas # {}
    /\ cantidadDumps < MaxDumps
    /\ dump' = "por_volcar"
    /\ UNCHANGED <<disco, memoria, cerrojos, clientes, pendientes,
                   cantidadDumps, compactacion, proceso>>

DumpBloquear ==
    /\ dump = "por_volcar"
    /\ rwMem = "libre"
    /\ rwMem' = "dump"
    /\ pendientes' = insertadas
    /\ dump' = "volcando"
    /\ UNCHANGED <<disco, memoria, semaforos, rwTabla, dropMx, clientes,
                   cantidadDumps, compactacion, proceso>>

DumpTablaSinEsperar(t) ==
    /\ dump = "volcando"
    /\ t \in pendientes \cap semaforos
    /\ tmp' = [tmp EXCEPT ![t][cantidadDumps] = memtable[t]]
    /\ pendientes' = pendientes \ {t}
    /\ UNCHANGED <<existe, metadata, tmpc, bin, hayBin, memoria, cerrojos,
                   clientes, dump, cantidadDumps, compactacion, proceso>>

\* crearArchivoTemporal. The tables are taken in any order.
DumpTabla(t) ==
    /\ dump = "volcando"
    /\ t \in pendientes \cap semaforos
    /\ rwTabla[t] = "libre"
    /\ tmp' = [tmp EXCEPT ![t][cantidadDumps] = memtable[t]]
    /\ pendientes' = pendientes \ {t}
    /\ UNCHANGED <<existe, metadata, tmpc, bin, hayBin, memoria, cerrojos,
                   clientes, dump, cantidadDumps, compactacion, proceso>>

\* A table that was dropped after an INSERT verified it has no lock, and a
\* null one is locked.
FallaDump ==
    /\ dump = "volcando"
    /\ ~(pendientes \subseteq semaforos)
    /\ Caer

DumpFinSinContar ==
    /\ dump = "volcando"
    /\ pendientes = {}
    /\ memtable' = [t \in Tablas |-> {}]
    /\ insertadas' = {}
    /\ huerfanas' = {}
    /\ rwMem' = "libre"
    /\ dump' = "durmiendo"
    /\ ped' = [c \in Clientes |->
                 [ped[c] EXCEPT !.volcado = @ \/ pc[c] = "sel_memtable"]]
    /\ UNCHANGED <<disco, cantidadDumps, semaforos, rwTabla, dropMx, pc,
                   pendientes, compactacion, proceso>>

DumpFin ==
    /\ dump = "volcando"
    /\ pendientes = {}
    /\ memtable' = [t \in Tablas |-> {}]
    /\ insertadas' = {}
    /\ huerfanas' = {}
    /\ rwMem' = "libre"
    /\ dump' = "durmiendo"
    /\ cantidadDumps' = cantidadDumps + 1
    /\ ped' = [c \in Clientes |->
                 [ped[c] EXCEPT !.volcado = @ \/ pc[c] = "sel_memtable"]]
    /\ UNCHANGED <<disco, semaforos, rwTabla, dropMx, pc, pendientes,
                   compactacion, proceso>>

----------------------------------------------------------------------------
(* The compaction *)

HayTmpDesdeUno(t) == {n \in Nums \ {0} : tmp[t][n] # {}}
\* obtenerArchivosDirectorio(path, ".tmp").
HayTmp(t) == {n \in Nums : tmp[t][n] # {}}

\* The .tmp files are listed before any lock is taken.
CoListar(t) ==
    /\ comp[t] = "durmiendo"
    /\ t \in existe
    /\ HayTmp(t) # {}
    /\ listados' = [listados EXCEPT ![t] = HayTmp(t)]
    /\ comp' = [comp EXCEPT ![t] = "por_bloquear"]
    /\ UNCHANGED <<disco, memoria, cerrojos, clientes, volcado, listas,
                   nListas, proceso>>

CoTomarMx(t) ==
    /\ comp[t] = "por_bloquear"
    /\ dropMx[t] = "libre"
    /\ dropMx' = [dropMx EXCEPT ![t] = "compactacion"]
    /\ comp' = [comp EXCEPT ![t] = "renombrar"]
    /\ UNCHANGED <<disco, memoria, semaforos, rwMem, rwTabla, clientes,
                   volcado, listados, listas, nListas, proceso>>

\* rename replaces a .tmpc file of the same number.
CoRenombrar(t) ==
    /\ comp[t] = "renombrar"
    /\ rwTabla[t] = "libre"
    /\ tmpc' = [tmpc EXCEPT ![t] =
                  [n \in Nums |-> IF n \in listados[t] THEN tmp[t][n]
                                  ELSE @[n]]]
    /\ tmp' = [tmp EXCEPT ![t] =
                  [n \in Nums |-> IF n \in listados[t] THEN {} ELSE @[n]]]
    /\ listados' = [listados EXCEPT ![t] = {}]
    /\ comp' = [comp EXCEPT ![t] = "leer"]
    /\ UNCHANGED <<existe, metadata, bin, hayBin, memoria, cerrojos, clientes,
                   volcado, listas, nListas, proceso>>

ListasDeMas(t, n) ==
    [i \in 0..n |->
        Fusion({r \in RegsTmpc(t) : ParticionDe(r.key, n) = i})]

ListasSinTmpc(t, n) ==
    [i \in Parts |-> IF i < n THEN Fusion(bin[t][i]) ELSE {}]

\* registros_tabla: one list for each of the n partitions that have a file,
\* with the records of the partition and those of the .tmpc files whose key is
\* of that list (actualizarListaRegistros).
ListasDe(t, n) ==
    [i \in Parts |->
        IF i < n
        THEN Fusion(bin[t][i] \cup
                      {r \in RegsTmpc(t) : ParticionDe(r.key, n) = i})
        ELSE {}]

CoLeer(t, n) ==
    /\ comp[t] = "leer"
    /\ hayBin[t] = 0..(n - 1)
    /\ listas' = [listas EXCEPT ![t] = ListasDe(t, n)]
    /\ nListas' = [nListas EXCEPT ![t] = n]
    /\ comp' = [comp EXCEPT ![t] = "por_escribir"]
    /\ UNCHANGED <<disco, memoria, cerrojos, clientes, volcado, listados,
                   proceso>>

CoTomarRwSinCerrojo(t) ==
    /\ comp[t] = "por_escribir"
    /\ rwTabla[t] = "libre"
    /\ comp' = [comp EXCEPT ![t] = "borrar_tmpc"]
    /\ UNCHANGED <<disco, memoria, cerrojos, clientes,
                   volcado, listados, listas, nListas, proceso>>

CoTomarRw(t) ==
    /\ comp[t] = "por_escribir"
    /\ rwTabla[t] = "libre"
    /\ rwTabla' = [rwTabla EXCEPT ![t] = "compactacion"]
    /\ comp' = [comp EXCEPT ![t] = "borrar_tmpc"]
    /\ UNCHANGED <<disco, memoria, semaforos, rwMem, dropMx, clientes,
                   volcado, listados, listas, nListas, proceso>>

CoBorrarTmpc(t) ==
    /\ comp[t] = "borrar_tmpc"
    /\ tmpc' = [tmpc EXCEPT ![t] = [n \in Nums |-> {}]]
    /\ comp' = [comp EXCEPT ![t] = "borrar_bin"]
    /\ UNCHANGED <<existe, metadata, tmp, bin, hayBin, memoria, cerrojos,
                   clientes, volcado, listados, listas, nListas, proceso>>

CoBorrarBin(t) ==
    /\ comp[t] = "borrar_bin"
    /\ bin' = [bin EXCEPT ![t] = [i \in Parts |-> {}]]
    /\ hayBin' = [hayBin EXCEPT ![t] = {}]
    /\ comp' = [comp EXCEPT ![t] = "guardar"]
    /\ UNCHANGED <<existe, metadata, tmp, tmpc, memoria, cerrojos, clientes,
                   volcado, listados, listas, nListas, proceso>>

\* guardarRegistrosParticion of list i: the partitions are written in order.
CoGuardar(t, i) ==
    /\ comp[t] = "guardar"
    /\ hayBin[t] = 0..(i - 1)
    /\ i < nListas[t]
    /\ bin' = [bin EXCEPT ![t][i] = listas[t][i]]
    /\ hayBin' = [hayBin EXCEPT ![t] = @ \cup {i}]
    /\ UNCHANGED <<existe, metadata, tmp, tmpc, memoria, cerrojos, clientes,
                   volcado, compactacion, proceso>>

CoFinSinDesbloquear(t) ==
    /\ comp[t] = "guardar"
    /\ hayBin[t] = 0..(nListas[t] - 1)
    /\ dropMx' = [dropMx EXCEPT ![t] = "libre"]
    /\ listas' = [listas EXCEPT ![t] = [i \in Parts |-> {}]]
    /\ nListas' = [nListas EXCEPT ![t] = 0]
    /\ comp' = [comp EXCEPT ![t] = "durmiendo"]
    /\ UNCHANGED <<disco, memoria, semaforos, rwMem, rwTabla, clientes,
                   volcado,
                   listados, proceso>>

CoFin(t) ==
    /\ comp[t] = "guardar"
    /\ hayBin[t] = 0..(nListas[t] - 1)
    /\ rwTabla' = [rwTabla EXCEPT ![t] = "libre"]
    /\ dropMx' = [dropMx EXCEPT ![t] = "libre"]
    /\ listas' = [listas EXCEPT ![t] = [i \in Parts |-> {}]]
    /\ nListas' = [nListas EXCEPT ![t] = 0]
    /\ comp' = [comp EXCEPT ![t] = "durmiendo"]
    /\ UNCHANGED <<disco, memoria, semaforos, rwMem, clientes, volcado,
                   listados, proceso>>

\* A directory that a DROP has removed gives a null list of .tmp files; a table
\* without partitions, a division by zero.
FallaCompactacion(t) ==
    /\ \/ comp[t] = "durmiendo" /\ t \notin existe
       \/ comp[t] = "leer" /\ hayBin[t] = {}
    /\ Caer

----------------------------------------------------------------------------
(* The system *)

Pedir(c, t) ==
    \/ \E k \in Claves, m \in 1..MaxTs : InsertVerificar(c, t, k, m)
    \/ \E k \in Claves, m \in 0..MaxTs : SelectVerificar(c, t, k, m)
    \/ CreateVerificar(c, t)
    \/ DropVerificar(c, t)

PasoCliente(c) ==
    \/ InsertAgregar(c)
    \/ SelectSemaforo(c)
    \/ \E m \in 0..MaxTs : SelectLeerDisco(c, m)
    \/ SelectTablaBorrada(c)
    \/ \E m \in 0..MaxTs : SelectLeerMemtable(c, m)
    \/ SelectResponder(c)
    \/ CreateDirectorio(c)
    \/ CreateSemaforos(c)
    \/ CreateMetadata(c)
    \/ \E i \in Parts : CreateParticion(c, i)
    \/ CreateHilo(c)
    \/ DropSemaforo(c)
    \/ DropMx(c)
    \/ DropRw(c)
    \/ DropMemtable(c)
    \/ DropParticiones(c)
    \/ DropTemporales(c)
    \/ DropMetadata(c)
    \/ DropDirectorio(c)
    \/ DropFin(c)
    \/ FallaCliente(c)

PasoDump ==
    \/ DumpDespertar
    \/ DumpBloquear
    \/ \E t \in Tablas : DumpTabla(t)
    \/ DumpFin
    \/ FallaDump

PasoCompactacion(t) ==
    \/ CoListar(t)
    \/ CoTomarMx(t)
    \/ CoRenombrar(t)
    \/ \E n \in 1..Particiones : CoLeer(t, n)
    \/ CoTomarRw(t)
    \/ CoBorrarTmpc(t)
    \/ CoBorrarBin(t)
    \/ \E i \in Parts : CoGuardar(t, i)
    \/ CoFin(t)
    \/ FallaCompactacion(t)

Next ==
    \/ \E c \in Clientes, t \in Tablas : Pedir(c, t)
    \/ \E c \in Clientes : PasoCliente(c)
    \/ PasoDump
    \/ \E t \in Tablas : PasoCompactacion(t)
    \/ Terminar
    \/ Levantar

\* Every thread that can take a step of its request, dump or compaction takes
\* it: they are threads of the system, usleep returns, and a lock that stays
\* free is given to who waits for it. Clients need not send requests, the
\* process need not end, and whoever starts it again need not.
Fairness ==
    /\ \A c \in Clientes : WF_vars(PasoCliente(c))
    /\ WF_vars(PasoDump)
    /\ \A t \in Tablas : WF_vars(PasoCompactacion(t))

Spec == Init /\ [][Next]_vars /\ Fairness

----------------------------------------------------------------------------
(* Properties *)

TypeOK ==
    /\ existe \subseteq Tablas
    /\ metadata \subseteq Tablas
    /\ tmp \in [Tablas -> [Nums -> SUBSET Registros]]
    /\ tmpc \in [Tablas -> [Nums -> SUBSET Registros]]
    /\ bin \in [Tablas -> [Parts -> SUBSET Registros]]
    /\ hayBin \in [Tablas -> SUBSET Parts]
    /\ memtable \in [Tablas -> SUBSET Registros]
    /\ insertadas \subseteq Tablas
    /\ huerfanas \subseteq Tablas
    /\ semaforos \subseteq Tablas
    /\ rwMem \in {"libre", "dump"}
    /\ rwTabla \in [Tablas -> {"libre", "drop", "compactacion"}]
    /\ dropMx \in [Tablas -> {"libre", "drop", "compactacion"}]
    /\ pc \in [Clientes -> PCs]
    /\ ped \in [Clientes -> Pedido]
    /\ dump \in {"durmiendo", "por_volcar", "volcando"}
    /\ pendientes \subseteq Tablas
    /\ cantidadDumps \in 0..MaxDumps
    /\ comp \in [Tablas -> EstadosComp]
    /\ listados \in [Tablas -> SUBSET Nums]
    /\ listas \in [Tablas -> [Parts -> SUBSET Registros]]
    /\ nListas \in [Tablas -> 0..Particiones]
    /\ vivo \in BOOLEAN
    /\ caidas \in 0..MaxCaidas

\* A table is in listaTablasInsertadas exactly when it has records in the
\* memtable: the dump, which goes by the list and then empties the memtable,
\* misses no table and writes no empty file.
InsertadasAlDia == insertadas = {t \in Tablas : memtable[t] # {}}

\* Every record of a .bin is in the partition of its key, and is the only one
\* of its key there: a SELECT opens that one file and stops at the first
\* record it finds (es_unica).
BinBienFormado ==
    caidas = 0 =>
        \A t \in Tablas, i \in Parts : \A r \in bin[t][i] :
            /\ ParticionDe(r.key, Particiones) = i
            /\ \A s \in bin[t][i] : s.key = r.key => s = r

\* While a table has its metadata and not all of its partitions, a compaction
\* or a DROP has it locked, or its CREATE is not finished: no SELECT opens a
\* partition that is being written again.
ParticionesCompletas ==
    vivo /\ caidas = 0 =>
        \A t \in metadata :
            hayBin[t] # Parts => rwTabla[t] # "libre" \/ Ocupada(t, Creando)

\* Once a DROP has removed the .tmp and .tmpc files of its table, no dump or
\* compaction writes one before the locks are released.
BajaBorraTodo ==
    \A c \in Clientes :
        pc[c] \in {"drop_metadata", "drop_directorio", "drop_fin"}
            => EnDisco(ped[c].tabla) = {}

\* A DROP cancels the compaction thread of its table only where the thread has
\* changed nothing: asleep, or waiting for drop_mx.
BajaNoCortaCompactacion ==
    [][\A t \in Tablas :
          comp[t] # "sin_hilo" /\ comp'[t] = "sin_hilo" /\ vivo'
              => comp[t] \in {"durmiendo", "por_bloquear"}]_vars

\* A dump creates its .tmp and a compaction its .tmpc: neither writes over a
\* file that is there with its records.
TemporalesNoSePisan ==
    [][\A t \in Tablas, n \in Nums :
          /\ tmp[t][n] # {} => tmp'[t][n] \in {tmp[t][n], {}}
          /\ tmpc[t][n] # {} => tmpc'[t][n] \in {tmpc[t][n], {}}]_vars

\* A SELECT answers the newest record of its key among all that had been
\* inserted when it started, or a newer one, unless a dump ended between its
\* read of the files and its read of the memtable.
SelectCompletoSinDump ==
    \A c \in Clientes :
        pc[c] = "sel_respuesta" /\ ~ped[c].volcado => ped[c].ts >= ped[c].piso

\* The dump does not hold the memtable's lock and wait for a table whose DROP
\* waits for the memtable's lock.
SinInterbloqueo ==
    \A c \in Clientes :
        ~(/\ dump = "volcando"
          /\ pc[c] = "drop_memtable"
          /\ ped[c].tabla \in pendientes)

\* A request that is accepted is answered.
TodoPedidoTermina == \A c \in Clientes : pc[c] # "libre" ~> pc[c] = "libre"

\* Every .tmp file is taken by a compaction.
TmpSeCompacta ==
    \A t \in Tablas, n \in Nums : tmp[t][n] # {} ~> tmp[t][n] = {}

Alm == INSTANCE Almacen WITH
          reg <- [t \in Tablas |-> Visible(t)],
          deBaja <- {t \in Tablas : DeBaja(t)} \cup huerfanas,
          sano <- vivo /\ caidas = 0

\* Whatever the memtable, the dump and the compaction do, an inserted record is
\* forgotten only for a newer one of its key, by a DROP or with the process.
AlmacenSpec == Alm!Spec
============================================================================
