# Lissandra: TLA+ models, checks and proofs

Lissandra is a distributed key/value store written in C. This directory holds
TLA+ modules translated from its source, the TLC configurations that check them,
and theorems about them with proofs for TLAPS. The modules keep the Spanish names
of the source.

## 1. The system

| Process | Code | What it keeps |
|---|---|---|
| Kernel | `src/Kernel` | scripts (LQL) in the states new, ready, executing, exit; the memories it knows and the criteria SC, SHC, EC each is assigned to; the metadata of the tables; metrics |
| Pool of memories, any number | `src/Pool-Memorias` | frames with pages (table, key, timestamp, value, modified flag), a list of segments, the list of seeds |
| File system (LFS), one | `src/LissandraFileSystem` | the memtable; on disk a directory per table with its metadata, `.tmp`, `.tmpc` and `.bin` files; the blocks and their bitmap |
| Biblioteca | `src/Biblioteca` | protocol, locks, gossiping, used by the three |

Requests (SELECT, INSERT, CREATE, DESCRIBE, DROP, JOURNAL) go from a script of
the Kernel to a memory chosen by the consistency of the table, and from the
memory to the LFS when the memory misses, journals, or only forwards. Memories
tell each other and the Kernel which memories are up (gossiping). All of it is
calls over sockets that block for their answer; inside a process the threads
share memory under pthread mutexes and rwlocks.

### Inventory

**LFS, memtable and dump** (`LissandraFileSystem.c` 957-1127). State: `memtable`
(table to list of records), `listaTablasInsertadas`, `cantidad_de_dumps`,
`sem_rw_memtable`. One thread wakes up every `tiempo_dump`, and if the list is not
empty writes the records of each table in it to `<n>.tmp` and empties the
memtable. Hard: it holds the memtable's lock while it waits for each table's;
the counter starts again with the process. Correct when: no record is out of
both the memtable and the files; no file is written over; list and memtable agree;
the dump ends.

**LFS, compaction** (3070-3445). One thread per table: lists the `.tmp` files, takes
`drop_mx`, renames them to `.tmpc` under `rwLockTabla`, reads partitions and
`.tmpc` files without that lock, and under it removes them and writes the
partitions. Hard: the listing precedes the locks; the whole content of the table
is for a while only in memory; it is cancelled by DROP. Correct when: of every
key the newest record stays, in the partition of its key and once; no reader sees
a table being written again; every `.tmp` is taken in the end.

**LFS, requests** (2174-2561, `lfsComunicacion.c`). A thread per connection and the
console. INSERT verifies the table and adds to the memtable; SELECT reads partition,
`.tmp`, `.tmpc` under the table's lock and then the memtable under its own; CREATE
makes directory, locks, metadata, partitions, compaction thread; DROP takes `drop_mx`,
`rwLockTabla`, `sem_rw_memtable`, empties the memtable's entry, removes the files,
cancels the compaction thread and frees the locks. Hard: check-then-act on the
existence of the table; opposite lock orders; locks freed while others wait for them.
Correct when: a SELECT finds what was inserted before it; DROP leaves nothing; DROP
and compaction exclude each other; every accepted request is answered.

**LFS, end and restart** (87-122, 944-953, 2128-2172, 2945-2975). No end of the process
dumps the memtable. A start makes locks and a compaction thread for each directory.

**LFS, blocks and bitmap** (331-487, 1028-1281, 2416-2449, 2659-2943, 3335-3445). Files
name blocks; a block is found and marked in two unlocked calls. Correct when: two
files share no block, and no block that a file names is free.

**Memories, pages** (`gestionMemoria.c`). `funcionInsert`, `funcionSelect`,
`funcionDrop`, `LRU` under `sem_insert_select`, `ACCIONLRU`, `JOURNALHecho`,
`verificarSiBitmapLleno`. Correct when: a key has one page; a modified page is not
replaced; the frame of a page is marked; a SELECT answers the newest it may know.

**Memories, journal** (`memoria.c` 1135-1252, `retardos.c`). Sends the modified pages to
the LFS and empties the memory, on a timer, on request, and when LRU finds only
modified pages. Hard: an LFS that does not answer; the timer's thread is cancelled and
created again by the others; lock orders. Correct when: a modified page is removed only
once the LFS has it; nobody waits for ever.

**Gossiping** (`Gossiping.c`). A list of seeds merged with those of each memory that
answers; a memory that does not answer is removed. Correct when: no memory is twice in
the list; one that is up is known in the end.

**Kernel, scheduler** (`kernel.c` 484-980). Scripts go NEW, READY, EXEC, EXIT, with a
quantum and a multiprogramming level. Correct when: a script is in one queue; no more
execute than the level; every script ends.

**Kernel, criteria** (1077-1930). Lists of memories per criterion, filled by ADD, emptied by
gossiping; the choice of a memory for a request. Correct when: SC has at most one
memory; a memory that is down is in no criterion; SHC sends a key to one memory.

**Kernel, metrics** (2289-2442); **Biblioteca, protocol** (`Biblioteca.c` 1167-1455).

The hazards of this code, each at its line and with the properties that cover it,
are listed in `PROJECT.json`.

## 2. Plan

Ordered by what matters most. All are modelled, checked and proved about.

1. `ConjuntosDeRegistros`, `Almacen` (abstract), `LFS` (implements `Almacen`).
2. `Memoria`: pages, LRU, journal against an LFS that may not answer; it implements `Almacen`
   too, while the LFS answers.
3. `Guiones` (abstract), `Planificador` (implements `Guiones`), and `Criterios`: the Kernel.
4. `Gossiping`: rounds and answers, with memories that end and start.
5. `Bloques` (blocks and bitmap under dump, compaction, CREATE and DROP) and `Lectura` (records
   cut by the end of a block).

The safety properties of the runs, and the refinements, are theorems (section 6); the liveness
properties are left to TLC.

## 3. Modules

| Module | What it is |
|---|---|
| `ConjuntosDeRegistros` | newest record of a key, merge of records, partition of a key |
| `Almacen` | abstract: what a table promises of its records |
| `LFS` | memtable, dump, compaction, INSERT, SELECT, CREATE, DROP, end and restart |
| `MCLFS` | `LFS` for TLC |
| `Memoria` | a process of Pool-Memorias: pages, segments, LRU, journal, requests |
| `MCMemoria` | `Memoria` for TLC |
| `Guiones` | abstract: what the Kernel promises of a script |
| `Planificador` | the scheduler of the Kernel: console, READY, EXEC, EXIT, levels, quantum |
| `Criterios` | the memories of the Kernel: criteria, requests, ADD, JOURNAL, removal, metadata, counters |
| `Gossiping` | the lists of memories of each process, the rounds and the answers |
| `Bloques` | the blocks of the LFS and their bitmap |
| `Lectura` | writing and reading of records that are cut in blocks |
| `MCPlanificador`, `MCCriterios`, `MCGossiping`, `MCBloques`, `MCLectura` | those for TLC |
| `LFS_proofs` | merge of records, types, who holds which lock, the memtable's list, what the files hold; `LFS` implements `Almacen`; what a SELECT answers |
| `Memoria_proofs` | types and counters, who holds which lock, the thread of the automatic journal, segments, bitmap and frames |
| `Memoria_almacen_proofs` | `Memoria` implements `Almacen`; what a SELECT answers |
| `Planificador_proofs` | types, queues and semaphore, one reader, and the refinement of `Guiones` |
| `Criterios_proofs` | types, criteria and associated memories agree, SHC journals before it changes, the counters |
| `Gossiping_proofs` | types of lists, rounds and answers; the Kernel has nobody twice |
| `Bloques_proofs` | types, owners of the blocks, what files hold, the marks of the bitmap |
| `Lectura_proofs` | types, and what has been read when the reading ends |

A definition whose name is that of another with `Sin...` or `DeMas` after it, and whose comment says
that it is a mutant, is not of the code: it is the one before it with a plausible mistake, and
shows that a property would find it. No other definition uses it.

### `LFS`

State on disk: `existe` (directories), `metadata`, `tmp`, `tmpc`, `bin`, `hayBin`. In memory:
`memtable`, `insertadas` (`listaTablasInsertadas`), `cantidadDumps`
(`cantidad_de_dumps`), `semaforos` (`dicSemTablas`), `rwMem` (`sem_rw_memtable`),
`rwTabla` and `dropMx` (the two locks of `t_sems_tabla`), and for each compaction the list
of files it found and its `registros_tabla`. Every thread has a program counter: `pc` and
`ped` for the clients, `dump`, `comp`. A step is the code between two points where another
thread can see a difference: a lock that may have to wait, an unlock, a file that
others read. A lock taken and released within one step needs only a guard (it is free); one
held across steps is a variable. SELECT reads under read locks, so it waits for writers only.

The names follow the functions: `Insert*` is `comandoInsert`, `Select*` `comandoSelect`,
`Create*` `comandoCreate`, `Drop*` `comandoDrop` with `eliminarTablaCompleta`, `Dump*`
`esperarTiempoDump`/`realizarDump`/`crearArchivoTemporal`, `Co*` `compactarTabla`.
`Falla*` are the steps where the code locks a null or freed lock, or divides by zero: the
process ends. `Caer` is what every end does, `Levantar` the start.

Abstractions:

- A record is a key and a timestamp; the value travels with it. Two records of one key
  with one timestamp are one.
- A file is the set of its records. Blocks are in `Bloques` and `Lectura`, so no file fails here to be
  written for lack of blocks.
- An INSERT or SELECT of a table without directory, and an INSERT with `;` in its value, which
  is answered RESP_OK and stores nothing (2497-2501, 2560), change no state and are no step.
- The dump takes the tables in any order (the code: in that of their first insertion).
- A CREATE at the same time as another CREATE or a DROP of the same table is left out, and so
  is a start that finds a directory without metadata (a null pointer: no process).
- SELECT in the middle of a CREATE reads an empty metadata file: the number of partitions and a
  pointer it frees were never set. It may end the process or answer anything; as no
  partition has records yet the model lets it end or read nothing.
- A crash in the middle of several renames or removals of one kind is left out; it may happen
  between any two steps.

`huerfanas`, `ped[c].piso` and `ped[c].volcado` are history variables: no guard of a step of
the code reads them, only properties (and the refinement mapping) do. `piso` is chosen by
`SelectVerificar` as the newest timestamp the process knows of the key.

### `Memoria`

State: `bloque` (each frame's page, of `bloque_memoria`, with its node of `bloque_LRU`), `bitmap`,
`segmentos` (for each table the frames its segment names; `tablaSegmentos`), the locks that are held
across steps (`accionLRU`, `journalHecho`, `verificar` for `verificarSiBitmapLleno`, and
`sem_insert_select` as `escritor` and `lectores`), the threads (`pc`, `ped`), the journal in
progress (`envio`, `pasados` for `cant_pasados`; at most one journal is between its lock and its end,
for `JOURNALHecho` is held), `journalHilo` and which threads were cancelled. The LFS is external:
`lfs` has the newest timestamp of each key that it was sent, or had at the start.

`Insert*` is `funcionInsert`, also for what the LFS answered a SELECT; `Lru*` is `LRU` with
`buscarEnBloqueLRUElProximoAQuitar` and `segmento_eliminar_nro_pagina`; `Select*` is
`resolver_select` with `select_memoria`; `Drop*` `resolver_drop` with `funcionDrop`; `Journal*`
`procesoJournal`, `JOURNAL` and `pasarValoresALisandra`; `Hilo*` `retardo_journal`.

Abstractions:

- A page is a table, a key, a timestamp and the flag; the value travels with it.
- `Pedir` is any of the requests; CREATE and DESCRIBE only forward and are left out, so a table
  that was dropped does not come back. An INSERT that brings its own timestamp (4 arguments)
  and one whose value is too long (an error) are left out.
- The mutexes taken and released within one step are no variables. `mutex_memoria` is among them,
  which the code also unlocks without holding it.
- `borrarSegmentoPasadoPorParametro` leaves a first segment in the list without pages. A segment
  without pages is searched, filled and dropped as if there were none.
- A DROP may free what others point to. `Falla` ends the process there, and
  `InsertCrear` and `SelectSinPagina` are what happens when it does not end: the page is in a frame
  and in no segment, the SELECT answers anything.
- A thread that is cancelled ends where it writes to the log (`HiloMorir`), with its locks; one
  that sleeps does not wake.
- `activo_retardo_journal` is true exactly while a thread of the timer runs JOURNAL, and is left out.

`piso`, `limpiado` and `rancia` are history. `rancia` marks a page that was filled with an answer
the LFS gave before a journal emptied the memory: such a page may be older than the LFS, and the
code does nothing about it.

### `Almacen`

Of each table, the set of records that can still be found; the tables that are being deleted;
whether the process has ended. A record of a table that is not being deleted may only go when a
newer one of its key stays, and no record appears that was not inserted. `LFS` implements it
with `reg[t]` = memtable, `.tmp`, `.tmpc`, `.bin`, and, while the compaction replaces the files,
its lists (`Alm` in `LFS.tla`). `Memoria` implements it, while the LFS answers, with `reg[t]` = the
records of the LFS and those of the modified pages: nothing is replaced, journalled or written over
before the LFS, or a newer page, has it.

### `Planificador` and `Guiones`

State: `consola` (where the console is in `planificadorLargoPlazo`), `listos`, `ejecutando`, `salidos`
(`colaListos`, `colaEjecucion`, `colaExit`; of the last two how many times each PCB is in them),
`semaforo` (`sem_planificador`), the PCB's fields (`estado`, `rafaga`, `progamCounter`, its file), and of
each thread `nivelMultiprogramacion` its step, its PCB and how many lines it has left in the turn.

`Ingresar` is `crearPcb` with `rafagaComandoRun`; `ConsolaAListo`, `ConsolaPost`, `Devolver` and `DevolverPost`
are `agregarAListo` up to and after the mutex; `Esperar`, `ObtenerColaListos`, `AgregarAEjecutando`
are `planificarCortoPlazo` and what it calls; `LeerLinea`, `ResolverLinea`, `FinQuantum` and `FinEjecutar`
are `ejecutar`, in both its branches; `SacarDeEjecucion`, `SacarFalla` and `AgregarAExit` are `agregarAExit` and
the search in EXEC. `RecargarConfiguracion` is the change of the quantum, `Salir` the end.

`Guiones` is what a user sees: the lines of a script in order, one at a time and within a turn, no more
turns than levels, none after an error, one end. `Planificador` implements it (`GuionesSpec`) with `enTurno` the
scripts of EXEC. A script whose file is not there has -1 lines, stays in EXEC for ever, and takes no level:
`Guiones` lets it.

Abstractions: what a line does is `Criterios`; here it fails or not. The delay after a line is a
step like others. A PCB is entered once. What is printed and the times are left out.

### `Criterios`

State: `sc`, `shc`, `ec` (the `listMemorias` of the criteria), `asociadas` (`g_lista_memorias_asociadas`),
`conocidas` (the memories of the last gossiping), `metricas` and `operaciones` (`operaciones_memorias`),
`totales`, `tablas` (`g_lista_tablas`), `cerrojo` (`lista_memorias_criterio_mutex`, when it is held
across steps), and of each thread the step and the request. The threads are the levels (`Ejecutores`), the
console and `hilo_metadata_refresh`.

A request goes `ElegirMemoriaCriterio` or `ElegirMemoria`, `Conectar`, `EnviarPagina` or `EnviarTabla`, then
`Contar` or `GuardarTablas`. A memory that cannot be connected to is removed: `Sacar`, `SacarCriterios`,
`SacarMetricas` are the three parts of `eliminarMemoriaAsociada`, each with its lock. `Agregar`, `Asociar`,
`AsociarMetricas` are ADD. `Vaciar` and `VaciarFin` are `resolverJournal` over a list, by JOURNAL
(`PedirJournal`) or by `vaciarMemoriasSHC`, which holds the mutex meanwhile.

Abstractions and what is left out:

- The memories and the LFS are outside: a memory is up or down (`Caer`, `Volver`), answers a request about
  tables by what the LFS has (`lfs`), and takes an INSERT or SELECT. The two are one request (`PAGINA`): the
  Kernel does the same with both. `ActualizarMemoriasDisponibles` is what a round of gossiping leaves, which
  `Gossiping` has in detail.
- SC and EC are sets, since their order decides nothing (SC has one; EC takes any, which stands for
  `rand`); SHC is a sequence, for the hash goes by position. A JOURNAL goes over its list in any order.
- The copy of the list a JOURNAL goes over shares its elements with the original: a memory that is
  removed meanwhile is freed. Reading it may end the process (`VaciarLiberada`) or not.
- The thread that holds the mutex and has to remove a memory that does not answer waits for itself
  (kernel.c 1833, 1734). The model reaches this, so no liveness is stated and deadlock is not checked.
- A removal that overtakes another of the same memory finds less to remove. A memory that was removed
  from SHC and is up again is not followed by `sinJournal` any more, and neither is a request
  that chose its memory before SHC changed and sends it after: nothing in the code orders the two.
- Wording, delays, averages of time and answers other than done or not reachable are left out.

`sinJournal` is a history variable: the keys each memory of SHC was sent since it was last told to journal.

### `Gossiping`

State, of each process: `lista` (`g_lista_seeds`, of each memory whether its number is known, that is, not -1),
`ronda` (the thread of `correr_gossiping`: the number of seeds when the round began, the position, the list
it shows, and what is left of `incorporar_seeds_gossiping`) and, of each memory, `hilo` (the
`hilo_cliente` that answers each of the others). `Copiar` to `Incorporar` are the round, `Responder` is
`responder_gossiping` with its incorporation, `Caer` and `Volver` a memory that ends and starts with the list of
its configuration. `Mirar` and `Agregar` are two steps, for the code looks for a seed and appends it under the lock
but releases it between. `KernelSinRepetidas` holds all the same, for the Kernel has one such thread; of a
memory the like is false, and lists with repetitions are part of what the other properties are checked on.

Left out: `g_hubo_cambios` (it only asks for a log), `g_memorias_caidas` (only printed), the delay between
rounds, and a message of a process that ended that is answered after it started again: the
thread ends at `Desconectado`. Sending and receiving are whole messages.

### `Bloques`

State: `bitarray`, the files with their blocks (`archivos`), whose records each block has (`escrito`), the
locks `rwLockTabla` and `drop_mx`, and of each thread (the dump, a compaction per table, a client) the
file it is making. `Obtener` is `obtenerPrimerBloqueLibreBitmap`; `Leer` with `Marcar` or `Limpiar` are
`ocuparBloqueLibreBitmap` and `liberarBloqueBitmap`: the byte of a bit (`Byte`) is read and written (`ConByte`), so
marks of others in the same byte in between are undone, and those in other bytes are not. `HacerArchivo` writes blocks and file, `Liberar` takes those of a file that is
replaced, `Create` and `EliminarTablaCompleta` are CREATE and DROP as far as blocks go.

Abstractions: of the records of a file only how many blocks they need, any number up to `MaxTam`. `Blocks`
is the number of bits, BLOCKS of the metadata rounded up to bytes, `BitsPorByte` (8 in the code) to a
byte: the run has 3 bits in bytes of 2, so two threads may or may not meet in a byte. The dump is one `.tmp` after another. `perdidos` and `disputados` are history: the blocks that no file names and stay
marked (after a DROP, and when a dump or a compaction gives up), and the blocks whose bit changed
between another thread's read and write of the byte, or that two threads took. The code loses and doubles
those; the properties say that it loses and doubles no others.

### `Lectura`

The file is `Buffer`, as `armarBufferConRegistros` makes it, cut by `Bloque`. The machine is the loop of
`leerBloquesConsecutivos` and of `leerBloquesConsecutivosUnaKey`, which differ in what they do with
a record (`Agregar`): state `EST_*`, the offsets in the block, in the field and in all, the two buffers, which
begin with any bytes. A byte is the field and record it comes from, or a separator.

Scaled or left out: a timestamp of 2 bytes and a key of 1 instead of 8 and 2 (the high bytes of a
timestamp are zero, as in the code, so the end of a string shows). Values that are empty (`string_split` passes over a first `\n`),
longer than TAMANIO_VALUE, or with `\n` or `;` in them, and a BLOCK_SIZE smaller than TAMANIO_VALUE
(`LecturaAssumption`), are left out. A file left without blocks is in `Bloques`.

What `TypeOK` says of the contents of a record holds of the files without a value that the code loses (`SinCortes`).
In the others the code takes bytes of an earlier field for those of the value, and an old `\n` among them ends it too early: with
TAMANIO_VALUE and BLOCK_SIZE 9, and two records with values of 4 and 6 bytes, a third timestamp is read from the end of the second value.
The offsets stay in the block and in the file all the same, and the records before such a value are read well.

## 4. Runs

| Run | Instance | Shows |
|---|---|---|
| `lfs` | 1 table, 1 key, 2 partitions, 2 clients, INSERT and SELECT, timestamps to 1, 2 dumps | types; requests are answered; every `.tmp` is compacted; no deadlock |
| `lfs_claves` | 2 keys in 2 partitions, 1 client, timestamps to 2, 2 dumps | `Almacen`; partitions well formed; SELECT complete but for a dump between its reads; no file written over |
| `lfs_bajas` | 1 table, 1 key, 1 partition, 2 clients, all requests, timestamps to 2, 1 dump, 1 restart | DROP and CREATE against everything else, with crashes |
| `lfs_interbloqueo` | 2 clients, INSERT and DROP | finding: dump and DROP wait for each other |
| `memoria` | 1 table, 2 keys, 1 frame, 2 clients, INSERT, SELECT and DROP, automatic journal, 3 requests, 2 milliseconds | `Almacen`; a SELECT is up to date; a free frame for every new page; the timer survives |
| `memoria_pedidos` | 3 keys, 2 frames, 2 clients, all requests, no automatic journal yet, an LFS that may not answer, 3 requests | requests are answered; one page per key; segments and bitmap agree |
| `planificador` | 2 levels, 2 scripts of up to 2 lines or without file, 1 request, quantum 1 or 2 | `Guiones`; a script is in one queue; one reader; the semaphore agrees with READY; every script ends |
| `criterios` | 2 memories, 1 table, 2 keys, an executor, the console and the metadata thread, 2 ADDs or JOURNALs, 2 lines, a memory goes down once | criteria and associated memories agree; SHC journals before it changes; the load is at most all |
| `gossiping` | 3 memories, one of them never started, and the Kernel; in one configuration a memory ends once, in the other one names the one that is off | who ends is forgotten by all; who runs is known to all; the Kernel has nobody twice; no deadlock |
| `lfs_bloques` | 2 tables of 1 partition, 3 blocks in bytes of 2 bits, files of up to 2 blocks, 2 dumps, 1 DROP | a file keeps its blocks and its records, but for races on the bitmap; a compaction ends |
| `lectura` | 2 records, 2 keys, 2 timestamps, values of 1 to 3 bytes, blocks of 3, 4 and 7 bytes | every file is read whole, up to a value that is cut before a short block |
| `lectura_cortes` | the same | finding: such a value is lost |

**Fairness** is weak everywhere. Of `LFS` and `Memoria`: for the steps of each client in a request, of the dump,
of each compaction and of each thread of the timer. They are threads, `usleep` returns, and a lock that
remains free is given to a thread that waits. Nothing is assumed of clients that start requests, or of the end and
restart of the process. Weak fairness is enough because the dump, the one thread that could take the
memtable again and again, sleeps in between, and its number is bounded. `Planificador`: the console once a
request was entered (`Consola`) and each level (`Ejecutar`); entering requests, `Salir` and a new quantum are not
assumed. `Gossiping`: each thread of rounds, and each thread that answers, of the memories that are not off; rounds
are repeated for ever by a loop; nothing makes a memory end or start. `Bloques`: the dump in the
middle of a file and the compaction in the middle of its work. `Lectura`: one loop, `WF(Next)`.
`Criterios` states none.

**Bounds.** `MaxTs` 2 gives an older and a newer record of a key, which is all that merging
distinguishes; 2 keys fall in the 2 partitions; 2 dumps let a `.tmp` appear while the files
of the one before are being compacted; 2 clients are the most that a lock order needs, with the
dump and the compaction as third and fourth thread. `lfs_bajas` does not check deadlock: the
code does deadlock there (`lfs_interbloqueo`), and the model stops when the process has ended
for the last time.

`Memoria`: with one frame and two keys every second INSERT or fill replaces or journals;
with two frames and three keys a segment has several pages and LRU still happens. Three requests
are one to make a page, and two that race for it. The clock goes from 2 to 3, and what the LFS has from
the start is of 1: older, same and newer. Deadlock is not checked: the process stops with all
requests done, and with the automatic journal it does deadlock (section 5, known limits), as it does when
a thread is cancelled with its locks. For this reason `TodoPedidoTermina` is checked for the time before
the automatic journal first wakes up (`Automatico` FALSE).

`Planificador`: two lines with a quantum of 1 give a script that is put back and taken by the other level
while the first one is still at the end of `ejecutar`; a third PCB waits in READY meanwhile. `Criterios`: two
memories make the hash of SHC change, two ADDs fill it or put one memory in two criteria, one fall takes one
out in the middle of a request, of an ADD or of a JOURNAL. `Gossiping`: two memories that run are the least that can
tell each other of one that ended, with the Kernel as third; a memory that is off is told of and must be forgotten.
`Bloques`: two tables use two of the three blocks from the start, so that a file of two does not fit and the last free block is
disputed; a second dump finds the table that the first left locked. `Lectura`: the three block sizes cut every field and
separator at each place, and a record in up to four blocks. `planificador`, `criterios`, `lfs_bloques` and `lectura`
do not check deadlock: the process may end (`Salir`, `SacarFalla`, `VaciarLiberada`), a script without a file and a table that was
left locked stay, the requests are bounded, and a reading ends.

## 5. Findings

1. `comandoDrop` and `realizarDump` take the memtable's and the table's lock in opposite orders
   (`lfs_interbloqueo`). A comment of the code asks for this to be checked.
2. A value that is cut by the end of a block and whose rest is in a shorter last block is put together
   from the wrong bytes, and its record is not read (`lectura_cortes`; `memcpy` of
   `tam_bloque - offset_bloque` bytes in both reading functions, lines 1543 and 2811).

Known limits, which the models reach and the properties set apart, without a run of their own:

- SELECT reads the files and then, without a lock over both, the memtable: it misses a record when a
  dump ends in between. `SelectCompletoSinDump` is about the others.
- The number of the dumps starts at 0 with each process, so a dump may truncate a `.tmp` of the process
  before. `TemporalesNoSePisan` is about one process.
- An INSERT holds `sem_insert_select` while it waits for a journal, and the automatic journal waits
  for `sem_insert_select` (gestionMemoria.c 156, retardos.c 37-40).
- A journal that could send nothing empties the memory all the same (memoria.c 1149).
- `lista_memorias_criterio_mutex` is not recursive, and the removal of a memory during the JOURNAL to SHC
  takes it again (kernel.c 1833, 1734).
- A JOURNAL goes over a list whose elements another thread may free (kernel.c 2184).
- A dump that runs out of blocks half way leaves its table locked (1057), and a DROP frees no block.
- A script whose file is not there stays in EXEC (kernel.c 569-612, 901).

### Not modelled

Reading of configuration and metadata files, inotify, accept loops and framing of messages, DESCRIBE of the
LFS, logging, the parser of requests, the times by criterion of the metrics, the remote console and the test programs: I/O
and formats with no state that a property needs. Of the requests: those listed above under each module.

## 6. Proofs

For any sets of tables, keys, clients, any number of partitions and any bounds
(`LFSAssumption`):

- `TipoCorrecto`: `TypeOK`. Inductive with two more conjuncts (`Tipos`): an INSERT about to be
  added has a timestamp, and a dump that is due has a number left.
- `BajaRespetaCompactacion`: a DROP cancels the compaction thread only where it has changed
  nothing. From `Cerrojos`, inductive: whoever is past `drop_mx` or `rwLockTabla` holds it, and
  two DROPs of a table are not both past `drop_mx`; and from `Muerto`: an ended process has no
  thread.
- `ListaAlDia`: `InsertadasAlDia`, inductive with the types alone.
- `BajaCompleta`: `BajaBorraTodo`. `CicloDeVida` says which pcs and states of a compaction go
  with a directory, its locks and its thread; with `Cerrojos` it gives `SinArchivos`, inductive:
  the files a DROP has removed stay removed, for a dump waits for the table's lock and the
  compaction, which DROP has shut out with `drop_mx`, has nothing renamed.
- `ParticionesEnteras`: `ParticionesCompletas`, from `Completas`, inductive with the above: which
  `.bin` files there are at each step of a CREATE, a DROP and a compaction, and that a compaction
  has read as many lists as there are partitions.
- `ParticionesFormadas`: `BinBienFormado`, from `Formados`: `.bin` files, and the lists that will
  be written to them, have only records of their partition, one per key.
- `NadieSePisa`: `TemporalesNoSePisan` when `MaxCaidas = 0` (started again, the process counts its dumps
  from 0 over the files of the one before). From `TemporalesNuevos`, inductive: the number of the dump in progress
  is only in use in the tables it has written, and there are `.tmpc` files only from the rename to their removal.
- `FusionDomina`: what the merge of the compaction keeps dominates what it was given, for finite
  sets of records.

- `ImplementaAlmacen`: `AlmacenSpec`. What a table promises is `Visible`: the memtable and the files. A dump moves records
  from one to the other, and each step of a compaction replaces files by others that dominate them, if what it has
  read stands for the files it found (`ListasFieles`), comes from them only (`ListasDeArchivos`), and what the dump has
  written so far stays on disk until it empties the memtable (`VolcadoEnDisco`). `SinDuenio`: records in memory of
  a table that is not there were left by an INSERT after its DROP, which `Almacen` knows as `deBaja`. Each
  action is then one of `Almacen` or a stutter; the end of the process is `Olvidar`.
- `SelectCompleto`: `SelectCompletoSinDump` while `caidas = 0`, if `"DROP"` is not in `Pedidos`: a DROP and a CREATE
  between two steps of a SELECT rightly change what it answers, and an end of the process takes the memtable
  with it. From `PisoAlAlcance`: the newest record there was at the start is in what will be read yet,
  or what was read is as new. `lfs_claves`, with INSERT and SELECT only, and `MaxCaidas = 0`, is such an instance.

The strengthenings were checked with TLC on the instances of `lfs_claves` and `lfs_bajas` before
they were proved.

Of `Memoria`, for any tables, keys, number of frames, finite set of clients and bounds
(`MemoriaAssumption`):

- `TipoCorrecto`: `TypeOK`. Two counters need more than their types (`Tipos`): a request makes at most
  one journal and each makes one thread, so the threads made and the requests that may still journal
  are no more than the requests so far (`Journals`); the records sent and those still to send are no
  more than the frames (`Envios`).
- `HiloNoSePierde`: `HiloVigente`, from `Exclusion`, inductive: which pcs go with `sem_insert_select`
  for writing and with `JOURNALHecho`, so one thread is past each; and from `Vigencia`: no thread is
  cancelled before it is created.
- `SegmentosCoinciden`, `ClavesSinRepetir`, `SiempreHayMarco`: `SegmentosEnBitmap`,
  `UnaPaginaPorClave`, `HayMarcoParaCrear`. They are inductive together (`Consistencia`, over
  `Exclusion`): who has seen no page of its key, or a free frame, holds `sem_insert_select`, and all
  that other threads do meanwhile, DROP included, frees frames (`Libera`); a new page goes to a frame
  that is free, thus of no segment. That DROP does not take `sem_insert_select` does no harm to these.

While the LFS answers (`~LfsFalla`, as in the run `memoria`; when it does not, a journal empties the memory
all the same and the records are lost, memoria.c 1149, which `Almacen` does not allow):

- `SelectCorrecto`: `SelectAlDia`. `Registro` says that timestamps are not of the future (`Tiempo`), that a frame in use is of
  its segment (`EnSegmento`), that a page is at least as new as the LFS unless it was filled late (`PaginaAlDia`),
  and which records of the modified pages a journal has yet to send (`EnviosDePaginas`). `Sabidos` says what each
  client knows: where its command is (`Papel`), that the page it found is of its key (`Puntero`), that the LFS has
  nothing newer than its answer but what a journal sent since (`Fresco`), and where the record is that it must find:
  in a page or the LFS, then in the LFS, then in its answer (`Alcanza`). The two are inductive over the invariants above. Most
  steps are of one kind, `Mengua`: pages only leave, and none with a record the LFS has not.
- `MemoriaImplementaAlmacen`: `AlmacenSpec`, where what is promised of a table is what its pages and the LFS have. Writes, and what
  a journal puts in the LFS, are `Insertar`; the start of a DROP is `DarDeBaja`, the end of the process `Olvidar`, and all else is
  `Depurar` or a stutter (`Depura`).

`Registro`, `Sabidos` and the invariants under them were checked with TLC on two instances first.

Of `Planificador`, for any scripts, any finite set of levels and any bounds (`PlanificadorAssumption`):

- `TipoCorrecto`, `UnaCola`, `LectorUnico`: `TypeOK`, `EnUnaSolaCola`, `UnSoloLector`. They are inductive together
  (`Inv`): a PCB that was put in READY is in one place, which a step moves (`Cuentas`); what is in READY has that state,
  has not failed and has executed the lines it read (`EnListos`, `SinFallar`); its file is open until it ends (`Abiertos`);
  and what a level knows of its PCB at each step (`Nivel`): the one with lines left has the only turn (`Turno`), and the one that
  ends a script ends one that does not go on (`Acaba`). A level that comes to line 901 with a PCB it gave back does no
  harm because that PCB is ended only when it is in EXEC with all its lines done; two levels may both try, and the second
  ends the process (`SacarFalla`), which `Guiones` knows as `Caer`.
- `SiempreHayListo`: `HayListo`, from `Semaforo`: the length of READY is the semaphore plus the levels and the console that have
  put a PCB and not signalled it yet, plus the levels that passed the semaphore and have not taken one.
- `ImplementaGuiones`: `GuionesSpec`. Over `Inv`, `Avance` says how far each script is: one in READY has lines left, or none
  at all; one in EXEC, if it has a file, has a level that attends to it (so that there are no more turns than
  levels); the last turn goes to the last line. Each action is then an action of `Guiones` or a stutter.

`TodoGuionTermina` is left to TLC (liveness).

Of `Criterios`, for any memories, finite set of tables, keys, threads and bounds (`CriteriosAssumption`):

- `TipoCorrecto`: `TypeOK`, from `Tipos`: the fields a request has at each step, who holds the mutex, and that the
  memory that is to be added to SHC is not in it.
- `DeCriterioAsociada`: `CriterioAsociada`, inductive over `Tipos`: the console associates what it put in a criterion, and
  who takes a memory out of the associated ones goes on to take it out of the criteria.
- `SeJournalaAntes`: `SHCConJournal`, from `Vaciado`: a memory outside SHC has nothing left to journal, and while the holder of
  the mutex goes over SHC, only the memories before it have. So when it changes the list nothing is left in any.

- `LaCargaEsParte`: `CargaAcotada`. The sum of the counters is stated as the number of pairs of a memory and one of its operations, which the
  theorems on finite sets can reason about (a fold would need an induction over data); `Cuentas` adds that this set is finite.

Of `Gossiping`, for any memories and any configurations in which the Kernel has one seed (`GossipingAssumption`; kernel.c 1017):

- `TipoCorrecto`: `TypeOK`. `Tipos` and `Formadas`, inductive: the list of a memory begins with itself, a round is at an index of
  the list as it is now (it only grows, so the length taken at the start stays good), and whoever adds seeds has some left.
- `KernelNoRepite`: `KernelSinRepetidas`, from `KernelSolo`: the seed that was looked for and not found is still missing when it is
  added, since the Kernel answers nobody and its rounds are one thread (a memory, which does answer, can have repetitions).

Of `Bloques`, for any finite set of tables, partitions, sizes and bounds, and a bitmap of any number of bytes of any number of bits
(`BloquesAssumption`: the tables there are at the start have a block for each partition, `Cardinality(Tablas) * Particiones <= Blocks`, as the code gives them one in CREATE):

- `TipoCorrecto`, `ArchivosIntactos`, `MarcasCorrectas`: `TypeOK`, `ContenidoIntacto`, `MarcasDeArchivos`. Inductive together
  (`Inductivo`): what a thread has at each step (`EnManos`), who holds the locks of a table (`ConLlave`), names of files that are
  there or being made (`Nombres`), and `UnDuenio`: a block that is marked belongs to one file, or to one thread, or was left by a DROP or a
  file that was given up, and one that is not marked to nobody. A block whose bit two threads changed at once is out of
  it (`disputados`), as in the properties.

Of `Lectura`, for any sizes of timestamps, keys, values and blocks, any keys and timestamps and any number of records
(`LecturaAssumption`: BLOCK_SIZE is at least TAMANIO_VALUE, and a timestamp and a key fit in the code's buffer for a field, TAMANIO_VALUE + 1 bytes):

- `TipoCorrecto`, `LeidoAlTerminar`: `TypeOK`, and that when the reading has ended it has what it should, `Fin => LeidoHastaElCorte`, which is
  the safety part of `LeeHastaElCorte`. From one invariant (`Inductivo`). The machine is at a field of the i-th record (`Bien`): the
  offset in the file is where that field starts plus what was read of it, which is at the start of the buffer; the fields
  before are in `registro` as they were written; and what was put out is of the records before (`Salidos`). Or the m-th record
  was the first to be lost (`Roto`): then the block at hand is the last one, and what was put out before stays. `EnBloques` ties the three offsets
  together and to the block, so a step that is cut by the end of a block goes on at the next byte of the file.
  A value in one block, or in two and not `Cortado`, is put out as it was written, whatever `aux_value` had: the second block has
  either all that a value may still have, and the whole field is copied, or more bytes than the value is long, so that those
  that are copied have all of it and its `\n`. In a `Cortado` one, that no earlier byte is `\n` keeps the offsets from going back.
- The bytes of a file are a fold over its records. An induction over data is not needed: of what `FlattenSeq` gives, a first
  prefix for which a fact fails would be the one after a prefix for which it holds (`Minimo`), so facts on all prefixes
  follow from the step alone.

`Inductivo` was checked with TLC first, with values of up to 3 bytes in blocks of 3, 4 and 7, and of up to 6 in blocks of 7 and 8.

Only model-checked is liveness, which this prover does not reach: `TodoPedidoTermina` of `LFS` and of `Memoria`, `TmpSeCompacta`, `TodoGuionTermina`, `CaidaSeNota`,
`SeConocenTodas`, `CompactacionTermina` and, of `LeeHastaElCorte`, that the reading ends.

The strengthenings of `Planificador`, `Criterios`, `Gossiping` and `Bloques` were checked with TLC on the instances of the runs before they were
proved.
