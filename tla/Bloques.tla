---- MODULE Bloques ----
(***************************************************************************)
(* The blocks of the LFS and their bitmap (LissandraFileSystem.c): the     *)
(* dump, the compaction of each table and CREATE take the first free block *)
(* and mark it, with no lock but that of the table; the compaction frees   *)
(* those of the files it replaces. A mark reads and writes the byte of its *)
(* bit. Of the records only their number of blocks is kept. A definition   *)
(* whose name has Sin... after that of another, and is called a mutant, is *)
(* not of the code.                                                        *)
(***************************************************************************)
EXTENDS Integers, Sequences, FiniteSets, SequencesExt

CONSTANTS Tablas,         \* each is also the name of its compaction's thread
          Dump, Cliente,  \* the other threads
          Nadie,
          Blocks,         \* bits of the bitmap: BLOCKS of the metadata, rounded up to bytes
          BitsPorByte,    \* 8
          Particiones,
          MaxTam,         \* bound: blocks of a file
          MaxDumps,       \* bound: .tmp files
          MaxBajas        \* bound: DROPs

Hilos == Tablas \cup {Dump, Cliente}
Bits == 0..Blocks - 1

ASSUME BloquesAssumption ==
  /\ Blocks \in Nat \ {0} /\ BitsPorByte \in Nat \ {0}
  /\ Particiones \in Nat \ {0} /\ MaxTam \in Nat \ {0}
  /\ IsFiniteSet(Tablas) /\ Cardinality(Tablas) * Particiones <= Blocks
  /\ MaxDumps \in Nat /\ MaxBajas \in Nat
  /\ Dump # Cliente /\ {Dump, Cliente} \cap Tablas = {} /\ Nadie \notin Hilos

VARIABLES bitarray,   \* the blocks whose bit is set
          archivos,   \* the files, each with its blocks
          escrito,    \* whose records each block has
          tablas,     \* the tables that exist
          rwLock,     \* who has rwLockTabla of each table for writing
          dropMx,     \* the same of drop_mx
          pc, op,     \* of each thread: the next step, and what it works on
          dumps, bajas,
          perdidos,   \* history: marked blocks that no file names any more
          disputados  \* history: blocks whose bit two threads used at the same time

cuentas == <<dumps, bajas>>
vars == <<bitarray, archivos, escrito, tablas, rwLock, dropMx, pc, op, cuentas, perdidos, disputados>>

Clases == {"bin", "tmp", "tmpc"}

\* what a file is, whatever its blocks; a .tmp keeps its records when it is renamed
Id(f) == <<f.tabla, f.clase = "bin", f.nro>>
Archivo == [tabla : Tablas, clase : Clases, nro : Nat, bloques : Seq(Bits \cup {-1})]

\* the file that is being made, the blocks left to obtain or free, and the one at hand
Nada == [tabla |-> Nadie, clase |-> "bin", nro |-> 0, bloques |-> << >>, pide |-> 0,
         libera |-> << >>, bloque |-> -1, byte |-> {}]

TypeOK ==
  /\ bitarray \subseteq Bits
  /\ \A f \in archivos : f \in Archivo /\ Len(f.bloques) <= MaxTam
  /\ \A f, g \in archivos : f # g => <<f.tabla, f.clase, f.nro>> # <<g.tabla, g.clase, g.nro>>
  /\ tablas \subseteq Tablas
  /\ rwLock \in [Tablas -> Hilos \cup {Nadie}] /\ dropMx \in [Tablas -> Tablas \cup {Nadie}]
  /\ pc \in [Hilos -> {"libre", "obtener", "leer", "marcar", "archivo", "tomar", "liberar",
                       "leerLibre", "limpiar", "particion"}]
  /\ \A h \in Hilos : op[h].pide \in 0..MaxTam /\ op[h].bloque \in Bits \cup {-1}
  /\ dumps \in 0..MaxDumps /\ bajas \in 0..MaxBajas
  /\ perdidos \subseteq Bits /\ disputados \subseteq Bits

Binario(t, p, b) == [tabla |-> t, clase |-> "bin", nro |-> p, bloques |-> b]

\* the tables exist, with an empty block for each partition
Init ==
  LET orden == SetToSeq(Tablas)
      usados == Len(orden) * Particiones
  IN
  /\ archivos = {Binario(orden[i], p, <<(i - 1) * Particiones + p>>) :
                    i \in DOMAIN orden, p \in 0..Particiones - 1}
  /\ bitarray = 0..usados - 1
  /\ escrito = [b \in Bits |-> IF b < usados
                               THEN <<orden[(b \div Particiones) + 1], TRUE, b % Particiones>>
                               ELSE << >>]
  /\ tablas = Tablas
  /\ rwLock = [t \in Tablas |-> Nadie] /\ dropMx = [t \in Tablas |-> Nadie]
  /\ pc = [h \in Hilos |-> "libre"] /\ op = [h \in Hilos |-> Nada]
  /\ dumps = 0 /\ bajas = 0
  /\ perdidos = {} /\ disputados = {}

Ir(h, paso) == pc' = [pc EXCEPT ![h] = paso]

-----------------------------------------------------------------------------
(* Blocks for a file.                                                      *)

Libres == Bits \ bitarray

\* obtenerPrimerBloqueLibreBitmap
PrimerLibre == IF Libres = {} THEN -1 ELSE CHOOSE b \in Libres : \A c \in Libres : b <= c

\* with fewer free blocks than it needs, a file takes none
Pedir(h, t, clase, nro, n) ==
  LET pide == IF Cardinality(Libres) >= n THEN n ELSE 0
  IN /\ op' = [op EXCEPT ![h] = [Nada EXCEPT !.tabla = t, !.clase = clase, !.nro = nro,
                                             !.pide = pide]]
     /\ Ir(h, IF pide = 0 THEN "archivo" ELSE "obtener")

(* Without a free block any more, the dump returns and leaves the table    *)
(* locked, the compaction goes on with the next partition, and CREATE      *)
(* takes -1 for a block.                                                   *)
Obtener(h) ==
  /\ pc[h] = "obtener"
  /\ IF PrimerLibre # -1 \/ h = Cliente
       THEN /\ op' = [op EXCEPT ![h].bloque = PrimerLibre]
            /\ Ir(h, "leer")
            /\ UNCHANGED perdidos
       ELSE /\ perdidos' = perdidos \cup Range(op[h].bloques)
            /\ op' = [op EXCEPT ![h] = IF h = Dump THEN Nada
                                       ELSE [Nada EXCEPT !.tabla = op[h].tabla, !.nro = op[h].nro + 1]]
            /\ Ir(h, IF h = Dump THEN "libre" ELSE "particion")
  /\ UNCHANGED <<bitarray, archivos, escrito, tablas, rwLock, dropMx, cuentas, disputados>>

\* the bits of the byte of bit b; -1 is none, of the first byte
Byte(b) == {c \in Bits : c \div BitsPorByte = IF b = -1 THEN 0 ELSE b \div BitsPorByte}

\* ocuparBloqueLibreBitmap and liberarBloqueBitmap read the byte of the bit...
Leer(h) ==
  /\ pc[h] \in {"leer", "leerLibre"}
  /\ op' = [op EXCEPT ![h].byte = bitarray \cap Byte(op[h].bloque)]
  /\ Ir(h, IF pc[h] = "leer" THEN "marcar" ELSE "limpiar")
  /\ UNCHANGED <<bitarray, archivos, escrito, tablas, rwLock, dropMx, cuentas, perdidos, disputados>>

\* the bits of the byte that another thread changed since it was read
Cambiados(h) ==
  (op[h].byte \ bitarray) \cup ((bitarray \cap Byte(op[h].bloque)) \ op[h].byte)

\* the bitmap with that byte
ConByte(b, byte) == (bitarray \ Byte(b)) \cup (byte \cap Bits)

\* mutant: the block is not marked
MarcarSinBit(h) ==
  LET o == op[h] IN
  /\ pc[h] = "marcar"
  /\ op' = [op EXCEPT ![h] = [o EXCEPT !.bloques = Append(@, o.bloque), !.pide = @ - 1]]
  /\ Ir(h, IF o.pide = 1 THEN "archivo" ELSE "obtener")
  /\ UNCHANGED <<bitarray, archivos, escrito, tablas, rwLock, dropMx, cuentas, perdidos, disputados>>

\* mutant: the loop over the blocks goes one too far
MarcarDeMas(h) ==
  LET o == op[h] IN
  /\ pc[h] = "marcar"
  /\ bitarray' = ConByte(o.bloque, o.byte \cup {o.bloque})
  /\ disputados' = disputados \cup Cambiados(h) \cup ({o.bloque} \cap o.byte)
  /\ op' = [op EXCEPT ![h] = [o EXCEPT !.bloques = Append(@, o.bloque), !.pide = @ - 1,
                                       !.bloque = -1, !.byte = {}]]
  /\ Ir(h, IF o.pide = 0 THEN "archivo" ELSE "obtener")
  /\ UNCHANGED <<archivos, escrito, tablas, rwLock, dropMx, cuentas, perdidos>>

\* ... and write it
Marcar(h) ==
  LET o == op[h] IN
  /\ pc[h] = "marcar"
  /\ bitarray' = ConByte(o.bloque, o.byte \cup {o.bloque})
  /\ disputados' = disputados \cup Cambiados(h) \cup ({o.bloque} \cap o.byte)
  /\ op' = [op EXCEPT ![h] = [o EXCEPT !.bloques = Append(@, o.bloque), !.pide = @ - 1,
                                       !.bloque = -1, !.byte = {}]]
  /\ Ir(h, IF o.pide = 1 THEN "archivo" ELSE "obtener")
  /\ UNCHANGED <<archivos, escrito, tablas, rwLock, dropMx, cuentas, perdidos>>

\* escribirVariosBloques and the file; the dump unlocks the table
HacerArchivo(h) ==
  LET o == op[h]
      f == [tabla |-> o.tabla, clase |-> o.clase, nro |-> o.nro, bloques |-> o.bloques]
  IN /\ pc[h] = "archivo"
     /\ archivos' = archivos \cup {f}
     /\ escrito' = [b \in Bits |-> IF b \in Range(o.bloques) THEN Id(f) ELSE escrito[b]]
     /\ IF h = Dump
          THEN /\ rwLock' = [rwLock EXCEPT ![o.tabla] = Nadie]
               /\ op' = [op EXCEPT ![h] = Nada] /\ Ir(h, "libre")
          ELSE /\ op' = [op EXCEPT ![h] = [Nada EXCEPT !.tabla = o.tabla, !.nro = o.nro + 1]]
               /\ Ir(h, "particion") /\ UNCHANGED rwLock
     /\ UNCHANGED <<bitarray, tablas, dropMx, cuentas, perdidos, disputados>>

-----------------------------------------------------------------------------
(* The dump: a .tmp of a table (crearArchivoTemporal). The lock of a table *)
(* that it left locked does not stop it (EDEADLK).                         *)
CrearArchivoTemporal ==
  /\ pc[Dump] = "libre" /\ dumps < MaxDumps
  /\ \E t \in tablas, n \in 1..MaxTam :
       /\ rwLock[t] \in {Nadie, Dump}
       /\ rwLock' = [rwLock EXCEPT ![t] = Dump]
       /\ Pedir(Dump, t, "tmp", dumps, n)
  /\ dumps' = dumps + 1
  /\ UNCHANGED <<bitarray, archivos, escrito, tablas, dropMx, bajas, perdidos, disputados>>

-----------------------------------------------------------------------------
(* The compaction of t, by its thread (compactarTabla).                    *)

De(t, clase) == {f \in archivos : f.tabla = t /\ f.clase = clase}

\* mutant: rwLockTabla is not given back after the renaming
RenombrarSinDesbloquear(t) ==
  /\ pc[t] = "libre" /\ t \in tablas /\ De(t, "tmp") # {}
  /\ dropMx[t] = Nadie /\ rwLock[t] = Nadie
  /\ dropMx' = [dropMx EXCEPT ![t] = t] /\ rwLock' = [rwLock EXCEPT ![t] = t]
  /\ archivos' = (archivos \ De(t, "tmp")) \cup {[f EXCEPT !.clase = "tmpc"] : f \in De(t, "tmp")}
  /\ Ir(t, "tomar")
  /\ UNCHANGED <<bitarray, escrito, tablas, op, cuentas, perdidos, disputados>>

Renombrar(t) ==
  /\ pc[t] = "libre" /\ t \in tablas
  /\ ~(pc[Cliente] # "libre" /\ op[Cliente].tabla = t)
  /\ De(t, "tmp") # {}
  /\ dropMx[t] = Nadie /\ rwLock[t] = Nadie
  /\ dropMx' = [dropMx EXCEPT ![t] = t]
  /\ archivos' = (archivos \ De(t, "tmp")) \cup {[f EXCEPT !.clase = "tmpc"] : f \in De(t, "tmp")}
  /\ Ir(t, "tomar")
  /\ UNCHANGED <<bitarray, escrito, tablas, rwLock, op, cuentas, perdidos, disputados>>

Tomar(t) ==
  /\ pc[t] = "tomar" /\ rwLock[t] = Nadie
  /\ rwLock' = [rwLock EXCEPT ![t] = t]
  /\ Ir(t, "liberar") /\ op' = [op EXCEPT ![t] = [Nada EXCEPT !.tabla = t]]
  /\ UNCHANGED <<bitarray, archivos, escrito, tablas, dropMx, cuentas, perdidos, disputados>>

\* mutant: the .tmpc are removed and their blocks stay marked
LiberarSinTmpc(t) ==
  /\ pc[t] = "liberar" /\ op[t].libera = << >>
  /\ IF De(t, "bin") # {}
       THEN \E f \in De(t, "bin") : /\ archivos' = archivos \ ({f} \cup De(t, "tmpc"))
                                    /\ op' = [op EXCEPT ![t].libera = f.bloques]
                                    /\ UNCHANGED pc
       ELSE Ir(t, "particion") /\ UNCHANGED <<archivos, op>>
  /\ UNCHANGED <<bitarray, escrito, tablas, rwLock, dropMx, cuentas, perdidos, disputados>>

(* liberarBloquesDeArchivo: of the .tmpc, and then of the .bin. Nobody     *)
(* reads the file any more, for the table is locked.                       *)
Liberar(t) ==
  LET quedan == IF De(t, "tmpc") # {} THEN De(t, "tmpc") ELSE De(t, "bin") IN
  /\ pc[t] = "liberar" /\ op[t].libera = << >>
  /\ IF quedan # {}
       THEN \E f \in quedan : /\ archivos' = archivos \ {f}
                              /\ op' = [op EXCEPT ![t].libera = f.bloques]
                              /\ UNCHANGED pc
       ELSE Ir(t, "particion") /\ UNCHANGED <<archivos, op>>
  /\ UNCHANGED <<bitarray, escrito, tablas, rwLock, dropMx, cuentas, perdidos, disputados>>

LiberarUno(t) ==
  /\ pc[t] = "liberar" /\ op[t].libera # << >>
  /\ op' = [op EXCEPT ![t].bloque = Head(op[t].libera)]
  /\ Ir(t, "leerLibre")
  /\ UNCHANGED <<bitarray, archivos, escrito, tablas, rwLock, dropMx, cuentas, perdidos, disputados>>

Limpiar(t) ==
  /\ pc[t] = "limpiar"
  /\ bitarray' = ConByte(op[t].bloque, op[t].byte \ {op[t].bloque})
  /\ disputados' = disputados \cup Cambiados(t)
  /\ op' = [op EXCEPT ![t].libera = Tail(@), ![t].bloque = -1, ![t].byte = {}]
  /\ Ir(t, "liberar")
  /\ UNCHANGED <<archivos, escrito, tablas, rwLock, dropMx, cuentas, perdidos>>

\* guardarRegistrosParticion: at least a block
GuardarRegistrosParticion(t) ==
  /\ pc[t] = "particion" /\ op[t].nro < Particiones
  /\ \E n \in 1..MaxTam : Pedir(t, t, "bin", op[t].nro, n)
  /\ UNCHANGED <<bitarray, archivos, escrito, tablas, rwLock, dropMx, cuentas, perdidos, disputados>>

Fin(t) ==
  /\ pc[t] = "particion" /\ op[t].nro = Particiones
  /\ rwLock' = [rwLock EXCEPT ![t] = Nadie] /\ dropMx' = [dropMx EXCEPT ![t] = Nadie]
  /\ op' = [op EXCEPT ![t] = Nada] /\ Ir(t, "libre")
  /\ UNCHANGED <<bitarray, archivos, escrito, tablas, cuentas, perdidos, disputados>>

-----------------------------------------------------------------------------
(* DROP removes the files and leaves their blocks marked; CREATE takes a   *)
(* block for each partition, whether there is one or not, with no lock.    *)
BloquesDe(fs) == Bits \cap (UNION {Range(f.bloques) : f \in fs})

EliminarTablaCompleta ==
  /\ pc[Cliente] = "libre" /\ bajas < MaxBajas
  /\ \E t \in tablas :
       /\ dropMx[t] = Nadie /\ rwLock[t] = Nadie
       /\ LET suyos == {f \in archivos : f.tabla = t}
          IN /\ archivos' = archivos \ suyos
             /\ perdidos' = perdidos \cup BloquesDe(suyos)
       /\ tablas' = tablas \ {t}
  /\ bajas' = bajas + 1
  /\ UNCHANGED <<bitarray, escrito, rwLock, dropMx, pc, op, dumps, disputados>>

Create ==
  /\ pc[Cliente] = "libre"
  /\ \E t \in Tablas \ tablas :
       /\ tablas' = tablas \cup {t}
       /\ op' = [op EXCEPT ![Cliente] = [Nada EXCEPT !.tabla = t]]
  /\ Ir(Cliente, "particion")
  /\ UNCHANGED <<bitarray, archivos, escrito, rwLock, dropMx, cuentas, perdidos, disputados>>

CreateParticion ==
  /\ pc[Cliente] = "particion"
  /\ IF op[Cliente].nro < Particiones
       THEN op' = [op EXCEPT ![Cliente].pide = 1] /\ Ir(Cliente, "obtener")
       ELSE op' = [op EXCEPT ![Cliente] = Nada] /\ Ir(Cliente, "libre")
  /\ UNCHANGED <<bitarray, archivos, escrito, tablas, rwLock, dropMx, cuentas, perdidos, disputados>>

-----------------------------------------------------------------------------
Bloque(h) == Obtener(h) \/ Leer(h) \/ Marcar(h) \/ HacerArchivo(h)

Compactar(t) ==
  \/ Bloque(t) \/ Tomar(t) \/ Liberar(t) \/ LiberarUno(t) \/ Limpiar(t)
  \/ GuardarRegistrosParticion(t) \/ Fin(t)

Next ==
  \/ CrearArchivoTemporal \/ Bloque(Dump)
  \/ \E t \in Tablas : Renombrar(t) \/ Compactar(t)
  \/ EliminarTablaCompleta \/ Create \/ CreateParticion \/ Bloque(Cliente)

\* a file that was begun is ended
Fairness == WF_vars(Bloque(Dump)) /\ \A t \in Tablas : WF_vars(Compactar(t))

Spec == Init /\ [][Next]_vars /\ Fairness

-----------------------------------------------------------------------------
Nombrados == BloquesDe(archivos)
EnUso == Bits \cap (UNION {Range(op[h].bloques) \cup Range(op[h].libera) : h \in Hilos})

(* A block that a file names has the records of that file, although blocks *)
(* go from file to file, unless two threads used its bit at the same time: *)
(* nothing else (no lack of blocks, no DROP) gives a block to two files.   *)
ContenidoIntacto ==
  \A f \in archivos : \A b \in Range(f.bloques) \ (disputados \cup {-1}) : escrito[b] = Id(f)

(* The marked blocks are those of the files, those that a thread has at    *)
(* hand, and those that a DROP or a file that was given up left: no block  *)
(* of a file is free, and a compaction loses none.                         *)
MarcasDeArchivos ==
  bitarray \ disputados = (Nombrados \cup EnUso \cup perdidos) \ disputados

(* A compaction ends, however few blocks there are, unless a dump that     *)
(* found no block left its table locked.                                   *)
CompactacionTermina ==
  \A t \in Tablas :
    pc[t] # "libre" ~> (pc[t] = "libre" \/ (rwLock[t] = Dump /\ pc[Dump] = "libre"))
====
