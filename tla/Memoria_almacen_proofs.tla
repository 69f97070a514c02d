------------------------ MODULE Memoria_almacen_proofs ------------------------
(***************************************************************************)
(* Memoria implements Almacen, and a SELECT answers what it must, while    *)
(* the LFS answers.                                                        *)
(***************************************************************************)
EXTENDS Memoria_proofs

USE MemoriaAssumption

----------------------------------------------------------------------------
(* What a request knows of the records of its table. A table that is being *)
(* deleted is promised nothing.                                            *)

Bajas == {t \in Tablas : DeBaja(t)}
Enviando(x) == pc[x] = "jou_enviar"

\* A SELECT that puts in a page what the LFS answered.
Relleno(c) == ped[c].cmd = "SELECT" /\ pc[c] \in Insertando \cup Journalizando

\* Where the request of each command is.
Papel(c) ==
    /\ pc[c] \in {"sel_rw", "sel_leer", "sel_lfs", "sel_responder"} => ped[c].cmd = "SELECT"
    /\ pc[c] \in Insertando => ped[c].cmd \in {"INSERT", "SELECT"}
    /\ pc[c] = "jou_rw" => ped[c].cmd = "JOURNAL"
    /\ pc[c] \in Journalizando => ped[c].cmd \in {"INSERT", "SELECT", "JOURNAL"}
    /\ ped[c].limpiado => ped[c].cmd = "SELECT"

\* A segment that was freed is of a table that is being deleted; the page that
\* was found is that of the key; who makes a journal found none.
Puntero(c) ==
    /\ pc[c] \in {"ins_bitmap", "ins_crear"} /\ ped[c].seg = "liberado" => ped[c].tabla \in Bajas
    /\ pc[c] = "ins_modificar" =>
         bloque[ped[c].marco].tabla = ped[c].tabla /\ bloque[ped[c].marco].key = ped[c].key
    /\ pc[c] \in {"ins_accion"} \cup Journalizando /\ ped[c].cmd # "JOURNAL" =>
         Paginas(ped[c].tabla, ped[c].key) = {}

\* The LFS has nothing newer than its answer, unless a journal is putting it
\* there now or has ended since.
Fresco(c) ==
    Relleno(c) /\ ~ped[c].limpiado /\ ped[c].tabla \notin Bajas =>
        \/ lfs[ped[c].tabla][ped[c].key] <= ped[c].ts
        \/ \E x \in Hebras \ {c} : Enviando(x)

\* The record that was the newest when the SELECT began, or a newer one, is
\* there until it is found, then in the LFS when no page has it, then in its
\* answer.
Alcanza(c) ==
    ped[c].cmd = "SELECT" /\ ped[c].tabla \notin Bajas =>
        /\ pc[c] \in {"sel_rw", "sel_leer"} =>
             \/ ped[c].piso = 0
             \/ \E r \in Registrados(ped[c].tabla) : r.key = ped[c].key /\ ped[c].piso <= r.ts
        /\ pc[c] = "sel_lfs" => ped[c].piso <= lfs[ped[c].tabla][ped[c].key]
        /\ Relleno(c) \/ pc[c] = "sel_responder" => ped[c].piso <= ped[c].ts

\* The timestamp of a request is not of the future, nor of a record that is none.
Reciente(c) == ped[c].ts <= reloj /\ (Relleno(c) => 1 <= ped[c].ts)

Sabido(c) == Papel(c) /\ Puntero(c) /\ Fresco(c) /\ Alcanza(c) /\ Reciente(c)

----------------------------------------------------------------------------
(* What holds of the pages, the LFS and a journal in progress.             *)

\* No timestamp is of the future, nor of a record that is none.
Tiempo ==
    /\ reloj >= 2
    /\ \A t \in Tablas, k \in Claves : lfs[t][k] <= reloj
    /\ \A f \in Marcos : bloque[f].ts <= reloj /\ (f \in bitmap /\ bloque[f].estado => 1 <= bloque[f].ts)
    /\ \A r \in envio : 1 <= r.ts /\ r.ts <= reloj

\* A frame in use is of its segment.
EnSegmento ==
    \A f \in bitmap : bloque[f].tabla \notin Bajas => f \in segmentos[bloque[f].tabla]

\* A page is at least as new as the LFS, but for those that were filled late.
PaginaAlDia ==
    \A f \in bitmap : ~bloque[f].rancia /\ bloque[f].tabla \notin Bajas =>
        lfs[bloque[f].tabla][bloque[f].key] <= bloque[f].ts

\* What is left to send is in a page, and what a modified page has is left to
\* send or was sent.
EnviosDePaginas ==
    /\ envio # {} => \E x \in Hebras : Enviando(x)
    /\ \A r \in envio : r.tabla \notin Bajas =>
         \E f \in bitmap : /\ bloque[f].estado /\ bloque[f].tabla = r.tabla
                           /\ bloque[f].key = r.key /\ bloque[f].ts = r.ts
    /\ (\E x \in Hebras : Enviando(x)) =>
         \A f \in bitmap : bloque[f].estado /\ bloque[f].tabla \notin Bajas =>
             \/ [tabla |-> bloque[f].tabla, key |-> bloque[f].key, ts |-> bloque[f].ts] \in envio
             \/ bloque[f].ts <= lfs[bloque[f].tabla][bloque[f].key]

Registro == Tiempo /\ EnSegmento /\ PaginaAlDia /\ EnviosDePaginas
Sabidos == \A c \in Clientes : Sabido(c)
----------------------------------------------------------------------------
(* Steps in which records do not change                                    *)

LEMMA Numeros ==
  ASSUME TypeOK
  PROVE  /\ reloj \in Nat
         /\ \A t \in Tablas, k \in Claves : lfs[t][k] \in Nat
         /\ \A f \in Marcos : /\ bloque[f].tabla \in Tablas
                              /\ bloque[f].key \in Claves
                              /\ bloque[f].ts \in Nat
         /\ \A c \in Clientes : /\ ped[c].tabla \in Tablas
                                /\ ped[c].key \in Claves
                                /\ ped[c].ts \in Nat
                                /\ ped[c].piso \in Nat
                                /\ ped[c].marco \in Marcos
         /\ bitmap \subseteq Marcos
         /\ \A r \in envio : /\ r.tabla \in Tablas
                             /\ r.key \in Claves
                             /\ r.ts \in Nat
<1>1. Tiempos \subseteq Nat
  BY DEF Tiempos
<1>2. \A f \in Marcos : bloque[f] \in Pagina
  BY DEF TypeOK
<1>3. \A c \in Clientes : ped[c] \in Pedido
  BY DEF TypeOK
<1>4. reloj \in Tiempos /\ lfs \in [Tablas -> [Claves -> Tiempos]]
      /\ bitmap \subseteq Marcos
      /\ envio \subseteq [tabla : Tablas, key : Claves, ts : Tiempos]
  BY DEF TypeOK
<1>5. \A f \in Marcos : /\ bloque[f].tabla \in Tablas
                        /\ bloque[f].key \in Claves
                        /\ bloque[f].ts \in Nat
  BY <1>1, <1>2 DEF Pagina
<1>6. \A c \in Clientes : /\ ped[c].tabla \in Tablas
                          /\ ped[c].key \in Claves
                          /\ ped[c].ts \in Nat
                          /\ ped[c].piso \in Nat
                          /\ ped[c].marco \in Marcos
  BY <1>1, <1>3 DEF Pedido
<1>. QED
  BY <1>1, <1>4, <1>5, <1>6

LEMMA NumerosDespues ==
  ASSUME TypeOK'
  PROVE  reloj' \in Nat /\ \A t \in Tablas, k \in Claves : lfs'[t][k] \in Nat
<1>1. Tiempos \subseteq Nat
  BY DEF Tiempos
<1>2. reloj' \in Tiempos /\ lfs' \in [Tablas -> [Claves -> Tiempos]]
  BY DEF TypeOK
<1>. QED
  BY <1>1, <1>2

\* The request of d is what it was, but for a segment that was freed.
Mismo(d) ==
    /\ pc'[d] = pc[d]
    /\ ped'[d].cmd = ped[d].cmd
    /\ ped'[d].tabla = ped[d].tabla
    /\ ped'[d].key = ped[d].key
    /\ ped'[d].ts = ped[d].ts
    /\ ped'[d].marco = ped[d].marco
    /\ ped'[d].piso = ped[d].piso
    /\ ped'[d].limpiado = ped[d].limpiado
    /\ ped'[d].seg = "liberado" => ped[d].seg = "liberado" \/ ped[d].tabla \in Bajas'

\* Pages only leave, and none with a record the LFS does not have but those of a
\* table that is being deleted.
Mengua ==
    /\ reloj <= reloj'
    /\ Bajas \subseteq Bajas'
    /\ \A t \in Tablas, k \in Claves : lfs'[t][k] \in {0, lfs[t][k]}
    /\ \A t \in Tablas : t \notin Bajas' => lfs'[t] = lfs[t]
    /\ \A f \in Marcos : /\ bloque'[f].tabla = bloque[f].tabla
                         /\ bloque'[f].key = bloque[f].key
                         /\ bloque'[f].ts = bloque[f].ts
                         /\ bloque'[f].estado = bloque[f].estado
                         /\ bloque'[f].rancia = bloque[f].rancia
    /\ bitmap' \subseteq bitmap
    /\ \A f \in bitmap \ bitmap' : bloque[f].estado => bloque[f].tabla \in Bajas'
    /\ \A t \in Tablas : segmentos'[t] \subseteq segmentos[t]
    /\ \A t \in Tablas : t \notin Bajas' => segmentos[t] \cap bitmap' \subseteq segmentos'[t]
    /\ envio' = envio
    /\ \A x \in Hebras : Enviando(x)' <=> Enviando(x)

LEMMA MenguaRegistro ==
  ASSUME TypeOK, TypeOK', Registro, Mengua
  PROVE  Registro'
<1>1. reloj \in Nat /\ reloj' \in Nat /\ bitmap \subseteq Marcos
      /\ \A t \in Tablas, k \in Claves : lfs[t][k] \in Nat /\ lfs'[t][k] \in Nat
  BY Numeros, NumerosDespues
<1>2. Tiempo'
  <2>1. reloj' >= 2
    BY <1>1 DEF Registro, Tiempo, Mengua
  <2>2. \A t \in Tablas, k \in Claves : lfs'[t][k] <= reloj'
    BY <1>1 DEF Registro, Tiempo, Mengua
  <2>3. \A f \in Marcos : bloque'[f].ts <= reloj'
    BY <1>1, Numeros DEF Registro, Tiempo, Mengua
  <2>4. \A f \in Marcos : f \in bitmap' /\ bloque'[f].estado => 1 <= bloque'[f].ts
    BY DEF Registro, Tiempo, Mengua
  <2>5. \A r \in envio' : 1 <= r.ts /\ r.ts <= reloj'
    BY <1>1, Numeros DEF Registro, Tiempo, Mengua
  <2>. QED
    BY <2>1, <2>2, <2>3, <2>4, <2>5 DEF Tiempo
<1>3. EnSegmento'
  <2>. SUFFICES ASSUME NEW f \in bitmap', bloque'[f].tabla \notin Bajas'
                PROVE  f \in segmentos'[bloque'[f].tabla]
    BY DEF EnSegmento
  <2>1. f \in bitmap /\ f \in Marcos /\ bloque'[f].tabla = bloque[f].tabla
        /\ bloque[f].tabla \in Tablas
    BY <1>1, Numeros DEF Mengua
  <2>2. bloque[f].tabla \notin Bajas' /\ bloque[f].tabla \notin Bajas
    BY <2>1 DEF Mengua
  <2>. QED
    BY <2>1, <2>2 DEF Mengua, Registro, EnSegmento
<1>4. PaginaAlDia'
  <2>. SUFFICES ASSUME NEW f \in bitmap', ~bloque'[f].rancia, bloque'[f].tabla \notin Bajas'
                PROVE  lfs'[bloque'[f].tabla][bloque'[f].key] <= bloque'[f].ts
    BY DEF PaginaAlDia
  <2>1. /\ f \in bitmap /\ f \in Marcos /\ bloque[f].tabla \in Tablas
        /\ bloque'[f].tabla = bloque[f].tabla /\ bloque'[f].key = bloque[f].key
        /\ bloque'[f].ts = bloque[f].ts /\ ~bloque[f].rancia
    BY <1>1, Numeros DEF Mengua
  <2>2. bloque[f].tabla \notin Bajas' /\ bloque[f].tabla \notin Bajas
    BY <2>1 DEF Mengua
  <2>. QED
    BY <2>1, <2>2 DEF Mengua, Registro, PaginaAlDia
<1>5. EnviosDePaginas'
  <2>1. envio' # {} => \E x \in Hebras : Enviando(x)'
    BY DEF Registro, EnviosDePaginas, Mengua
  <2>2. ASSUME NEW r \in envio', r.tabla \notin Bajas'
        PROVE  \E f \in bitmap' : /\ bloque'[f].estado /\ bloque'[f].tabla = r.tabla
                                  /\ bloque'[f].key = r.key /\ bloque'[f].ts = r.ts
    <3>1. r \in envio /\ r.tabla \in Tablas /\ r.tabla \notin Bajas
      BY <2>2, Numeros DEF Mengua
    <3>2. PICK f \in bitmap : /\ bloque[f].estado /\ bloque[f].tabla = r.tabla
                              /\ bloque[f].key = r.key /\ bloque[f].ts = r.ts
      BY <3>1 DEF Registro, EnviosDePaginas
    <3>3. f \in bitmap' /\ f \in Marcos
      BY <1>1, <2>2, <3>2 DEF Mengua
    <3>. QED
      BY <3>2, <3>3 DEF Mengua
  <2>3. ASSUME \E x \in Hebras : Enviando(x)',
               NEW f \in bitmap', bloque'[f].estado, bloque'[f].tabla \notin Bajas'
        PROVE  \/ [tabla |-> bloque'[f].tabla, key |-> bloque'[f].key,
                   ts |-> bloque'[f].ts] \in envio'
               \/ bloque'[f].ts <= lfs'[bloque'[f].tabla][bloque'[f].key]
    <3>1. /\ f \in bitmap /\ f \in Marcos /\ bloque[f].tabla \in Tablas
          /\ bloque'[f].tabla = bloque[f].tabla /\ bloque'[f].key = bloque[f].key
          /\ bloque'[f].ts = bloque[f].ts /\ bloque[f].estado
          /\ \E x \in Hebras : Enviando(x)
      BY <1>1, <2>3, Numeros DEF Mengua
    <3>2. bloque[f].tabla \notin Bajas' /\ bloque[f].tabla \notin Bajas
      BY <2>3, <3>1 DEF Mengua
    <3>3. \/ [tabla |-> bloque[f].tabla, key |-> bloque[f].key, ts |-> bloque[f].ts] \in envio
          \/ bloque[f].ts <= lfs[bloque[f].tabla][bloque[f].key]
      BY <3>1, <3>2 DEF Registro, EnviosDePaginas
    <3>. QED
      BY <3>1, <3>2, <3>3 DEF Mengua
  <2>. QED
    BY <2>1, <2>2, <2>3 DEF EnviosDePaginas
<1>. QED
  BY <1>2, <1>3, <1>4, <1>5 DEF Registro
LEMMA MenguaRegistrados ==
  ASSUME TypeOK, Mengua, NEW t \in Tablas, t \notin Bajas'
  PROVE  Registrados(t) \subseteq Registrados(t)'
<1>1. Guardados(t)' = Guardados(t)
  BY DEF Guardados, Mengua
<1>2. ASSUME NEW f \in bitmap, bloque[f].estado, bloque[f].tabla = t
      PROVE  /\ f \in bitmap'
             /\ bloque'[f].estado /\ bloque'[f].tabla = t
             /\ bloque'[f].key = bloque[f].key /\ bloque'[f].ts = bloque[f].ts
  BY <1>2 DEF Mengua, TypeOK
<1>3. PorGuardar(t) \subseteq PorGuardar(t)'
  BY <1>2 DEF PorGuardar
<1>. QED
  BY <1>1, <1>3 DEF Registrados

LEMMA MenguaSabido ==
  ASSUME TypeOK, TypeOK', Mengua, NEW d \in Clientes, Sabido(d), Mismo(d)
  PROVE  Sabido(d)'
<1>. DEFINE t == ped[d].tabla
            k == ped[d].key
<1>1. /\ t \in Tablas /\ k \in Claves
      /\ ped[d].ts \in Nat /\ ped[d].piso \in Nat /\ ped[d].marco \in Marcos
      /\ bitmap \subseteq Marcos /\ reloj \in Nat /\ reloj' \in Nat
  BY Numeros, NumerosDespues
<1>2. /\ pc'[d] = pc[d] /\ ped'[d].cmd = ped[d].cmd
      /\ ped'[d].tabla = t /\ ped'[d].key = k
      /\ ped'[d].ts = ped[d].ts /\ ped'[d].marco = ped[d].marco
      /\ ped'[d].piso = ped[d].piso /\ ped'[d].limpiado = ped[d].limpiado
  BY DEF Mismo
<1>3. t \notin Bajas' => t \notin Bajas /\ lfs'[t] = lfs[t]
  BY <1>1 DEF Mengua
<1>4. Papel(d)' /\ Reciente(d)'
  BY <1>1, <1>2 DEF Sabido, Papel, Reciente, Relleno, Mengua
<1>5. Puntero(d)'
  <2>1. ped'[d].seg = "liberado" => ped[d].seg = "liberado" \/ t \in Bajas'
    BY DEF Mismo
  <2>2. Paginas(t, k) = {} => {f \in segmentos'[t] : bloque'[f].key = k} = {}
    <3>1. segmentos'[t] \subseteq segmentos[t] /\ segmentos[t] \subseteq Marcos
      BY <1>1 DEF Mengua, TypeOK
    <3>. QED
      BY <3>1 DEF Paginas, Mengua
  <2>3. /\ bloque'[ped[d].marco].tabla = bloque[ped[d].marco].tabla
        /\ bloque'[ped[d].marco].key = bloque[ped[d].marco].key
    BY <1>1 DEF Mengua
  <2>. HIDE DEF t, k
  <2>. QED
    BY <1>2, <1>3, <2>1, <2>2, <2>3 DEF Sabido, Puntero, Paginas, t, k
<1>6. Fresco(d)'
  <2>1. (\E x \in Hebras \ {d} : Enviando(x)) => \E x \in Hebras \ {d} : Enviando(x)'
    BY DEF Mengua
  <2>. QED
    BY <1>2, <1>3, <2>1 DEF Sabido, Fresco, Relleno
<1>7. Alcanza(d)'
  <2>1. PICK u \in Tablas : u = t
    BY <1>1
  <2>2. t \notin Bajas' => Registrados(u) \subseteq Registrados(u)'
    BY <2>1, MenguaRegistrados
  <2>. HIDE DEF t, k
  <2>3. ped[d].cmd = "SELECT" /\ t \notin Bajas' =>
            /\ pc[d] \in {"sel_rw", "sel_leer"} =>
                 \/ ped[d].piso = 0
                 \/ \E r \in Registrados(u)' : r.key = k /\ ped[d].piso <= r.ts
            /\ pc[d] = "sel_lfs" => ped[d].piso <= lfs'[t][k]
            /\ Relleno(d) \/ pc[d] = "sel_responder" => ped[d].piso <= ped[d].ts
    BY <1>3, <2>1, <2>2 DEF Sabido, Alcanza, t, k
  <2>. QED
    BY <1>2, <2>1, <2>3 DEF Alcanza, Relleno, Registrados, Guardados, PorGuardar, t, k
<1>. QED
  BY <1>4, <1>5, <1>6, <1>7 DEF Sabido

\* The step of x changes nothing of another thread, and frees no segment of it.
Solo(x) ==
    /\ \A y \in Hebras \ {x} : pc'[y] = pc[y]
    /\ \A d \in Clientes \ {x} : ped'[d] = ped[d]

\* Who deletes a table goes on, or the LFS has it no more.
SigueBorrando(d) ==
    pc[d] \in Borrando =>
        \/ pc'[d] \in Borrando /\ ped'[d].tabla = ped[d].tabla
        \/ ped[d].tabla \notin lfsTablas'

LEMMA BajasCrecen ==
  ASSUME lfsTablas' \subseteq lfsTablas, \A d \in Clientes : SigueBorrando(d)
  PROVE  Bajas \subseteq Bajas'
<1>. SUFFICES ASSUME NEW t \in Tablas, DeBaja(t) PROVE t \in Bajas'
  BY DEF Bajas
<1>. QED
  BY DEF Bajas, DeBaja, SigueBorrando

\* A step of x that is about no page and no record.
Aparte(x) ==
    /\ reloj <= reloj'
    /\ UNCHANGED <<paginas, externo, envio>>
    /\ Solo(x)
    /\ x \in Clientes => SigueBorrando(x)
    /\ pc[x] # "jou_enviar" /\ pc'[x] # "jou_enviar"

LEMMA MenguaAparte ==
  ASSUME TypeOK, TypeOK', NEW x \in Hebras, Aparte(x)
  PROVE  Mengua
<1>1. UNCHANGED <<bloque, bitmap, segmentos, lfs, lfsTablas, envio>> /\ reloj <= reloj'
  BY DEF Aparte, paginas, externo
<1>2. \A d \in Clientes : SigueBorrando(d)
  <2>1. Clientes \subseteq Hebras
    BY DEF Hebras
  <2>. QED
    BY <2>1 DEF Aparte, Solo, SigueBorrando
<1>3. Bajas \subseteq Bajas'
  BY <1>1, <1>2, BajasCrecen
<1>4. \A y \in Hebras : Enviando(y)' <=> Enviando(y)
  BY DEF Aparte, Solo, Enviando
<1>5. \A t \in Tablas, k \in Claves : lfs'[t][k] \in {0, lfs[t][k]}
  BY <1>1, Numeros
<1>. QED
  BY <1>1, <1>3, <1>4, <1>5 DEF Mengua

LEMMA SoloMismo ==
  ASSUME NEW x \in Hebras, Solo(x), NEW d \in Clientes \ {x}
  PROVE  Mismo(d)
  BY DEF Solo, Mismo, Hebras

\* It is enough to know what the thread that moves learns.
LEMMA BastaConQuienMueve ==
  ASSUME TypeOK, TypeOK', Registro, Sabidos, Mengua, NEW x \in Hebras,
         \A d \in Clientes \ {x} : Mismo(d),
         x \in Clientes => Sabido(x)'
  PROVE  Mengua /\ Registro' /\ Sabidos'
<1>1. ASSUME NEW d \in Clientes PROVE Sabido(d)'
  <2>1. CASE d = x
    BY <2>1
  <2>2. CASE d # x
    BY <2>2, MenguaSabido DEF Sabidos
  <2>. QED
    BY <2>1, <2>2
<1>. QED
  BY <1>1, MenguaRegistro DEF Sabidos
----------------------------------------------------------------------------
(* What the client that moves learns                                       *)

Base == TypeOK /\ Exclusion /\ Consistencia

LEMMA ContestarSabido ==
  ASSUME TypeOK, TypeOK', NEW c \in Clientes, Contestar(c)
  PROVE  Sabido(c)'
<1>0. c \in DOMAIN pc /\ c \in DOMAIN ped
  BY DEF TypeOK, Hebras
<1>1. pc'[c] = "libre" /\ ped'[c] = PedidoNulo
  BY <1>0 DEF Contestar, Ir
<1>3. reloj' \in Nat
  BY NumerosDespues
<1>2. /\ PedidoNulo.cmd = "JOURNAL" /\ PedidoNulo.ts = 0
      /\ PedidoNulo.limpiado = FALSE
  BY DEF PedidoNulo
<1>. QED
  BY <1>1, <1>2, <1>3 DEF Sabido, Papel, Puntero, Fresco, Alcanza, Reciente,
                          Relleno, Insertando, Journalizando

\* Nobody else sends a journal while c writes.
LEMMA NadieEnvia ==
  ASSUME Exclusion, NEW x \in Hebras, escritor = x \/ escritor = Nadie,
         NEW y \in Hebras \ {x}
  PROVE  pc[y] \notin ConEscritura(y) /\ ~Enviando(y)
<1>1. y # Nadie
  BY DEF MemoriaAssumption
<1>2. "jou_enviar" \in ConEscritura(y)
  BY DEF ConEscritura
<1>. QED
  BY <1>1, <1>2 DEF Exclusion, EscritorUnico, Enviando

\* The frames in use with a page of a table are those of its segment.
LEMMA MarcosDeTabla ==
  ASSUME TypeOK, Consistencia, EnSegmento, NEW t \in Tablas
  PROVE  /\ \A f \in segmentos[t] : f \in bitmap /\ bloque[f].tabla = t
         /\ t \notin Bajas => \A f \in bitmap : bloque[f].tabla = t => f \in segmentos[t]
  BY DEF Consistencia, SegmentosEnBitmap, EnSegmento

\* The LFS has the record the SELECT is after when no page of the key is found.
LEMMA EnLfsSinPagina ==
  ASSUME Base, EnSegmento, NEW t \in Tablas, NEW k \in Claves, NEW n \in Nat,
         t \notin Bajas, Paginas(t, k) = {},
         n = 0 \/ \E r \in Registrados(t) : r.key = k /\ n <= r.ts
  PROVE  n <= lfs[t][k]
<1>1. lfs[t][k] \in Nat /\ bitmap \subseteq Marcos
  BY Numeros DEF Base
<1>2. ASSUME NEW r \in PorGuardar(t) PROVE r.key # k
  <2>1. PICK f \in bitmap : bloque[f].tabla = t /\ r.key = bloque[f].key
    BY <1>2 DEF PorGuardar
  <2>2. f \in segmentos[t]
    BY <2>1, MarcosDeTabla DEF Base
  <2>. QED
    BY <2>1, <2>2 DEF Paginas
<1>3. ASSUME NEW r \in Guardados(t), r.key = k PROVE r.ts = lfs[t][k]
  BY <1>3 DEF Guardados
<1>. QED
  BY <1>1, <1>2, <1>3 DEF Registrados

\* A page that is found and was not filled late has the record a SELECT is after.
LEMMA EnPaginaHallada ==
  ASSUME Base, Registro, NEW t \in Tablas, NEW k \in Claves, NEW n \in Nat,
         t \notin Bajas, NEW f \in Paginas(t, k), ~bloque[f].rancia,
         n = 0 \/ \E r \in Registrados(t) : r.key = k /\ n <= r.ts
  PROVE  n <= bloque[f].ts
<1>1. /\ f \in segmentos[t] /\ f \in bitmap /\ f \in Marcos
      /\ bloque[f].tabla = t /\ bloque[f].key = k
      /\ bloque[f].ts \in Nat /\ lfs[t][k] \in Nat
  BY MarcosDeTabla, Numeros DEF Base, Registro, Paginas
<1>2. ASSUME NEW r \in PorGuardar(t), r.key = k PROVE r.ts = bloque[f].ts
  <2>1. PICK g \in bitmap : /\ bloque[g].tabla = t
                            /\ r.key = bloque[g].key /\ r.ts = bloque[g].ts
    BY <1>2 DEF PorGuardar
  <2>2. g \in segmentos[t] /\ g \in Marcos
    BY <2>1, MarcosDeTabla, Numeros DEF Base, Registro
  <2>3. {f, g} \subseteq segmentos[t]
    BY <1>1, <2>2
  <2>4. f = g
    BY <1>1, <1>2, <2>1, <2>2, <2>3 DEF Base, Consistencia, UnaPaginaPorClave
  <2>. QED
    BY <2>1, <2>4
<1>3. ASSUME NEW r \in Guardados(t), r.key = k PROVE r.ts = lfs[t][k]
  BY <1>3 DEF Guardados
<1>4. lfs[t][k] <= bloque[f].ts
  BY <1>1 DEF Registro, PaginaAlDia
<1>. QED
  BY <1>1, <1>2, <1>3, <1>4 DEF Registrados

\* What does not change with a step that keeps the request.
LEMMA SeguirQuieto ==
  ASSUME TypeOK, TypeOK', NEW c \in Clientes, Aparte(c), NEW p, Seguir(c, p)
  PROVE  /\ pc'[c] = p
         /\ ped' = ped
         /\ UNCHANGED <<bloque, bitmap, segmentos, lfs, lfsTablas>>
         /\ \A x \in Hebras \ {c} : Enviando(x)' <=> Enviando(x)
         /\ Bajas \subseteq Bajas'
<1>1. c \in Hebras
  BY DEF Hebras
<1>2. Mengua
  BY <1>1, MenguaAparte
<1>. QED
  BY <1>1, <1>2 DEF Seguir, Ir, TypeOK, Aparte, paginas, externo, Mengua
\* An INSERT or a journal goes on with the same request.
LEMMA SeguirInsert ==
  ASSUME Base, TypeOK', NEW c \in Clientes, Sabido(c), Aparte(c), reloj' = reloj,
         NEW p, Seguir(c, p),
         \/ pc[c] = "ins_lru" /\ p = "ins_rw"
         \/ pc[c] = "ins_rw" /\ p = "ins_jh"
         \/ pc[c] = "ins_bitmap" /\ p \in {"ins_crear", "ins_accion"}
         \/ pc[c] = "ins_accion" /\ p = "jou_hecho"
         \/ pc[c] = "jou_rw" /\ p = "jou_hecho"
         \/ pc[c] = "jou_hecho" /\ p = "jou_recolectar"
  PROVE  Sabido(c)'
<1>1. /\ pc'[c] = p
      /\ ped' = ped
      /\ UNCHANGED <<bloque, bitmap, segmentos, lfs, lfsTablas>>
      /\ \A x \in Hebras \ {c} : Enviando(x)' <=> Enviando(x)
      /\ Bajas \subseteq Bajas'
  BY SeguirQuieto DEF Base
<1>2. ped[c].cmd # "JOURNAL" /\ p \in Journalizando /\ pc[c] = "jou_rw" => FALSE
  BY DEF Sabido, Papel
<1>3. pc[c] = "ins_bitmap" => Paginas(ped[c].tabla, ped[c].key) = {}
  BY DEF Base, Consistencia, NoHayPagina
<1>4. Relleno(c)' => Relleno(c)
  BY <1>1 DEF Relleno, Insertando, Journalizando, Sabido, Papel
<1>5. pc'[c] \notin {"sel_rw", "sel_leer", "sel_lfs", "sel_responder", "ins_modificar", "jou_rw"}
  BY <1>1
<1>6. Papel(c)'
  BY <1>1, <1>5 DEF Sabido, Papel, Insertando, Journalizando
<1>7. Puntero(c)'
  BY <1>1, <1>2, <1>3 DEF Sabido, Puntero, Paginas, Journalizando
<1>8. Fresco(c)'
  BY <1>1, <1>4 DEF Sabido, Fresco
<1>9. Alcanza(c)'
  BY <1>1, <1>4, <1>5 DEF Sabido, Alcanza
<1>10. Reciente(c)'
  BY <1>1, <1>4 DEF Sabido, Reciente
<1>. QED
  BY <1>6, <1>7, <1>8, <1>9, <1>10 DEF Sabido

\* A SELECT that has looked for the page, and a DROP.
LEMMA SeguirSelect ==
  ASSUME Base, TypeOK', Registro, NEW c \in Clientes, Sabido(c), Aparte(c),
         reloj' = reloj, NEW p, Seguir(c, p),
         \/ /\ pc[c] = "sel_rw" /\ p = "sel_lfs"
            /\ Paginas(ped[c].tabla, ped[c].key) = {}
         \/ pc[c] = "sel_rw" /\ p = "sel_leer"
         \/ pc[c] = "drop_buscar" /\ p = "drop_lfs"
  PROVE  Sabido(c)'
<1>. DEFINE t == ped[c].tabla
            k == ped[c].key
<1>1. /\ pc'[c] = p
      /\ ped' = ped
      /\ UNCHANGED <<bloque, bitmap, segmentos, lfs, lfsTablas>>
      /\ Bajas \subseteq Bajas'
  BY SeguirQuieto DEF Base
<1>2. t \in Tablas /\ k \in Claves /\ ped[c].piso \in Nat
  BY Numeros DEF Base
<1>3. ~Relleno(c)' /\ pc'[c] # "sel_responder"
  BY <1>1 DEF Relleno, Insertando, Journalizando
<1>4. Papel(c)'
  BY <1>1, <1>3 DEF Sabido, Papel, Insertando, Journalizando
<1>5. Puntero(c)'
  BY <1>1 DEF Puntero, Journalizando
<1>6. Fresco(c)' /\ Reciente(c)'
  BY <1>1, <1>3 DEF Sabido, Fresco, Reciente
<1>7. Alcanza(c)'
  <2>1. CASE pc[c] = "drop_buscar"
    BY <1>1, <1>3, <2>1 DEF Alcanza
  <2>2. CASE pc[c] = "sel_rw" /\ t \in Bajas'
    BY <1>1, <2>2 DEF Alcanza
  <2>3. CASE pc[c] = "sel_rw" /\ t \notin Bajas'
    <3>1. /\ t \notin Bajas
          /\ \/ ped[c].piso = 0
             \/ \E r \in Registrados(t) : r.key = k /\ ped[c].piso <= r.ts
      BY <1>1, <2>3 DEF Sabido, Alcanza, Papel
    <3>2. CASE p = "sel_lfs"
      <4>1. ped[c].piso <= lfs[t][k]
        BY <1>2, <2>3, <3>1, <3>2, EnLfsSinPagina DEF Registro
      <4>. QED
        BY <1>1, <1>3, <3>2, <4>1 DEF Alcanza
    <3>3. CASE p = "sel_leer"
      <4>1. Registrados(t)' = Registrados(t)
        BY <1>1 DEF Registrados, Guardados, PorGuardar
      <4>. QED
        BY <1>1, <1>3, <3>1, <3>3, <4>1 DEF Alcanza
    <3>. QED
      BY <2>3, <3>2, <3>3
  <2>. QED
    BY <2>1, <2>2, <2>3
<1>. QED
  BY <1>4, <1>5, <1>6, <1>7 DEF Sabido
LEMMA BuscarSabido ==
  ASSUME Base, TypeOK', Registro, NEW c \in Clientes, Sabido(c), Aparte(c),
         reloj' = reloj, NEW p \in {"ins_bitmap", "ins_crear"},
         pc[c] \in Insertando, Buscar(c, p)
  PROVE  Sabido(c)'
<1>. DEFINE t == ped[c].tabla
            k == ped[c].key
<1>1. /\ UNCHANGED <<bloque, bitmap, segmentos, lfs, lfsTablas>>
      /\ \A x \in Hebras \ {c} : Enviando(x)' <=> Enviando(x)
      /\ Bajas \subseteq Bajas'
  <2>1. Mengua /\ c \in Hebras
    BY MenguaAparte DEF Base, Hebras
  <2>. QED
    BY <2>1 DEF Aparte, Mengua, paginas, externo
<1>2. t \in Tablas /\ ped[c] \in Pedido /\ c \in Hebras
  BY DEF Base, TypeOK, Pedido, Hebras
<1>3. /\ pc'[c] \in {"ins_modificar", p}
      /\ ped'[c].cmd = ped[c].cmd /\ ped'[c].tabla = t /\ ped'[c].key = k
      /\ ped'[c].ts = ped[c].ts /\ ped'[c].piso = ped[c].piso
      /\ ped'[c].limpiado = ped[c].limpiado
      /\ \/ pc'[c] = "ins_modificar" /\ ped'[c].marco \in Paginas(t, k)
         \/ pc'[c] = p /\ ped'[c].seg \in {"nulo", "segmento"}
  <2>1. CASE \E f \in Paginas(t, k) : /\ Ir(c, "ins_modificar")
                                      /\ ped' = [ped EXCEPT ![c].marco = f]
    <3>1. PICK f \in Paginas(t, k) : /\ Ir(c, "ins_modificar")
                                     /\ ped' = [ped EXCEPT ![c].marco = f]
      BY <2>1
    <3>. QED
      BY <1>2, <3>1 DEF Base, Ir, TypeOK, Pedido
  <2>2. CASE /\ Ir(c, p)
             /\ ped' = [ped EXCEPT ![c].seg = PunteroSegmento(t)]
    <3>1. PunteroSegmento(t) \in {"nulo", "segmento"}
      BY DEF PunteroSegmento
    <3>. QED
      BY <1>2, <2>2, <3>1 DEF Base, Ir, TypeOK, Pedido
  <2>. QED
    BY <2>1, <2>2 DEF Buscar
<1>. HIDE DEF t, k
<1>4. pc'[c] \in {"ins_modificar", "ins_bitmap", "ins_crear"}
      /\ (pc'[c] = p => p \in {"ins_bitmap", "ins_crear"})
  BY <1>3
<1>5. Relleno(c)' <=> Relleno(c)
  BY <1>3, <1>4 DEF Relleno, Insertando
<1>6. Papel(c)'
  BY <1>3, <1>4 DEF Sabido, Papel, Insertando, Journalizando, t, k
<1>7. Puntero(c)'
  <2>1. pc'[c] = "ins_modificar" =>
          bloque[ped'[c].marco].tabla = t /\ bloque[ped'[c].marco].key = k
    BY <1>2, <1>3, MarcosDeTabla DEF Base, Registro, Paginas
  <2>. QED
    BY <1>1, <1>3, <1>4, <2>1 DEF Puntero, Journalizando
<1>8. Fresco(c)'
  BY <1>1, <1>3, <1>5 DEF Sabido, Fresco, t, k
<1>9. Alcanza(c)'
  BY <1>1, <1>3, <1>4, <1>5 DEF Sabido, Alcanza, t, k
<1>10. Reciente(c)'
  BY <1>3, <1>5 DEF Sabido, Reciente
<1>. QED
  BY <1>6, <1>7, <1>8, <1>9, <1>10 DEF Sabido

\* An INSERT ends, and a SELECT answers what it put in the page.
LEMMA TrasInsertarSabido ==
  ASSUME TypeOK, TypeOK', NEW c \in Clientes, Sabido(c), Bajas \subseteq Bajas',
         reloj' = reloj, pc[c] \in Insertando, TrasInsertar(c)
  PROVE  Sabido(c)'
<1>1. CASE ped[c].cmd = "INSERT"
  BY <1>1, ContestarSabido DEF TrasInsertar
<1>2. CASE ped[c].cmd # "INSERT"
  <2>1. ped[c].cmd = "SELECT"
    BY <1>2 DEF Sabido, Papel
  <2>2. pc'[c] = "sel_responder" /\ ped' = ped
    BY <1>2 DEF TrasInsertar, Seguir, Ir, TypeOK, Hebras
  <2>3. Relleno(c) /\ ~Relleno(c)'
    BY <2>1, <2>2 DEF Relleno, Insertando, Journalizando
  <2>4. Papel(c)' /\ Puntero(c)' /\ Fresco(c)'
    BY <2>1, <2>2, <2>3 DEF Papel, Puntero, Fresco, Insertando, Journalizando
  <2>5. Alcanza(c)' /\ Reciente(c)'
    BY <2>1, <2>2, <2>3 DEF Sabido, Alcanza, Reciente
  <2>. QED
    BY <2>4, <2>5 DEF Sabido
<1>. QED
  BY <1>1, <1>2

\* A SELECT reads a page, or has the answer of the LFS.
LEMMA SelectLeerSabido ==
  ASSUME Base, TypeOK', Registro, NEW c \in Clientes, Sabido(c), NEW f \in Marcos,
         SelectLeer(c, f), Bajas \subseteq Bajas'
  PROVE  Sabido(c)'
<1>. DEFINE t == ped[c].tabla
            k == ped[c].key
<1>1. /\ t \in Tablas /\ k \in Claves /\ ped[c] \in Pedido /\ ped[c].piso \in Nat
      /\ f \in Paginas(t, k) /\ f \in Marcos /\ bloque[f].ts \in Nat
  BY Numeros DEF Base, TypeOK, Paginas, SelectLeer
<1>2. /\ pc[c] = "sel_leer" /\ reloj' = reloj
      /\ pc'[c] = "sel_responder"
      /\ ped'[c].cmd = ped[c].cmd /\ ped'[c].tabla = t /\ ped'[c].key = k
      /\ ped'[c].limpiado = ped[c].limpiado
      /\ ped'[c].ts = bloque[f].ts
      /\ ped'[c].piso = IF bloque[f].rancia THEN 0 ELSE ped[c].piso
  <2>1. ped' = [ped EXCEPT ![c] =
                  [ped[c] EXCEPT !.ts = bloque[f].ts,
                     !.piso = IF bloque[f].rancia THEN 0 ELSE ped[c].piso]]
    BY <1>1 DEF SelectLeer, Base, TypeOK, Pedido
  <2>2. ped'[c] = [ped[c] EXCEPT !.ts = bloque[f].ts,
                     !.piso = IF bloque[f].rancia THEN 0 ELSE ped[c].piso]
    BY <2>1 DEF Base, TypeOK
  <2>. QED
    BY <1>1, <2>2 DEF SelectLeer, Ir, Base, TypeOK, Hebras, Pedido
<1>3. ped[c].cmd = "SELECT"
  BY <1>2 DEF Sabido, Papel
<1>. HIDE DEF t, k
<1>4. ~Relleno(c)'
  BY <1>2 DEF Relleno, Insertando, Journalizando
<1>5. Papel(c)' /\ Puntero(c)' /\ Fresco(c)'
  BY <1>2, <1>3, <1>4 DEF Papel, Puntero, Fresco, Insertando, Journalizando
<1>6. ASSUME t \notin Bajas' PROVE ped'[c].piso <= bloque[f].ts
  <2>1. t \notin Bajas
    BY <1>6
  <2>2. ped[c].piso = 0 \/ \E r \in Registrados(t) : r.key = k /\ ped[c].piso <= r.ts
    BY <1>2, <1>3, <2>1 DEF Sabido, Alcanza, t, k
  <2>3. ~bloque[f].rancia => ped[c].piso <= bloque[f].ts
    BY <1>1, <2>1, <2>2, EnPaginaHallada
  <2>. QED
    BY <1>1, <1>2, <2>3
<1>7. Alcanza(c)'
  BY <1>2, <1>4, <1>6 DEF Alcanza
<1>8. Reciente(c)'
  BY <1>1, <1>2, <1>4 DEF Reciente, Registro, Tiempo
<1>. QED
  BY <1>5, <1>7, <1>8 DEF Sabido

LEMMA SelectLfsSabido ==
  ASSUME Base, TypeOK', Registro, NEW c \in Clientes, Sabido(c), SelectLfs(c),
         Bajas \subseteq Bajas'
  PROVE  Sabido(c)'
<1>. DEFINE t == ped[c].tabla
            k == ped[c].key
<1>1. /\ t \in Tablas /\ k \in Claves /\ ped[c] \in Pedido /\ lfs[t][k] \in Nat
  BY Numeros DEF Base, TypeOK
<1>2. /\ pc[c] = "sel_lfs" /\ reloj' = reloj /\ lfs' = lfs /\ lfs[t][k] > 0
      /\ pc'[c] = "ins_lru"
      /\ ped'[c].cmd = ped[c].cmd /\ ped'[c].tabla = t /\ ped'[c].key = k
      /\ ped'[c].limpiado = ped[c].limpiado
      /\ ped'[c].piso = ped[c].piso
      /\ ped'[c].ts = lfs[t][k]
  <2>1. ped'[c] = [ped[c] EXCEPT !.ts = lfs[t][k]]
    BY DEF SelectLfs, Base, TypeOK
  <2>. QED
    BY <1>1, <2>1 DEF SelectLfs, externo, Ir, Base, TypeOK, Hebras, Pedido
<1>3. ped[c].cmd = "SELECT"
  BY <1>2 DEF Sabido, Papel
<1>. HIDE DEF t, k
<1>4. Papel(c)' /\ Puntero(c)'
  BY <1>2, <1>3 DEF Papel, Puntero, Insertando, Journalizando
<1>5. Fresco(c)'
  BY <1>1, <1>2 DEF Fresco
<1>6. Alcanza(c)'
  BY <1>1, <1>2, <1>3 DEF Sabido, Alcanza, t, k
<1>7. Reciente(c)'
  BY <1>1, <1>2 DEF Reciente, Registro, Tiempo
<1>. QED
  BY <1>4, <1>5, <1>6, <1>7 DEF Sabido
\* The next three lemmas are about the steps of a client that write nothing and
\* end no journal.
LEMMA AparteSigue ==
  ASSUME Base, TypeOK', Registro, Sabidos, NEW x \in Hebras, Aparte(x),
         x \in Clientes => Sabido(x)'
  PROVE  Mengua /\ Registro' /\ Sabidos'
<1>1. Mengua
  BY MenguaAparte DEF Base
<1>2. \A d \in Clientes \ {x} : Mismo(d)
  BY SoloMismo DEF Aparte
<1>. QED
  BY <1>1, <1>2, BastaConQuienMueve DEF Base

\* A client that keeps what it is not about.
LEMMA AparteCliente ==
  ASSUME TypeOK, NEW c \in Clientes, NEW p, Ir(c, p), p # "jou_enviar",
         pc[c] # "jou_enviar", pc[c] \in Borrando => p \in Borrando /\ ped'[c].tabla = ped[c].tabla,
         \A d \in Clientes \ {c} : ped'[d] = ped[d],
         reloj' = reloj, UNCHANGED <<paginas, externo, envio>>
  PROVE  Aparte(c)
<1>1. pc'[c] = p /\ \A y \in Hebras \ {c} : pc'[y] = pc[y]
  BY DEF Ir, TypeOK, Hebras
<1>2. reloj <= reloj'
  BY Numeros
<1>. QED
  BY <1>1, <1>2 DEF Aparte, Solo, SigueBorrando

LEMMA InsertSigue ==
  ASSUME Base, TypeOK', Registro, Sabidos, NEW c \in Clientes,
         \/ InsertEsperar(c) \/ InsertTomarRw(c) \/ InsertBuscar(c)
         \/ InsertHayMarco(c) \/ InsertBitmapLleno(c) \/ LruSinCandidato(c)
         \/ InsertRebuscar(c) \/ JournalTomarRw(c) \/ JournalBloquear(c)
  PROVE  Mengua /\ Registro' /\ Sabidos'
<1>1. c \in Hebras /\ Sabido(c) /\ TypeOK
  BY DEF Hebras, Sabidos, Base
<1>2. CASE InsertBuscar(c) \/ InsertRebuscar(c)
  <2>1. PICK p \in {"ins_bitmap", "ins_crear"} :
             /\ Buscar(c, p)
             /\ pc[c] \in {"ins_jh", "ins_rebuscar"}
             /\ reloj' = reloj /\ UNCHANGED <<paginas, externo, envio>>
    BY <1>2 DEF InsertBuscar, InsertRebuscar, journal
  <2>2. \A d \in Clientes \ {c} : ped'[d] = ped[d]
    BY <1>1, <2>1 DEF Buscar, TypeOK
  <2>3. \E q \in {"ins_modificar", "ins_bitmap", "ins_crear"} : Ir(c, q)
    BY <2>1 DEF Buscar
  <2>4. Aparte(c)
    BY <1>1, <2>1, <2>2, <2>3, AparteCliente DEF Borrando
  <2>5. Sabido(c)'
    BY <1>1, <2>1, <2>4, BuscarSabido DEF Insertando
  <2>. QED
    BY <1>1, <2>4, <2>5, AparteSigue
<1>3. CASE \/ InsertEsperar(c) \/ InsertTomarRw(c) \/ InsertHayMarco(c)
           \/ InsertBitmapLleno(c) \/ LruSinCandidato(c)
           \/ JournalTomarRw(c) \/ JournalBloquear(c)
  <2>1. PICK p : /\ Seguir(c, p)
                 /\ reloj' = reloj /\ UNCHANGED <<paginas, externo, envio>>
                 /\ \/ pc[c] = "ins_lru" /\ p = "ins_rw"
                    \/ pc[c] = "ins_rw" /\ p = "ins_jh"
                    \/ pc[c] = "ins_bitmap" /\ p \in {"ins_crear", "ins_accion"}
                    \/ pc[c] = "ins_accion" /\ p = "jou_hecho"
                    \/ pc[c] = "jou_rw" /\ p = "jou_hecho"
                    \/ pc[c] = "jou_hecho" /\ p = "jou_recolectar"
    BY <1>3 DEF InsertEsperar, InsertTomarRw, InsertHayMarco, InsertBitmapLleno,
                LruSinCandidato, JournalTomarRw, JournalBloquear, journal
  <2>2. Ir(c, p) /\ ped' = ped
    BY <2>1 DEF Seguir
  <2>3. Aparte(c)
    BY <1>1, <2>1, <2>2, AparteCliente DEF Borrando
  <2>4. Sabido(c)'
    BY <1>1, <2>1, <2>3, SeguirInsert
  <2>. QED
    BY <1>1, <2>3, <2>4, AparteSigue
<1>. QED
  BY <1>2, <1>3

LEMMA SelectSigue ==
  ASSUME Base, TypeOK', Registro, Sabidos, NEW c \in Clientes,
         \/ SelectNoEsta(c) \/ SelectEsta(c) \/ SelectSinPagina(c)
         \/ SelectLfs(c) \/ SelectError(c) \/ SelectResponder(c)
         \/ DropSinSegmento(c) \/ DropBuscar(c)
  PROVE  Mengua /\ Registro' /\ Sabidos'
<1>1. c \in Hebras /\ Sabido(c) /\ TypeOK
  BY DEF Hebras, Sabidos, Base
<1>2. CASE SelectNoEsta(c) \/ SelectEsta(c) \/ DropSinSegmento(c)
  <2>1. PICK p : /\ Seguir(c, p)
                 /\ reloj' = reloj /\ UNCHANGED <<paginas, externo, envio>>
                 /\ \/ /\ pc[c] = "sel_rw" /\ p = "sel_lfs"
                       /\ Paginas(ped[c].tabla, ped[c].key) = {}
                    \/ pc[c] = "sel_rw" /\ p = "sel_leer"
                    \/ pc[c] = "drop_buscar" /\ p = "drop_lfs"
    BY <1>2 DEF SelectNoEsta, SelectEsta, DropSinSegmento, journal
  <2>2. Ir(c, p) /\ ped' = ped
    BY <2>1 DEF Seguir
  <2>3. Aparte(c)
    BY <1>1, <2>1, <2>2, AparteCliente DEF Borrando
  <2>4. Sabido(c)'
    BY <1>1, <2>1, <2>3, SeguirSelect
  <2>. QED
    BY <1>1, <2>3, <2>4, AparteSigue
<1>3. CASE SelectSinPagina(c) \/ SelectError(c) \/ SelectResponder(c)
  <2>1. /\ Contestar(c)
        /\ pc[c] \in {"sel_leer", "sel_lfs", "sel_responder"}
        /\ reloj' = reloj /\ UNCHANGED <<paginas, externo, envio>>
    BY <1>3 DEF SelectSinPagina, SelectError, SelectResponder, journal
  <2>2. Ir(c, "libre") /\ \A d \in Clientes \ {c} : ped'[d] = ped[d]
    BY <1>1, <2>1 DEF Contestar, TypeOK
  <2>3. Aparte(c)
    BY <1>1, <2>1, <2>2, AparteCliente DEF Borrando
  <2>4. Sabido(c)'
    BY <1>1, <2>1, ContestarSabido
  <2>. QED
    BY <1>1, <2>3, <2>4, AparteSigue
<1>4. CASE SelectLfs(c)
  <2>1. /\ Ir(c, "ins_lru") /\ pc[c] = "sel_lfs"
        /\ reloj' = reloj /\ UNCHANGED <<paginas, externo, envio>>
        /\ \A d \in Clientes \ {c} : ped'[d] = ped[d]
    BY <1>1, <1>4 DEF SelectLfs, journal, TypeOK
  <2>2. Aparte(c)
    BY <1>1, <2>1, AparteCliente DEF Borrando
  <2>3. Sabido(c)'
    BY <1>1, <1>4, <2>2, MenguaAparte, SelectLfsSabido DEF Mengua
  <2>. QED
    BY <1>1, <2>2, <2>3, AparteSigue
<1>5. CASE DropBuscar(c)
  <2>1. /\ Ir(c, "drop_borrar") /\ pc[c] = "drop_buscar"
        /\ reloj' = reloj /\ UNCHANGED <<paginas, externo, envio>>
        /\ \A d \in Clientes \ {c} : ped'[d] = ped[d]
        /\ ped'[c] = [ped[c] EXCEPT !.seg = "segmento"]
    BY <1>1, <1>5 DEF DropBuscar, journal, TypeOK
  <2>2. /\ ped'[c].tabla = ped[c].tabla /\ ped'[c].limpiado = ped[c].limpiado
        /\ ped'[c].cmd = ped[c].cmd /\ ped'[c].ts = ped[c].ts
    BY <1>1, <2>1 DEF TypeOK, Pedido
  <2>3. Aparte(c)
    BY <1>1, <2>1, <2>2, AparteCliente DEF Borrando
  <2>4. pc'[c] = "drop_borrar"
    BY <1>1, <2>1 DEF Ir, TypeOK
  <2>5. Sabido(c)'
    BY <1>1, <2>1, <2>2, <2>4
       DEF Sabido, Papel, Puntero, Fresco, Alcanza, Reciente, Relleno,
           Insertando, Journalizando
  <2>. QED
    BY <1>1, <2>3, <2>5, AparteSigue
<1>. QED
  BY <1>2, <1>3, <1>4, <1>5
\* A request begins: a SELECT with the newest record of its key there is.
LEMMA PedirSigue ==
  ASSUME Base, TypeOK', Registro, Sabidos, NEW c \in Clientes, Pedir(c)
  PROVE  Registro' /\ Sabidos'
<1>1. c \in Hebras /\ TypeOK /\ PedidoNulo \in Pedido
  BY PedidoNuloTipo DEF Hebras, Base
<1>. DEFINE Empieza(cmd, p, r) ==
              /\ pc[c] = "libre" /\ Ir(c, p)
              /\ ped' = [ped EXCEPT ![c] = [r EXCEPT !.cmd = cmd]]
              /\ reloj' = reloj /\ UNCHANGED <<paginas, externo, envio>>
<1>2. ASSUME NEW cmd \in Comandos, NEW p, NEW r \in Pedido, Empieza(cmd, p, r),
             p \in {"ins_lru", "sel_rw", "drop_buscar", "jou_rw"}
      PROVE  /\ Aparte(c) /\ pc'[c] = p
             /\ ped'[c] = [r EXCEPT !.cmd = cmd]
             /\ UNCHANGED <<reloj, bloque, bitmap, segmentos, lfs, lfsTablas>>
             /\ Bajas \subseteq Bajas'
  <2>1. \A d \in Clientes \ {c} : ped'[d] = ped[d]
    BY <1>1, <1>2 DEF TypeOK
  <2>2. Aparte(c)
    BY <1>1, <1>2, <2>1, AparteCliente DEF Borrando
  <2>3. Mengua
    BY <1>1, <2>2, MenguaAparte
  <2>. QED
    BY <1>1, <1>2, <2>2, <2>3 DEF Ir, TypeOK, paginas, externo, Mengua
<1>. DEFINE q == ped'[c]
<1>3. ASSUME Aparte(c), reloj' = reloj, q.ts = 0, q.limpiado = FALSE,
             \/ pc'[c] = "ins_lru" /\ q.cmd = "INSERT"
             \/ pc'[c] = "drop_buscar"
             \/ pc'[c] = "jou_rw" /\ q.cmd = "JOURNAL"
      PROVE  Registro' /\ Sabidos'
  <2>1. reloj \in Nat
    BY <1>1, Numeros
  <2>2. Sabido(c)'
    BY <1>3, <2>1 DEF Sabido, Papel, Puntero, Fresco, Alcanza, Reciente, Relleno,
                      Insertando, Journalizando
  <2>. QED
    BY <1>1, <1>3, <2>2, AparteSigue
<1>4. ASSUME NEW t \in Tablas, NEW k \in Claves, InsertPedir(c, t, k)
      PROVE  Registro' /\ Sabidos'
  <2>. DEFINE r == [PedidoNulo EXCEPT !.tabla = t, !.key = k]
  <2>1. r \in Pedido /\ r.ts = 0 /\ r.limpiado = FALSE
    BY <1>1 DEF Pedido, PedidoNulo
  <2>2. Empieza("INSERT", "ins_lru", r)
    BY <1>4 DEF InsertPedir, Empezar, journal
  <2>. HIDE DEF Empieza, r
  <2>3. [r EXCEPT !.cmd = "INSERT"].ts = 0 /\ [r EXCEPT !.cmd = "INSERT"].limpiado = FALSE
        /\ [r EXCEPT !.cmd = "INSERT"].cmd = "INSERT"
    BY <2>1 DEF Pedido
  <2>4. "INSERT" \in Comandos
    BY DEF Comandos
  <2>. QED
    BY <1>2, <1>3, <2>1, <2>2, <2>3, <2>4
<1>5. ASSUME NEW t \in Tablas, DropPedir(c, t) PROVE Registro' /\ Sabidos'
  <2>. DEFINE r == [PedidoNulo EXCEPT !.tabla = t]
  <2>1. r \in Pedido /\ r.ts = 0 /\ r.limpiado = FALSE
    BY <1>1 DEF Pedido, PedidoNulo
  <2>2. Empieza("DROP", "drop_buscar", r)
    BY <1>5 DEF DropPedir, Empezar, journal
  <2>. HIDE DEF Empieza, r
  <2>3. [r EXCEPT !.cmd = "DROP"].ts = 0 /\ [r EXCEPT !.cmd = "DROP"].limpiado = FALSE
    BY <2>1 DEF Pedido
  <2>4. "DROP" \in Comandos
    BY DEF Comandos
  <2>. QED
    BY <1>2, <1>3, <2>1, <2>2, <2>3, <2>4
<1>6. ASSUME JournalPedir(c) PROVE Registro' /\ Sabidos'
  <2>. DEFINE r == PedidoNulo
  <2>1. r \in Pedido /\ r.ts = 0 /\ r.limpiado = FALSE
    BY <1>1 DEF PedidoNulo
  <2>2. Empieza("JOURNAL", "jou_rw", r)
    BY <1>6 DEF JournalPedir, Empezar, journal
  <2>. HIDE DEF Empieza, r
  <2>3. [r EXCEPT !.cmd = "JOURNAL"].ts = 0 /\ [r EXCEPT !.cmd = "JOURNAL"].limpiado = FALSE
        /\ [r EXCEPT !.cmd = "JOURNAL"].cmd = "JOURNAL"
    BY <2>1 DEF Pedido
  <2>4. "JOURNAL" \in Comandos
    BY DEF Comandos
  <2>. QED
    BY <1>2, <1>3, <2>1, <2>2, <2>3, <2>4
<1>7. ASSUME NEW t \in Tablas, NEW k \in Claves, NEW m \in Tiempos, SelectPedir(c, t, k, m)
      PROVE  Registro' /\ Sabidos'
  <2>. DEFINE r == [PedidoNulo EXCEPT !.tabla = t, !.key = k, !.piso = m]
              s == [r EXCEPT !.cmd = "SELECT"]
  <2>1. r \in Pedido /\ r.ts = 0 /\ r.limpiado = FALSE
        /\ r.tabla = t /\ r.key = k /\ r.piso = m
    BY <1>1 DEF Pedido, PedidoNulo
  <2>2. Empieza("SELECT", "sel_rw", r) /\ EsUltimo(m, Registrados(t), k)
    BY <1>7 DEF SelectPedir, Empezar, journal
  <2>. HIDE DEF Empieza, r
  <2>3. s.ts = 0 /\ s.limpiado = FALSE /\ s.cmd = "SELECT"
        /\ s.tabla = t /\ s.key = k /\ s.piso = m
    BY <2>1 DEF Pedido
  <2>4. "SELECT" \in Comandos
    BY DEF Comandos
  <2>5. /\ Aparte(c) /\ pc'[c] = "sel_rw" /\ ped'[c] = s
        /\ UNCHANGED <<reloj, bloque, bitmap, segmentos, lfs, lfsTablas>>
    BY <1>2, <2>1, <2>2, <2>4
  <2>. HIDE DEF s
  <2>6. m = 0 \/ \E n \in Registrados(t) : n.key = k /\ m <= n.ts
    <3>1. m \in Nat
      BY DEF Tiempos
    <3>. QED
      BY <2>2, <3>1 DEF EsUltimo
  <2>7. Registrados(t)' = Registrados(t)
    BY <2>5 DEF Registrados, Guardados, PorGuardar
  <2>8. ~Relleno(c)' /\ pc'[c] \notin {"sel_lfs", "sel_responder"}
    BY <2>5 DEF Relleno, Insertando, Journalizando
  <2>9. Papel(c)' /\ Puntero(c)' /\ Fresco(c)'
    BY <2>3, <2>5, <2>8 DEF Papel, Puntero, Fresco, Insertando, Journalizando
  <2>10. Reciente(c)'
    BY <1>1, <2>3, <2>5, <2>8, Numeros DEF Reciente
  <2>11. Alcanza(c)'
    BY <2>3, <2>5, <2>6, <2>7, <2>8 DEF Alcanza, Registrados, Guardados, PorGuardar
  <2>. QED
    BY <1>1, <2>5, <2>9, <2>10, <2>11, AparteSigue DEF Sabido
<1>. QED
  BY <1>4, <1>5, <1>6, <1>7 DEF Pedir
LEMMA ModificarNadaSigue ==
  ASSUME Base, TypeOK', Registro, Sabidos, NEW c \in Clientes,
         InsertModificar(c), bloque' = bloque
  PROVE  Mengua /\ Registro' /\ Sabidos'
<1>1. c \in Hebras /\ Sabido(c) /\ TypeOK
  BY DEF Hebras, Sabidos, Base
<1>2. /\ TrasInsertar(c) /\ pc[c] = "ins_modificar"
      /\ reloj' = reloj /\ UNCHANGED <<paginas, externo, envio>>
  BY DEF InsertModificar, journal, paginas
<1>3. \A d \in Clientes \ {c} : ped'[d] = ped[d]
  BY <1>1, <1>2 DEF TrasInsertar, Contestar, Seguir, TypeOK
<1>4. Ir(c, "libre") \/ Ir(c, "sel_responder")
  BY <1>2 DEF TrasInsertar, Contestar, Seguir
<1>5. Aparte(c)
  BY <1>1, <1>2, <1>3, <1>4, AparteCliente DEF Borrando
<1>6. Bajas \subseteq Bajas'
  BY <1>1, <1>5, MenguaAparte DEF Mengua
<1>7. Sabido(c)'
  BY <1>1, <1>2, <1>6, TrasInsertarSabido DEF Insertando
<1>. QED
  BY <1>1, <1>5, <1>7, AparteSigue

LEMMA SelectLeerSigue ==
  ASSUME Base, TypeOK', Registro, Sabidos, NEW c \in Clientes, NEW f \in Marcos,
         SelectLeer(c, f)
  PROVE  Mengua /\ Registro' /\ Sabidos'
<1>1. c \in Hebras /\ Sabido(c) /\ TypeOK
  BY DEF Hebras, Sabidos, Base
<1>2. /\ reloj' = reloj /\ UNCHANGED <<bitmap, segmentos, lfs, lfsTablas, envio>>
      /\ Ir(c, "sel_responder") /\ pc[c] = "sel_leer"
      /\ bloque' = [bloque EXCEPT ![f].acceso = reloj]
      /\ \A d \in Clientes \ {c} : ped'[d] = ped[d]
  BY <1>1 DEF SelectLeer, externo, journal, TypeOK
<1>3. /\ pc'[c] = "sel_responder"
      /\ \A y \in Hebras \ {c} : pc'[y] = pc[y]
  BY <1>1, <1>2 DEF Ir, TypeOK
<1>4. \A g \in Marcos : /\ bloque'[g].tabla = bloque[g].tabla
                        /\ bloque'[g].key = bloque[g].key
                        /\ bloque'[g].ts = bloque[g].ts
                        /\ bloque'[g].estado = bloque[g].estado
                        /\ bloque'[g].rancia = bloque[g].rancia
  BY <1>1, <1>2 DEF TypeOK, Pagina
<1>5. \A d \in Clientes : SigueBorrando(d)
  BY <1>2, <1>3 DEF SigueBorrando, Borrando, Hebras
<1>6. Bajas \subseteq Bajas'
  BY <1>2, <1>5, BajasCrecen
<1>7. \A y \in Hebras : Enviando(y)' <=> Enviando(y)
  BY <1>2, <1>3 DEF Enviando
<1>8. Mengua
  <2>1. reloj <= reloj' /\ \A t \in Tablas, k \in Claves : lfs'[t][k] \in {0, lfs[t][k]}
    BY <1>1, <1>2, Numeros
  <2>. QED
    BY <1>2, <1>4, <1>6, <1>7, <2>1 DEF Mengua
<1>9. \A d \in Clientes \ {c} : Mismo(d)
  BY <1>1, <1>2, <1>3, SoloMismo DEF Solo
<1>10. Sabido(c)'
  BY <1>1, <1>6, SelectLeerSabido
<1>. QED
  BY <1>1, <1>8, <1>9, <1>10, BastaConQuienMueve

LEMMA LruReemplazarSigue ==
  ASSUME Base, TypeOK', Registro, Sabidos, NEW c \in Clientes, NEW f \in Marcos,
         LruReemplazar(c, f)
  PROVE  Mengua /\ Registro' /\ Sabidos'
<1>1. c \in Hebras /\ Sabido(c) /\ TypeOK
  BY DEF Hebras, Sabidos, Base
<1>. DEFINE u == bloque[f].tabla
<1>2. /\ reloj' = reloj /\ UNCHANGED <<bloque, lfs, lfsTablas, envio, ped>>
      /\ Ir(c, "ins_rebuscar") /\ pc[c] = "ins_accion"
      /\ f \in bitmap /\ ~bloque[f].estado /\ u \in Tablas
      /\ bitmap' = bitmap \ {f}
      /\ segmentos' = [segmentos EXCEPT ![u] = @ \ {f}]
  BY <1>1, Numeros DEF LruReemplazar, Candidatos, Seguir, externo, journal
<1>. HIDE DEF u
<1>3. /\ pc'[c] = "ins_rebuscar"
      /\ \A y \in Hebras \ {c} : pc'[y] = pc[y]
  BY <1>1, <1>2 DEF Ir, TypeOK
<1>4. \A t \in Tablas : /\ segmentos'[t] \subseteq segmentos[t]
                        /\ segmentos[t] \cap bitmap' \subseteq segmentos'[t]
  BY <1>1, <1>2 DEF TypeOK
<1>5. \A d \in Clientes : SigueBorrando(d)
  BY <1>2, <1>3 DEF SigueBorrando, Borrando, Hebras
<1>6. Bajas \subseteq Bajas'
  BY <1>2, <1>5, BajasCrecen
<1>7. \A y \in Hebras : Enviando(y)' <=> Enviando(y)
  BY <1>2, <1>3 DEF Enviando
<1>8. Mengua
  <2>1. reloj <= reloj' /\ \A t \in Tablas, k \in Claves : lfs'[t][k] \in {0, lfs[t][k]}
    BY <1>1, <1>2, Numeros
  <2>. QED
    BY <1>2, <1>4, <1>6, <1>7, <2>1 DEF Mengua
<1>9. \A d \in Clientes \ {c} : Mismo(d)
  BY <1>1, <1>2, <1>3, SoloMismo DEF Solo
<1>10. Sabido(c)'
  <2>1. Relleno(c)' <=> Relleno(c)
    BY <1>2, <1>3 DEF Relleno, Insertando
  <2>2. Papel(c)' /\ Puntero(c)'
    BY <1>1, <1>2, <1>3 DEF Sabido, Papel, Puntero, Insertando, Journalizando
  <2>3. Fresco(c)'
    BY <1>1, <1>2, <1>3, <1>6, <1>7, <2>1 DEF Sabido, Fresco
  <2>4. Alcanza(c)'
    BY <1>1, <1>2, <1>3, <1>6, <2>1 DEF Sabido, Alcanza
  <2>5. Reciente(c)'
    BY <1>1, <1>2, <2>1 DEF Sabido, Reciente
  <2>. QED
    BY <2>2, <2>3, <2>4, <2>5 DEF Sabido
<1>. QED
  BY <1>1, <1>8, <1>9, <1>10, BastaConQuienMueve

LEMMA DropBorrarSigue ==
  ASSUME Base, TypeOK', Registro, Sabidos, NEW c \in Clientes, DropBorrar(c)
  PROVE  Mengua /\ Registro' /\ Sabidos'
<1>1. c \in Hebras /\ Sabido(c) /\ TypeOK
  BY DEF Hebras, Sabidos, Base
<1>. DEFINE t == ped[c].tabla
<1>2. /\ reloj' = reloj /\ UNCHANGED <<bloque, lfs, lfsTablas, envio>>
      /\ Ir(c, "drop_lfs") /\ pc[c] = "drop_borrar" /\ t \in Tablas
      /\ bitmap' = bitmap \ segmentos[t]
      /\ segmentos' = [segmentos EXCEPT ![t] = {}]
      /\ \A d \in Clientes : ped'[d] = SinSegmento(ped[d], {t})
  BY <1>1, Numeros DEF DropBorrar, externo, journal
<1>3. /\ pc'[c] = "drop_lfs"
      /\ \A y \in Hebras \ {c} : pc'[y] = pc[y]
  BY <1>1, <1>2 DEF Ir, TypeOK
<1>4. PICK u \in Tablas : u = t
  BY <1>2
<1>. HIDE DEF t
<1>5. \A d \in Clientes :
        /\ ped'[d].cmd = ped[d].cmd /\ ped'[d].tabla = ped[d].tabla
        /\ ped'[d].key = ped[d].key /\ ped'[d].ts = ped[d].ts
        /\ ped'[d].marco = ped[d].marco /\ ped'[d].piso = ped[d].piso
        /\ ped'[d].limpiado = ped[d].limpiado
        /\ ped'[d].seg = "liberado" => ped[d].seg = "liberado" \/ ped[d].tabla = u
  <2>. SUFFICES ASSUME NEW d \in Clientes
                PROVE  /\ ped'[d].cmd = ped[d].cmd /\ ped'[d].tabla = ped[d].tabla
                       /\ ped'[d].key = ped[d].key /\ ped'[d].ts = ped[d].ts
                       /\ ped'[d].marco = ped[d].marco /\ ped'[d].piso = ped[d].piso
                       /\ ped'[d].limpiado = ped[d].limpiado
                       /\ ped'[d].seg = "liberado" =>
                            ped[d].seg = "liberado" \/ ped[d].tabla = u
    OBVIOUS
  <2>1. ped[d] \in Pedido /\ ped'[d] = SinSegmento(ped[d], {u})
    BY <1>1, <1>2, <1>4 DEF TypeOK
  <2>. QED
    BY <2>1 DEF SinSegmento, Pedido
<1>6. \A d \in Clientes : SigueBorrando(d)
  BY <1>2, <1>3, <1>5 DEF SigueBorrando, Borrando, Hebras
<1>7. Bajas \subseteq Bajas' /\ u \in Bajas'
  <2>1. u \in Bajas'
    BY <1>3, <1>4, <1>5 DEF Bajas, DeBaja, Borrando, t
  <2>. QED
    BY <1>2, <1>6, <2>1, BajasCrecen
<1>8. \A y \in Hebras : Enviando(y)' <=> Enviando(y)
  BY <1>2, <1>3 DEF Enviando
<1>9. Mengua
  <2>1. reloj <= reloj' /\ \A v \in Tablas, k \in Claves : lfs'[v][k] \in {0, lfs[v][k]}
    BY <1>1, <1>2, Numeros
  <2>2. \A v \in Tablas : /\ segmentos'[v] \subseteq segmentos[v]
                          /\ v # u => segmentos'[v] = segmentos[v]
    BY <1>1, <1>2, <1>4 DEF TypeOK
  <2>3. bitmap' \subseteq bitmap
        /\ \A f \in bitmap \ bitmap' : bloque[f].tabla = u
    BY <1>2, <1>4 DEF Base, Consistencia, SegmentosEnBitmap
  <2>. QED
    BY <1>2, <1>7, <1>8, <2>1, <2>2, <2>3 DEF Mengua
<1>10. \A d \in Clientes \ {c} : Mismo(d)
  BY <1>3, <1>5, <1>7 DEF Mismo, Hebras
<1>11. Sabido(c)'
  BY <1>1, <1>2, <1>3, <1>5
     DEF Sabido, Papel, Puntero, Fresco, Alcanza, Reciente, Relleno, Insertando,
         Journalizando
<1>. QED
  BY <1>1, <1>9, <1>10, <1>11, BastaConQuienMueve

LEMMA DropLfsSigue ==
  ASSUME Base, TypeOK', Registro, Sabidos, NEW c \in Clientes, DropLfs(c)
  PROVE  Mengua /\ Registro' /\ Sabidos'
<1>1. c \in Hebras /\ Sabido(c) /\ TypeOK
  BY DEF Hebras, Sabidos, Base
<1>. DEFINE t == ped[c].tabla
<1>2. /\ reloj' = reloj /\ UNCHANGED <<bloque, bitmap, segmentos, envio>>
      /\ Contestar(c) /\ pc[c] = "drop_lfs" /\ t \in Tablas
      /\ lfs' = [lfs EXCEPT ![t] = [k \in Claves |-> 0]]
      /\ lfsTablas' = lfsTablas \ {t}
      /\ \A d \in Clientes \ {c} : ped'[d] = ped[d]
  BY <1>1, Numeros DEF DropLfs, Contestar, paginas, journal, TypeOK
<1>3. /\ pc'[c] = "libre"
      /\ \A y \in Hebras \ {c} : pc'[y] = pc[y]
  BY <1>1, <1>2 DEF Contestar, Ir, TypeOK
<1>4. PICK u \in Tablas : u = t
  BY <1>2
<1>. HIDE DEF t
<1>5. \A d \in Clientes : SigueBorrando(d)
  BY <1>2, <1>3 DEF SigueBorrando, Hebras, t
<1>6. Bajas \subseteq Bajas' /\ u \in Bajas'
  <2>1. u \in Bajas'
    BY <1>2, <1>4 DEF Bajas, DeBaja
  <2>2. lfsTablas' \subseteq lfsTablas
    BY <1>2
  <2>. QED
    BY <1>5, <2>1, <2>2, BajasCrecen
<1>7. \A y \in Hebras : Enviando(y)' <=> Enviando(y)
  BY <1>2, <1>3 DEF Enviando
<1>8. Mengua
  <2>1. reloj <= reloj' /\ \A v \in Tablas, k \in Claves : lfs[v][k] \in Nat
    BY <1>1, <1>2, Numeros
  <2>2. \A v \in Tablas : v # u => lfs'[v] = lfs[v]
    BY <1>1, <1>2, <1>4 DEF TypeOK
  <2>3. \A v \in Tablas, k \in Claves : lfs'[v][k] \in {0, lfs[v][k]}
    BY <1>1, <1>2, <1>4, <2>1, <2>2 DEF TypeOK
  <2>. QED
    BY <1>2, <1>6, <1>7, <2>1, <2>2, <2>3 DEF Mengua
<1>9. \A d \in Clientes \ {c} : Mismo(d)
  BY <1>1, <1>2, <1>3, SoloMismo DEF Solo
<1>10. Sabido(c)'
  BY <1>1, <1>2, ContestarSabido
<1>. QED
  BY <1>1, <1>8, <1>9, <1>10, BastaConQuienMueve

\* The timer's thread, but for the end of its journal, and the clock.
LEMMA RelojSigue ==
  ASSUME Base, TypeOK', Registro, Sabidos, UNCHANGED vars \/ Tick
  PROVE  Mengua /\ Registro' /\ Sabidos'
<1>1. TypeOK /\ reloj \in Nat
  BY Numeros DEF Base
<1>2. UNCHANGED <<bloque, bitmap, segmentos, lfs, lfsTablas, envio, pc, ped>>
      /\ reloj <= reloj'
  BY <1>1 DEF vars, Tick, paginas, externo, journal
<1>3. Bajas' = Bajas /\ \A y \in Hebras : Enviando(y)' <=> Enviando(y)
  BY <1>2 DEF Bajas, DeBaja, Enviando
<1>4. Mengua
  <2>1. \A v \in Tablas, k \in Claves : lfs'[v][k] \in {0, lfs[v][k]}
    BY <1>1, <1>2, Numeros
  <2>. QED
    BY <1>2, <1>3, <2>1 DEF Mengua
<1>5. \A d \in Clientes : Mismo(d)
  BY <1>2 DEF Mismo
<1>6. \A d \in Clientes : Sabido(d)'
  BY <1>1, <1>4, <1>5, MenguaSabido DEF Sabidos
<1>. QED
  BY <1>1, <1>4, <1>6, MenguaRegistro DEF Sabidos

LEMMA TimerSigue ==
  ASSUME Base, TypeOK', Registro, Sabidos, NEW h \in Hilos, PasoTimer(h),
         ~JournalFinHilo(h)
  PROVE  Mengua /\ Registro' /\ Sabidos'
<1>1. h \in Hebras /\ h \notin Clientes /\ TypeOK
  BY DEF Hebras, Base, MemoriaAssumption
<1>2. /\ reloj' = reloj /\ UNCHANGED <<paginas, externo, envio, ped>>
      /\ pc[h] # "jou_enviar"
      /\ \E p : p # "jou_enviar" /\ Ir(h, p)
  BY DEF PasoTimer, HiloDespertar, HiloTomarHecho, HiloTomarBitmap, HiloTomarRw,
         HiloInformar, HiloMorir, Seguir, journal
<1>3. pc'[h] # "jou_enviar" /\ \A y \in Hebras \ {h} : pc'[y] = pc[y]
  BY <1>1, <1>2 DEF Ir, TypeOK
<1>4. Aparte(h)
  <2>1. reloj <= reloj'
    BY <1>1, <1>2, Numeros
  <2>. QED
    BY <1>1, <1>2, <1>3, <2>1 DEF Aparte, Solo
<1>. QED
  BY <1>1, <1>4, AparteSigue
----------------------------------------------------------------------------
(* An INSERT, or a SELECT, writes a page                                   *)

\* What InsertCrear and InsertModificar do to frame f with the request of c: a
\* frame that was free, or a page of its key that had an older record.
EscribePagina(c, f) ==
    /\ escritor = c
    /\ reloj' = reloj
    /\ UNCHANGED <<lfs, lfsTablas, envio>>
    /\ pc[c] \in Insertando
    /\ TrasInsertar(c)
    /\ Relleno(c) \/ ped[c].cmd = "INSERT"
    /\ \A g \in Marcos \ {f} : bloque'[g] = bloque[g]
    /\ bloque'[f].tabla = ped[c].tabla
    /\ bloque'[f].key = ped[c].key
    /\ bloque'[f].ts = TiempoDe(c)
    /\ bloque'[f].rancia = ped[c].limpiado
    /\ \/ f \notin bitmap
       \/ /\ bloque[f].tabla = ped[c].tabla
          /\ bloque[f].key = ped[c].key
          /\ bloque[f].ts < TiempoDe(c)
          /\ bloque'[f].estado
    /\ bloque'[f].estado => 1 <= TiempoDe(c)
    /\ bitmap \subseteq bitmap' /\ bitmap' \subseteq bitmap \cup {f}
    /\ \A t \in Tablas : segmentos[t] \subseteq segmentos'[t]
    /\ f \in bitmap' /\ ped[c].tabla \notin Bajas => f \in segmentos'[ped[c].tabla]

LEMMA EscribeBajas ==
  ASSUME TypeOK, NEW c \in Clientes, NEW f \in Marcos, EscribePagina(c, f)
  PROVE  /\ Bajas' = Bajas
         /\ \A y \in Hebras \ {c} : pc'[y] = pc[y]
         /\ \A d \in Clientes \ {c} : ped'[d] = ped[d]
         /\ pc'[c] \in {"libre", "sel_responder"}
<1>1. /\ \A y \in Hebras \ {c} : pc'[y] = pc[y]
      /\ \A d \in Clientes \ {c} : ped'[d] = ped[d]
      /\ pc'[c] \in {"libre", "sel_responder"}
  BY DEF EscribePagina, TrasInsertar, Contestar, Seguir, Ir, TypeOK, Hebras
<1>2. pc[c] \notin Borrando /\ pc'[c] \notin Borrando /\ lfsTablas' = lfsTablas
  BY <1>1 DEF EscribePagina, Insertando, Borrando
<1>3. \A d \in Clientes, t \in Tablas :
        pc'[d] \in Borrando /\ ped'[d].tabla = t <=> pc[d] \in Borrando /\ ped[d].tabla = t
  BY <1>1, <1>2 DEF Hebras
<1>4. \A t \in Tablas : DeBaja(t)' <=> DeBaja(t)
  BY <1>2, <1>3 DEF DeBaja
<1>. QED
  BY <1>1, <1>4 DEF Bajas

\* What it writes is at least as new as the record of the LFS, unless the memory
\* was emptied since the LFS answered.
LEMMA EscribeAlDia ==
  ASSUME Base, Registro, NEW c \in Clientes, Sabido(c), NEW f \in Marcos,
         EscribePagina(c, f), ped[c].tabla \notin Bajas, ~ped[c].limpiado
  PROVE  lfs[ped[c].tabla][ped[c].key] <= TiempoDe(c)
<1>1. c \in Hebras /\ ped[c].tabla \in Tablas /\ ped[c].key \in Claves
  BY Numeros DEF Hebras, Base
<1>2. CASE ped[c].cmd = "INSERT"
  BY <1>1, <1>2 DEF TiempoDe, Registro, Tiempo
<1>3. CASE ped[c].cmd # "INSERT"
  <2>1. Relleno(c) /\ TiempoDe(c) = ped[c].ts
    BY <1>3 DEF EscribePagina, TiempoDe
  <2>2. \A x \in Hebras \ {c} : ~Enviando(x)
    BY <1>1, NadieEnvia DEF Base, EscribePagina
  <2>. QED
    BY <2>1, <2>2 DEF Sabido, Fresco
<1>. QED
  BY <1>2, <1>3

LEMMA EscribeRegistro ==
  ASSUME Base, TypeOK', Registro, NEW c \in Clientes, Sabido(c), NEW f \in Marcos,
         EscribePagina(c, f)
  PROVE  Registro'
<1>. DEFINE t == ped[c].tabla
            k == ped[c].key
            n == TiempoDe(c)
<1>1. /\ TypeOK /\ c \in Hebras /\ t \in Tablas /\ k \in Claves
      /\ reloj \in Nat /\ bitmap \subseteq Marcos /\ ped[c].ts \in Nat
  BY Numeros DEF Hebras, Base
<1>2. n \in Nat /\ n <= reloj
  BY <1>1 DEF TiempoDe, Sabido, Reciente
<1>3. /\ Bajas' = Bajas
      /\ \A y \in Hebras \ {c} : pc'[y] = pc[y]
      /\ pc'[c] # "jou_enviar"
  BY <1>1, EscribeBajas
<1>4. \A y \in Hebras : ~Enviando(y) /\ ~Enviando(y)'
  <2>1. \A y \in Hebras \ {c} : ~Enviando(y)
    BY <1>1, NadieEnvia DEF Base, EscribePagina
  <2>2. ~Enviando(c)
    BY DEF Enviando, EscribePagina, Insertando
  <2>. QED
    BY <1>3, <2>1, <2>2 DEF Enviando
<1>5. /\ reloj' = reloj /\ lfs' = lfs /\ envio' = envio /\ envio = {}
      /\ \A g \in Marcos \ {f} : bloque'[g] = bloque[g]
      /\ bloque'[f].tabla = t /\ bloque'[f].key = k /\ bloque'[f].ts = n
      /\ bloque'[f].rancia = ped[c].limpiado
      /\ bloque'[f].estado => 1 <= n
      /\ bitmap' \subseteq bitmap \cup {f}
      /\ \A u \in Tablas : segmentos[u] \subseteq segmentos'[u]
      /\ f \in bitmap' /\ t \notin Bajas => f \in segmentos'[t]
  BY <1>4 DEF EscribePagina, Registro, EnviosDePaginas
<1>6. t \notin Bajas /\ ~ped[c].limpiado => lfs[t][k] <= n
  BY EscribeAlDia
<1>. HIDE DEF t, k, n
<1>7. Tiempo'
  <2>1. \A g \in Marcos : bloque'[g].ts <= reloj'
    BY <1>2, <1>5 DEF Registro, Tiempo
  <2>2. \A g \in Marcos : g \in bitmap' /\ bloque'[g].estado => 1 <= bloque'[g].ts
    BY <1>2, <1>5 DEF Registro, Tiempo
  <2>. QED
    BY <1>5, <2>1, <2>2 DEF Registro, Tiempo
<1>8. EnSegmento'
  <2>. SUFFICES ASSUME NEW g \in bitmap', bloque'[g].tabla \notin Bajas'
                PROVE  g \in segmentos'[bloque'[g].tabla]
    BY DEF EnSegmento
  <2>1. CASE g = f
    BY <1>3, <1>5, <2>1
  <2>2. CASE g # f
    <3>1. g \in bitmap /\ g \in Marcos /\ bloque'[g] = bloque[g]
          /\ bloque[g].tabla \in Tablas
      BY <1>1, <1>5, <2>2, Numeros
    <3>2. g \in segmentos[bloque[g].tabla]
      BY <1>3, <3>1 DEF Registro, EnSegmento
    <3>. QED
      BY <1>5, <3>1, <3>2
  <2>. QED
    BY <2>1, <2>2
<1>9. PaginaAlDia'
  <2>. SUFFICES ASSUME NEW g \in bitmap', ~bloque'[g].rancia, bloque'[g].tabla \notin Bajas'
                PROVE  lfs'[bloque'[g].tabla][bloque'[g].key] <= bloque'[g].ts
    BY DEF PaginaAlDia
  <2>1. CASE g = f
    BY <1>3, <1>5, <1>6, <2>1
  <2>2. CASE g # f
    <3>1. g \in bitmap /\ g \in Marcos /\ bloque'[g] = bloque[g]
      BY <1>1, <1>5, <2>2
    <3>. QED
      BY <1>3, <1>5, <3>1 DEF Registro, PaginaAlDia
  <2>. QED
    BY <2>1, <2>2
<1>10. EnviosDePaginas'
  BY <1>4, <1>5 DEF EnviosDePaginas
<1>. QED
  BY <1>7, <1>8, <1>9, <1>10 DEF Registro

LEMMA EscribeSabidos ==
  ASSUME Base, TypeOK', Registro, Sabidos, NEW c \in Clientes, NEW f \in Marcos,
         EscribePagina(c, f)
  PROVE  Sabidos'
<1>1. c \in Hebras /\ Sabido(c) /\ TypeOK
  BY DEF Hebras, Sabidos, Base
<1>2. /\ Bajas' = Bajas
      /\ \A y \in Hebras \ {c} : pc'[y] = pc[y]
      /\ \A d \in Clientes \ {c} : ped'[d] = ped[d]
  BY <1>1, EscribeBajas
<1>3. Sabido(c)'
  BY <1>1, <1>2, TrasInsertarSabido DEF EscribePagina
<1>4. ASSUME NEW d \in Clientes \ {c} PROVE Sabido(d)'
  <2>. DEFINE t == ped[d].tabla
  <2>1. /\ d \in Hebras \ {c} /\ pc'[d] = pc[d] /\ ped'[d] = ped[d] /\ Sabido(d)
        /\ t \in Tablas /\ lfs' = lfs /\ reloj' = reloj /\ ped[d].piso \in Nat
    BY <1>1, <1>2, <1>4, Numeros DEF Hebras, Sabidos, EscribePagina
  <2>2. pc[d] \notin ConEscritura(d) /\ \A y \in Hebras \ {c} : ~Enviando(y)
    BY <1>1, <2>1, NadieEnvia DEF Base, EscribePagina
  <2>3. ~Enviando(c)
    BY DEF Enviando, EscribePagina, Insertando
  <2>4. Papel(d)' /\ Reciente(d)'
    BY <2>1 DEF Sabido, Papel, Reciente, Relleno
  <2>5. Puntero(d)'
    BY <2>1, <2>2 DEF Puntero, ConEscritura, Journalizando
  <2>6. Fresco(d)'
    BY <1>2, <2>1, <2>2, <2>3 DEF Sabido, Fresco, Relleno
  <2>7. PICK u \in Tablas : u = t
    BY <2>1
  <2>8. ASSUME NEW r \in Registrados(u)
        PROVE  \E s \in Registrados(u)' : s.key = r.key /\ r.ts <= s.ts
    <3>1. CASE r \in Guardados(u)
      <4>1. r \in Guardados(u)'
        BY <2>1, <3>1 DEF Guardados
      <4>2. r.ts \in Nat
        BY <1>1, <3>1, Numeros DEF Guardados
      <4>. QED
        BY <4>1, <4>2 DEF Registrados
    <3>2. CASE r \in PorGuardar(u)
      <4>1. PICK g \in bitmap : /\ bloque[g].estado /\ bloque[g].tabla = u
                                /\ r.key = bloque[g].key /\ r.ts = bloque[g].ts
        BY <3>2 DEF PorGuardar
      <4>. DEFINE s == [key |-> bloque'[g].key, ts |-> bloque'[g].ts]
      <4>2. g \in Marcos /\ g \in bitmap' /\ bloque[g].ts \in Nat /\ TiempoDe(c) \in Nat
        BY <1>1, Numeros DEF EscribePagina, TiempoDe
      <4>3. /\ bloque'[g].estado /\ bloque'[g].tabla = u
            /\ bloque'[g].key = bloque[g].key /\ bloque[g].ts <= bloque'[g].ts
        BY <4>1, <4>2 DEF EscribePagina
      <4>4. s \in PorGuardar(u)'
        BY <4>2, <4>3 DEF PorGuardar
      <4>. QED
        BY <4>1, <4>3, <4>4 DEF Registrados
    <3>. QED
      BY <3>1, <3>2 DEF Registrados
  <2>9. \A r \in Registrados(u) : r.ts \in Nat
    BY <1>1, Numeros DEF Registrados, Guardados, PorGuardar
  <2>10. \A s \in Registrados(u)' : s.ts \in Nat
    <3>1. \A g \in bitmap' : bloque'[g].ts \in Nat
      BY <1>1, Numeros DEF EscribePagina, TiempoDe
    <3>. QED
      BY <1>1, <2>1, <3>1, Numeros DEF Registrados, Guardados, PorGuardar
  <2>. HIDE DEF t
  <2>11. Alcanza(d)'
    <3>1. ped[d].cmd = "SELECT" /\ t \notin Bajas =>
            /\ pc[d] \in {"sel_rw", "sel_leer"} =>
                 \/ ped[d].piso = 0
                 \/ \E r \in Registrados(u)' : r.key = ped[d].key /\ ped[d].piso <= r.ts
            /\ pc[d] = "sel_lfs" => ped[d].piso <= lfs[t][ped[d].key]
            /\ Relleno(d) \/ pc[d] = "sel_responder" => ped[d].piso <= ped[d].ts
      BY <2>1, <2>7, <2>8, <2>9, <2>10 DEF Sabido, Alcanza, t
    <3>. QED
      BY <1>2, <2>1, <2>7, <3>1
         DEF Alcanza, Relleno, Registrados, Guardados, PorGuardar, t
  <2>. QED
    BY <2>4, <2>5, <2>6, <2>11 DEF Sabido
<1>. QED
  BY <1>3, <1>4 DEF Sabidos
LEMMA CrearEscribe ==
  ASSUME Base, Registro, NEW c \in Clientes, Sabido(c), NEW f \in Marcos,
         InsertCrear(c, f)
  PROVE  EscribePagina(c, f)
<1>. DEFINE t == ped[c].tabla
            n == TiempoDe(c)
            e == ped[c].cmd = "INSERT"
            p == [tabla |-> t, key |-> ped[c].key, ts |-> n, estado |-> e,
                  acceso |-> reloj, rancia |-> ped[c].limpiado]
<1>1. c \in Hebras /\ t \in Tablas /\ TypeOK /\ pc[c] = "ins_crear" /\ reloj \in Nat
  BY Numeros DEF Hebras, Base, InsertCrear
<1>2. /\ escritor = c /\ pc[c] \in Insertando /\ (Relleno(c) \/ ped[c].cmd = "INSERT")
  BY <1>1 DEF Base, Exclusion, EscritorUnico, ConEscritura, Insertando, Sabido,
              Papel, Relleno
<1>3. /\ reloj' = reloj /\ UNCHANGED <<lfs, lfsTablas, envio>>
      /\ TrasInsertar(c) /\ f \notin bitmap /\ bitmap' = bitmap \cup {f}
      /\ bloque' = [bloque EXCEPT ![f] = p]
      /\ \/ segmentos' = [segmentos EXCEPT ![t] = @ \cup {f}]
         \/ ped[c].seg = "liberado" /\ segmentos' = segmentos
  BY DEF InsertCrear, externo, journal
<1>4. e => 1 <= n
  BY <1>1 DEF TiempoDe, Registro, Tiempo
<1>. HIDE DEF n, e, t
<1>5. /\ \A g \in Marcos \ {f} : bloque'[g] = bloque[g]
      /\ bloque'[f] = p
  BY <1>1, <1>3 DEF TypeOK
<1>6. /\ p.tabla = t /\ p.key = ped[c].key /\ p.ts = n /\ p.estado = e
      /\ p.rancia = ped[c].limpiado
  OBVIOUS
<1>. HIDE DEF p
<1>7. \A u \in Tablas : segmentos[u] \subseteq segmentos'[u]
  BY <1>1, <1>3 DEF TypeOK
<1>8. t \notin Bajas => f \in segmentos'[t]
  <2>1. ped[c].seg = "liberado" => t \in Bajas
    BY <1>1 DEF Sabido, Puntero, t
  <2>. QED
    BY <1>1, <1>3, <2>1 DEF TypeOK
<1>. QED
  BY <1>2, <1>3, <1>4, <1>5, <1>6, <1>7, <1>8 DEF EscribePagina, t, n

\* What Escribir leaves in the page.
LEMMA EscribirValor ==
  ASSUME TypeOK, NEW c \in Clientes, NEW f \in Marcos, Escribir(c, f)
  PROVE  /\ \A g \in Marcos \ {f} : bloque'[g] = bloque[g]
         /\ bloque'[f].ts = TiempoDe(c)
         /\ bloque'[f].estado
         /\ bloque'[f].rancia = ped[c].limpiado
<1>. DEFINE tt == TiempoDe(c)
            bb == ped[c].limpiado
            p == bloque[f]
<1>1. bloque' = [bloque EXCEPT ![f].ts = tt, ![f].estado = TRUE,
                               ![f].acceso = reloj, ![f].rancia = bb]
  BY DEF Escribir
<1>2. bloque \in [Marcos -> Pagina]
  BY DEF TypeOK
<1>. HIDE DEF tt, bb
<1>3. /\ \A g \in Marcos \ {f} : bloque'[g] = bloque[g]
      /\ bloque'[f] = [p EXCEPT !.ts = tt, !.estado = TRUE, !.acceso = reloj,
                               !.rancia = bb]
  BY <1>1, <1>2
<1>4. p \in Pagina
  BY <1>2
<1>. HIDE DEF p
<1>5. bloque'[f] = [tabla |-> p.tabla, key |-> p.key, ts |-> tt, estado |-> TRUE,
                   acceso |-> reloj, rancia |-> bb]
  BY <1>3, <1>4 DEF Pagina
<1>. QED
  BY <1>3, <1>5 DEF tt, bb

LEMMA ModificarEscribe ==
  ASSUME Base, Registro, NEW c \in Clientes, Sabido(c), InsertModificar(c),
         bloque' # bloque
  PROVE  EscribePagina(c, ped[c].marco)
<1>. DEFINE f == ped[c].marco
            t == ped[c].tabla
            n == TiempoDe(c)
<1>1. /\ c \in Hebras /\ t \in Tablas /\ TypeOK /\ pc[c] = "ins_modificar"
      /\ reloj \in Nat /\ f \in Marcos /\ ped[c].ts \in Nat /\ bloque[f].ts \in Nat
  BY Numeros DEF Hebras, Base, InsertModificar
<1>2. /\ escritor = c /\ pc[c] \in Insertando /\ (Relleno(c) \/ ped[c].cmd = "INSERT")
  BY <1>1 DEF Base, Exclusion, EscritorUnico, ConEscritura, Insertando, Sabido,
              Papel, Relleno
<1>3. /\ reloj' = reloj /\ UNCHANGED <<lfs, lfsTablas, envio, bitmap, segmentos>>
      /\ TrasInsertar(c) /\ n > bloque[f].ts /\ Escribir(c, f)
  BY DEF InsertModificar, externo, journal
<1>4. n \in Nat
  BY <1>1 DEF TiempoDe
<1>5. 1 <= n
  BY <1>1, <1>3, <1>4
<1>6. bloque[f].tabla = t /\ bloque[f].key = ped[c].key
  BY <1>1 DEF Sabido, Puntero
<1>7. /\ \A g \in Marcos \ {f} : bloque'[g] = bloque[g]
      /\ bloque'[f].ts = n /\ bloque'[f].estado /\ bloque'[f].rancia = ped[c].limpiado
  BY <1>1, <1>3, EscribirValor
<1>8. bloque'[f].tabla = t /\ bloque'[f].key = ped[c].key
  BY <1>1, <1>3, <1>6, EscribirTipo
<1>9. f \in bitmap /\ t \notin Bajas => f \in segmentos[t]
  BY <1>1, <1>6, MarcosDeTabla DEF Base, Registro
<1>10. bitmap' = bitmap /\ \A u \in Tablas : segmentos'[u] = segmentos[u]
  BY <1>3
<1>. HIDE DEF f, t, n
<1>11. EscribePagina(c, f)
  BY <1>2, <1>3, <1>4, <1>5, <1>6, <1>7, <1>8, <1>9, <1>10, <1>1 DEF EscribePagina, t, n
<1>. QED
  BY <1>11 DEF f

LEMMA EscribirSigue ==
  ASSUME Base, TypeOK', Registro, Sabidos, NEW c \in Clientes,
         InsertModificar(c) \/ \E f \in Marcos : InsertCrear(c, f)
  PROVE  Registro' /\ Sabidos'
<1>1. Sabido(c) /\ ped[c].marco \in Marcos
  BY Numeros DEF Sabidos, Base
<1>2. CASE \E f \in Marcos : EscribePagina(c, f)
  BY <1>1, <1>2, EscribeRegistro, EscribeSabidos
<1>. QED
  BY <1>1, <1>2, CrearEscribe, ModificarEscribe, ModificarNadaSigue
----------------------------------------------------------------------------
(* A journal ends                                                          *)

\* What it does to a request.
LEMMA LimpiadoValor ==
  ASSUME TypeOK, NEW d \in Clientes
  PROVE  /\ Limpiado(d).cmd = ped[d].cmd /\ Limpiado(d).tabla = ped[d].tabla
         /\ Limpiado(d).key = ped[d].key /\ Limpiado(d).ts = ped[d].ts
         /\ Limpiado(d).marco = ped[d].marco /\ Limpiado(d).piso = ped[d].piso
         /\ Limpiado(d).limpiado <=>
              ped[d].limpiado \/ (ped[d].cmd = "SELECT" /\ pc[d] \in Insertando)
<1>. DEFINE s == SinSegmento(ped[d], Tablas)
            b == s.limpiado \/ (ped[d].cmd = "SELECT" /\ pc[d] \in Insertando)
<1>1. ped[d] \in Pedido
  BY DEF TypeOK
<1>2. /\ s \in Pedido /\ s.cmd = ped[d].cmd /\ s.tabla = ped[d].tabla
      /\ s.key = ped[d].key /\ s.ts = ped[d].ts /\ s.marco = ped[d].marco
      /\ s.piso = ped[d].piso /\ s.limpiado = ped[d].limpiado
  BY <1>1 DEF SinSegmento, Pedido
<1>3. Limpiado(d) = [s EXCEPT !.limpiado = b]
  BY DEF Limpiado
<1>4. b <=> ped[d].limpiado \/ (ped[d].cmd = "SELECT" /\ pc[d] \in Insertando)
  BY <1>2
<1>. HIDE DEF s, b
<1>5. /\ Limpiado(d).cmd = s.cmd /\ Limpiado(d).tabla = s.tabla
      /\ Limpiado(d).key = s.key /\ Limpiado(d).ts = s.ts
      /\ Limpiado(d).marco = s.marco /\ Limpiado(d).piso = s.piso
      /\ Limpiado(d).limpiado = b
  BY <1>2, <1>3 DEF Pedido
<1>. QED
  BY <1>2, <1>4, <1>5

\* What the ends of the journals of a request, an LRU and the timer share.
TerminaJournal(x) ==
    /\ Enviando(x) /\ pc'[x] # "jou_enviar"
    /\ envio = {}
    /\ Limpiar
    /\ UNCHANGED <<reloj, bloque, lfs, lfsTablas, envio>>
    /\ \A y \in Hebras \ {x} : pc'[y] = pc[y] \/ pc'[y] = "durmiendo"
    /\ \A d \in Clientes \ {x} : pc'[d] = pc[d] /\ ped'[d] = Limpiado(d)

LEMMA TerminaBajas ==
  ASSUME TypeOK, NEW x \in Hebras, TerminaJournal(x),
         x \in Clientes => pc'[x] \notin Borrando
  PROVE  Bajas' = Bajas
<1>1. \A d \in Clientes \ {x} : ped'[d].tabla = ped[d].tabla /\ pc'[d] = pc[d]
  BY LimpiadoValor DEF TerminaJournal
<1>2. x \in Clientes => pc[x] \notin Borrando
  BY DEF TerminaJournal, Enviando, Borrando
<1>3. \A d \in Clientes, t \in Tablas :
        pc'[d] \in Borrando /\ ped'[d].tabla = t <=> pc[d] \in Borrando /\ ped[d].tabla = t
  BY <1>1, <1>2
<1>4. lfsTablas' = lfsTablas
  BY DEF TerminaJournal
<1>5. \A t \in Tablas : DeBaja(t)' <=> DeBaja(t)
  BY <1>3, <1>4 DEF DeBaja
<1>. QED
  BY <1>5 DEF Bajas

LEMMA TerminaSigue ==
  ASSUME Base, TypeOK', Registro, Sabidos, NEW x \in Hebras, TerminaJournal(x),
         x \in Clientes => pc'[x] \notin Borrando /\ Sabido(x)'
  PROVE  Registro' /\ Sabidos'
<1>1. TypeOK
  BY DEF Base
<1>2. /\ Bajas' = Bajas /\ bitmap' = {} /\ envio' = {} /\ lfs' = lfs
      /\ reloj' = reloj /\ bloque' = bloque
  BY <1>1, TerminaBajas DEF TerminaJournal, Limpiar
<1>3. Registro'
  BY <1>2 DEF Registro, Tiempo, EnSegmento, PaginaAlDia, EnviosDePaginas
<1>4. ASSUME NEW d \in Clientes \ {x} PROVE Sabido(d)'
  <2>. DEFINE t == ped[d].tabla
              k == ped[d].key
  <2>1. /\ pc'[d] = pc[d] /\ Sabido(d) /\ d \in Hebras \ {x}
        /\ ped'[d].cmd = ped[d].cmd /\ ped'[d].tabla = t
        /\ ped'[d].key = k /\ ped'[d].ts = ped[d].ts
        /\ ped'[d].piso = ped[d].piso
        /\ ped'[d].limpiado <=>
              ped[d].limpiado \/ (ped[d].cmd = "SELECT" /\ pc[d] \in Insertando)
    BY <1>1, LimpiadoValor DEF TerminaJournal, Hebras, Sabidos
  <2>2. pc[d] \notin ConEscritura(d)
    <3>1. escritor = x
      BY DEF Base, Exclusion, EscritorUnico, ConEscritura, TerminaJournal, Enviando
    <3>. QED
      BY <2>1, <3>1, NadieEnvia DEF Base
  <2>3. t \in Tablas /\ k \in Claves /\ lfs[t][k] \in Nat /\ ped[d].piso \in Nat
        /\ bitmap \subseteq Marcos
    BY <1>1, Numeros
  <2>4. PICK u \in Tablas : u = t
    BY <2>3
  <2>. HIDE DEF t, k
  <2>5. Papel(d)' /\ Reciente(d)'
    BY <1>2, <2>1 DEF Sabido, Papel, Reciente, Relleno
  <2>6. Puntero(d)'
    BY <2>1, <2>2 DEF Puntero, ConEscritura, Journalizando
  <2>7. Fresco(d)'
    BY <2>1, <2>2 DEF Fresco, Relleno, ConEscritura, Journalizando
  <2>8. ASSUME t \notin Bajas, NEW r \in Registrados(u), r.key = k,
               ped[d].piso # 0, ped[d].piso <= r.ts
        PROVE  \E s \in Registrados(u)' : s.key = k /\ ped[d].piso <= s.ts
    <3>1. CASE r \in Guardados(u)
      <4>1. r \in Guardados(u)'
        BY <1>2, <3>1 DEF Guardados
      <4>. QED
        BY <2>8, <4>1 DEF Registrados
    <3>2. CASE r \in PorGuardar(u)
      <4>1. PICK g \in bitmap : /\ bloque[g].estado /\ bloque[g].tabla = u
                                /\ r.key = bloque[g].key /\ r.ts = bloque[g].ts
        BY <3>2 DEF PorGuardar
      <4>2. bloque[g].ts <= lfs[u][k] /\ bloque[g].ts \in Nat
        BY <1>1, <2>3, <2>4, <2>8, <4>1, Numeros
           DEF Registro, EnviosDePaginas, TerminaJournal
      <4>3. ped[d].piso <= lfs[u][k] /\ lfs[u][k] > 0
        BY <2>3, <2>4, <2>8, <4>1, <4>2
      <4>. DEFINE s == [key |-> k, ts |-> lfs[u][k]]
      <4>4. s \in Guardados(u)'
        BY <1>2, <2>3, <4>3 DEF Guardados
      <4>. QED
        BY <4>3, <4>4 DEF Registrados
    <3>. QED
      BY <2>8, <3>1, <3>2 DEF Registrados
  <2>9. Alcanza(d)'
    <3>1. ped[d].cmd = "SELECT" /\ t \notin Bajas =>
            /\ pc[d] \in {"sel_rw", "sel_leer"} =>
                 \/ ped[d].piso = 0
                 \/ \E r \in Registrados(u)' : r.key = k /\ ped[d].piso <= r.ts
            /\ pc[d] = "sel_lfs" => ped[d].piso <= lfs[t][k]
            /\ Relleno(d) \/ pc[d] = "sel_responder" => ped[d].piso <= ped[d].ts
      BY <2>1, <2>4, <2>8 DEF Sabido, Alcanza, t, k
    <3>. QED
      BY <1>2, <2>1, <2>4, <3>1
         DEF Alcanza, Relleno, Registrados, Guardados, PorGuardar, t, k
  <2>. QED
    BY <2>5, <2>6, <2>7, <2>9 DEF Sabido
<1>5. ASSUME NEW d \in Clientes PROVE Sabido(d)'
  BY <1>4
<1>. QED
  BY <1>3, <1>5 DEF Sabidos

LEMMA JournalFinSigue ==
  ASSUME Base, TypeOK', Registro, Sabidos, NEW c \in Clientes, JournalFin(c)
  PROVE  TerminaJournal(c) /\ pc'[c] \notin Borrando /\ Registro' /\ Sabidos'
<1>1. c \in Hebras /\ TypeOK /\ journalHilo' \in Hilos
  BY DEF Hebras, Base, TypeOK
<1>2. journalHilo + 1 \in Hebras \ Clientes
  BY <1>1 DEF JournalFin, Hebras, MemoriaAssumption
<1>3. /\ pc'[c] = "libre" /\ ped'[c] = PedidoNulo
      /\ \A y \in Hebras \ {c} : pc'[y] = pc[y] \/ pc'[y] = "durmiendo"
      /\ \A d \in Clientes \ {c} : pc'[d] = pc[d] /\ ped'[d] = Limpiado(d)
  BY <1>1, <1>2 DEF JournalFin, TypeOK, Hebras
<1>4. TerminaJournal(c)
  BY <1>3 DEF JournalFin, TerminaJournal, Enviando, externo
<1>5. Sabido(c)'
  <2>1. /\ PedidoNulo.cmd = "JOURNAL" /\ PedidoNulo.ts = 0
        /\ PedidoNulo.limpiado = FALSE
    BY DEF PedidoNulo
  <2>2. reloj' \in Nat
    BY NumerosDespues
  <2>. QED
    BY <1>3, <2>1, <2>2 DEF Sabido, Papel, Puntero, Fresco, Alcanza, Reciente,
                            Relleno, Insertando, Journalizando
<1>. QED
  BY <1>1, <1>3, <1>4, <1>5, TerminaSigue DEF Borrando

LEMMA JournalFinLruSigue ==
  ASSUME Base, TypeOK', Registro, Sabidos, NEW c \in Clientes, JournalFinLru(c)
  PROVE  TerminaJournal(c) /\ pc'[c] \notin Borrando /\ Registro' /\ Sabidos'
<1>1. c \in Hebras /\ TypeOK /\ journalHilo' \in Hilos /\ Sabido(c)
  BY DEF Hebras, Base, TypeOK, Sabidos
<1>2. journalHilo + 1 \in Hebras \ Clientes
  BY <1>1 DEF JournalFinLru, Hebras, MemoriaAssumption
<1>3. /\ pc'[c] = "ins_rebuscar" /\ pc[c] = "jou_enviar" /\ ped[c].cmd # "JOURNAL"
      /\ \A y \in Hebras \ {c} : pc'[y] = pc[y] \/ pc'[y] = "durmiendo"
      /\ \A d \in Clientes : ped'[d] = Limpiado(d)
      /\ \A d \in Clientes \ {c} : pc'[d] = pc[d]
  BY <1>1, <1>2 DEF JournalFinLru, TypeOK, Hebras
<1>4. TerminaJournal(c)
  BY <1>3 DEF JournalFinLru, TerminaJournal, Enviando, externo
<1>5. /\ ped'[c].cmd = ped[c].cmd /\ ped'[c].tabla = ped[c].tabla
      /\ ped'[c].key = ped[c].key /\ ped'[c].ts = ped[c].ts
      /\ ped'[c].piso = ped[c].piso
      /\ ped'[c].limpiado <=> ped[c].limpiado
  BY <1>1, <1>3, LimpiadoValor DEF Insertando
<1>6. Bajas' = Bajas /\ lfs' = lfs /\ reloj' = reloj
  BY <1>1, <1>3, <1>4, TerminaBajas DEF TerminaJournal, Borrando
<1>7. Relleno(c)' <=> Relleno(c)
  BY <1>3, <1>5 DEF Relleno, Insertando, Journalizando
<1>8. Sabido(c)'
  <2>1. Papel(c)' /\ Puntero(c)'
    BY <1>1, <1>3, <1>5 DEF Sabido, Papel, Puntero, Insertando, Journalizando
  <2>2. Fresco(c)'
    <3>1. escritor = c
      BY <1>1, <1>3 DEF Base, Exclusion, EscritorUnico, ConEscritura
    <3>2. \A y \in Hebras \ {c} : ~Enviando(y)
      BY <1>1, <3>1, NadieEnvia DEF Base
    <3>. QED
      BY <1>1, <1>5, <1>6, <1>7, <3>2 DEF Sabido, Fresco
  <2>3. Alcanza(c)'
    BY <1>1, <1>3, <1>5, <1>6, <1>7 DEF Sabido, Alcanza
  <2>4. Reciente(c)'
    BY <1>1, <1>5, <1>6, <1>7 DEF Sabido, Reciente
  <2>. QED
    BY <2>1, <2>2, <2>3, <2>4 DEF Sabido
<1>. QED
  BY <1>1, <1>3, <1>4, <1>8, TerminaSigue DEF Borrando

LEMMA JournalFinHiloSigue ==
  ASSUME Base, TypeOK', Registro, Sabidos, NEW h \in Hilos, JournalFinHilo(h)
  PROVE  TerminaJournal(h) /\ Registro' /\ Sabidos'
<1>1. h \in Hebras /\ h \notin Clientes /\ TypeOK
  BY DEF Hebras, Base, MemoriaAssumption
<1>2. /\ pc'[h] = "tim_informe"
      /\ \A y \in Hebras \ {h} : pc'[y] = pc[y]
  BY <1>1 DEF JournalFinHilo, Ir, TypeOK
<1>3. TerminaJournal(h)
  BY <1>1, <1>2 DEF JournalFinHilo, TerminaJournal, Enviando, externo, journal, Hebras
<1>. QED
  BY <1>1, <1>3, TerminaSigue
----------------------------------------------------------------------------
(* A journal collects and sends                                            *)

LEMMA RecolectarSigue ==
  ASSUME Base, TypeOK', Registro, Sabidos, NEW x \in Hebras, JournalRecolectar(x)
  PROVE  Registro' /\ Sabidos'
<1>1. TypeOK /\ bitmap \subseteq Marcos /\ escritor = x
  BY Numeros DEF Base, JournalRecolectar, Exclusion, EscritorUnico, ConEscritura
<1>2. /\ pc[x] = "jou_recolectar" /\ pc'[x] = "jou_enviar" /\ ped' = ped
      /\ UNCHANGED <<reloj, bloque, bitmap, segmentos, lfs, lfsTablas>>
      /\ envio' = Modificadas
      /\ \A y \in Hebras \ {x} : pc'[y] = pc[y]
  BY <1>1 DEF JournalRecolectar, Seguir, Ir, TypeOK, paginas, externo
<1>3. Bajas' = Bajas
  <2>1. \A d \in Clientes : pc'[d] \in Borrando <=> pc[d] \in Borrando
    BY <1>2 DEF Borrando, Hebras
  <2>2. \A t \in Tablas : DeBaja(t)' <=> DeBaja(t)
    BY <1>2, <2>1 DEF DeBaja
  <2>. QED
    BY <2>2 DEF Bajas
<1>4. \A y \in Hebras \ {x} : ~Enviando(y)
  BY <1>1, NadieEnvia DEF Base
<1>5. ASSUME NEW r \in Modificadas
      PROVE  \E f \in bitmap : /\ bloque[f].estado /\ bloque[f].tabla = r.tabla
                               /\ bloque[f].key = r.key /\ bloque[f].ts = r.ts
  BY <1>5 DEF Modificadas
<1>6. Tiempo'
  <2>1. \A r \in envio' : 1 <= r.ts /\ r.ts <= reloj'
    BY <1>1, <1>2, <1>5 DEF Registro, Tiempo
  <2>. QED
    BY <1>2, <2>1 DEF Registro, Tiempo
<1>7. EnSegmento' /\ PaginaAlDia'
  BY <1>2, <1>3 DEF Registro, EnSegmento, PaginaAlDia
<1>8. EnviosDePaginas'
  <2>1. \E y \in Hebras : Enviando(y)'
    BY <1>2 DEF Enviando
  <2>2. \A f \in bitmap : bloque[f].estado =>
          [tabla |-> bloque[f].tabla, key |-> bloque[f].key, ts |-> bloque[f].ts] \in Modificadas
    BY DEF Modificadas
  <2>. QED
    BY <1>2, <1>5, <2>1, <2>2 DEF EnviosDePaginas
<1>9. ASSUME NEW d \in Clientes PROVE Sabido(d)'
  <2>1. Sabido(d) /\ d \in Hebras
    BY DEF Sabidos, Hebras
  <2>2. pc'[d] = pc[d] \/ (d = x /\ pc[d] = "jou_recolectar" /\ pc'[d] = "jou_enviar")
    BY <1>2, <2>1
  <2>3. Relleno(d)' <=> Relleno(d)
    BY <1>2, <2>2 DEF Relleno, Insertando, Journalizando
  <2>4. Papel(d)'
    BY <1>2, <2>1, <2>2 DEF Sabido, Papel, Insertando, Journalizando
  <2>5. Puntero(d)'
    BY <1>2, <1>3, <2>1, <2>2 DEF Sabido, Puntero, Paginas, Journalizando
  <2>6. Fresco(d)'
    <3>1. CASE d = x
      BY <1>2, <1>3, <1>4, <2>1, <2>3, <3>1 DEF Sabido, Fresco
    <3>2. CASE d # x
      BY <1>2, <3>2 DEF Fresco, Enviando
    <3>. QED
      BY <3>1, <3>2
  <2>7. Alcanza(d)'
    BY <1>2, <1>3, <2>1, <2>2, <2>3
       DEF Sabido, Alcanza, Registrados, Guardados, PorGuardar
  <2>8. Reciente(d)'
    BY <1>2, <2>1, <2>3 DEF Sabido, Reciente
  <2>. QED
    BY <2>4, <2>5, <2>6, <2>7, <2>8 DEF Sabido
<1>. QED
  BY <1>6, <1>7, <1>8, <1>9 DEF Registro, Sabidos

\* A record that is sent: the LFS has the newest of each key.
LEMMA EnviarLfs ==
  ASSUME TypeOK, NEW x \in Hebras, NEW r \in envio, JournalEnviar(x, r)
  PROVE  /\ r.tabla \in Tablas /\ r.key \in Claves /\ r.ts \in Nat
         /\ \A t \in Tablas, k \in Claves :
              /\ lfs'[t][k] \in Nat /\ lfs[t][k] <= lfs'[t][k]
              /\ lfs'[t][k] = lfs[t][k] \/ (t = r.tabla /\ k = r.key /\ lfs'[t][k] = r.ts)
         /\ r.tabla \notin Bajas => r.ts <= lfs'[r.tabla][r.key]
         /\ Bajas' = Bajas
<1>1. /\ r.tabla \in Tablas /\ r.key \in Claves /\ r.ts \in Nat
      /\ \A t \in Tablas, k \in Claves : lfs[t][k] \in Nat
  BY Numeros
<1>2. UNCHANGED <<pc, ped, lfsTablas>>
  BY DEF JournalEnviar
<1>3. Bajas' = Bajas
  BY <1>2 DEF Bajas, DeBaja
<1>4. CASE r.tabla \notin lfsTablas /\ UNCHANGED lfs
  <2>1. r.tabla \in Bajas
    BY <1>1, <1>4 DEF Bajas, DeBaja
  <2>. QED
    BY <1>1, <1>3, <1>4, <2>1
<1>5. CASE lfs' = [lfs EXCEPT ![r.tabla][r.key] = Mayor(@, r.ts)]
  <2>. DEFINE m == Mayor(lfs[r.tabla][r.key], r.ts)
  <2>1. /\ m \in Nat /\ lfs[r.tabla][r.key] <= m /\ r.ts <= m
        /\ m = lfs[r.tabla][r.key] \/ m = r.ts
    BY <1>1 DEF Mayor
  <2>2. lfs' = [lfs EXCEPT ![r.tabla][r.key] = m]
    BY <1>5
  <2>. HIDE DEF m
  <2>3. \A t \in Tablas, k \in Claves :
           lfs'[t][k] = IF t = r.tabla /\ k = r.key THEN m ELSE lfs[t][k]
    BY <1>1, <2>2 DEF TypeOK
  <2>. QED
    BY <1>1, <1>3, <2>1, <2>3
<1>. QED
  BY <1>4, <1>5 DEF JournalEnviar

\* The page a record is sent from is the only one of its key.
LEMMA PaginaDeEnvio ==
  ASSUME Base, Registro, NEW r \in envio, r.tabla \notin Bajas
  PROVE  /\ Paginas(r.tabla, r.key) # {}
         /\ \A f \in bitmap : bloque[f].tabla = r.tabla /\ bloque[f].key = r.key
              => bloque[f].ts = r.ts
<1>1. r.tabla \in Tablas /\ bitmap \subseteq Marcos
  BY Numeros DEF Base
<1>2. PICK g \in bitmap : /\ bloque[g].estado /\ bloque[g].tabla = r.tabla
                          /\ bloque[g].key = r.key /\ bloque[g].ts = r.ts
  BY DEF Registro, EnviosDePaginas
<1>3. \A f \in bitmap : bloque[f].tabla = r.tabla => f \in segmentos[r.tabla]
  BY <1>1, MarcosDeTabla DEF Base, Registro
<1>4. g \in Paginas(r.tabla, r.key)
  BY <1>2, <1>3 DEF Paginas
<1>5. ASSUME NEW f \in bitmap, bloque[f].tabla = r.tabla, bloque[f].key = r.key
      PROVE  f = g
  <2>1. {f, g} \subseteq segmentos[r.tabla] /\ f \in Marcos /\ g \in Marcos
    BY <1>1, <1>2, <1>3, <1>5
  <2>. QED
    BY <1>1, <1>2, <1>5, <2>1 DEF Base, Consistencia, UnaPaginaPorClave
<1>. QED
  BY <1>2, <1>4, <1>5

LEMMA EnviarRegistro ==
  ASSUME Base, TypeOK', Registro, NEW x \in Hebras, NEW r \in envio, JournalEnviar(x, r)
  PROVE  Registro'
<1>1. TypeOK /\ reloj \in Nat /\ bitmap \subseteq Marcos
      /\ \A f \in Marcos : /\ bloque[f].tabla \in Tablas /\ bloque[f].key \in Claves
                           /\ bloque[f].ts \in Nat
      /\ \A t \in Tablas, k \in Claves : lfs[t][k] \in Nat
  BY Numeros DEF Base
<1>2. /\ UNCHANGED <<reloj, bloque, bitmap, segmentos, pc, ped, lfsTablas>>
      /\ pc[x] = "jou_enviar" /\ envio' = envio \ {r}
  BY DEF JournalEnviar, paginas
<1>3. /\ r.tabla \in Tablas /\ r.key \in Claves /\ r.ts \in Nat
      /\ \A t \in Tablas, k \in Claves :
           /\ lfs'[t][k] \in Nat /\ lfs[t][k] <= lfs'[t][k]
           /\ lfs'[t][k] = lfs[t][k] \/ (t = r.tabla /\ k = r.key /\ lfs'[t][k] = r.ts)
      /\ r.tabla \notin Bajas => r.ts <= lfs'[r.tabla][r.key]
      /\ Bajas' = Bajas
  BY <1>1, EnviarLfs
<1>4. Tiempo'
  BY <1>1, <1>2, <1>3 DEF Registro, Tiempo
<1>5. EnSegmento'
  BY <1>2, <1>3 DEF Registro, EnSegmento
<1>6. PaginaAlDia'
  <2>. SUFFICES ASSUME NEW f \in bitmap, ~bloque[f].rancia, bloque[f].tabla \notin Bajas
                PROVE  lfs'[bloque[f].tabla][bloque[f].key] <= bloque[f].ts
    BY <1>2, <1>3 DEF PaginaAlDia
  <2>1. lfs[bloque[f].tabla][bloque[f].key] <= bloque[f].ts
    BY DEF Registro, PaginaAlDia
  <2>2. bloque[f].tabla = r.tabla /\ bloque[f].key = r.key => bloque[f].ts = r.ts
    BY PaginaDeEnvio
  <2>. QED
    BY <1>1, <1>3, <2>1, <2>2
<1>7. EnviosDePaginas'
  <2>1. \E y \in Hebras : Enviando(y)'
    BY <1>2 DEF Enviando
  <2>2. \E y \in Hebras : Enviando(y)
    BY <1>2 DEF Enviando
  <2>3. \A s \in envio' : s.tabla \notin Bajas' =>
          \E f \in bitmap' : /\ bloque'[f].estado /\ bloque'[f].tabla = s.tabla
                             /\ bloque'[f].key = s.key /\ bloque'[f].ts = s.ts
    BY <1>2, <1>3 DEF Registro, EnviosDePaginas
  <2>4. ASSUME NEW f \in bitmap, bloque[f].estado, bloque[f].tabla \notin Bajas
        PROVE  \/ [tabla |-> bloque[f].tabla, key |-> bloque[f].key, ts |-> bloque[f].ts] \in envio'
               \/ bloque[f].ts <= lfs'[bloque[f].tabla][bloque[f].key]
    <3>. DEFINE s == [tabla |-> bloque[f].tabla, key |-> bloque[f].key, ts |-> bloque[f].ts]
    <3>1. s.tabla = bloque[f].tabla /\ s.key = bloque[f].key /\ s.ts = bloque[f].ts
      OBVIOUS
    <3>2. s \in envio \/ s.ts <= lfs[s.tabla][s.key]
      BY <2>2, <2>4 DEF Registro, EnviosDePaginas
    <3>3. s.tabla \in Tablas /\ s.key \in Claves /\ s.ts \in Nat /\ s.tabla \notin Bajas
      BY <1>1, <2>4
    <3>. HIDE DEF s
    <3>4. s \in envio' \/ s.ts <= lfs'[s.tabla][s.key]
      BY <1>1, <1>2, <1>3, <3>2, <3>3
    <3>. QED
      BY <3>1, <3>4 DEF s
  <2>. QED
    BY <1>2, <1>3, <2>1, <2>3, <2>4 DEF EnviosDePaginas
<1>. QED
  BY <1>4, <1>5, <1>6, <1>7 DEF Registro

LEMMA EnviarSabidos ==
  ASSUME Base, TypeOK', Registro, Sabidos, NEW x \in Hebras, NEW r \in envio,
         JournalEnviar(x, r)
  PROVE  Sabidos'
<1>. SUFFICES ASSUME NEW d \in Clientes PROVE Sabido(d)'
  BY DEF Sabidos
<1>. DEFINE t == ped[d].tabla
            k == ped[d].key
<1>1. TypeOK /\ Sabido(d) /\ t \in Tablas /\ k \in Claves /\ ped[d].piso \in Nat
      /\ d \in Hebras /\ \A v \in Tablas, l \in Claves : lfs[v][l] \in Nat
  BY Numeros DEF Base, Sabidos, Hebras
<1>2. /\ UNCHANGED <<reloj, bloque, bitmap, segmentos, pc, ped, lfsTablas>>
      /\ pc[x] = "jou_enviar"
  BY DEF JournalEnviar, paginas
<1>3. /\ r.tabla \in Tablas /\ r.key \in Claves /\ r.ts \in Nat
      /\ \A v \in Tablas, l \in Claves :
           /\ lfs'[v][l] \in Nat /\ lfs[v][l] <= lfs'[v][l]
           /\ lfs'[v][l] = lfs[v][l] \/ (v = r.tabla /\ l = r.key /\ lfs'[v][l] = r.ts)
      /\ Bajas' = Bajas
  BY <1>1, EnviarLfs
<1>4. PICK u \in Tablas : u = t
  BY <1>1
<1>. HIDE DEF t, k
<1>5. Papel(d)' /\ Puntero(d)' /\ Reciente(d)'
  BY <1>1, <1>2, <1>3
     DEF Sabido, Papel, Puntero, Reciente, Relleno, Paginas
<1>6. Fresco(d)'
  <2>1. CASE d # x
    BY <1>2, <2>1 DEF Fresco, Enviando
  <2>2. CASE d = x
    <3>. SUFFICES ASSUME Relleno(d), ~ped[d].limpiado, t \notin Bajas
                  PROVE  lfs'[t][k] <= ped[d].ts
      BY <1>2, <1>3 DEF Fresco, Relleno, t, k
    <3>1. escritor = x
      BY <1>2 DEF Base, Exclusion, EscritorUnico, ConEscritura
    <3>2. lfs[t][k] <= ped[d].ts
      BY <1>1, <2>2, <3>1, NadieEnvia DEF Base, Sabido, Fresco, t, k
    <3>3. Paginas(t, k) = {}
      BY <1>1, <1>2, <2>2 DEF Sabido, Puntero, Relleno, Journalizando, t, k
    <3>4. ~(t = r.tabla /\ k = r.key)
      BY <3>3, PaginaDeEnvio
    <3>. QED
      BY <1>1, <1>3, <3>2, <3>4
  <2>. QED
    BY <2>1, <2>2
<1>7. ASSUME NEW s \in Registrados(u)
      PROVE  \E v \in Registrados(u)' : v.key = s.key /\ v.ts >= s.ts
  <2>1. CASE s \in PorGuardar(u)
    <3>1. s \in PorGuardar(u)'
      BY <1>2, <2>1 DEF PorGuardar
    <3>2. s.ts \in Nat
      BY <1>1, <2>1, Numeros DEF PorGuardar
    <3>. QED
      BY <3>1, <3>2 DEF Registrados
  <2>2. CASE s \in Guardados(u)
    <3>1. s.key \in Claves /\ s.ts = lfs[u][s.key] /\ s.ts > 0
      BY <2>2 DEF Guardados
    <3>. DEFINE v == [key |-> s.key, ts |-> lfs'[u][s.key]]
    <3>2. lfs'[u][s.key] > 0 /\ lfs'[u][s.key] >= s.ts
      BY <1>1, <1>3, <3>1
    <3>3. v \in Guardados(u)'
      BY <3>1, <3>2 DEF Guardados
    <3>. QED
      BY <3>2, <3>3 DEF Registrados
  <2>. QED
    BY <2>1, <2>2 DEF Registrados
<1>8. Alcanza(d)'
  <2>1. \A s \in Registrados(u) : s.ts \in Nat
    BY <1>1, Numeros DEF Registrados, Guardados, PorGuardar
  <2>2. \A s \in Registrados(u)' : s.ts \in Nat
    BY <1>1, <1>2, <1>3, Numeros DEF Registrados, Guardados, PorGuardar
  <2>3. ped[d].cmd = "SELECT" /\ t \notin Bajas =>
            /\ pc[d] \in {"sel_rw", "sel_leer"} =>
                 \/ ped[d].piso = 0
                 \/ \E s \in Registrados(u)' : s.key = k /\ ped[d].piso <= s.ts
            /\ pc[d] = "sel_lfs" => ped[d].piso <= lfs'[t][k]
            /\ Relleno(d) \/ pc[d] = "sel_responder" => ped[d].piso <= ped[d].ts
    BY <1>1, <1>3, <1>4, <1>7, <2>1, <2>2 DEF Sabido, Alcanza, t, k
  <2>. QED
    BY <1>2, <1>3, <1>4, <2>3
       DEF Alcanza, Relleno, Registrados, Guardados, PorGuardar, t, k
<1>. QED
  BY <1>5, <1>6, <1>8 DEF Sabido
----------------------------------------------------------------------------
(* All the steps                                                           *)

\* A process that starts, or has ended, has no page and no request.
Vacio ==
    /\ reloj >= 2
    /\ \A t \in Tablas, k \in Claves : lfs[t][k] <= reloj
    /\ bloque = [f \in Marcos |-> PaginaNula]
    /\ bitmap = {}
    /\ envio = {}
    /\ ped = [c \in Clientes |-> PedidoNulo]
    /\ \A c \in Clientes : pc[c] = "libre"
    /\ \A x \in Hebras : ~Enviando(x)

LEMMA VacioSabe == TypeOK /\ Vacio => Registro /\ Sabidos
<1>. SUFFICES ASSUME TypeOK, Vacio PROVE Registro /\ Sabidos
  OBVIOUS
<1>1. reloj \in Nat
  BY Numeros
<1>2. /\ PaginaNula.ts = 0 /\ PedidoNulo.cmd = "JOURNAL" /\ PedidoNulo.ts = 0
      /\ PedidoNulo.limpiado = FALSE
  BY DEF PaginaNula, PedidoNulo
<1>3. \A f \in Marcos : bloque[f].ts = 0
  BY <1>2 DEF Vacio
<1>4. Registro
  BY <1>1, <1>3 DEF Vacio, Registro, Tiempo, EnSegmento, PaginaAlDia, EnviosDePaginas
<1>5. ASSUME NEW c \in Clientes PROVE Sabido(c)
  <2>1. pc[c] = "libre" /\ ped[c] = PedidoNulo
    BY DEF Vacio
  <2>. QED
    BY <1>1, <1>2, <2>1 DEF Sabido, Papel, Puntero, Fresco, Alcanza, Reciente,
                            Relleno, Insertando, Journalizando
<1>. QED
  BY <1>4, <1>5 DEF Sabidos

LEMMA CaerSigue ==
  ASSUME Base, TypeOK', Registro, Caer
  PROVE  Registro' /\ Sabidos'
<1>1. reloj' = reloj /\ lfs' = lfs
  BY DEF Caer, externo
<1>2. /\ \A c \in Clientes : c \in Hebras /\ pc'[c] = "libre"
      /\ \A x \in Hebras : pc'[x] \in {"libre", "sin_hilo"}
  BY DEF Caer, Hebras
<1>3. Vacio'
  BY <1>1, <1>2 DEF Vacio, Enviando, Caer, Registro, Tiempo
<1>. QED
  BY <1>3, VacioSabe, PTL

LEMMA RegistroInit == Init => Registro /\ Sabidos
<1>. SUFFICES ASSUME Init PROVE Registro /\ Sabidos
  OBVIOUS
<1>1. /\ \A c \in Clientes : pc[c] = "libre"
      /\ \A x \in Hebras : pc[x] \in {"libre", "durmiendo", "sin_hilo"}
  BY DEF Init, Hebras
<1>2. reloj = 2 /\ \A t \in Tablas, k \in Claves : lfs[t][k] \in {0, 1}
  BY DEF Init
<1>3. Vacio
  BY <1>1, <1>2 DEF Vacio, Enviando, Init
<1>. QED
  BY <1>3, VacioSabe, TypeOKInit

LEMMA PropioSigue ==
  ASSUME ~LfsFalla, Base, TypeOK', Registro, Sabidos, NEW c \in Clientes, PasoPropio(c)
  PROVE  Registro' /\ Sabidos'
<1>1. ~DropError(c)
  BY DEF DropError
<1>2. CASE \/ InsertEsperar(c) \/ InsertTomarRw(c) \/ InsertBuscar(c)
           \/ InsertHayMarco(c) \/ InsertBitmapLleno(c) \/ LruSinCandidato(c)
           \/ InsertRebuscar(c) \/ JournalTomarRw(c) \/ JournalBloquear(c)
  BY <1>2, InsertSigue
<1>3. CASE \/ SelectNoEsta(c) \/ SelectEsta(c) \/ SelectSinPagina(c)
           \/ SelectLfs(c) \/ SelectError(c) \/ SelectResponder(c)
           \/ DropSinSegmento(c) \/ DropBuscar(c)
  BY <1>3, SelectSigue
<1>4. CASE InsertModificar(c) \/ \E f \in Marcos : InsertCrear(c, f)
  BY <1>4, EscribirSigue
<1>5. CASE \E f \in Marcos : SelectLeer(c, f)
  BY <1>5, SelectLeerSigue
<1>6. CASE \E f \in Marcos : LruReemplazar(c, f)
  BY <1>6, LruReemplazarSigue
<1>7. CASE DropBorrar(c) \/ DropLfs(c)
  BY <1>7, DropBorrarSigue, DropLfsSigue
<1>8. CASE JournalFin(c) \/ JournalFinLru(c)
  BY <1>8, JournalFinSigue, JournalFinLruSigue
<1>. QED
  BY <1>1, <1>2, <1>3, <1>4, <1>5, <1>6, <1>7, <1>8, Zenon DEF PasoPropio

LEMMA RegistroNext ==
  ASSUME ~LfsFalla, Tipos, Exclusion, Consistencia, Registro, Sabidos, [Next]_vars
  PROVE  Registro' /\ Sabidos'
<1>1. Base /\ TypeOK'
  BY TiposNext DEF Base, Tipos
<1>2. CASE UNCHANGED vars \/ Tick
  BY <1>1, <1>2, RelojSigue
<1>3. CASE Caer
  BY <1>1, <1>3, CaerSigue
<1>4. ASSUME NEW c \in Clientes, Pedir(c) \/ PasoPropio(c) PROVE Registro' /\ Sabidos'
  BY <1>1, <1>4, PedirSigue, PropioSigue
<1>5. ASSUME NEW x \in Hebras, PasoJournal(x) PROVE Registro' /\ Sabidos'
  <2>1. ASSUME NEW r \in envio, JournalEnviar(x, r) PROVE Registro' /\ Sabidos'
    BY <1>1, <2>1, EnviarRegistro, EnviarSabidos
  <2>2. ~JournalSinConexion(x) /\ \A r \in envio : ~JournalCortado(x, r)
    BY DEF JournalSinConexion, JournalCortado
  <2>. QED
    BY <1>1, <1>5, <2>1, <2>2, RecolectarSigue DEF PasoJournal
<1>6. ASSUME NEW h \in Hilos, PasoTimer(h) PROVE Registro' /\ Sabidos'
  BY <1>1, <1>6, TimerSigue, JournalFinHiloSigue
<1>. QED
  BY <1>2, <1>3, <1>4, <1>5, <1>6, Pasos

LEMMA RegistroSiempre ==
  ASSUME ~LfsFalla
  PROVE  Spec => [](Tipos /\ Exclusion /\ Consistencia /\ Registro /\ Sabidos)
<1>1. Tipos /\ Exclusion /\ Consistencia /\ Registro /\ Sabidos /\ [Next]_vars
      => Registro' /\ Sabidos'
  BY RegistroNext
<1>2. Init => Registro /\ Sabidos
  BY RegistroInit
<1>. QED
  BY <1>1, <1>2, Consistente, PTL DEF Spec

\* While the LFS answers, a SELECT of a table that is not being deleted answers
\* the newest record that was inserted before it started, or a newer one,
\* whatever LRU, the journals and the other requests do meanwhile: for any
\* tables, keys, clients and number of frames. It excepts, as SelectAlDia does,
\* a page that was filled with an answer the LFS gave before a journal.
THEOREM SelectCorrecto ==
  ASSUME ~LfsFalla
  PROVE  Spec => []SelectAlDia
<1>1. ASSUME TypeOK, Sabidos PROVE SelectAlDia
  <2>. SUFFICES ASSUME NEW c \in Clientes, pc[c] = "sel_responder",
                       ~DeBaja(ped[c].tabla)
                PROVE  ped[c].ts >= ped[c].piso
    BY DEF SelectAlDia
  <2>1. ped[c].tabla \notin Bajas
    BY DEF Bajas
  <2>2. Papel(c) /\ Alcanza(c)
    BY <1>1 DEF Sabidos, Sabido
  <2>3. ped[c].piso <= ped[c].ts
    BY <2>1, <2>2 DEF Papel, Alcanza
  <2>. QED
    BY <1>1, <2>3, Numeros
<1>2. Tipos => TypeOK
  BY DEF Tipos
<1>. QED
  BY <1>1, <1>2, RegistroSiempre, PTL
----------------------------------------------------------------------------
(* Memoria implements Almacen                                              *)

\* What every step but the writes and the start of a DROP does to the records
\* that can be found.
Depura ==
    /\ \A t \in Tablas : Registrados(t)' \subseteq Registrados(t)
    /\ \A t \in Tablas : t \notin Bajas => Domina(Registrados(t)', Registrados(t))
    /\ Bajas' \subseteq Bajas
    /\ vivo' = vivo

LEMMA RegistrosDe ==
  ASSUME TypeOK, Tiempo, NEW t \in Tablas
  PROVE  Registrados(t) \in SUBSET Registros
<1>1. ASSUME NEW n \in Tiempos, 1 <= n PROVE n \in 1..MaxReloj
  BY <1>1 DEF Tiempos, MemoriaAssumption
<1>2. ASSUME NEW k \in Claves, lfs[t][k] > 0 PROVE [key |-> k, ts |-> lfs[t][k]] \in Registros
  <2>1. lfs[t][k] \in Tiempos
    BY DEF TypeOK
  <2>2. 1 <= lfs[t][k]
    BY <1>2, <2>1 DEF Tiempos
  <2>. QED
    BY <1>1, <2>1, <2>2 DEF Registros
<1>3. ASSUME NEW f \in bitmap, bloque[f].estado
      PROVE  [key |-> bloque[f].key, ts |-> bloque[f].ts] \in Registros
  <2>1. bloque[f] \in Pagina
    BY DEF TypeOK
  <2>2. bloque[f].key \in Claves /\ bloque[f].ts \in Tiempos
    BY <2>1 DEF Pagina
  <2>3. 1 <= bloque[f].ts
    BY <1>3 DEF Tiempo, TypeOK
  <2>. QED
    BY <1>1, <2>2, <2>3 DEF Registros
<1>. QED
  BY <1>2, <1>3 DEF Registrados, Guardados, PorGuardar

SonRegistros == \A t \in Tablas : Registrados(t) \in SUBSET Registros

LEMMA RegistrosDeTodas == TypeOK /\ Tiempo => SonRegistros
BY RegistrosDe DEF SonRegistros

LEMMA DominaIncluida ==
  ASSUME NEW A, NEW B \in SUBSET Registros, B \subseteq A
  PROVE  Domina(A, B)
  BY DEF Domina, Registros

LEMMA DepuraAlmacen ==
  ASSUME TypeOK', Tiempo', Depura
  PROVE  Alm!Next
<1>1. SonRegistros'
  BY RegistrosDeTodas, PTL
<1>2. [t \in Tablas |-> Registrados(t)'] \in [Tablas -> SUBSET Registros]
  BY <1>1 DEF SonRegistros
<1>3. ASSUME NEW t \in Tablas
      PROVE  /\ [u \in Tablas |-> Registrados(u)'][t]
                  \subseteq [u \in Tablas |-> Registrados(u)][t]
             /\ t \notin Bajas => Alm!Domina([u \in Tablas |-> Registrados(u)'][t],
                                             [u \in Tablas |-> Registrados(u)][t])
  BY DEF Depura, Domina, Alm!Domina
<1>4. Alm!Depurar
  BY <1>2, <1>3 DEF Alm!Depurar, Depura, Bajas
<1>. QED
  BY <1>4 DEF Alm!Next

LEMMA MenguaDepura ==
  ASSUME TypeOK, Tiempo, Mengua, Bajas' \subseteq Bajas, vivo' = vivo
  PROVE  Depura
<1>1. ASSUME NEW t \in Tablas PROVE Registrados(t)' \subseteq Registrados(t)
  <2>1. Guardados(t)' \subseteq Guardados(t)
    <3>1. \A k \in Claves : lfs[t][k] \in Nat
      BY Numeros
    <3>2. \A k \in Claves : lfs'[t][k] > 0 => lfs'[t][k] = lfs[t][k]
      BY <3>1 DEF Mengua
    <3>. QED
      BY <3>2 DEF Guardados
  <2>2. PorGuardar(t)' \subseteq PorGuardar(t)
    BY DEF PorGuardar, Mengua, TypeOK
  <2>. QED
    BY <2>1, <2>2 DEF Registrados
<1>2. ASSUME NEW t \in Tablas, t \notin Bajas
      PROVE  Domina(Registrados(t)', Registrados(t))
  <2>1. Registrados(t) \subseteq Registrados(t)'
    BY <1>2, MenguaRegistrados
  <2>. QED
    BY <2>1, RegistrosDe, DominaIncluida
<1>. QED
  BY <1>1, <1>2 DEF Depura

\* A table is given up only when a DROP of it starts.
LEMMA BajasNoCrecen ==
  ASSUME \/ lfsTablas' = lfsTablas
         \/ \E t \in Bajas : lfsTablas' = lfsTablas \ {t},
         \A d \in Clientes : pc'[d] \in Borrando =>
             pc[d] \in Borrando /\ ped'[d].tabla = ped[d].tabla
  PROVE  Bajas' \subseteq Bajas
<1>. SUFFICES ASSUME NEW t \in Tablas, DeBaja(t)' PROVE t \in Bajas
  BY DEF Bajas
<1>1. CASE t \notin lfsTablas'
  BY <1>1 DEF Bajas, DeBaja
<1>2. CASE \E d \in Clientes : pc'[d] \in Borrando /\ ped'[d].tabla = t
  BY <1>2 DEF Bajas, DeBaja
<1>. QED
  BY <1>1, <1>2 DEF DeBaja
\* The end of a journal: what it sent is in the LFS.
LEMMA TerminaDepura ==
  ASSUME TypeOK, Registro, NEW x \in Hebras, TerminaJournal(x),
         x \in Clientes => pc'[x] \notin Borrando, vivo' = vivo
  PROVE  Depura
<1>1. Bajas' = Bajas
  BY TerminaBajas
<1>2. /\ bitmap' = {} /\ lfs' = lfs /\ envio = {} /\ Enviando(x)
  BY DEF TerminaJournal, Limpiar
<1>3. ASSUME NEW t \in Tablas PROVE Registrados(t)' = Guardados(t)
  BY <1>2 DEF Registrados, Guardados, PorGuardar
<1>4. ASSUME NEW t \in Tablas, t \notin Bajas
      PROVE  Domina(Guardados(t), Registrados(t))
  <2>. SUFFICES ASSUME NEW r \in Registrados(t)
                PROVE  \E s \in Guardados(t) : s.key = r.key /\ s.ts >= r.ts
    BY DEF Domina
  <2>1. CASE r \in Guardados(t)
    <3>1. r.ts \in Nat
      BY <2>1, Numeros DEF Guardados
    <3>. QED
      BY <2>1, <3>1
  <2>2. CASE r \in PorGuardar(t)
    <3>1. PICK f \in bitmap : /\ bloque[f].estado /\ bloque[f].tabla = t
                              /\ r = [key |-> bloque[f].key, ts |-> bloque[f].ts]
      BY <2>2 DEF PorGuardar
    <3>2. f \in Marcos /\ bloque[f].key \in Claves /\ bloque[f].ts \in Nat
          /\ lfs[t][bloque[f].key] \in Nat
      BY Numeros
    <3>3. 1 <= bloque[f].ts /\ bloque[f].ts <= lfs[t][bloque[f].key]
      BY <1>2, <1>4, <3>1, <3>2 DEF Registro, Tiempo, EnviosDePaginas
    <3>4. [key |-> bloque[f].key, ts |-> lfs[t][bloque[f].key]] \in Guardados(t)
      BY <3>2, <3>3 DEF Guardados
    <3>. QED
      BY <3>1, <3>2, <3>3, <3>4
  <2>. QED
    BY <2>1, <2>2 DEF Registrados
<1>. QED
  BY <1>1, <1>3, <1>4 DEF Depura, Registrados
\* A step that touches no page and nothing of the LFS.
LEMMA QuietaDepura ==
  ASSUME TypeOK, Tiempo, UNCHANGED <<paginas, externo, vivo>>,
         \A d \in Clientes : pc'[d] \in Borrando =>
             pc[d] \in Borrando /\ ped'[d].tabla = ped[d].tabla
  PROVE  Depura
<1>1. Bajas' \subseteq Bajas /\ vivo' = vivo
  BY BajasNoCrecen DEF externo
<1>2. ASSUME NEW t \in Tablas PROVE Registrados(t)' = Registrados(t)
  BY DEF Registrados, Guardados, PorGuardar, paginas, externo
<1>3. ASSUME NEW t \in Tablas PROVE Domina(Registrados(t)', Registrados(t))
  BY <1>2, RegistrosDe, DominaIncluida
<1>. QED
  BY <1>1, <1>2, <1>3 DEF Depura

\* The same, of a step in which x goes to p.
LEMMA QuietaAPc ==
  ASSUME TypeOK, Tiempo, UNCHANGED <<paginas, externo, vivo>>,
         NEW x \in Hebras, NEW p, Ir(x, p),
         p \in Borrando => pc[x] \in Borrando,
         \A d \in Clientes : ped'[d].tabla = ped[d].tabla \/ (d = x /\ p \notin Borrando)
  PROVE  Depura
<1>1. pc'[x] = p /\ \A y \in Hebras \ {x} : pc'[y] = pc[y]
  BY DEF Ir, TypeOK
<1>2. Clientes \subseteq Hebras
  BY DEF Hebras
<1>. QED
  BY <1>1, <1>2, QuietaDepura

LEMMA PedirDepura ==
  ASSUME TypeOK, Tiempo, NEW c \in Clientes, Pedir(c),
         \A t \in Tablas : ~DropPedir(c, t)
  PROVE  Depura
<1>1. c \in Hebras
  BY DEF Hebras
<1>2. PICK p \in {"ins_lru", "sel_rw", "jou_rw"}, cmd \in Pedidos : \E r : Empezar(c, cmd, p, r)
  BY DEF Pedir, InsertPedir, SelectPedir, JournalPedir, Empezar
<1>3. UNCHANGED <<paginas, externo, vivo>> /\ Ir(c, p) /\ p \notin Borrando
  BY <1>2 DEF Empezar, Borrando
<1>4. \A d \in Clientes \ {c} : ped'[d] = ped[d]
  BY <1>2 DEF Empezar, TypeOK
<1>. QED
  BY <1>1, <1>3, <1>4, QuietaAPc

LEMMA PropioQuieto ==
  ASSUME TypeOK, Tiempo, NEW c \in Clientes,
         \/ InsertEsperar(c) \/ InsertTomarRw(c) \/ InsertBuscar(c)
         \/ InsertHayMarco(c) \/ InsertBitmapLleno(c) \/ LruSinCandidato(c)
         \/ InsertRebuscar(c) \/ JournalTomarRw(c) \/ JournalBloquear(c)
         \/ SelectNoEsta(c) \/ SelectEsta(c) \/ SelectSinPagina(c)
         \/ SelectLfs(c) \/ SelectError(c) \/ SelectResponder(c)
         \/ DropSinSegmento(c) \/ DropBuscar(c)
  PROVE  Depura
<1>1. c \in Hebras
  BY DEF Hebras
<1>2. CASE \/ InsertEsperar(c) \/ InsertTomarRw(c) \/ InsertHayMarco(c)
           \/ InsertBitmapLleno(c) \/ LruSinCandidato(c)
           \/ JournalTomarRw(c) \/ JournalBloquear(c) \/ SelectNoEsta(c) \/ SelectEsta(c)
           \/ DropSinSegmento(c)
  <2>1. PICK p : Seguir(c, p) /\ (p \in Borrando => pc[c] \in Borrando)
    BY <1>2 DEF InsertEsperar, InsertTomarRw, InsertHayMarco, InsertBitmapLleno,
                LruSinCandidato, JournalTomarRw, JournalBloquear, SelectNoEsta, SelectEsta,
                DropSinSegmento, Borrando
  <2>2. UNCHANGED <<paginas, externo, vivo>>
    BY <1>2 DEF InsertEsperar, InsertTomarRw, InsertHayMarco, InsertBitmapLleno,
                LruSinCandidato, JournalTomarRw, JournalBloquear, SelectNoEsta, SelectEsta,
                DropSinSegmento
  <2>. QED
    BY <1>1, <2>1, <2>2, QuietaAPc DEF Seguir
<1>3. CASE InsertBuscar(c) \/ InsertRebuscar(c)
  <2>1. PICK p \in {"ins_bitmap", "ins_crear"} : Buscar(c, p)
    BY <1>3 DEF InsertBuscar, InsertRebuscar
  <2>2. PICK q \in {"ins_modificar", "ins_bitmap", "ins_crear"} : Ir(c, q)
    BY <2>1 DEF Buscar
  <2>3. \A d \in Clientes \ {c} : ped'[d] = ped[d]
    BY <2>1 DEF Buscar, TypeOK
  <2>4. UNCHANGED <<paginas, externo, vivo>> /\ q \notin Borrando
    BY <1>3 DEF InsertBuscar, InsertRebuscar, Borrando
  <2>. QED
    BY <1>1, <2>2, <2>3, <2>4, QuietaAPc
<1>4. CASE SelectSinPagina(c) \/ SelectError(c) \/ SelectResponder(c)
  <2>1. Contestar(c) /\ UNCHANGED <<paginas, externo, vivo>> /\ "libre" \notin Borrando
    BY <1>4 DEF SelectSinPagina, SelectError, SelectResponder, Borrando
  <2>2. \A d \in Clientes \ {c} : ped'[d] = ped[d]
    BY <2>1 DEF Contestar, TypeOK
  <2>. QED
    BY <1>1, <2>1, <2>2, QuietaAPc DEF Contestar
<1>5. CASE SelectLfs(c)
  <2>1. Ir(c, "ins_lru") /\ UNCHANGED <<paginas, externo, vivo>> /\ "ins_lru" \notin Borrando
    BY <1>5 DEF SelectLfs, Borrando
  <2>2. \A d \in Clientes \ {c} : ped'[d] = ped[d]
    BY <1>5 DEF SelectLfs, TypeOK
  <2>. QED
    BY <1>1, <2>1, <2>2, QuietaAPc
<1>6. CASE DropBuscar(c)
  <2>1. Ir(c, "drop_borrar") /\ UNCHANGED <<paginas, externo, vivo>> /\ pc[c] \in Borrando
    BY <1>6 DEF DropBuscar, Borrando
  <2>2. \A d \in Clientes : ped'[d].tabla = ped[d].tabla
    BY <1>6 DEF DropBuscar, TypeOK, Pedido
  <2>. QED
    BY <1>1, <2>1, <2>2, QuietaAPc
<1>. QED
  BY <1>2, <1>3, <1>4, <1>5, <1>6
LEMMA TimerDepura ==
  ASSUME TypeOK, Tiempo, NEW h \in Hilos, PasoTimer(h), ~JournalFinHilo(h)
  PROVE  Depura
<1>1. h \in Hebras /\ h \notin Clientes
  BY DEF Hebras, MemoriaAssumption
<1>2. /\ UNCHANGED <<paginas, externo, vivo, ped>>
      /\ \E p : p \notin Borrando /\ Ir(h, p)
  BY DEF PasoTimer, HiloDespertar, HiloTomarHecho, HiloTomarBitmap, HiloTomarRw,
         HiloInformar, HiloMorir, Seguir, Borrando
<1>. QED
  BY <1>1, <1>2, QuietaAPc

LEMMA RelojDepura ==
  ASSUME TypeOK, Tiempo, UNCHANGED vars \/ Tick
  PROVE  Depura
<1>1. UNCHANGED <<paginas, externo, vivo, pc, ped>>
  BY DEF vars, Tick
<1>. QED
  BY <1>1, QuietaDepura

LEMMA RecolectarDepura ==
  ASSUME TypeOK, Tiempo, NEW x \in Hebras, JournalRecolectar(x)
  PROVE  Depura
<1>1. UNCHANGED <<paginas, externo, vivo, ped>> /\ Ir(x, "jou_enviar")
      /\ "jou_enviar" \notin Borrando
  BY DEF JournalRecolectar, Seguir, Borrando
<1>. QED
  BY <1>1, QuietaAPc

\* Pages that are read or replaced, and those of a DROP.
LEMMA BorrarDepura ==
  ASSUME Base, TypeOK', Registro, Sabidos, NEW c \in Clientes,
         \/ \E f \in Marcos : SelectLeer(c, f) \/ LruReemplazar(c, f)
         \/ DropBorrar(c) \/ DropLfs(c)
         \/ InsertModificar(c) /\ bloque' = bloque
  PROVE  Depura
<1>1. Mengua
  BY SelectLeerSigue, LruReemplazarSigue, DropBorrarSigue, DropLfsSigue, ModificarNadaSigue
<1>2. c \in Hebras /\ Clientes \subseteq Hebras /\ TypeOK /\ Tiempo
  BY DEF Hebras, Base, Registro
<1>3. vivo' = vivo
  BY DEF SelectLeer, LruReemplazar, DropBorrar, DropLfs, InsertModificar
<1>4. CASE DropLfs(c)
  <2>1. lfsTablas' = lfsTablas \ {ped[c].tabla} /\ ped[c].tabla \in Bajas
    BY <1>2, <1>4, Numeros DEF DropLfs, Bajas, DeBaja, Borrando
  <2>2. pc'[c] = "libre" /\ \A d \in Clientes \ {c} : pc'[d] = pc[d] /\ ped'[d] = ped[d]
    BY <1>2, <1>4 DEF DropLfs, Contestar, Ir, TypeOK
  <2>3. Bajas' \subseteq Bajas
    BY <2>1, <2>2, BajasNoCrecen DEF Borrando
  <2>. QED
    BY <1>1, <1>2, <1>3, <2>3, MenguaDepura
<1>5. CASE DropBorrar(c)
  <2>1. \A d \in Clientes : ped'[d].tabla = ped[d].tabla
    BY <1>2, <1>5 DEF DropBorrar, SinSegmento, TypeOK, Pedido
  <2>2. /\ pc[c] \in Borrando /\ \A d \in Clientes \ {c} : pc'[d] = pc[d]
        /\ lfsTablas' = lfsTablas
    BY <1>2, <1>5 DEF DropBorrar, Ir, TypeOK, Borrando, externo
  <2>3. Bajas' \subseteq Bajas
    BY <2>1, <2>2, BajasNoCrecen
  <2>. QED
    BY <1>1, <1>2, <1>3, <2>3, MenguaDepura
<1>6. CASE \/ \E f \in Marcos : SelectLeer(c, f) \/ LruReemplazar(c, f)
           \/ InsertModificar(c) /\ bloque' = bloque
  <2>1. /\ \E p \in {"sel_responder", "ins_rebuscar", "libre"} : Ir(c, p)
        /\ lfsTablas' = lfsTablas
    BY <1>6 DEF SelectLeer, LruReemplazar, InsertModificar, TrasInsertar, Contestar, Seguir,
                externo
  <2>2. pc'[c] \notin Borrando /\ \A d \in Clientes \ {c} : pc'[d] = pc[d]
    BY <1>2, <2>1 DEF Ir, TypeOK, Borrando
  <2>3. \A d \in Clientes \ {c} : ped'[d] = ped[d]
    BY <1>2, <1>6 DEF SelectLeer, LruReemplazar, InsertModificar, TrasInsertar, Contestar,
                      Seguir, TypeOK
  <2>4. Bajas' \subseteq Bajas
    BY <2>1, <2>2, <2>3, BajasNoCrecen
  <2>. QED
    BY <1>1, <1>2, <1>3, <2>4, MenguaDepura
<1>. QED
  BY <1>4, <1>5, <1>6

\* The end of a journal, of a request or of the timer.
LEMMA FinDepura ==
  ASSUME Base, TypeOK', Registro, Sabidos, NEW x \in Hebras,
         \/ x \in Clientes /\ (JournalFin(x) \/ JournalFinLru(x))
         \/ x \in Hilos /\ JournalFinHilo(x)
  PROVE  Depura
<1>1. vivo' = vivo
  BY DEF JournalFin, JournalFinLru, JournalFinHilo
<1>2. TerminaJournal(x) /\ (x \in Clientes => pc'[x] \notin Borrando)
  BY JournalFinSigue, JournalFinLruSigue, JournalFinHiloSigue
     DEF MemoriaAssumption
<1>. QED
  BY <1>1, <1>2, TerminaDepura DEF Base

\* A record is written in a page or in the LFS. In the table it is added to, it
\* may take the place of an older one of its key.
LEMMA InsertarAlmacen ==
  ASSUME NEW t \in Tablas, NEW r \in Registros,
         r \in Registrados(t)',
         Registrados(t)' \subseteq Registrados(t) \cup {r},
         Domina(Registrados(t)', Registrados(t)),
         \A u \in Tablas \ {t} : Registrados(u)' = Registrados(u),
         Bajas' = Bajas, vivo' = vivo
  PROVE  Alm!Next
<1>1. [u \in Tablas |-> Registrados(u)']
        = [[u \in Tablas |-> Registrados(u)] EXCEPT ![t] = Registrados(t)']
  OBVIOUS
<1>2. /\ [u \in Tablas |-> Registrados(u)'][t] = Registrados(t)'
      /\ [u \in Tablas |-> Registrados(u)][t] = Registrados(t)
  OBVIOUS
<1>3. Alm!Domina([u \in Tablas |-> Registrados(u)'][t],
                 [u \in Tablas |-> Registrados(u)][t])
  BY DEF Domina, Alm!Domina
<1>4. {u \in Tablas : DeBaja(u)}' = {u \in Tablas : DeBaja(u)}
  BY DEF Bajas
<1>5. Alm!Insertar(t, r)
  BY <1>1, <1>2, <1>3, <1>4 DEF Alm!Insertar
<1>. QED
  BY <1>5 DEF Alm!Next

LEMMA EscribeAlmacen ==
  ASSUME Base, TypeOK', Registro, Registro', NEW c \in Clientes, NEW f \in Marcos,
         EscribePagina(c, f), vivo' = vivo
  PROVE  Alm!Next
<1>0. TypeOK /\ Tiempo /\ Tiempo'
  BY DEF Base, Registro
<1>. PICK t \in Tablas : t = ped[c].tabla
  BY <1>0, Numeros
<1>. PICK k \in Claves : k = ped[c].key
  BY <1>0, Numeros
<1>. PICK n : n = TiempoDe(c)
  OBVIOUS
<1>. DEFINE r == [key |-> k, ts |-> n]
<1>1. Bajas' = Bajas
  BY <1>0, EscribeBajas
<1>2. /\ UNCHANGED lfs
      /\ \A g \in Marcos \ {f} : bloque'[g] = bloque[g]
      /\ bloque'[f].tabla = t /\ bloque'[f].key = k /\ bloque'[f].ts = n
      /\ \/ f \notin bitmap
         \/ /\ bloque[f].tabla = t /\ bloque[f].key = k
            /\ bloque[f].ts < n /\ bloque'[f].estado
      /\ bitmap \subseteq bitmap' /\ bitmap' \subseteq bitmap \cup {f}
      /\ bitmap \subseteq Marcos
  BY <1>0, Numeros DEF EscribePagina
<1>4. ASSUME NEW u \in Tablas PROVE Guardados(u)' = Guardados(u)
  BY <1>2 DEF Guardados
<1>5. ASSUME NEW u \in Tablas \ {t} PROVE PorGuardar(u)' = PorGuardar(u)
  BY <1>2 DEF PorGuardar
<1>6. CASE f \in bitmap' /\ bloque'[f].estado
  <2>1. r \in PorGuardar(t)'
    BY <1>2, <1>6 DEF PorGuardar
  <2>2. PorGuardar(t)' \subseteq PorGuardar(t) \cup {r}
    BY <1>2 DEF PorGuardar
  <2>3. \A s \in PorGuardar(t) : s \in PorGuardar(t)' \/ (s.key = r.key /\ s.ts < r.ts)
    BY <1>2 DEF PorGuardar
  <2>. HIDE DEF r
  <2>4. SonRegistros /\ SonRegistros'
    BY <1>0, RegistrosDeTodas, PTL
  <2>5. r \in Registros
    BY <2>1, <2>4 DEF SonRegistros, Registrados
  <2>6. Domina(Registrados(t)', Registrados(t))
    <3>1. r.ts \in Nat /\ \A s \in Registrados(t) : s.ts \in Nat
      BY <2>4, <2>5 DEF SonRegistros, Registros
    <3>. SUFFICES ASSUME NEW s \in Registrados(t)
                  PROVE  \E v \in Registrados(t)' : v.key = s.key /\ v.ts >= s.ts
      BY DEF Domina
    <3>2. s \in Registrados(t)' \/ (s.key = r.key /\ s.ts < r.ts)
      BY <1>4, <2>3 DEF Registrados
    <3>. QED
      BY <2>1, <3>1, <3>2 DEF Registrados
  <2>7. \A u \in Tablas \ {t} : Registrados(u)' = Registrados(u)
    BY <1>4, <1>5 DEF Registrados
  <2>8. r \in Registrados(t)' /\ Registrados(t)' \subseteq Registrados(t) \cup {r}
    BY <1>4, <2>1, <2>2 DEF Registrados
  <2>. QED
    BY <1>1, <2>5, <2>6, <2>7, <2>8, InsertarAlmacen
<1>7. CASE ~(f \in bitmap' /\ bloque'[f].estado)
  <2>1. \A g \in Marcos : (g \in bitmap' /\ bloque'[g].estado) <=> (g \in bitmap /\ bloque[g].estado)
    BY <1>2, <1>7
  <2>2. \A g \in bitmap : bloque[g].estado => bloque'[g] = bloque[g]
    BY <1>2, <1>7
  <2>3. ASSUME NEW u \in Tablas PROVE Registrados(u)' = Registrados(u)
    <3>1. bitmap' \subseteq Marcos
      BY <1>2
    <3>2. PorGuardar(u)' = PorGuardar(u)
      BY <1>2, <2>1, <2>2, <3>1 DEF PorGuardar
    <3>. QED
      BY <1>4, <3>2 DEF Registrados
  <2>4. ASSUME NEW u \in Tablas PROVE Domina(Registrados(u)', Registrados(u))
    BY <1>0, <2>3, RegistrosDe, DominaIncluida
  <2>5. Depura
    BY <1>1, <2>3, <2>4 DEF Depura
  <2>. QED
    BY <1>0, <2>5, DepuraAlmacen
<1>. QED
  BY <1>6, <1>7
LEMMA EnviarAlmacen ==
  ASSUME Base, TypeOK', Registro, Registro', NEW x \in Hebras, NEW r \in envio,
         JournalEnviar(x, r)
  PROVE  Alm!Next
<1>0. TypeOK /\ Tiempo /\ Tiempo'
  BY DEF Base, Registro
<1>1. /\ r.tabla \in Tablas /\ r.key \in Claves /\ r.ts \in Nat /\ 1 <= r.ts
      /\ Bajas' = Bajas
  BY <1>0, EnviarLfs DEF Tiempo
<1>2. UNCHANGED <<bloque, bitmap, vivo>>
  BY DEF JournalEnviar, paginas
<1>3. ASSUME NEW u \in Tablas PROVE PorGuardar(u)' = PorGuardar(u)
  BY <1>2 DEF PorGuardar
<1>4. SonRegistros /\ SonRegistros'
  BY <1>0, RegistrosDeTodas, PTL
<1>5. CASE lfs' = lfs
  <2>1. ASSUME NEW u \in Tablas PROVE Registrados(u)' = Registrados(u)
    BY <1>3, <1>5 DEF Registrados, Guardados
  <2>2. ASSUME NEW u \in Tablas PROVE Domina(Registrados(u)', Registrados(u))
    BY <1>0, <2>1, RegistrosDe, DominaIncluida
  <2>3. Depura
    BY <1>1, <1>2, <2>1, <2>2 DEF Depura
  <2>. QED
    BY <1>0, <2>3, DepuraAlmacen
<1>6. CASE lfs' # lfs
  <2>. DEFINE t == r.tabla
              s == [key |-> r.key, ts |-> r.ts]
  <2>1. \A u \in Tablas, k \in Claves :
           lfs'[u][k] = lfs[u][k] \/ (u = t /\ k = r.key /\ lfs'[u][k] = r.ts)
    BY <1>0, EnviarLfs
  <2>2. lfs'[t][r.key] = r.ts /\ lfs[t][r.key] \in Nat /\ lfs[t][r.key] <= r.ts
    <3>1. lfs' = [lfs EXCEPT ![r.tabla][r.key] = Mayor(@, r.ts)]
      BY <1>6 DEF JournalEnviar
    <3>2. lfs[t][r.key] \in Nat
      BY <1>0, <1>1, Numeros
    <3>3. lfs'[t][r.key] = Mayor(lfs[t][r.key], r.ts)
      BY <1>0, <1>1, <3>1 DEF TypeOK
    <3>4. lfs'[t][r.key] # lfs[t][r.key]
      <4>1. ASSUME lfs'[t][r.key] = lfs[t][r.key] PROVE FALSE
        <5>1. \A u \in Tablas, k \in Claves : lfs'[u][k] = lfs[u][k]
          BY <2>1, <4>1
        <5>2. lfs \in [Tablas -> [Claves -> Tiempos]] /\ lfs' \in [Tablas -> [Claves -> Tiempos]]
          BY <1>0 DEF TypeOK
        <5>3. \A u \in Tablas : lfs'[u] = lfs[u]
          BY <5>1, <5>2
        <5>. QED
          BY <1>6, <5>2, <5>3
      <4>. QED
        BY <4>1
    <3>. QED
      BY <1>1, <3>2, <3>3, <3>4 DEF Mayor
  <2>. HIDE DEF t
  <2>3. t \in Tablas
    BY <1>1 DEF t
  <2>4. s \in Guardados(t)' /\ Guardados(t)' \subseteq Guardados(t) \cup {s}
    BY <1>1, <2>1, <2>2, <2>3 DEF Guardados
  <2>5. \A v \in Guardados(t) : v \in Guardados(t)' \/ (v.key = s.key /\ v.ts <= s.ts)
    BY <1>1, <2>1, <2>2, <2>3 DEF Guardados
  <2>6. ASSUME NEW u \in Tablas \ {t} PROVE Guardados(u)' = Guardados(u)
    BY <2>1 DEF Guardados
  <2>. HIDE DEF s
  <2>7. s \in Registros
    BY <1>4, <2>3, <2>4 DEF SonRegistros, Registrados
  <2>8. Domina(Registrados(t)', Registrados(t))
    <3>1. s.ts \in Nat /\ \A v \in Registrados(t) : v.ts \in Nat
      BY <1>4, <2>3, <2>7 DEF SonRegistros, Registros
    <3>. SUFFICES ASSUME NEW v \in Registrados(t)
                  PROVE  \E w \in Registrados(t)' : w.key = v.key /\ w.ts >= v.ts
      BY DEF Domina
    <3>2. v \in Registrados(t)' \/ (v.key = s.key /\ v.ts <= s.ts)
      BY <1>3, <2>3, <2>5 DEF Registrados
    <3>. QED
      BY <2>4, <3>1, <3>2 DEF Registrados
  <2>9. \A u \in Tablas \ {t} : Registrados(u)' = Registrados(u)
    BY <1>3, <2>6 DEF Registrados
  <2>10. s \in Registrados(t)' /\ Registrados(t)' \subseteq Registrados(t) \cup {s}
    BY <1>3, <2>3, <2>4 DEF Registrados
  <2>. QED
    BY <1>1, <1>2, <2>3, <2>7, <2>8, <2>9, <2>10, InsertarAlmacen
<1>. QED
  BY <1>5, <1>6
LEMMA DropPedirAlmacen ==
  ASSUME TypeOK, NEW c \in Clientes, NEW t \in Tablas, DropPedir(c, t)
  PROVE  Alm!Next
<1>. DEFINE r == [PedidoNulo EXCEPT !.tabla = t]
<1>0. c \in Hebras /\ Clientes \subseteq Hebras /\ r \in Pedido
  BY PedidoNuloTipo DEF Hebras, Pedido
<1>1. /\ pc[c] = "libre" /\ UNCHANGED <<paginas, externo, vivo>>
      /\ Ir(c, "drop_buscar")
      /\ ped' = [ped EXCEPT ![c] = [r EXCEPT !.cmd = "DROP"]]
  BY DEF DropPedir, Empezar
<1>2. /\ pc'[c] = "drop_buscar" /\ pc[c] \notin Borrando
      /\ \A d \in Clientes \ {c} : pc'[d] = pc[d] /\ ped'[d] = ped[d]
  BY <1>0, <1>1 DEF Ir, TypeOK, Borrando
<1>3. ped'[c].tabla = t
  <2>1. [r EXCEPT !.cmd = "DROP"].tabla = t
    BY <1>0 DEF Pedido, PedidoNulo
  <2>. HIDE DEF r
  <2>. QED
    BY <1>1, <2>1 DEF TypeOK
<1>4. ASSUME NEW u \in Tablas PROVE DeBaja(u)' <=> DeBaja(u) \/ u = t
  <2>1. pc'[c] \in Borrando
    BY <1>2 DEF Borrando
  <2>2. lfsTablas' = lfsTablas
    BY <1>1 DEF externo
  <2>. QED
    BY <1>2, <1>3, <2>1, <2>2 DEF DeBaja
<1>5. {u \in Tablas : DeBaja(u)}' = {u \in Tablas : DeBaja(u)} \cup {t}
  BY <1>4
<1>6. ASSUME NEW u \in Tablas PROVE Registrados(u)' = Registrados(u)
  BY <1>1 DEF Registrados, Guardados, PorGuardar, paginas, externo
<1>7. [u \in Tablas |-> Registrados(u)'] = [u \in Tablas |-> Registrados(u)]
  BY <1>6
<1>8. Alm!DarDeBaja(t)
  BY <1>1, <1>5, <1>7 DEF Alm!DarDeBaja
<1>. QED
  BY <1>8 DEF Alm!Next

LEMMA CaerAlmacen ==
  ASSUME TypeOK', Tiempo', Caer
  PROVE  Alm!Next
<1>1. SonRegistros'
  BY RegistrosDeTodas, PTL
<1>2. [u \in Tablas |-> Registrados(u)'] \in [Tablas -> SUBSET Registros]
  BY <1>1 DEF SonRegistros
<1>3. ASSUME NEW u \in Tablas PROVE Registrados(u)' \subseteq Registrados(u)
  BY DEF Registrados, Guardados, PorGuardar, Caer, externo
<1>4. \A u \in Tablas : [v \in Tablas |-> Registrados(v)'][u]
                           \subseteq [v \in Tablas |-> Registrados(v)][u]
  BY <1>3
<1>5. vivo' = FALSE
  BY DEF Caer
<1>6. Alm!Olvidar
  BY <1>2, <1>4, <1>5 DEF Alm!Olvidar
<1>. QED
  BY <1>6 DEF Alm!Next

LEMMA AlmacenInit == Init => Alm!Init
<1>. SUFFICES ASSUME Init PROVE Alm!Init
  OBVIOUS
<1>1. SonRegistros
  BY TypeOKInit, RegistroInit, RegistrosDeTodas DEF Registro
<1>2. [t \in Tablas |-> Registrados(t)] \in [Tablas -> SUBSET Registros]
  BY <1>1 DEF SonRegistros
<1>3. vivo = TRUE
  BY DEF Init
<1>. QED
  BY <1>2, <1>3 DEF Alm!Init

\* Of a client: a page is written, or nothing new appears.
LEMMA PropioAlmacen ==
  ASSUME ~LfsFalla, Base, TypeOK', Registro, Sabidos, Registro',
         NEW c \in Clientes, PasoPropio(c)
  PROVE  Alm!Next
<1>1. TypeOK /\ Tiempo /\ Tiempo' /\ Sabido(c) /\ ~DropError(c) /\ ped[c].marco \in Marcos
  BY Numeros DEF Base, Registro, Sabidos, DropError
<1>2. CASE \E f \in Marcos : InsertCrear(c, f)
  <2>1. PICK f \in Marcos : InsertCrear(c, f)
    BY <1>2
  <2>2. EscribePagina(c, f) /\ vivo' = vivo
    BY <1>1, <2>1, CrearEscribe DEF InsertCrear
  <2>. QED
    BY <2>2, EscribeAlmacen
<1>3. CASE InsertModificar(c) /\ bloque' # bloque
  <2>1. EscribePagina(c, ped[c].marco) /\ vivo' = vivo
    BY <1>1, <1>3, ModificarEscribe DEF InsertModificar
  <2>. QED
    BY <1>1, <2>1, EscribeAlmacen
<1>4. CASE \/ InsertEsperar(c) \/ InsertTomarRw(c) \/ InsertBuscar(c)
           \/ InsertHayMarco(c) \/ InsertBitmapLleno(c) \/ LruSinCandidato(c)
           \/ InsertRebuscar(c) \/ JournalTomarRw(c) \/ JournalBloquear(c)
           \/ SelectNoEsta(c) \/ SelectEsta(c) \/ SelectSinPagina(c)
           \/ SelectLfs(c) \/ SelectError(c) \/ SelectResponder(c)
           \/ DropSinSegmento(c) \/ DropBuscar(c)
  BY <1>1, <1>4, PropioQuieto, DepuraAlmacen
<1>5. CASE \/ \E f \in Marcos : SelectLeer(c, f)
           \/ \E f \in Marcos : LruReemplazar(c, f)
           \/ DropBorrar(c) \/ DropLfs(c)
           \/ InsertModificar(c) /\ bloque' = bloque
  BY <1>1, <1>5, BorrarDepura, DepuraAlmacen
<1>6. CASE JournalFin(c) \/ JournalFinLru(c)
  <2>1. c \in Hebras
    BY DEF Hebras
  <2>. QED
    BY <1>1, <1>6, <2>1, FinDepura, DepuraAlmacen
<1>. QED
  BY <1>1, <1>2, <1>3, <1>4, <1>5, <1>6, Zenon DEF PasoPropio

LEMMA AlmacenNext ==
  ASSUME ~LfsFalla, Tipos, Exclusion, Consistencia, Registro, Sabidos, [Next]_vars
  PROVE  Alm!Next
<1>1. Base /\ TypeOK /\ TypeOK' /\ Registro' /\ Tiempo /\ Tiempo'
  BY TiposNext, RegistroNext DEF Base, Tipos, Registro
<1>2. CASE UNCHANGED vars \/ Tick
  BY <1>1, <1>2, RelojDepura, DepuraAlmacen
<1>3. CASE Caer
  BY <1>1, <1>3, CaerAlmacen
<1>4. ASSUME NEW c \in Clientes, Pedir(c) PROVE Alm!Next
  <2>1. CASE \E t \in Tablas : DropPedir(c, t)
    BY <1>1, <2>1, DropPedirAlmacen
  <2>2. CASE \A t \in Tablas : ~DropPedir(c, t)
    BY <1>1, <1>4, <2>2, PedirDepura, DepuraAlmacen
  <2>. QED
    BY <2>1, <2>2
<1>5. ASSUME NEW c \in Clientes, PasoPropio(c) PROVE Alm!Next
  BY <1>1, <1>5, PropioAlmacen
<1>6. ASSUME NEW x \in Hebras, PasoJournal(x) PROVE Alm!Next
  <2>1. ASSUME NEW r \in envio, JournalEnviar(x, r) PROVE Alm!Next
    BY <1>1, <2>1, EnviarAlmacen
  <2>2. CASE JournalRecolectar(x)
    BY <1>1, <2>2, RecolectarDepura, DepuraAlmacen
  <2>3. ~JournalSinConexion(x) /\ \A r \in envio : ~JournalCortado(x, r)
    BY DEF JournalSinConexion, JournalCortado
  <2>. QED
    BY <1>6, <2>1, <2>2, <2>3 DEF PasoJournal
<1>7. ASSUME NEW h \in Hilos, PasoTimer(h) PROVE Alm!Next
  <2>1. CASE JournalFinHilo(h)
    <3>1. h \in Hebras
      BY DEF Hebras
    <3>. QED
      BY <1>1, <2>1, <3>1, FinDepura, DepuraAlmacen
  <2>2. CASE ~JournalFinHilo(h)
    BY <1>1, <1>7, <2>2, TimerDepura, DepuraAlmacen
  <2>. QED
    BY <2>1, <2>2
<1>. QED
  BY <1>2, <1>3, <1>4, <1>5, <1>6, <1>7, Pasos

\* While the LFS answers, Memoria implements Almacen, for any tables, keys,
\* frames, clients and journals: whatever LRU replaces, a SELECT fills and a
\* journal sends, an inserted record is forgotten only for a newer one of its
\* key, by a DROP or with the process, and no record appears that nobody
\* inserted.
THEOREM MemoriaImplementaAlmacen ==
  ASSUME ~LfsFalla
  PROVE  Spec => AlmacenSpec
<1>1. Tipos /\ Exclusion /\ Consistencia /\ Registro /\ Sabidos /\ [Next]_vars
      => [Alm!Next]_Alm!vars
  BY AlmacenNext
<1>. QED
  BY <1>1, AlmacenInit, RegistroSiempre, PTL DEF Spec, AlmacenSpec, Alm!Spec
===============================================================================
