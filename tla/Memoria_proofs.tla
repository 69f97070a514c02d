---------------------------- MODULE Memoria_proofs ----------------------------
(***************************************************************************)
(* Theorems of Memoria for any tables, keys, frames, clients and bounds.   *)
(***************************************************************************)
EXTENDS Memoria, FiniteSetTheorems, TLAPS

USE MemoriaAssumption

-----------------------------------------------------------------------------
(* Steps *)

\* PasoCliente without what it shares with PasoHilo.
PasoPropio(c) ==
    \/ InsertEsperar(c)
    \/ InsertTomarRw(c)
    \/ InsertBuscar(c)
    \/ InsertHayMarco(c)
    \/ InsertBitmapLleno(c)
    \/ \E f \in Marcos : LruReemplazar(c, f)
    \/ LruSinCandidato(c)
    \/ InsertRebuscar(c)
    \/ \E f \in Marcos : InsertCrear(c, f)
    \/ InsertModificar(c)
    \/ SelectNoEsta(c)
    \/ SelectEsta(c)
    \/ \E f \in Marcos : SelectLeer(c, f)
    \/ SelectSinPagina(c)
    \/ SelectLfs(c)
    \/ SelectError(c)
    \/ SelectResponder(c)
    \/ DropSinSegmento(c)
    \/ DropBuscar(c)
    \/ DropBorrar(c)
    \/ DropLfs(c)
    \/ DropError(c)
    \/ JournalTomarRw(c)
    \/ JournalBloquear(c)
    \/ JournalFin(c)
    \/ JournalFinLru(c)

PasoTimer(h) ==
    \/ HiloDespertar(h)
    \/ HiloTomarHecho(h)
    \/ HiloTomarBitmap(h)
    \/ HiloTomarRw(h)
    \/ JournalFinHilo(h)
    \/ HiloInformar(h)
    \/ HiloMorir(h)

LEMMA Pasos ==
  ASSUME [Next]_vars
  PROVE  \/ UNCHANGED vars
         \/ Tick
         \/ Caer
         \/ \E c \in Clientes : Pedir(c) \/ PasoPropio(c)
         \/ \E x \in Hebras : PasoJournal(x)
         \/ \E h \in Hilos : PasoTimer(h)
<1>1. ASSUME NEW c \in Clientes, PasoCliente(c)
      PROVE  PasoPropio(c) \/ PasoJournal(c) \/ Caer
  BY <1>1, Zenon DEF PasoCliente, PasoPropio, Falla
<1>2. ASSUME NEW h \in Hilos, PasoHilo(h)
      PROVE  PasoTimer(h) \/ PasoJournal(h)
  BY <1>2, Zenon DEF PasoHilo, PasoTimer
<1>. QED
  BY <1>1, <1>2, Zenon DEF Next, Terminar, Hebras

----------------------------------------------------------------------------
(* Types *)

LEMMA PedidoNuloTipo == PedidoNulo \in Pedido /\ PaginaNula \in Pagina
<1>1. (CHOOSE t \in Tablas : TRUE) \in Tablas
  BY DEF MemoriaAssumption
<1>2. (CHOOSE k \in Claves : TRUE) \in Claves
  BY DEF MemoriaAssumption
<1>3. 0 \in Tiempos /\ 0 \in Marcos
  BY DEF MemoriaAssumption, Tiempos, Marcos
<1>. QED
  BY <1>1, <1>2, <1>3 DEF PedidoNulo, Pedido, PaginaNula, Pagina, Comandos

LEMMA TypeOKInit == Init => TypeOK
<1>. SUFFICES ASSUME Init PROVE TypeOK
  OBVIOUS
<1>1. 0 \in Hilos /\ 2 \in Tiempos /\ 0 \in Tiempos /\ 1 \in Tiempos
      /\ 0 \in -1..CantPaginas
  BY DEF MemoriaAssumption, Hilos, Tiempos
<1>. QED
  BY <1>1, PedidoNuloTipo DEF Init, TypeOK, PCs, Hebras, MemoriaAssumption

LEMMA TypeOKCaer == TypeOK /\ Caer => TypeOK'
<1>. SUFFICES ASSUME TypeOK, Caer PROVE TypeOK'
  OBVIOUS
<1>1. 0 \in Hilos /\ 0 \in -1..CantPaginas
  BY DEF MemoriaAssumption, Hilos
<1>. QED
  BY <1>1, PedidoNuloTipo DEF Caer, TypeOK, PCs, Hebras, externo

\* What a request is after a DROP or a journal freed segments.
LEMMA PedidoTrasLimpiar ==
  ASSUME TypeOK, NEW d \in Clientes, NEW ts
  PROVE  SinSegmento(ped[d], ts) \in Pedido /\ Limpiado(d) \in Pedido
<1>. DEFINE b(r) == r.limpiado \/ (ped[d].cmd = "SELECT" /\ pc[d] \in Insertando)
<1>0. ped[d] \in Pedido
  BY DEF TypeOK
<1>1. ASSUME NEW us PROVE SinSegmento(ped[d], us) \in Pedido
  BY <1>0 DEF SinSegmento, Pedido
<1>2. SinSegmento(ped[d], Tablas) \in Pedido
  BY <1>1
<1>3. ASSUME NEW r \in Pedido
      PROVE  [r EXCEPT !.limpiado = b(r)] \in Pedido
  BY DEF Pedido
<1>4. Limpiado(d) = [SinSegmento(ped[d], Tablas) EXCEPT
                        !.limpiado = b(SinSegmento(ped[d], Tablas))]
  BY DEF Limpiado
<1>. HIDE DEF b
<1>. QED
  BY <1>1, <1>2, <1>3, <1>4

LEMMA TypeOKPedir ==
  ASSUME TypeOK, NEW c \in Clientes, Pedir(c)
  PROVE  TypeOK'
<1>1. ASSUME NEW cmd \in Comandos, NEW p \in PCs, NEW r \in Pedido,
             Empezar(c, cmd, p, r)
      PROVE  TypeOK'
  <2>1. pedidos + 1 \in 0..MaxPedidos
    BY <1>1 DEF Empezar, TypeOK, MemoriaAssumption
  <2>2. [r EXCEPT !.cmd = cmd] \in Pedido
    BY DEF Pedido
  <2>. QED
    BY <1>1, <2>1, <2>2 DEF Empezar, Ir, TypeOK, paginas, cerrojos, journal,
                            externo, Hebras
<1>2. ASSUME NEW t \in Tablas, NEW k \in Claves
      PROVE  [PedidoNulo EXCEPT !.tabla = t, !.key = k] \in Pedido
  BY PedidoNuloTipo DEF Pedido
<1>3. ASSUME NEW t \in Tablas, NEW k \in Claves, NEW m \in Tiempos
      PROVE  [PedidoNulo EXCEPT !.tabla = t, !.key = k, !.piso = m] \in Pedido
  BY PedidoNuloTipo DEF Pedido
<1>4. ASSUME NEW t \in Tablas
      PROVE  [PedidoNulo EXCEPT !.tabla = t] \in Pedido
  BY PedidoNuloTipo DEF Pedido
<1>5. {"INSERT", "SELECT", "DROP", "JOURNAL"} \subseteq Comandos
  BY DEF Comandos
<1>6. {"ins_lru", "sel_rw", "drop_buscar", "jou_rw"} \subseteq PCs
  BY DEF PCs, Insertando, Borrando
<1>7. CASE \E t \in Tablas, k \in Claves : InsertPedir(c, t, k)
  BY <1>1, <1>2, <1>5, <1>6, <1>7 DEF InsertPedir
<1>8. CASE \E t \in Tablas, k \in Claves, m \in Tiempos : SelectPedir(c, t, k, m)
  BY <1>1, <1>3, <1>5, <1>6, <1>8 DEF SelectPedir
<1>9. CASE \E t \in Tablas : DropPedir(c, t)
  BY <1>1, <1>4, <1>5, <1>6, <1>9 DEF DropPedir
<1>10. CASE JournalPedir(c)
  BY <1>1, <1>5, <1>6, <1>10, PedidoNuloTipo DEF JournalPedir
<1>. QED
  BY <1>7, <1>8, <1>9, <1>10 DEF Pedir

LEMMA TiempoDeTipo ==
  ASSUME TypeOK, NEW c \in Clientes
  PROVE  TiempoDe(c) \in Tiempos
  BY DEF TiempoDe, TypeOK, Pedido

LEMMA EscribirTipo ==
  ASSUME TypeOK, NEW c \in Clientes, NEW f \in Marcos, Escribir(c, f)
  PROVE  /\ bloque' \in [Marcos -> Pagina]
         /\ \A g \in Marcos : /\ bloque'[g].key = bloque[g].key
                              /\ bloque'[g].tabla = bloque[g].tabla
<1>. DEFINE tt == TiempoDe(c)
            bb == ped[c].limpiado
<1>1. tt \in Tiempos
  BY TiempoDeTipo
<1>2. bb \in BOOLEAN /\ reloj \in Tiempos /\ bloque \in [Marcos -> Pagina]
  BY DEF TypeOK, Pedido
<1>3. bloque' = [bloque EXCEPT ![f].ts = tt, ![f].estado = TRUE,
                               ![f].acceso = reloj, ![f].rancia = bb]
  BY DEF Escribir
<1>. HIDE DEF tt, bb
<1>4. /\ DOMAIN bloque' = Marcos
      /\ \A g \in Marcos \ {f} : bloque'[g] = bloque[g]
      /\ bloque'[f] = [bloque[f] EXCEPT !.ts = tt, !.estado = TRUE,
                                       !.acceso = reloj, !.rancia = bb]
      /\ bloque' = [g \in Marcos |-> bloque'[g]]
  BY <1>2, <1>3
<1>5. bloque[f] \in Pagina
  BY <1>2
<1>. DEFINE p == bloque[f]
<1>6. p \in Pagina
  BY <1>5
<1>7. bloque'[f] = [p EXCEPT !.ts = tt, !.estado = TRUE, !.acceso = reloj,
                            !.rancia = bb]
  BY <1>4
<1>8. reloj \in Tiempos
  BY <1>2
<1>. HIDE DEF p
<1>9. bloque'[f] = [tabla |-> p.tabla, key |-> p.key, ts |-> tt, estado |-> TRUE,
                   acceso |-> reloj, rancia |-> bb]
  BY <1>6, <1>7 DEF Pagina
<1>10. /\ bloque'[f] \in Pagina
       /\ bloque'[f].key = p.key
       /\ bloque'[f].tabla = p.tabla
  BY <1>1, <1>2, <1>6, <1>8, <1>9 DEF Pagina
<1>. QED
  BY <1>2, <1>4, <1>10 DEF p

\* TypeOK, but for the two counters.
LEMMA TypeOKPropio ==
  ASSUME TypeOK, NEW c \in Clientes, PasoPropio(c), journalHilo' \in Hilos
  PROVE  TypeOK'
<1>. USE DEF TypeOK, paginas, cerrojos, journal, externo
<1>0. /\ ped[c] \in Pedido
      /\ ped[c].tabla \in Tablas
      /\ ped[c].key \in Claves
      /\ c \in Hebras
      /\ PedidoNulo \in Pedido
  BY PedidoNuloTipo DEF Pedido, Hebras
<1>1. ASSUME NEW p \in PCs, Buscar(c, p)
      PROVE  ped' \in [Clientes -> Pedido] /\ pc' \in [Hebras -> PCs]
  <2>1. \A f \in Marcos : [ped[c] EXCEPT !.marco = f] \in Pedido
    BY <1>0 DEF Pedido
  <2>2. PunteroSegmento(ped[c].tabla) \in {"nulo", "segmento"}
    BY DEF PunteroSegmento
  <2>3. [ped[c] EXCEPT !.seg = PunteroSegmento(ped[c].tabla)] \in Pedido
    BY <1>0, <2>2 DEF Pedido
  <2>4. Paginas(ped[c].tabla, ped[c].key) \subseteq Marcos
    BY <1>0 DEF Paginas
  <2>5. "ins_modificar" \in PCs
    BY DEF PCs, Insertando
  <2>6. CASE \E f \in Paginas(ped[c].tabla, ped[c].key) :
                /\ Ir(c, "ins_modificar")
                /\ ped' = [ped EXCEPT ![c].marco = f]
    <3>1. PICK f \in Marcos : /\ Ir(c, "ins_modificar")
                              /\ ped' = [ped EXCEPT ![c].marco = f]
      BY <2>4, <2>6
    <3>2. ped' = [ped EXCEPT ![c] = [ped[c] EXCEPT !.marco = f]]
      BY <3>1
    <3>. QED
      BY <2>1, <2>5, <3>1, <3>2 DEF Ir
  <2>7. CASE /\ Ir(c, p)
             /\ ped' = [ped EXCEPT ![c].seg = PunteroSegmento(ped[c].tabla)]
    <3>1. ped' = [ped EXCEPT ![c] =
                    [ped[c] EXCEPT !.seg = PunteroSegmento(ped[c].tabla)]]
      BY <2>7
    <3>. QED
      BY <2>3, <2>7, <3>1 DEF Ir
  <2>. QED
    BY <1>1, <2>6, <2>7 DEF Buscar
<1>2. {"ins_bitmap", "ins_crear", "libre", "sel_responder"} \subseteq PCs
  BY DEF PCs, Insertando
<1>3. TrasInsertar(c) => ped' \in [Clientes -> Pedido] /\ pc' \in [Hebras -> PCs]
  BY <1>0, <1>2 DEF TrasInsertar, Contestar, Seguir, Ir
<1>4. CASE InsertEsperar(c)
  BY <1>4 DEF InsertEsperar, Seguir, Ir, PCs, Insertando
<1>5. CASE InsertTomarRw(c)
  BY <1>0, <1>5 DEF InsertTomarRw, Seguir, Ir, PCs, Insertando
<1>6. CASE InsertBuscar(c)
  BY <1>1, <1>2, <1>6 DEF InsertBuscar
<1>7. CASE InsertHayMarco(c)
  BY <1>7 DEF InsertHayMarco, Seguir, Ir, PCs, Insertando
<1>8. CASE InsertBitmapLleno(c)
  BY <1>0, <1>8 DEF InsertBitmapLleno, Seguir, Ir, PCs, Insertando
<1>9. ASSUME NEW f \in Marcos, LruReemplazar(c, f) PROVE TypeOK'
  BY <1>9 DEF LruReemplazar, Seguir, Ir, PCs, Insertando
<1>10. CASE LruSinCandidato(c)
  BY <1>0, <1>10 DEF LruSinCandidato, Seguir, Ir, PCs, Journalizando
<1>11. CASE InsertRebuscar(c)
  BY <1>1, <1>2, <1>11 DEF InsertRebuscar
<1>12. ASSUME NEW f \in Marcos, InsertCrear(c, f) PROVE TypeOK'
  <2>1. [tabla |-> ped[c].tabla, key |-> ped[c].key, ts |-> TiempoDe(c),
         estado |-> ped[c].cmd = "INSERT", acceso |-> reloj,
         rancia |-> ped[c].limpiado] \in Pagina
    BY <1>0, TiempoDeTipo DEF Pagina, Pedido
  <2>2. bloque' \in [Marcos -> Pagina]
    BY <1>12, <2>1 DEF InsertCrear
  <2>3. segmentos' \in [Tablas -> SUBSET Marcos]
    BY <1>0, <1>12 DEF InsertCrear
  <2>. QED
    BY <1>3, <1>12, <2>2, <2>3 DEF InsertCrear
<1>13. CASE InsertModificar(c)
  <2>1. ped[c].marco \in Marcos
    BY <1>0 DEF Pedido
  <2>2. bloque' \in [Marcos -> Pagina]
    BY <1>13, <2>1, EscribirTipo DEF InsertModificar
  <2>. QED
    BY <1>3, <1>13, <2>2 DEF InsertModificar
<1>14. CASE SelectNoEsta(c)
  BY <1>14 DEF SelectNoEsta, Seguir, Ir, PCs
<1>15. CASE SelectEsta(c)
  BY <1>15 DEF SelectEsta, Seguir, Ir, PCs
<1>16. ASSUME NEW f \in Marcos, SelectLeer(c, f) PROVE TypeOK'
  <2>1. bloque[f] \in Pagina /\ bloque[f].ts \in Tiempos /\ 0 \in Tiempos
        /\ [bloque[f] EXCEPT !.acceso = reloj] \in Pagina
    BY DEF Pagina, Tiempos, MemoriaAssumption
  <2>2. bloque' \in [Marcos -> Pagina]
    BY <1>16, <2>1 DEF SelectLeer
  <2>3. \A n, m \in Tiempos : [ped[c] EXCEPT !.ts = n, !.piso = m] \in Pedido
    BY <1>0 DEF Pedido
  <2>4. (IF bloque[f].rancia THEN 0 ELSE ped[c].piso) \in Tiempos
    BY <1>0, <2>1 DEF Pedido
  <2>5. ped' \in [Clientes -> Pedido]
    <3>1. ped' = [ped EXCEPT ![c] =
                    [ped[c] EXCEPT !.ts = bloque[f].ts,
                       !.piso = IF bloque[f].rancia THEN 0 ELSE ped[c].piso]]
      BY <1>0, <1>16 DEF SelectLeer, Pedido
    <3>. QED
      BY <2>1, <2>3, <2>4, <3>1
  <2>. QED
    BY <1>2, <1>16, <2>2, <2>5 DEF SelectLeer, Ir
<1>17. CASE SelectSinPagina(c)
  BY <1>0, <1>2, <1>17 DEF SelectSinPagina, Contestar, Ir
<1>18. CASE SelectLfs(c)
  <2>1. lfs[ped[c].tabla][ped[c].key] \in Tiempos
    BY <1>0
  <2>2. [ped[c] EXCEPT !.ts = lfs[ped[c].tabla][ped[c].key]] \in Pedido
    BY <1>0, <2>1 DEF Pedido
  <2>. QED
    BY <1>18, <2>2 DEF SelectLfs, Ir, PCs, Insertando
<1>19. CASE SelectError(c)
  BY <1>0, <1>2, <1>19 DEF SelectError, Contestar, Ir
<1>20. CASE SelectResponder(c)
  BY <1>0, <1>2, <1>20 DEF SelectResponder, Contestar, Ir
<1>21. CASE DropSinSegmento(c)
  BY <1>21 DEF DropSinSegmento, Seguir, Ir, PCs, Borrando
<1>22. CASE DropBuscar(c)
  <2>1. [ped[c] EXCEPT !.seg = "segmento"] \in Pedido
    BY <1>0 DEF Pedido
  <2>. QED
    BY <1>0, <1>22, <2>1 DEF DropBuscar, Ir, PCs, Borrando
<1>23. CASE DropBorrar(c)
  <2>1. ped' \in [Clientes -> Pedido]
    BY <1>23, PedidoTrasLimpiar DEF DropBorrar
  <2>. QED
    BY <1>0, <1>23, <2>1 DEF DropBorrar, Ir, PCs, Borrando
<1>24. CASE DropLfs(c)
  <2>1. [k \in Claves |-> 0] \in [Claves -> Tiempos]
    BY DEF Tiempos, MemoriaAssumption
  <2>. QED
    BY <1>0, <1>2, <1>24, <2>1 DEF DropLfs, Contestar, Ir
<1>25. CASE DropError(c)
  BY <1>0, <1>2, <1>25 DEF DropError, Contestar, Ir
<1>26. CASE JournalTomarRw(c)
  BY <1>0, <1>26 DEF JournalTomarRw, Seguir, Ir, PCs, Journalizando
<1>27. CASE JournalBloquear(c)
  BY <1>0, <1>27 DEF JournalBloquear, Seguir, Ir, PCs, Journalizando
<1>28. CASE JournalFin(c)
  <2>1. ped' \in [Clientes -> Pedido]
    BY <1>0, <1>28, PedidoTrasLimpiar DEF JournalFin
  <2>2. "durmiendo" \in PCs
    BY DEF PCs
  <2>. QED
    BY <1>2, <1>28, <2>1, <2>2 DEF JournalFin, Limpiar
<1>29. CASE JournalFinLru(c)
  <2>1. ped' \in [Clientes -> Pedido]
    BY <1>29, PedidoTrasLimpiar DEF JournalFinLru
  <2>2. {"durmiendo", "ins_rebuscar"} \subseteq PCs
    BY DEF PCs, Insertando
  <2>. QED
    BY <1>29, <2>1, <2>2 DEF JournalFinLru, Limpiar
<1>. QED
  BY <1>4, <1>5, <1>6, <1>7, <1>8, <1>9, <1>10, <1>11, <1>12, <1>13, <1>14,
     <1>15, <1>16, <1>17, <1>18, <1>19, <1>20, <1>21, <1>22, <1>23, <1>24,
     <1>25, <1>26, <1>27, <1>28, <1>29 DEF PasoPropio

LEMMA TypeOKJournal ==
  ASSUME TypeOK, NEW x \in Hebras, PasoJournal(x), pasados' \in -1..CantPaginas
  PROVE  TypeOK'
<1>. USE DEF TypeOK, paginas, cerrojos, journal, externo
<1>1. CASE JournalRecolectar(x)
  <2>1. Modificadas \subseteq [tabla : Tablas, key : Claves, ts : Tiempos]
    BY DEF Modificadas, Pagina
  <2>. QED
    BY <1>1, <2>1 DEF JournalRecolectar, Seguir, Ir, PCs, Journalizando
<1>2. CASE JournalSinConexion(x)
  BY <1>2 DEF JournalSinConexion, Seguir, Ir, PCs, Journalizando
<1>3. ASSUME NEW r \in envio,
             \/ lfs' = [lfs EXCEPT ![r.tabla][r.key] = Mayor(@, r.ts)]
             \/ lfs' = lfs
      PROVE  lfs' \in [Tablas -> [Claves -> Tiempos]]
  <2>1. r.tabla \in Tablas /\ r.key \in Claves /\ r.ts \in Tiempos
    OBVIOUS
  <2>2. \A m, n \in Tiempos : Mayor(m, n) \in Tiempos
    BY DEF Mayor
  <2>. DEFINE t == r.tabla
              k == r.key
              n == Mayor(lfs[t][k], r.ts)
  <2>3. t \in Tablas /\ k \in Claves /\ n \in Tiempos
    BY <2>1, <2>2
  <2>4. lfs' = lfs \/ lfs' = [lfs EXCEPT ![t] = [lfs[t] EXCEPT ![k] = n]]
    BY <1>3
  <2>5. lfs \in [Tablas -> [Claves -> Tiempos]]
    OBVIOUS
  <2>. HIDE DEF t, k, n, TypeOK
  <2>6. [lfs[t] EXCEPT ![k] = n] \in [Claves -> Tiempos]
    BY <2>3, <2>5
  <2>. QED
    BY <2>3, <2>4, <2>5, <2>6
<1>4. ASSUME NEW r \in envio, JournalEnviar(x, r) PROVE TypeOK'
  BY <1>3, <1>4 DEF JournalEnviar
<1>5. ASSUME NEW r \in envio, JournalCortado(x, r) PROVE TypeOK'
  BY <1>3, <1>5 DEF JournalCortado
<1>. QED
  BY <1>1, <1>2, <1>4, <1>5 DEF PasoJournal

LEMMA TypeOKTimer ==
  ASSUME TypeOK, NEW h \in Hilos, PasoTimer(h)
  PROVE  TypeOK'
<1>. USE DEF TypeOK, paginas, cerrojos, journal, externo, Hebras, Seguir, Ir, PCs,
             Journalizando
<1>1. CASE HiloDespertar(h)
  BY <1>1 DEF HiloDespertar
<1>2. CASE HiloTomarHecho(h)
  BY <1>2 DEF HiloTomarHecho
<1>3. CASE HiloTomarBitmap(h)
  BY <1>3 DEF HiloTomarBitmap
<1>4. CASE HiloTomarRw(h)
  BY <1>4 DEF HiloTomarRw
<1>5. CASE JournalFinHilo(h)
  <2>1. ped' \in [Clientes -> Pedido]
    BY <1>5, PedidoTrasLimpiar DEF JournalFinHilo
  <2>. QED
    BY <1>5, <2>1 DEF JournalFinHilo, Limpiar
<1>6. CASE HiloInformar(h)
  BY <1>6 DEF HiloInformar
<1>7. CASE HiloMorir(h)
  BY <1>7 DEF HiloMorir
<1>. QED
  BY <1>1, <1>2, <1>3, <1>4, <1>5, <1>6, <1>7 DEF PasoTimer

----------------------------------------------------------------------------
(* The two counters *)

\* Where a request that may still make a journal is.
Previos == {"ins_lru", "ins_rw", "ins_jh", "ins_bitmap", "ins_accion", "jou_rw",
            "jou_hecho", "jou_recolectar", "jou_enviar", "sel_rw", "sel_lfs"}
PorJournal == {c \in Clientes : pc[c] \in Previos}

\* A request makes at most one journal, and each makes one thread.
Journals == journalHilo + Cardinality(PorJournal) <= pedidos

\* A journal sends at most a record of each frame.
Envios ==
    /\ IsFiniteSet(envio)
    /\ pasados = -1 => envio = {}
    /\ pasados + Cardinality(envio) <= CantPaginas

Tipos == TypeOK /\ Journals /\ Envios

LEMMA PorJournalFinito ==
  /\ IsFiniteSet(PorJournal)
  /\ Cardinality(PorJournal) \in Nat
  BY FS_Subset, FS_CardinalityType DEF PorJournal, MemoriaAssumption

LEMMA PorJournalFinitoDespues ==
  /\ IsFiniteSet(PorJournal')
  /\ Cardinality(PorJournal') \in Nat
  BY FS_Subset, FS_CardinalityType DEF PorJournal, MemoriaAssumption

LEMMA JournalsMenos ==
  ASSUME TypeOK, Journals, PorJournal' \subseteq PorJournal,
         journalHilo' = journalHilo, pedidos' = pedidos
  PROVE  Journals'
<1>1. Cardinality(PorJournal') <= Cardinality(PorJournal)
  BY PorJournalFinito, FS_Subset
<1>2. journalHilo \in Nat /\ pedidos \in Nat
  BY DEF TypeOK, Hilos, MemoriaAssumption
<1>. QED
  BY <1>1, <1>2, PorJournalFinito, PorJournalFinitoDespues DEF Journals

LEMMA JournalsUno ==
  ASSUME TypeOK, Journals, NEW c \in PorJournal,
         PorJournal' \subseteq PorJournal \ {c},
         journalHilo' = journalHilo + 1, pedidos' = pedidos
  PROVE  Journals'
<1>1. /\ IsFiniteSet(PorJournal \ {c})
      /\ Cardinality(PorJournal \ {c}) = Cardinality(PorJournal) - 1
  BY PorJournalFinito, FS_RemoveElement
<1>2. Cardinality(PorJournal') <= Cardinality(PorJournal \ {c})
  BY <1>1, FS_Subset
<1>3. journalHilo \in Nat /\ pedidos \in Nat
  BY DEF TypeOK, Hilos, MemoriaAssumption
<1>. QED
  BY <1>1, <1>2, <1>3, PorJournalFinito, PorJournalFinitoDespues DEF Journals

LEMMA JournalsPedir ==
  ASSUME TypeOK, Journals, NEW c \in Clientes, Pedir(c)
  PROVE  Journals'
<1>1. PICK p : /\ pc' = [pc EXCEPT ![c] = p]
               /\ pedidos' = pedidos + 1
               /\ journalHilo' = journalHilo
  BY DEF Pedir, InsertPedir, SelectPedir, DropPedir, JournalPedir, Empezar, Ir,
         journal
<1>2. PorJournal' \subseteq PorJournal \cup {c}
  BY <1>1 DEF PorJournal, TypeOK, Hebras
<1>3. /\ IsFiniteSet(PorJournal \cup {c})
      /\ Cardinality(PorJournal \cup {c}) <= Cardinality(PorJournal) + 1
  <2>1. /\ IsFiniteSet(PorJournal \cup {c})
        /\ Cardinality(PorJournal \cup {c}) =
             IF c \in PorJournal THEN Cardinality(PorJournal)
             ELSE Cardinality(PorJournal) + 1
    BY PorJournalFinito, FS_AddElement, Zenon
  <2>. DEFINE n == Cardinality(PorJournal)
  <2>2. n \in Nat
    BY PorJournalFinito
  <2>. HIDE DEF n
  <2>3. n <= n + 1
    BY <2>2
  <2>. QED
    BY <2>1, <2>2, <2>3 DEF n
<1>4. Cardinality(PorJournal') <= Cardinality(PorJournal \cup {c})
  BY <1>2, <1>3, FS_Subset
<1>5. Cardinality(PorJournal \cup {c}) \in Nat
  BY <1>3, FS_CardinalityType
<1>6. journalHilo \in Nat /\ pedidos \in Nat
  BY DEF TypeOK, Hilos, MemoriaAssumption
<1>. QED
  BY <1>1, <1>3, <1>4, <1>5, <1>6, PorJournalFinito, PorJournalFinitoDespues
     DEF Journals

LEMMA JournalsPropio ==
  ASSUME TypeOK, Journals, NEW c \in Clientes, PasoPropio(c)
  PROVE  Journals'
<1>. USE DEF journal
<1>1. ASSUME NEW p, Ir(c, p), pc[c] \in Previos \/ p \notin Previos
      PROVE  PorJournal' \subseteq PorJournal
  BY <1>1 DEF Ir, PorJournal, TypeOK, Hebras
<1>2. ASSUME pc[c] \in Previos, Buscar(c, "ins_bitmap") PROVE PorJournal' \subseteq PorJournal
  BY <1>1, <1>2 DEF Buscar, Previos
<1>3. ASSUME Buscar(c, "ins_crear") PROVE PorJournal' \subseteq PorJournal
  BY <1>1, <1>3 DEF Buscar, Previos
<1>4. ASSUME TrasInsertar(c) PROVE PorJournal' \subseteq PorJournal
  BY <1>1, <1>4 DEF TrasInsertar, Contestar, Seguir, Previos
<1>5. ASSUME \/ InsertEsperar(c) \/ InsertTomarRw(c) \/ InsertHayMarco(c)
             \/ InsertBitmapLleno(c) \/ LruSinCandidato(c)
             \/ \E f \in Marcos : LruReemplazar(c, f)
      PROVE  Journals'
  BY <1>1, <1>5, JournalsMenos
     DEF InsertEsperar, InsertTomarRw, InsertHayMarco, InsertBitmapLleno,
         LruSinCandidato, LruReemplazar, Seguir, Previos
<1>6. ASSUME \/ InsertBuscar(c) \/ InsertRebuscar(c) \/ InsertModificar(c)
             \/ \E f \in Marcos : InsertCrear(c, f)
      PROVE  Journals'
  BY <1>2, <1>3, <1>4, <1>6, JournalsMenos
     DEF InsertBuscar, InsertRebuscar, InsertModificar, InsertCrear, Previos
<1>7. ASSUME \/ SelectNoEsta(c) \/ SelectEsta(c) \/ SelectSinPagina(c)
             \/ SelectLfs(c) \/ SelectError(c) \/ SelectResponder(c)
             \/ \E f \in Marcos : SelectLeer(c, f)
      PROVE  Journals'
  BY <1>1, <1>7, JournalsMenos
     DEF SelectNoEsta, SelectEsta, SelectSinPagina, SelectLfs, SelectError,
         SelectResponder, SelectLeer, Seguir, Contestar, Previos
<1>8. ASSUME \/ DropSinSegmento(c) \/ DropBuscar(c) \/ DropBorrar(c)
             \/ DropLfs(c) \/ DropError(c)
      PROVE  Journals'
  BY <1>1, <1>8, JournalsMenos
     DEF DropSinSegmento, DropBuscar, DropBorrar, DropLfs, DropError, Seguir,
         Contestar, Previos
<1>9. ASSUME JournalTomarRw(c) \/ JournalBloquear(c) PROVE Journals'
  BY <1>1, <1>9, JournalsMenos
     DEF JournalTomarRw, JournalBloquear, Seguir, Previos
<1>10. ASSUME JournalFin(c) \/ JournalFinLru(c) PROVE Journals'
  <2>1. c \in PorJournal
    BY <1>10 DEF JournalFin, JournalFinLru, PorJournal, Previos
  <2>2. PorJournal' \subseteq PorJournal \ {c}
    BY <1>10 DEF JournalFin, JournalFinLru, PorJournal, Previos, TypeOK, Hebras,
                 Hilos, MemoriaAssumption
  <2>. QED
    BY <1>10, <2>1, <2>2, JournalsUno DEF JournalFin, JournalFinLru
<1>. QED
  BY <1>5, <1>6, <1>7, <1>8, <1>9, <1>10 DEF PasoPropio

\* A journal gathers no more records than there are frames.
LEMMA ModificadasCaben ==
  ASSUME TypeOK
  PROVE  IsFiniteSet(Modificadas) /\ Cardinality(Modificadas) <= CantPaginas
<1>. DEFINE S == {g \in bitmap : bloque[g].estado}
            Reg(f) == [tabla |-> bloque[f].tabla, key |-> bloque[f].key,
                       ts |-> bloque[f].ts]
            F == [f \in S |-> Reg(f)]
<1>1. IsFiniteSet(Marcos) /\ Cardinality(Marcos) = CantPaginas
  <2>1. CantPaginas - 1 \in Int /\ ~(0 > CantPaginas - 1) /\ CantPaginas \in Nat
    BY DEF MemoriaAssumption
  <2>. QED
    BY <2>1, FS_Interval DEF Marcos
<1>2. S \subseteq Marcos
  BY DEF TypeOK
<1>3. IsFiniteSet(S) /\ Cardinality(S) <= CantPaginas
  BY <1>1, <1>2, FS_Subset
<1>4. F \in Surjection(S, Modificadas)
  BY DEF Surjection, Modificadas
<1>5. IsFiniteSet(Modificadas) /\ Cardinality(Modificadas) <= Cardinality(S)
  BY <1>3, <1>4, FS_Surjection DEF ExistsSurjection
<1>6. Cardinality(S) \in Nat /\ Cardinality(Modificadas) \in Nat
  BY <1>3, <1>5, FS_CardinalityType
<1>. QED
  BY <1>3, <1>5, <1>6 DEF MemoriaAssumption

LEMMA EnviosJournal ==
  ASSUME TypeOK, Envios, NEW x \in Hebras, PasoJournal(x)
  PROVE  Envios' /\ pasados' \in -1..CantPaginas
<1>0. Cardinality(envio) \in Nat /\ CantPaginas \in Nat
      /\ pasados \in -1..CantPaginas /\ IsFiniteSet({}) /\ Cardinality({}) = 0
  BY FS_CardinalityType, FS_EmptySet DEF Envios, TypeOK, MemoriaAssumption
<1>1. CASE JournalRecolectar(x)
  BY <1>0, <1>1, ModificadasCaben, FS_CardinalityType
     DEF JournalRecolectar, Envios
<1>2. CASE JournalSinConexion(x)
  BY <1>0, <1>2 DEF JournalSinConexion, Envios
<1>3. ASSUME NEW r \in envio, JournalEnviar(x, r)
      PROVE  Envios' /\ pasados' \in -1..CantPaginas
  <2>1. /\ IsFiniteSet(envio \ {r})
        /\ Cardinality(envio \ {r}) = Cardinality(envio) - 1
    BY FS_RemoveElement DEF Envios
  <2>2. Cardinality(envio \ {r}) \in Nat
    BY <2>1, FS_CardinalityType
  <2>3. pasados # -1
    BY DEF Envios
  <2>4. envio' = envio \ {r} /\ (pasados' = pasados + 1 \/ pasados' = pasados)
    BY <1>3 DEF JournalEnviar
  <2>. QED
    BY <1>0, <2>1, <2>2, <2>3, <2>4 DEF Envios
<1>4. ASSUME NEW r \in envio, JournalCortado(x, r)
      PROVE  Envios' /\ pasados' \in -1..CantPaginas
  BY <1>0, <1>4 DEF JournalCortado, Envios
<1>. QED
  BY <1>1, <1>2, <1>3, <1>4 DEF PasoJournal

LEMMA TiposInit == Init => Tipos
<1>. SUFFICES ASSUME Init PROVE Tipos
  OBVIOUS
<1>1. PorJournal = {}
  BY DEF Init, PorJournal, Previos, Hebras
<1>2. IsFiniteSet({}) /\ Cardinality({}) = 0
  BY FS_EmptySet
<1>. QED
  BY <1>1, <1>2, TypeOKInit DEF Init, Tipos, Journals, Envios, MemoriaAssumption

LEMMA TiposNext == Tipos /\ [Next]_vars => Tipos'
<1>. SUFFICES ASSUME Tipos, [Next]_vars PROVE Tipos'
  OBVIOUS
<1>0. TypeOK /\ Journals /\ Envios
  BY DEF Tipos
<1>1. ASSUME NEW J \in Nat, NEW n \in Nat, NEW m \in Nat,
             m + J <= n, n <= MaxPedidos
      PROVE  m \in Hilos
  <2>1. MaxPedidos \in Nat
    BY DEF MemoriaAssumption
  <2>. QED
    BY <1>1, <2>1 DEF Hilos
<1>2. CASE UNCHANGED vars
  BY <1>0, <1>2
     DEF vars, paginas, cerrojos, journal, externo, Tipos, TypeOK, Journals,
         PorJournal, Envios
<1>3. CASE Tick
  <2>1. TypeOK'
    <3>1. reloj' \in Tiempos
      BY <1>0, <1>3 DEF Tick, TypeOK, Tiempos, MemoriaAssumption
    <3>. QED
      BY <1>0, <1>3, <3>1 DEF Tick, TypeOK, paginas, cerrojos, journal, externo
  <2>. QED
    BY <1>0, <1>3, <2>1
       DEF Tick, paginas, cerrojos, journal, externo, Tipos, Journals,
           PorJournal, Envios
<1>4. CASE Caer
  <2>1. PorJournal' = {} /\ journalHilo' = 0 /\ envio' = {} /\ pasados' = 0
        /\ pedidos' = pedidos
    BY <1>4 DEF Caer, PorJournal, Previos, Hebras
  <2>2. IsFiniteSet({}) /\ Cardinality({}) = 0
    BY FS_EmptySet
  <2>3. pedidos \in Nat
    BY <1>0 DEF TypeOK, MemoriaAssumption
  <2>. QED
    BY <1>0, <1>4, <2>1, <2>2, <2>3, TypeOKCaer
       DEF Tipos, Journals, Envios, MemoriaAssumption
<1>5. ASSUME NEW c \in Clientes, Pedir(c) PROVE Tipos'
  <2>1. envio' = envio /\ pasados' = pasados
    BY <1>5 DEF Pedir, InsertPedir, SelectPedir, DropPedir, JournalPedir,
                Empezar, journal
  <2>. QED
    BY <1>0, <1>5, <2>1, TypeOKPedir, JournalsPedir DEF Tipos, Envios
<1>6. ASSUME NEW c \in Clientes, PasoPropio(c) PROVE Tipos'
  <2>1. envio' = envio /\ pasados' = pasados /\ pedidos' = pedidos
    BY <1>6
       DEF PasoPropio, InsertEsperar, InsertTomarRw, InsertBuscar, InsertHayMarco,
           InsertBitmapLleno, LruReemplazar, LruSinCandidato, InsertRebuscar,
           InsertCrear, InsertModificar, SelectNoEsta, SelectEsta, SelectLeer,
           SelectSinPagina, SelectLfs, SelectError, SelectResponder,
           DropSinSegmento, DropBuscar, DropBorrar, DropLfs, DropError,
           JournalTomarRw, JournalBloquear, JournalFin, JournalFinLru, journal
  <2>2. journalHilo' = journalHilo \/ journalHilo' = journalHilo + 1
    BY <1>6
       DEF PasoPropio, InsertEsperar, InsertTomarRw, InsertBuscar, InsertHayMarco,
           InsertBitmapLleno, LruReemplazar, LruSinCandidato, InsertRebuscar,
           InsertCrear, InsertModificar, SelectNoEsta, SelectEsta, SelectLeer,
           SelectSinPagina, SelectLfs, SelectError, SelectResponder,
           DropSinSegmento, DropBuscar, DropBorrar, DropLfs, DropError,
           JournalTomarRw, JournalBloquear, JournalFin, JournalFinLru, journal
  <2>3. Journals'
    BY <1>0, <1>6, JournalsPropio
  <2>4. journalHilo \in Nat /\ pedidos \in Nat /\ pedidos <= MaxPedidos
    BY <1>0 DEF TypeOK, Hilos, MemoriaAssumption
  <2>5. journalHilo' \in Hilos
    <3>1. journalHilo' \in Nat
      BY <2>2, <2>4
    <3>2. journalHilo' + Cardinality(PorJournal') <= pedidos
      BY <2>1, <2>3 DEF Journals
    <3>. QED
      BY <1>1, <2>4, <3>1, <3>2, PorJournalFinitoDespues
  <2>. QED
    BY <1>0, <1>6, <2>1, <2>3, <2>5, TypeOKPropio DEF Tipos, Envios
<1>7. ASSUME NEW x \in Hebras, PasoJournal(x) PROVE Tipos'
  <2>1. journalHilo' = journalHilo /\ pedidos' = pedidos
    BY <1>7 DEF PasoJournal, JournalRecolectar, JournalSinConexion,
                JournalEnviar, JournalCortado
  <2>2. pc' = pc \/ (pc[x] = "jou_recolectar" /\ Ir(x, "jou_enviar"))
    BY <1>7 DEF PasoJournal, JournalRecolectar, JournalSinConexion,
                JournalEnviar, JournalCortado, Seguir
  <2>3. PorJournal' \subseteq PorJournal
    BY <1>0, <2>2 DEF Ir, PorJournal, Previos, TypeOK, Hebras
  <2>. QED
    BY <1>0, <1>7, <2>1, <2>3, EnviosJournal, TypeOKJournal, JournalsMenos DEF Tipos
<1>8. ASSUME NEW h \in Hilos, PasoTimer(h) PROVE Tipos'
  <2>1. h \notin Clientes
    BY DEF MemoriaAssumption
  <2>2. \A c \in Clientes : pc'[c] = pc[c]
    BY <1>0, <1>8, <2>1
       DEF PasoTimer, HiloDespertar, HiloTomarHecho, HiloTomarBitmap,
           HiloTomarRw, JournalFinHilo, HiloInformar, HiloMorir, Seguir, Ir,
           TypeOK, Hebras
  <2>3. UNCHANGED <<journalHilo, pedidos, envio, pasados>>
    BY <1>8
       DEF PasoTimer, HiloDespertar, HiloTomarHecho, HiloTomarBitmap,
           HiloTomarRw, JournalFinHilo, HiloInformar, HiloMorir, journal
  <2>4. PorJournal' \subseteq PorJournal
    BY <2>2 DEF PorJournal
  <2>. QED
    BY <1>0, <1>8, <2>3, <2>4, TypeOKTimer, JournalsMenos DEF Tipos, Envios
<1>. QED
  BY <1>2, <1>3, <1>4, <1>5, <1>6, <1>7, <1>8, Pasos

\* Every variable keeps its type. In particular a journal is never told of more
\* records than there are frames, and the process makes at most one thread per
\* request beyond the first.
THEOREM TipoCorrecto == Spec => []TypeOK
<1>1. Tipos => TypeOK
  BY DEF Tipos
<1>. QED
  BY <1>1, TiposInit, TiposNext, PTL DEF Spec

-----------------------------------------------------------------------------
(* Who has which lock.                                                     *)

\* Where thread x has sem_insert_select for writing.
ConEscritura(x) ==
    IF x \in Clientes
    THEN {"ins_jh", "ins_bitmap", "ins_accion", "ins_rebuscar", "ins_crear",
          "ins_modificar", "jou_hecho", "jou_recolectar", "jou_enviar"}
    ELSE {"jou_recolectar", "jou_enviar"}

EscritorUnico == \A x \in Hebras : pc[x] \in ConEscritura(x) => escritor = x

\* Where thread x has JOURNALHecho.
ConHecho(x) ==
    IF x \in Clientes THEN {"jou_recolectar", "jou_enviar"}
    ELSE {"tim_bitmap", "tim_rw", "jou_recolectar", "jou_enviar"}

HechoUnico == \A x \in Hebras : pc[x] \in ConHecho(x) => journalHecho = x

Exclusion == EscritorUnico /\ HechoUnico

----------------------------------------------------------------------------
(* The locks *)

\* What a step of x does to pc and to a lock, for a lock l before and m after
\* it, and the points S(x) where it is held: it keeps the lock as it is, takes
\* it when it is free, or gives it back.
LEMMA CerrojoSeSostiene ==
  ASSUME NEW S, NEW a, NEW d, NEW l, NEW m, NEW x \in Hebras,
         \A y \in Hebras : a[y] \in S[y] => l = y,
         \A y \in Hebras \ {x} : d[y] \in S[y] => d[y] = a[y],
         \/ m = l /\ (d[x] \in S[x] => a[x] \in S[x])
         \/ l = Nadie /\ m = x
         \/ a[x] \in S[x] /\ d[x] \notin S[x]
  PROVE  \A y \in Hebras : d[y] \in S[y] => m = y
<1>. SUFFICES ASSUME NEW y \in Hebras, d[y] \in S[y] PROVE m = y
  OBVIOUS
<1>1. CASE y = x
  BY <1>1
<1>2. CASE y # x
  <2>1. l = y /\ y # Nadie
    BY <1>2 DEF MemoriaAssumption
  <2>. QED
    BY <1>2, <2>1
<1>. QED
  BY <1>1, <1>2

\* Only x moves, and perhaps a new thread of the automatic journal, which sleeps.
Mueve(x) == \A y \in Hebras \ {x} : pc'[y] = pc[y] \/ pc'[y] = "durmiendo"

UsaEscritor(x) ==
    \/ escritor' = escritor /\ (pc'[x] \in ConEscritura(x) => pc[x] \in ConEscritura(x))
    \/ escritor = Nadie /\ escritor' = x
    \/ pc[x] \in ConEscritura(x) /\ pc'[x] \notin ConEscritura(x)

UsaHecho(x) ==
    \/ journalHecho' = journalHecho /\ (pc'[x] \in ConHecho(x) => pc[x] \in ConHecho(x))
    \/ journalHecho = Nadie /\ journalHecho' = x
    \/ pc[x] \in ConHecho(x) /\ pc'[x] \notin ConHecho(x)

LEMMA ExclusionSigue ==
  ASSUME Exclusion, NEW x \in Hebras, Mueve(x), UsaEscritor(x), UsaHecho(x)
  PROVE  Exclusion'
<1>. DEFINE E == [y \in Hebras |-> ConEscritura(y)]
            H == [y \in Hebras |-> ConHecho(y)]
<1>1. \A y \in Hebras \ {x} : /\ pc'[y] \in ConEscritura(y) => pc'[y] = pc[y]
                              /\ pc'[y] \in ConHecho(y) => pc'[y] = pc[y]
  BY DEF Mueve, ConEscritura, ConHecho
<1>2. \A y \in Hebras : E[y] = ConEscritura(y) /\ H[y] = ConHecho(y)
  OBVIOUS
<1>. HIDE DEF E, H
<1>3. \A y \in Hebras : pc'[y] \in E[y] => escritor' = y
  <2>1. \A y \in Hebras : pc[y] \in E[y] => escritor = y
    BY <1>2 DEF Exclusion, EscritorUnico
  <2>2. \A y \in Hebras \ {x} : pc'[y] \in E[y] => pc'[y] = pc[y]
    BY <1>1, <1>2
  <2>3. \/ escritor' = escritor /\ (pc'[x] \in E[x] => pc[x] \in E[x])
        \/ escritor = Nadie /\ escritor' = x
        \/ pc[x] \in E[x] /\ pc'[x] \notin E[x]
    BY <1>2 DEF UsaEscritor
  <2>. QED
    BY <2>1, <2>2, <2>3, CerrojoSeSostiene
<1>4. \A y \in Hebras : pc'[y] \in H[y] => journalHecho' = y
  <2>1. \A y \in Hebras : pc[y] \in H[y] => journalHecho = y
    BY <1>2 DEF Exclusion, HechoUnico
  <2>2. \A y \in Hebras \ {x} : pc'[y] \in H[y] => pc'[y] = pc[y]
    BY <1>1, <1>2
  <2>3. \/ journalHecho' = journalHecho /\ (pc'[x] \in H[x] => pc[x] \in H[x])
        \/ journalHecho = Nadie /\ journalHecho' = x
        \/ pc[x] \in H[x] /\ pc'[x] \notin H[x]
    BY <1>2 DEF UsaHecho
  <2>. QED
    BY <2>1, <2>2, <2>3, CerrojoSeSostiene
<1>. QED
  BY <1>2, <1>3, <1>4 DEF Exclusion, EscritorUnico, HechoUnico, ConEscritura, ConHecho

LEMMA ExclusionPropio ==
  ASSUME TypeOK, Exclusion, NEW c \in Clientes, PasoPropio(c), journalHilo' \in Hilos
  PROVE  Exclusion'
<1>. USE DEF UsaEscritor, UsaHecho, ConEscritura, ConHecho
<1>1. c \in Hebras /\ DOMAIN pc = Hebras /\ pc = [x \in Hebras |-> pc[x]]
  BY DEF Hebras, TypeOK
<1>2. ASSUME NEW p, Ir(c, p) PROVE Mueve(c) /\ pc'[c] = p
  BY <1>1, <1>2 DEF Mueve, Ir
<1>3. ASSUME TrasInsertar(c)
      PROVE  Mueve(c) /\ pc'[c] \in {"libre", "sel_responder"}
  BY <1>2, <1>3 DEF TrasInsertar, Contestar, Seguir
<1>4. ASSUME NEW p, Buscar(c, p)
      PROVE  Mueve(c) /\ pc'[c] \in {"ins_modificar", p}
  BY <1>2, <1>4 DEF Buscar
<1>5. ASSUME \/ InsertEsperar(c) \/ InsertTomarRw(c) \/ InsertHayMarco(c)
             \/ InsertBitmapLleno(c) \/ LruSinCandidato(c)
             \/ \E f \in Marcos : LruReemplazar(c, f)
      PROVE  Mueve(c) /\ UsaEscritor(c) /\ UsaHecho(c)
  BY <1>2, <1>5
     DEF InsertEsperar, InsertTomarRw, InsertHayMarco, InsertBitmapLleno,
         LruSinCandidato, LruReemplazar, Seguir, RwLibre, cerrojos
<1>6. ASSUME \/ InsertBuscar(c) \/ InsertRebuscar(c) \/ InsertModificar(c)
             \/ \E f \in Marcos : InsertCrear(c, f)
      PROVE  Mueve(c) /\ UsaEscritor(c) /\ UsaHecho(c)
  BY <1>3, <1>4, <1>6
     DEF InsertBuscar, InsertRebuscar, InsertModificar, InsertCrear, cerrojos
<1>7. ASSUME \/ SelectNoEsta(c) \/ SelectEsta(c) \/ SelectSinPagina(c)
             \/ SelectLfs(c) \/ SelectError(c) \/ SelectResponder(c)
             \/ \E f \in Marcos : SelectLeer(c, f)
      PROVE  Mueve(c) /\ UsaEscritor(c) /\ UsaHecho(c)
  <2>1. /\ UNCHANGED <<escritor, journalHecho>>
        /\ \E p \in {"sel_lfs", "sel_leer", "libre", "ins_lru", "sel_responder"} :
              Ir(c, p)
    BY <1>7
       DEF SelectNoEsta, SelectEsta, SelectSinPagina, SelectLfs, SelectError,
           SelectResponder, SelectLeer, Seguir, Contestar, cerrojos
  <2>. QED
    BY <1>2, <2>1
<1>8. ASSUME \/ DropSinSegmento(c) \/ DropBuscar(c) \/ DropBorrar(c)
             \/ DropLfs(c) \/ DropError(c)
      PROVE  Mueve(c) /\ UsaEscritor(c) /\ UsaHecho(c)
  BY <1>2, <1>8
     DEF DropSinSegmento, DropBuscar, DropBorrar, DropLfs, DropError, Seguir,
         Contestar, cerrojos
<1>9. ASSUME JournalTomarRw(c) \/ JournalBloquear(c)
      PROVE  Mueve(c) /\ UsaEscritor(c) /\ UsaHecho(c)
  BY <1>2, <1>9 DEF JournalTomarRw, JournalBloquear, Seguir, RwLibre
<1>10. ASSUME JournalFin(c) \/ JournalFinLru(c)
       PROVE  Mueve(c) /\ UsaEscritor(c) /\ UsaHecho(c)
  <2>1. journalHilo + 1 \in Hilos
    BY <1>10 DEF JournalFin, JournalFinLru
  <2>2. journalHilo + 1 # c
    BY <2>1 DEF MemoriaAssumption
  <2>. QED
    BY <1>1, <1>10, <2>2 DEF JournalFin, JournalFinLru, Mueve
<1>. QED
  BY <1>1, <1>5, <1>6, <1>7, <1>8, <1>9, <1>10, ExclusionSigue DEF PasoPropio

LEMMA ExclusionNext ==
  ASSUME Tipos, Exclusion, [Next]_vars
  PROVE  Exclusion'
<1>0. TypeOK /\ TypeOK'
  BY TiposNext DEF Tipos
<1>1. CASE UNCHANGED vars \/ Tick
  BY <1>1 DEF vars, Tick, cerrojos, Exclusion, EscritorUnico, HechoUnico,
              ConEscritura, ConHecho
<1>2. CASE Caer
  BY <1>2 DEF Caer, Exclusion, EscritorUnico, HechoUnico, ConEscritura, ConHecho,
              Hebras
<1>3. ASSUME NEW c \in Clientes, Pedir(c) PROVE Exclusion'
  <2>1. PICK p \in {"ins_lru", "sel_rw", "drop_buscar", "jou_rw"} :
             pc' = [pc EXCEPT ![c] = p]
    BY <1>3 DEF Pedir, InsertPedir, SelectPedir, DropPedir, JournalPedir, Empezar, Ir
  <2>2. UNCHANGED cerrojos
    BY <1>3 DEF Pedir, InsertPedir, SelectPedir, DropPedir, JournalPedir, Empezar
  <2>. QED
    BY <1>0, <2>1, <2>2, ExclusionSigue
       DEF Mueve, UsaEscritor, UsaHecho, ConEscritura, ConHecho, cerrojos, TypeOK,
           Hebras
<1>4. ASSUME NEW c \in Clientes, PasoPropio(c) PROVE Exclusion'
  <2>1. journalHilo' \in Hilos
    BY <1>0 DEF TypeOK
  <2>. QED
    BY <1>0, <1>4, <2>1, ExclusionPropio
<1>5. ASSUME NEW x \in Hebras, PasoJournal(x) PROVE Exclusion'
  <2>1. pc' = pc \/ (pc[x] = "jou_recolectar" /\ Ir(x, "jou_enviar"))
    BY <1>5 DEF PasoJournal, JournalRecolectar, JournalSinConexion,
                JournalEnviar, JournalCortado, Seguir
  <2>2. UNCHANGED cerrojos
    BY <1>5 DEF PasoJournal, JournalRecolectar, JournalSinConexion,
                JournalEnviar, JournalCortado
  <2>. QED
    BY <1>0, <2>1, <2>2, ExclusionSigue
       DEF Ir, Mueve, UsaEscritor, UsaHecho, ConEscritura, ConHecho, cerrojos, TypeOK
<1>6. ASSUME NEW h \in Hilos, PasoTimer(h) PROVE Exclusion'
  <2>1. h \in Hebras /\ h \notin Clientes /\ DOMAIN pc = Hebras
    BY <1>0 DEF Hebras, TypeOK, MemoriaAssumption
  <2>2. Mueve(h) /\ UsaEscritor(h) /\ UsaHecho(h)
    BY <1>0, <1>6, <2>1
       DEF PasoTimer, HiloDespertar, HiloTomarHecho, HiloTomarBitmap, HiloTomarRw,
           JournalFinHilo, HiloInformar, HiloMorir, Seguir, Ir, RwLibre, cerrojos,
           Mueve, UsaEscritor, UsaHecho, ConEscritura, ConHecho, TypeOK
  <2>. QED
    BY <2>1, <2>2, ExclusionSigue
<1>. QED
  BY <1>1, <1>2, <1>3, <1>4, <1>5, <1>6, Pasos DEF Tipos

LEMMA ExclusionInit == Init => Exclusion
  BY DEF Init, Exclusion, EscritorUnico, HechoUnico, ConEscritura, ConHecho, Hebras

----------------------------------------------------------------------------
(* The thread of the automatic journal *)

Vigencia == cancelados \subseteq 0..journalHilo /\ HiloVigente

LEMMA VigenciaSigue ==
  ASSUME Vigencia, UNCHANGED <<journalHilo, cancelados, vivo>>,
         journalHecho' \notin Clientes => journalHecho \notin Clientes
  PROVE  Vigencia'
  BY DEF Vigencia, HiloVigente

LEMMA VigenciaPropio ==
  ASSUME TypeOK, Exclusion, Vigencia, NEW c \in Clientes, PasoPropio(c)
  PROVE  Vigencia'
<1>1. CASE JournalBloquear(c)
  <2>1. journalHilo \in 0..journalHilo
    BY DEF TypeOK, Hilos, MemoriaAssumption
  <2>. QED
    BY <1>1, <2>1 DEF JournalBloquear, Vigencia, HiloVigente
<1>2. CASE JournalFin(c) \/ JournalFinLru(c)
  <2>1. journalHilo \in Nat
    BY DEF TypeOK, Hilos, MemoriaAssumption
  <2>2. journalHilo' = journalHilo + 1 /\ cancelados' = cancelados
    BY <1>2 DEF JournalFin, JournalFinLru
  <2>. QED
    BY <2>1, <2>2 DEF Vigencia, HiloVigente
<1>3. ASSUME ~JournalBloquear(c), ~JournalFin(c), ~JournalFinLru(c)
      PROVE  UNCHANGED <<journalHilo, cancelados, vivo, journalHecho>>
  BY <1>3
     DEF PasoPropio, InsertEsperar, InsertTomarRw, InsertBuscar, InsertHayMarco,
         InsertBitmapLleno, LruReemplazar, LruSinCandidato, InsertRebuscar,
         InsertCrear, InsertModificar, SelectNoEsta, SelectEsta, SelectLeer,
         SelectSinPagina, SelectLfs, SelectError, SelectResponder,
         DropSinSegmento, DropBuscar, DropBorrar, DropLfs, DropError,
         JournalTomarRw, journal, cerrojos
<1>. QED
  BY <1>1, <1>2, <1>3, VigenciaSigue

LEMMA VigenciaNext ==
  ASSUME TypeOK, Exclusion, Vigencia, [Next]_vars
  PROVE  Vigencia'
<1>1. CASE UNCHANGED vars \/ Tick
  BY <1>1, VigenciaSigue DEF vars, Tick, cerrojos, journal
<1>2. CASE Caer
  BY <1>2 DEF Caer, Vigencia, HiloVigente
<1>3. ASSUME NEW c \in Clientes, Pedir(c) PROVE Vigencia'
  BY <1>3, VigenciaSigue
     DEF Pedir, InsertPedir, SelectPedir, DropPedir, JournalPedir, Empezar,
         cerrojos, journal
<1>4. ASSUME NEW x \in Hebras, PasoJournal(x) PROVE Vigencia'
  BY <1>4, VigenciaSigue
     DEF PasoJournal, JournalRecolectar, JournalSinConexion, JournalEnviar,
         JournalCortado, cerrojos
<1>5. ASSUME NEW h \in Hilos, PasoTimer(h) PROVE Vigencia'
  <2>1. h \in Hebras /\ h \notin Clientes /\ Nadie \notin Clientes
    BY DEF Hebras, MemoriaAssumption
  <2>2. UNCHANGED <<journalHilo, cancelados, vivo>>
    BY <1>5 DEF PasoTimer, HiloDespertar, HiloTomarHecho, HiloTomarBitmap,
                HiloTomarRw, JournalFinHilo, HiloInformar, HiloMorir, journal
  <2>3. journalHecho' \notin Clientes => journalHecho \notin Clientes
    <3>1. CASE HiloTomarHecho(h)
      BY <2>1, <3>1 DEF HiloTomarHecho
    <3>2. CASE JournalFinHilo(h)
      <4>1. journalHecho = h
        BY <2>1, <3>2 DEF JournalFinHilo, Exclusion, HechoUnico, ConHecho
      <4>. QED
        BY <2>1, <4>1
    <3>3. ASSUME ~HiloTomarHecho(h), ~JournalFinHilo(h)
          PROVE  journalHecho' = journalHecho
      BY <1>5, <3>3 DEF PasoTimer, HiloDespertar, HiloTomarBitmap, HiloTomarRw,
                        HiloInformar, HiloMorir, cerrojos
    <3>. QED
      BY <3>1, <3>2, <3>3
  <2>. QED
    BY <2>2, <2>3, VigenciaSigue
<1>. QED
  BY <1>1, <1>2, <1>3, <1>4, <1>5, VigenciaPropio, Pasos

LEMMA VigenciaInit == Init => Vigencia
  BY DEF Init, Vigencia, HiloVigente

\* When no procesoJournal is in progress, the thread of the automatic journal
\* that was last created is not cancelled: the one that procesoJournal cancels is
\* replaced before JOURNALHecho is given back.
THEOREM HiloNoSePierde == Spec => []HiloVigente
<1>1. Init => Tipos /\ Exclusion /\ Vigencia
  BY TiposInit, ExclusionInit, VigenciaInit
<1>2. Tipos /\ Exclusion /\ Vigencia /\ [Next]_vars
      => Tipos' /\ Exclusion' /\ Vigencia'
  BY TiposNext, ExclusionNext, VigenciaNext DEF Tipos
<1>3. Tipos /\ Exclusion /\ Vigencia => HiloVigente
  BY DEF Vigencia
<1>. QED
  BY <1>1, <1>2, <1>3, PTL DEF Spec

-----------------------------------------------------------------------------
(* Segments, pages and frames.                                             *)

\* A client that has found or freed a frame it has not taken yet.
HayMarco ==
    \A c \in Clientes : pc[c] \in {"ins_rebuscar", "ins_crear"} => bitmap # Marcos

\* A client that has not found a page of its key: there is none since.
NoHayPagina ==
    \A c \in Clientes :
        pc[c] \in {"ins_bitmap", "ins_crear"}
            => Paginas(ped[c].tabla, ped[c].key) = {}

Consistencia == SegmentosEnBitmap /\ HayMarco /\ UnaPaginaPorClave /\ NoHayPagina

----------------------------------------------------------------------------
(* Steps that create no page *)

\* Frames are freed, or nothing, and no page changes its table or its key.
Libera ==
    /\ bitmap' \subseteq bitmap
    /\ \A t \in Tablas : segmentos'[t] \subseteq segmentos[t] \cap bitmap'
    /\ \A f \in Marcos : /\ bloque'[f].tabla = bloque[f].tabla
                         /\ bloque'[f].key = bloque[f].key

\* What client d knows of the frames and of its key is still so, or it has just
\* seen it.
Sabe(d) ==
    /\ pc'[d] \in {"ins_rebuscar", "ins_crear"}
         => pc[d] \in {"ins_rebuscar", "ins_crear"} \/ bitmap' # Marcos
    /\ pc'[d] \in {"ins_bitmap", "ins_crear"}
         => /\ ped'[d].tabla = ped[d].tabla
            /\ ped'[d].key = ped[d].key
            /\ \/ pc[d] \in {"ins_bitmap", "ins_crear"}
               \/ Paginas(ped[d].tabla, ped[d].key) = {}

LEMMA ConsistenciaAlLiberar ==
  ASSUME TypeOK, Consistencia, Libera, \A d \in Clientes : Sabe(d)
  PROVE  Consistencia'
<1>. USE DEF Consistencia, Libera
<1>1. \A t \in Tablas : segmentos[t] \subseteq Marcos
  BY DEF TypeOK
<1>2. SegmentosEnBitmap'
  BY <1>1 DEF SegmentosEnBitmap
<1>3. HayMarco'
  BY DEF HayMarco, Sabe, TypeOK
<1>4. UnaPaginaPorClave'
  BY <1>1 DEF UnaPaginaPorClave
<1>5. NoHayPagina'
  <2>. SUFFICES ASSUME NEW d \in Clientes, pc'[d] \in {"ins_bitmap", "ins_crear"}
                PROVE  Paginas(ped[d].tabla, ped[d].key)' = {}
    BY DEF NoHayPagina
  <2>1. ped'[d].tabla = ped[d].tabla /\ ped'[d].key = ped[d].key
        /\ Paginas(ped[d].tabla, ped[d].key) = {}
    BY DEF Sabe, NoHayPagina
  <2>2. ped[d].tabla \in Tablas
    BY DEF TypeOK, Pedido
  <2>. QED
    BY <1>1, <2>1, <2>2 DEF Paginas
<1>. QED
  BY <1>2, <1>3, <1>4, <1>5

\* Only x moves, and no other client's request is of another page.
Ajenos(x) ==
    /\ Mueve(x)
    /\ \A d \in Clientes \ {x} : /\ ped'[d].tabla = ped[d].tabla
                                 /\ ped'[d].key = ped[d].key

LEMMA SabenLosDemas ==
  ASSUME NEW x \in Hebras, Ajenos(x), NEW d \in Clientes \ {x}
  PROVE  Sabe(d)
<1>1. d \in Hebras \ {x}
  BY DEF Hebras
<1>. QED
  BY <1>1 DEF Ajenos, Mueve, Sabe

\* What a DROP or a journal does to the requests keeps the page.
LEMMA LimpiarConservaClave ==
  ASSUME TypeOK, NEW d \in Clientes, NEW ts
  PROVE  /\ SinSegmento(ped[d], ts).tabla = ped[d].tabla
         /\ SinSegmento(ped[d], ts).key = ped[d].key
         /\ Limpiado(d).tabla = ped[d].tabla
         /\ Limpiado(d).key = ped[d].key
<1>0. ped[d] \in Pedido
  BY DEF TypeOK
<1>1. ASSUME NEW us
      PROVE  /\ SinSegmento(ped[d], us) \in Pedido
             /\ SinSegmento(ped[d], us).tabla = ped[d].tabla
             /\ SinSegmento(ped[d], us).key = ped[d].key
  BY <1>0 DEF SinSegmento, Pedido
<1>. DEFINE s == SinSegmento(ped[d], Tablas)
            b == s.limpiado \/ (ped[d].cmd = "SELECT" /\ pc[d] \in Insertando)
<1>2. s \in Pedido /\ s.tabla = ped[d].tabla /\ s.key = ped[d].key
  BY <1>1
<1>3. Limpiado(d) = [s EXCEPT !.limpiado = b]
  BY DEF Limpiado
<1>. HIDE DEF s, b
<1>4. Limpiado(d).tabla = s.tabla /\ Limpiado(d).key = s.key
  BY <1>2, <1>3 DEF Pedido
<1>. QED
  BY <1>1, <1>2, <1>4

LEMMA LiberaNada ==
  ASSUME Consistencia, UNCHANGED paginas
  PROVE  Libera
  BY DEF Consistencia, SegmentosEnBitmap, Libera, paginas

LEMMA LiberaTodo ==
  ASSUME Limpiar, UNCHANGED bloque
  PROVE  Libera /\ bitmap' # Marcos
<1>1. 0 \in Marcos
  BY DEF Marcos, MemoriaAssumption
<1>. QED
  BY <1>1 DEF Limpiar, Libera

----------------------------------------------------------------------------
(* The step that creates a page *)

LEMMA ConsistenciaAlCrear ==
  ASSUME TypeOK, Exclusion, Consistencia, NEW c \in Clientes, NEW f \in Marcos,
         InsertCrear(c, f)
  PROVE  Consistencia'
<1>. DEFINE t == ped[c].tabla
<1>1. t \in Tablas /\ c \in Hebras
  BY DEF TypeOK, Pedido, Hebras
<1>2. /\ f \notin bitmap
      /\ bitmap' = bitmap \cup {f}
      /\ bloque'[f].tabla = t
      /\ bloque'[f].key = ped[c].key
      /\ \A g \in Marcos \ {f} : bloque'[g] = bloque[g]
  BY DEF InsertCrear, TypeOK
<1>3. \A u \in Tablas : segmentos[u] \subseteq Marcos /\ f \notin segmentos[u]
  BY <1>2 DEF Consistencia, SegmentosEnBitmap, TypeOK
<1>4. /\ \A u \in Tablas \ {t} : segmentos'[u] = segmentos[u]
      /\ segmentos'[t] \subseteq segmentos[t] \cup {f}
  BY <1>1 DEF InsertCrear, TypeOK
<1>5. \A g \in segmentos[t] : bloque[g].key # ped[c].key
  BY DEF Consistencia, NoHayPagina, InsertCrear, Paginas
\* No other client is between finding a frame, or no page, and creating one.
<1>6. \A d \in Clientes : pc'[d] \notin {"ins_rebuscar", "ins_crear", "ins_bitmap"}
  <2>1. pc[c] \in ConEscritura(c)
    BY DEF InsertCrear, ConEscritura
  <2>2. \A d \in Clientes \ {c} :
          pc[d] \notin {"ins_rebuscar", "ins_crear", "ins_bitmap"}
    BY <1>1, <2>1 DEF Exclusion, EscritorUnico, ConEscritura, Hebras
  <2>3. PICK p \in {"libre", "sel_responder"} : pc' = [pc EXCEPT ![c] = p]
    BY DEF InsertCrear, TrasInsertar, Contestar, Seguir, Ir
  <2>. QED
    BY <1>1, <2>2, <2>3 DEF TypeOK, Hebras
<1>. HIDE DEF t
<1>7. SegmentosEnBitmap'
  <2>. SUFFICES ASSUME NEW u \in Tablas, NEW g \in segmentos'[u]
                PROVE  /\ g \in bitmap'
                       /\ bloque'[g].tabla = u
                       /\ \A v \in Tablas \ {u} : g \notin segmentos'[v]
    BY DEF SegmentosEnBitmap
  <2>1. CASE g = f
    BY <1>2, <1>3, <1>4, <2>1
  <2>2. CASE g # f
    <3>1. g \in segmentos[u] /\ g \in Marcos
      BY <1>3, <1>4, <2>2
    <3>2. /\ g \in bitmap
          /\ bloque[g].tabla = u
          /\ \A v \in Tablas \ {u} : g \notin segmentos[v]
      BY <3>1 DEF Consistencia, SegmentosEnBitmap
    <3>. QED
      BY <1>2, <1>4, <2>2, <3>1, <3>2
  <2>. QED
    BY <2>1, <2>2
<1>8. UnaPaginaPorClave'
  <2>. SUFFICES ASSUME NEW u \in Tablas, NEW g \in segmentos'[u],
                       NEW h \in segmentos'[u], bloque'[g].key = bloque'[h].key
                PROVE  g = h
    BY DEF UnaPaginaPorClave
  <2>1. CASE g # f /\ h # f
    BY <1>2, <1>3, <1>4, <2>1 DEF Consistencia, UnaPaginaPorClave
  <2>2. CASE g = f /\ h # f
    BY <1>2, <1>3, <1>4, <1>5, <2>2
  <2>3. CASE g # f /\ h = f
    BY <1>2, <1>3, <1>4, <1>5, <2>3
  <2>. QED
    BY <2>1, <2>2, <2>3
<1>. QED
  BY <1>6, <1>7, <1>8 DEF Consistencia, HayMarco, NoHayPagina

----------------------------------------------------------------------------
(* Every step *)

LEMMA ConsistenciaPropio ==
  ASSUME TypeOK, Exclusion, Consistencia, NEW c \in Clientes, PasoPropio(c),
         journalHilo' \in Hilos
  PROVE  Consistencia'
<1>1. /\ c \in Hebras
      /\ DOMAIN pc = Hebras
      /\ DOMAIN ped = Clientes
      /\ ped[c] \in Pedido
  BY DEF Hebras, TypeOK
<1>2. ASSUME NEW p, Ir(c, p) PROVE Mueve(c) /\ pc'[c] = p
  BY <1>1, <1>2 DEF Mueve, Ir
<1>3. ASSUME Libera, Ajenos(c), Sabe(c) PROVE Consistencia'
  BY <1>1, <1>3, SabenLosDemas, ConsistenciaAlLiberar
<1>4. ASSUME NEW p, Seguir(c, p)
      PROVE  Ajenos(c) /\ pc'[c] = p /\ ped' = ped
  BY <1>2, <1>4 DEF Seguir, Ajenos
<1>5. ASSUME Contestar(c) PROVE Ajenos(c) /\ pc'[c] = "libre"
  BY <1>1, <1>2, <1>5 DEF Contestar, Ajenos
<1>6. ASSUME TrasInsertar(c)
      PROVE  Ajenos(c) /\ pc'[c] \in {"libre", "sel_responder"}
  BY <1>4, <1>5, <1>6 DEF TrasInsertar
<1>7. ASSUME NEW p, Buscar(c, p)
      PROVE  /\ Ajenos(c)
             /\ ped'[c].tabla = ped[c].tabla
             /\ ped'[c].key = ped[c].key
             /\ \/ pc'[c] = "ins_modificar"
                \/ pc'[c] = p /\ Paginas(ped[c].tabla, ped[c].key) = {}
  BY <1>1, <1>2, <1>7 DEF Buscar, Ajenos, Pedido
<1>8. ASSUME \/ InsertEsperar(c) \/ InsertTomarRw(c) \/ InsertHayMarco(c)
             \/ InsertBitmapLleno(c) \/ LruSinCandidato(c)
             \/ SelectNoEsta(c) \/ SelectEsta(c) \/ DropSinSegmento(c)
             \/ JournalTomarRw(c) \/ JournalBloquear(c)
      PROVE  Consistencia'
  <2>1. /\ UNCHANGED paginas
        /\ \/ /\ pc[c] = "ins_bitmap"
              /\ bitmap # Marcos
              /\ Seguir(c, "ins_crear")
           \/ \E p : p \notin {"ins_rebuscar", "ins_crear", "ins_bitmap"}
                       /\ Seguir(c, p)
    BY <1>8
       DEF InsertEsperar, InsertTomarRw, InsertHayMarco, InsertBitmapLleno,
           LruSinCandidato, SelectNoEsta, SelectEsta, DropSinSegmento,
           JournalTomarRw, JournalBloquear
  <2>2. Ajenos(c) /\ Sabe(c)
    BY <1>4, <2>1 DEF Sabe, paginas
  <2>. QED
    BY <1>3, <2>1, <2>2, LiberaNada
<1>9. ASSUME NEW f \in Marcos, LruReemplazar(c, f) PROVE Consistencia'
  <2>. DEFINE u == bloque[f].tabla
  <2>1. /\ f \in bitmap /\ f \in segmentos[u] /\ u \in Tablas
        /\ bitmap' = bitmap \ {f}
        /\ segmentos' = [segmentos EXCEPT ![u] = @ \ {f}]
        /\ bloque' = bloque
        /\ Seguir(c, "ins_rebuscar")
    BY <1>9 DEF LruReemplazar, Candidatos, TypeOK, Pagina
  <2>. HIDE DEF u
  <2>2. \A t \in Tablas : /\ segmentos[t] \subseteq bitmap
                          /\ t # u => f \notin segmentos[t]
    BY <2>1 DEF Consistencia, SegmentosEnBitmap
  <2>3. Libera
    BY <2>1, <2>2 DEF Libera, TypeOK
  <2>4. Ajenos(c) /\ Sabe(c)
    BY <1>4, <2>1 DEF Sabe
  <2>. QED
    BY <1>3, <2>3, <2>4
<1>10. CASE InsertBuscar(c)
  BY <1>3, <1>7, <1>10, LiberaNada DEF InsertBuscar, Sabe
<1>11. CASE InsertRebuscar(c)
  BY <1>3, <1>7, <1>11, LiberaNada DEF InsertRebuscar, Sabe
<1>12. CASE InsertModificar(c)
  <2>1. ped[c].marco \in Marcos
    BY <1>1 DEF Pedido
  <2>2. \A g \in Marcos : /\ bloque'[g].tabla = bloque[g].tabla
                          /\ bloque'[g].key = bloque[g].key
    BY <1>12, <2>1, EscribirTipo DEF InsertModificar
  <2>3. Libera
    BY <1>12, <2>2
       DEF InsertModificar, Libera, Consistencia, SegmentosEnBitmap
  <2>. QED
    BY <1>3, <1>6, <1>12, <2>3 DEF InsertModificar, Sabe
<1>13. ASSUME NEW f \in Marcos, SelectLeer(c, f) PROVE Consistencia'
  <2>1. bloque' = [bloque EXCEPT ![f].acceso = reloj]
        /\ bitmap' = bitmap /\ segmentos' = segmentos
    BY <1>13 DEF SelectLeer
  <2>2. \A g \in Marcos : /\ bloque'[g].tabla = bloque[g].tabla
                          /\ bloque'[g].key = bloque[g].key
    BY <2>1 DEF TypeOK, Pagina
  <2>3. Libera
    BY <2>1, <2>2 DEF Libera, Consistencia, SegmentosEnBitmap
  <2>4. Ir(c, "sel_responder")
        /\ \A d \in Clientes \ {c} : ped'[d] = ped[d]
    BY <1>1, <1>13 DEF SelectLeer
  <2>. QED
    BY <1>2, <1>3, <2>3, <2>4 DEF Ajenos, Sabe
<1>14. ASSUME \/ SelectSinPagina(c) \/ SelectError(c) \/ SelectResponder(c)
              \/ DropLfs(c) \/ DropError(c)
       PROVE  Consistencia'
  <2>1. Contestar(c) /\ UNCHANGED paginas
    BY <1>14 DEF SelectSinPagina, SelectError, SelectResponder, DropLfs, DropError
  <2>. QED
    BY <1>3, <1>5, <2>1, LiberaNada DEF Sabe
<1>15. CASE SelectLfs(c) \/ DropBuscar(c)
  <2>1. UNCHANGED paginas /\ (\A d \in Clientes \ {c} : ped'[d] = ped[d])
        /\ (Ir(c, "ins_lru") \/ Ir(c, "drop_borrar"))
    BY <1>1, <1>15 DEF SelectLfs, DropBuscar, paginas
  <2>. QED
    BY <1>2, <1>3, <2>1, LiberaNada DEF Ajenos, Sabe
<1>16. CASE DropBorrar(c)
  <2>. DEFINE t == ped[c].tabla
  <2>1. /\ t \in Tablas
        /\ bitmap' = bitmap \ segmentos[t]
        /\ segmentos' = [segmentos EXCEPT ![t] = {}]
        /\ bloque' = bloque
        /\ Ir(c, "drop_lfs")
        /\ \A d \in Clientes : ped'[d] = SinSegmento(ped[d], {t})
    BY <1>1, <1>16 DEF DropBorrar, Pedido
  <2>. HIDE DEF t
  <2>2. \A u \in Tablas : /\ segmentos[u] \subseteq bitmap
                          /\ u # t => segmentos[u] \cap segmentos[t] = {}
    BY <2>1 DEF Consistencia, SegmentosEnBitmap
  <2>3. Libera
    BY <2>1, <2>2 DEF Libera, TypeOK
  <2>. QED
    BY <1>2, <1>3, <2>1, <2>3, LimpiarConservaClave DEF Ajenos, Sabe
<1>17. CASE JournalFin(c) \/ JournalFinLru(c)
  <2>1. journalHilo + 1 \in Hebras \ Clientes
    BY <1>17 DEF JournalFin, JournalFinLru, Hebras, MemoriaAssumption
  <2>2. Mueve(c) /\ pc'[c] \in {"libre", "ins_rebuscar"}
    BY <1>1, <1>17, <2>1 DEF JournalFin, JournalFinLru, Mueve
  <2>3. \A d \in Clientes \ {c} : ped'[d] = Limpiado(d)
    BY <1>17 DEF JournalFin, JournalFinLru
  <2>4. Libera /\ bitmap' # Marcos
    BY <1>17, LiberaTodo DEF JournalFin, JournalFinLru
  <2>. QED
    BY <1>3, <2>2, <2>3, <2>4, LimpiarConservaClave DEF Ajenos, Sabe
<1>. QED
  BY <1>8, <1>9, <1>10, <1>11, <1>12, <1>13, <1>14, <1>15, <1>16, <1>17,
     ConsistenciaAlCrear DEF PasoPropio

LEMMA ConsistenciaNext ==
  ASSUME Tipos, Exclusion, Consistencia, [Next]_vars
  PROVE  Consistencia'
<1>0. TypeOK /\ TypeOK'
  BY TiposNext DEF Tipos
<1>1. CASE UNCHANGED vars \/ Tick
  BY <1>0, <1>1, LiberaNada, ConsistenciaAlLiberar DEF vars, Tick, Sabe
<1>2. CASE Caer
  <2>1. \A c \in Clientes : pc'[c] = "libre"
    BY <1>2 DEF Caer, Hebras
  <2>2. \A t \in Tablas : segmentos'[t] = {}
    BY <1>2 DEF Caer
  <2>. QED
    BY <2>1, <2>2 DEF Consistencia, SegmentosEnBitmap, HayMarco,
                      UnaPaginaPorClave, NoHayPagina
<1>3. ASSUME NEW c \in Clientes, Pedir(c) PROVE Consistencia'
  <2>1. /\ UNCHANGED paginas
        /\ \E p \in {"ins_lru", "sel_rw", "drop_buscar", "jou_rw"} : Ir(c, p)
        /\ \A d \in Clientes \ {c} : ped'[d] = ped[d]
    BY <1>0, <1>3
       DEF Pedir, InsertPedir, SelectPedir, DropPedir, JournalPedir, Empezar, TypeOK
  <2>2. Ajenos(c) /\ Sabe(c) /\ c \in Hebras
    BY <1>0, <2>1 DEF Ajenos, Mueve, Sabe, Ir, TypeOK, Hebras
  <2>. QED
    BY <1>0, <2>1, <2>2, LiberaNada, SabenLosDemas, ConsistenciaAlLiberar
<1>4. ASSUME NEW c \in Clientes, PasoPropio(c) PROVE Consistencia'
  <2>1. journalHilo' \in Hilos
    BY <1>0 DEF TypeOK
  <2>. QED
    BY <1>0, <1>4, <2>1, ConsistenciaPropio
<1>5. ASSUME NEW x \in Hebras, PasoJournal(x) PROVE Consistencia'
  <2>1. /\ UNCHANGED <<paginas, ped>>
        /\ pc' = pc \/ Ir(x, "jou_enviar")
    BY <1>5 DEF PasoJournal, JournalRecolectar, JournalSinConexion,
                JournalEnviar, JournalCortado, Seguir
  <2>2. \A d \in Clientes : Sabe(d)
    BY <1>0, <2>1 DEF Sabe, Ir, TypeOK, Hebras
  <2>. QED
    BY <1>0, <2>1, <2>2, LiberaNada, ConsistenciaAlLiberar
<1>6. ASSUME NEW h \in Hilos, PasoTimer(h) PROVE Consistencia'
  <2>1. h \notin Clientes /\ h \in Hebras
    BY DEF Hebras, MemoriaAssumption
  <2>2. \A d \in Clientes : pc'[d] = pc[d]
    BY <1>0, <1>6, <2>1
       DEF PasoTimer, HiloDespertar, HiloTomarHecho, HiloTomarBitmap,
           HiloTomarRw, JournalFinHilo, HiloInformar, HiloMorir, Seguir, Ir,
           TypeOK, Hebras
  <2>3. CASE JournalFinHilo(h)
    <3>1. \A d \in Clientes : Sabe(d)
      BY <1>0, <2>2, <2>3, LimpiarConservaClave DEF JournalFinHilo, Sabe
    <3>. QED
      BY <1>0, <2>3, <3>1, LiberaTodo, ConsistenciaAlLiberar DEF JournalFinHilo
  <2>4. CASE ~JournalFinHilo(h)
    <3>1. UNCHANGED <<paginas, ped>>
      BY <1>6, <2>4 DEF PasoTimer, HiloDespertar, HiloTomarHecho,
                        HiloTomarBitmap, HiloTomarRw, HiloInformar, HiloMorir,
                        Seguir
    <3>. QED
      BY <1>0, <2>2, <3>1, LiberaNada, ConsistenciaAlLiberar DEF Sabe
  <2>. QED
    BY <2>3, <2>4
<1>. QED
  BY <1>1, <1>2, <1>3, <1>4, <1>5, <1>6, Pasos

LEMMA ConsistenciaInit == Init => Consistencia
  BY DEF Init, Consistencia, SegmentosEnBitmap, HayMarco, UnaPaginaPorClave,
         NoHayPagina, Hebras

LEMMA Consistente == Spec => [](Tipos /\ Exclusion /\ Consistencia)
<1>1. Init => Tipos /\ Exclusion /\ Consistencia
  BY TiposInit, ExclusionInit, ConsistenciaInit
<1>2. Tipos /\ Exclusion /\ Consistencia /\ [Next]_vars
      => Tipos' /\ Exclusion' /\ Consistencia'
  BY TiposNext, ExclusionNext, ConsistenciaNext
<1>. QED
  BY <1>1, <1>2, PTL DEF Spec

\* The segments and the bitmap agree: no frame of a page is free or is of two
\* tables, although LRU, DROP and the journals free frames of the same segments
\* that an INSERT or a SELECT is about to extend.
THEOREM SegmentosCoinciden == Spec => []SegmentosEnBitmap
<1>1. Tipos /\ Exclusion /\ Consistencia => SegmentosEnBitmap
  BY DEF Consistencia
<1>. QED
  BY <1>1, Consistente, PTL

\* A segment has one page of a key at most: what a client saw before it created
\* the page still holds, since sem_insert_select keeps the others from creating
\* one meanwhile.
THEOREM ClavesSinRepetir == Spec => []UnaPaginaPorClave
<1>1. Tipos /\ Exclusion /\ Consistencia => UnaPaginaPorClave
  BY DEF Consistencia
<1>. QED
  BY <1>1, Consistente, PTL

\* Whoever is going to create a page finds a free frame.
THEOREM SiempreHayMarco == Spec => []HayMarcoParaCrear
<1>1. Tipos /\ Exclusion /\ Consistencia => HayMarcoParaCrear
  BY DEF Consistencia, HayMarco, HayMarcoParaCrear
<1>. QED
  BY <1>1, Consistente, PTL
=============================================================================
