---- MODULE Planificador ----
(***************************************************************************)
(* The scheduler of the Kernel (kernel.c): the console makes a PCB of each *)
(* request or script and puts it in READY; one thread per level of         *)
(* multiprogramming takes it, executes a quantum of its lines, and puts it *)
(* back or ends it. The line itself (resolverPedido) either fails or not.  *)
(* A definition whose name has Sin... after that of another, and is called *)
(* a mutant, is not of the code.                                           *)
(***************************************************************************)
EXTENDS Integers, Sequences, FiniteSets

CONSTANTS Pedidos,     \* what is entered at the console
          Runs,        \* those of them that are RUN <file>
          Niveles,     \* the threads of nivelMultiprogramacion
          Nadie,       \* no script
          MaxRafaga,   \* bound: lines of a file
          MaxQuantum   \* bound: QUANTUM in the configuration

ASSUME PlanificadorAssumption ==
  /\ Runs \subseteq Pedidos /\ Nadie \notin Pedidos /\ IsFiniteSet(Niveles)
  /\ MaxRafaga \in Nat \ {0} /\ MaxQuantum \in Nat \ {0}

VARIABLES vivo,          \* the process runs
          quantum,       \* arc_config->quantum
          consola,       \* where the console is in planificadorLargoPlazo
          listos,        \* colaListos
          ejecutando,    \* colaEjecucion: how many times each PCB is in it
          salidos,       \* colaExit: the same
          semaforo,      \* sem_planificador
          estado,        \* of each PCB, with the next four
          rafaga, progamCounter, archivo,
          fallo,         \* tipoRespuesta >= RESP_ERROR_PEDIDO_DESCONOCIDO
          leidas,        \* lines fgets has taken from archivo
          pc,            \* of each level, with the next three
          pcb, faltan,   \* the PCB it executes, and the lines left of this turn
          quantumEntero  \* it is in the branch of a whole quantum

pcbs == <<estado, rafaga, progamCounter, archivo, fallo, leidas>>
colas == <<listos, ejecutando, salidos, semaforo>>
nivel == <<pc, pcb, faltan, quantumEntero>>
vars == <<vivo, quantum, consola, colas, pcbs, nivel>>

TypeOK ==
  /\ vivo \in BOOLEAN
  /\ quantum \in 1..MaxQuantum
  /\ consola \in [paso : {"libre", "listo", "post"}, pedido : Pedidos \cup {Nadie}]
  /\ listos \in Seq(Pedidos)
  /\ ejecutando \in [Pedidos -> Nat]
  /\ salidos \in [Pedidos -> Nat]
  /\ semaforo \in Nat
  /\ estado \in [Pedidos -> {"ninguno", "nuevo", "listo", "ejecucion", "exit"}]
  /\ rafaga \in [Pedidos -> -1..MaxRafaga]
  /\ progamCounter \in [Pedidos -> 0..MaxRafaga]
  /\ archivo \in [Pedidos -> {"no", "abierto", "cerrado"}]
  /\ fallo \in [Pedidos -> BOOLEAN]
  /\ leidas \in [Pedidos -> 0..MaxRafaga]
  /\ pc \in [Niveles -> {"esperar", "obtener", "agregar", "leer", "resolver", "finQuantum",
                         "devolver", "post", "fin", "sacar", "cerrar"}]
  /\ pcb \in [Niveles -> Pedidos \cup {Nadie}]
  /\ faltan \in [Niveles -> 0..MaxQuantum + MaxRafaga]
  /\ quantumEntero \in [Niveles -> BOOLEAN]

Init ==
  /\ vivo = TRUE
  /\ quantum \in 1..MaxQuantum
  /\ consola = [paso |-> "libre", pedido |-> Nadie]
  /\ listos = << >>
  /\ ejecutando = [g \in Pedidos |-> 0] /\ salidos = [g \in Pedidos |-> 0]
  /\ semaforo = 0
  /\ estado = [g \in Pedidos |-> "ninguno"]
  /\ rafaga = [g \in Pedidos |-> 0]
  /\ progamCounter = [g \in Pedidos |-> 0]
  /\ archivo = [g \in Pedidos |-> "no"]
  /\ fallo = [g \in Pedidos |-> FALSE]
  /\ leidas = [g \in Pedidos |-> 0]
  /\ pc = [n \in Niveles |-> "esperar"]
  /\ pcb = [n \in Niveles |-> Nadie]
  /\ faltan = [n \in Niveles |-> 0]
  /\ quantumEntero = [n \in Niveles |-> FALSE]

Ir(n, paso) == pc' = [pc EXCEPT ![n] = paso]

-----------------------------------------------------------------------------
(* agregarAListo: the caller is the console or the level that gives the    *)
(* PCB back; sem_post comes after the mutex was released.                  *)
AgregarAListo(g) ==
  /\ estado' = [estado EXCEPT ![g] = "listo"]
  /\ listos' = Append(listos, g)

(* A RUN whose file is not there has rafaga -1.                            *)
RafagasDe(g) == IF g \in Runs THEN -1..MaxRafaga ELSE {1}

Ingresar(g) ==
  /\ consola.paso = "libre" /\ estado[g] = "ninguno"
  /\ estado' = [estado EXCEPT ![g] = "nuevo"]
  /\ \E r \in RafagasDe(g) :
       /\ rafaga' = [rafaga EXCEPT ![g] = r]
       /\ archivo' = [archivo EXCEPT ![g] = IF g \in Runs /\ r >= 0 THEN "abierto" ELSE "no"]
  /\ consola' = [paso |-> "listo", pedido |-> g]
  /\ UNCHANGED <<vivo, quantum, colas, progamCounter, fallo, leidas, nivel>>

ConsolaAListo ==
  /\ consola.paso = "listo"
  /\ AgregarAListo(consola.pedido)
  /\ consola' = [consola EXCEPT !.paso = "post"]
  /\ UNCHANGED <<vivo, quantum, ejecutando, salidos, semaforo, rafaga, progamCounter, archivo,
                 fallo, leidas, nivel>>

ConsolaPost ==
  /\ consola.paso = "post"
  /\ semaforo' = semaforo + 1
  /\ consola' = [paso |-> "libre", pedido |-> Nadie]
  /\ UNCHANGED <<vivo, quantum, listos, ejecutando, salidos, pcbs, nivel>>

(* SALIR: main cancels the threads and empties the queues.                 *)
Salir ==
  /\ consola.paso = "libre"
  /\ vivo' = FALSE
  /\ UNCHANGED <<quantum, consola, colas, pcbs, nivel>>

(* The file of the configuration changed while the Kernel runs.            *)
RecargarConfiguracion ==
  /\ quantum' \in 1..MaxQuantum \ {quantum}
  /\ UNCHANGED <<vivo, consola, colas, pcbs, nivel>>

\* mutant: looks at the semaphore and does not take it
EsperarSinTomar(n) ==
  /\ pc[n] = "esperar" /\ semaforo > 0
  /\ UNCHANGED semaforo
  /\ Ir(n, "obtener")
  /\ UNCHANGED <<vivo, quantum, consola, listos, ejecutando, salidos, pcbs, pcb, faltan,
                 quantumEntero>>

-----------------------------------------------------------------------------
Esperar(n) ==
  /\ pc[n] = "esperar" /\ semaforo > 0
  /\ semaforo' = semaforo - 1
  /\ Ir(n, "obtener")
  /\ UNCHANGED <<vivo, quantum, consola, listos, ejecutando, salidos, pcbs, pcb, faltan,
                 quantumEntero>>

ObtenerColaListos(n) ==
  /\ pc[n] = "obtener" /\ listos # << >>
  /\ pcb' = [pcb EXCEPT ![n] = Head(listos)]
  /\ listos' = Tail(listos)
  /\ Ir(n, "agregar")
  /\ UNCHANGED <<vivo, quantum, consola, ejecutando, salidos, semaforo, pcbs, faltan,
                 quantumEntero>>

(* What ejecutar does in this turn. A request that is no RUN has one line. *)
Resto(g) == rafaga[g] - progamCounter[g]
QuantumEntero(g) == g \in Runs /\ Resto(g) >= quantum

\* mutant: a whole quantum even when fewer lines are left
LineasDelTurnoSinResto(g) == quantum

LineasDelTurno(g) == IF QuantumEntero(g) THEN quantum ELSE Resto(g)

(* agregarAEjecutando, and the beginning of ejecutar, which is called with *)
(* the quantum of this moment.                                             *)
AgregarAEjecutando(n) ==
  LET g == pcb[n]
      lineas == LineasDelTurno(g)
  IN /\ pc[n] = "agregar"
     /\ ejecutando' = [ejecutando EXCEPT ![g] = @ + 1]
     /\ estado' = [estado EXCEPT ![g] = "ejecucion"]
     /\ quantumEntero' = [quantumEntero EXCEPT ![n] = QuantumEntero(g)]
     /\ faltan' = [faltan EXCEPT ![n] = IF lineas > 0 THEN lineas ELSE 0]
     /\ Ir(n, IF lineas > 0 THEN "leer" ELSE "fin")
     /\ UNCHANGED <<vivo, quantum, consola, listos, salidos, semaforo, rafaga, progamCounter,
                    archivo, fallo, leidas, pcb>>

LeerLinea(n) ==
  /\ pc[n] = "leer"
  /\ leidas' = [leidas EXCEPT ![pcb[n]] = @ + 1]
  /\ Ir(n, "resolver")
  /\ UNCHANGED <<vivo, quantum, consola, colas, estado, rafaga, progamCounter, archivo, fallo,
                 pcb, faltan, quantumEntero>>

\* mutant: goes on after a line that failed
TrasLineaSinCortar(n, e) ==
  IF faltan[n] > 1 THEN "leer" ELSE IF quantumEntero[n] THEN "finQuantum" ELSE "fin"

TrasLinea(n, e) ==
  IF e THEN "sacar"
  ELSE IF faltan[n] > 1 THEN "leer" ELSE IF quantumEntero[n] THEN "finQuantum" ELSE "fin"

(* The answer of resolverPedido, up to the next line. aplicarRetardo       *)
(* sleeps after it.                                                        *)
ResolverLinea(n) ==
  LET g == pcb[n] IN
  /\ pc[n] = "resolver"
  /\ progamCounter' = [progamCounter EXCEPT ![g] = @ + 1]
  /\ \E e \in BOOLEAN :
       /\ fallo' = [fallo EXCEPT ![g] = e]
       /\ faltan' = [faltan EXCEPT ![n] = IF TrasLinea(n, e) = "leer" THEN @ - 1 ELSE 0]
       /\ quantumEntero' = [quantumEntero EXCEPT ![n] = @ /\ TrasLinea(n, e) = "leer"]
       /\ Ir(n, TrasLinea(n, e))
  /\ UNCHANGED <<vivo, quantum, consola, colas, estado, rafaga, archivo, leidas, pcb>>

\* mutant: the PCB goes back to READY and stays in EXEC
FinQuantumSinSacar(n) ==
  LET g == pcb[n] IN
  /\ pc[n] = "finQuantum"
  /\ IF estado[g] = "ejecucion"
       THEN IF rafaga[g] > progamCounter[g]
              THEN /\ UNCHANGED ejecutando
                   /\ Ir(n, "devolver")
              ELSE Ir(n, "sacar") /\ UNCHANGED ejecutando
       ELSE Ir(n, "fin") /\ UNCHANGED ejecutando
  /\ UNCHANGED <<vivo, quantum, consola, listos, salidos, semaforo, pcbs, pcb, faltan,
                 quantumEntero>>

(* After a whole quantum the PCB goes back to READY, or to EXIT.           *)
FinQuantum(n) ==
  LET g == pcb[n] IN
  /\ pc[n] = "finQuantum"
  /\ IF estado[g] = "ejecucion"
       THEN IF rafaga[g] > progamCounter[g]
              THEN /\ ejecutando' = [ejecutando EXCEPT ![g] = @ - 1]
                   /\ Ir(n, "devolver")
              ELSE Ir(n, "sacar") /\ UNCHANGED ejecutando
       ELSE Ir(n, "fin") /\ UNCHANGED ejecutando
  /\ UNCHANGED <<vivo, quantum, consola, listos, salidos, semaforo, pcbs, pcb, faltan,
                 quantumEntero>>

Devolver(n) ==
  /\ pc[n] = "devolver"
  /\ AgregarAListo(pcb[n])
  /\ Ir(n, "post")
  /\ UNCHANGED <<vivo, quantum, consola, ejecutando, salidos, semaforo, rafaga, progamCounter,
                 archivo, fallo, leidas, pcb, faltan, quantumEntero>>

\* mutant: back in READY without sem_post
DevolverPostSinPost(n) ==
  /\ pc[n] = "post"
  /\ UNCHANGED semaforo
  /\ Ir(n, "fin")
  /\ UNCHANGED <<vivo, quantum, consola, listos, ejecutando, salidos, pcbs, pcb, faltan,
                 quantumEntero>>

DevolverPost(n) ==
  /\ pc[n] = "post"
  /\ semaforo' = semaforo + 1
  /\ Ir(n, "fin")
  /\ UNCHANGED <<vivo, quantum, consola, listos, ejecutando, salidos, pcbs, pcb, faltan,
                 quantumEntero>>

\* mutant: every PCB that is in EXEC
FinDeRafagaSinRafaga(g) == estado[g] = "ejecucion"

FinDeRafaga(g) == progamCounter[g] = rafaga[g] /\ estado[g] = "ejecucion"

(* The last condition of ejecutar. It reads the PCB also when it was given *)
(* back, and another level may be executing it.                            *)
FinEjecutar(n) ==
  /\ pc[n] = "fin"
  /\ IF FinDeRafaga(pcb[n])
       THEN Ir(n, "sacar") /\ UNCHANGED pcb
       ELSE Ir(n, "esperar") /\ pcb' = [pcb EXCEPT ![n] = Nadie]
  /\ UNCHANGED <<vivo, quantum, consola, colas, pcbs, faltan, quantumEntero>>

(* agregarAExit. buscarPcbEnColaEjecucion goes one element past the end of *)
(* the list and reads a null pointer there when the PCB is not in it.      *)
SacarDeEjecucion(n) ==
  LET g == pcb[n] IN
  /\ pc[n] = "sacar" /\ ejecutando[g] > 0
  /\ ejecutando' = [ejecutando EXCEPT ![g] = @ - 1]
  /\ Ir(n, "cerrar")
  /\ UNCHANGED <<vivo, quantum, consola, listos, salidos, semaforo, pcbs, pcb, faltan,
                 quantumEntero>>

SacarFalla(n) ==
  /\ pc[n] = "sacar" /\ ejecutando[pcb[n]] = 0
  /\ vivo' = FALSE
  /\ UNCHANGED <<quantum, consola, colas, pcbs, nivel>>

(* After it ejecutar has nothing left to do: the state is exit.            *)
AgregarAExit(n) ==
  LET g == pcb[n] IN
  /\ pc[n] = "cerrar"
  /\ archivo' = [archivo EXCEPT ![g] = IF g \in Runs THEN "cerrado" ELSE "no"]
  /\ estado' = [estado EXCEPT ![g] = "exit"]
  /\ salidos' = [salidos EXCEPT ![g] = @ + 1]
  /\ Ir(n, "esperar")
  /\ pcb' = [pcb EXCEPT ![n] = Nadie]
  /\ UNCHANGED <<vivo, quantum, consola, listos, ejecutando, semaforo, rafaga, progamCounter,
                 fallo, leidas, faltan, quantumEntero>>

-----------------------------------------------------------------------------
Consola == vivo /\ (ConsolaAListo \/ ConsolaPost)

Ejecutar(n) ==
  /\ vivo
  /\ \/ Esperar(n) \/ ObtenerColaListos(n) \/ AgregarAEjecutando(n)
     \/ LeerLinea(n) \/ ResolverLinea(n) \/ FinQuantum(n)
     \/ Devolver(n) \/ DevolverPost(n) \/ FinEjecutar(n)
     \/ SacarDeEjecucion(n) \/ SacarFalla(n) \/ AgregarAExit(n)

Next ==
  \/ Consola
  \/ vivo /\ (Salir \/ RecargarConfiguracion \/ \E g \in Pedidos : Ingresar(g))
  \/ \E n \in Niveles : Ejecutar(n)

Fairness == WF_vars(Consola) /\ \A n \in Niveles : WF_vars(Ejecutar(n))

Spec == Init /\ [][Next]_vars /\ Fairness
-----------------------------------------------------------------------------
(* A PCB that was put in READY is in one place and once: in READY, in EXEC *)
(* in EXIT, or on the way between two of them with one level. It holds     *)
(* although ejecutar (line 901) goes on with a PCB that it gave back: the  *)
(* second of two levels that end it finds it in no queue, and crashes.     *)
EnUnaSolaCola ==
  \A g \in Pedidos :
    Cardinality({i \in 1..Len(listos) : listos[i] = g}) + ejecutando[g] + salidos[g]
      + Cardinality({n \in Niveles : pcb[n] = g /\ pc[n] \in {"agregar", "devolver", "cerrar"}})
    = IF estado[g] \in {"ninguno", "nuevo"} THEN 0 ELSE 1

(* A level that passed sem_planificador finds a PCB in READY:              *)
(* obtenerColaListos does not look whether the list is empty. The          *)
(* semaphore is one step behind the list, never ahead of it.               *)
HayListo ==
  Cardinality({n \in Niveles : pc[n] = "obtener"}) + semaforo <= Len(listos)

(* Of one script only one level is between two lines, whatever levels      *)
(* still have it in ejecutar; its file is open and no line was skipped or  *)
(* taken twice; and it has not failed.                                     *)
UnSoloLector ==
  \A n \in Niveles : pc[n] \in {"leer", "resolver"} =>
    LET g == pcb[n] IN
    /\ g \in Runs => archivo[g] = "abierto"
    /\ ~fallo[g] /\ estado[g] = "ejecucion"
    /\ leidas[g] = progamCounter[g] + IF pc[n] = "leer" THEN 0 ELSE 1
    /\ progamCounter[g] + faltan[n] <= rafaga[g]
    /\ \A m \in Niveles \ {n} : pcb[m] = g => pc[m] \in {"post", "fin"}

(* Every script whose file is there ends, unless the process does: it is   *)
(* not left in READY behind others, nor in EXEC without a level. A script  *)
(* without a file stays in EXEC for ever.                                  *)
TodoGuionTermina ==
  \A g \in Pedidos :
    (estado[g] = "nuevo" /\ rafaga[g] >= 0) ~> (estado[g] = "exit" \/ ~vivo)

-----------------------------------------------------------------------------
(* The scheduler implements Guiones: each script's lines in order, one at  *)
(* a time, within a turn, none after an error, and one end.                *)
Abstracto == INSTANCE Guiones WITH
  Turnos <- Cardinality(Niveles),
  ingresados <- {g \in Pedidos : estado[g] # "ninguno"},
  lineas <- rafaga,
  hechas <- progamCounter,
  fallidos <- {g \in Pedidos : fallo[g]},
  enTurno <- {g \in Pedidos : ejecutando[g] > 0},
  terminados <- {g \in Pedidos : salidos[g] > 0},
  caido <- ~vivo

GuionesSpec == Abstracto!Spec
====
