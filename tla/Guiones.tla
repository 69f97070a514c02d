---- MODULE Guiones ----
(***************************************************************************)
(* What the Kernel promises of the scripts (LQL files and single requests) *)
(* that are entered at its console: the lines of a script are executed in  *)
(* order and one at a time, only while the script has a turn, no line      *)
(* after one that failed, and a script ends once, after its last line or   *)
(* its first error. Planificador implements it.                            *)
(***************************************************************************)
EXTENDS Integers, FiniteSets

CONSTANTS Pedidos,    \* the scripts
          Turnos      \* how many may have a turn at a time

VARIABLES ingresados, \* the scripts that were entered
          lineas,     \* how many lines each has (-1: no file)
          hechas,     \* how many were executed
          fallidos,   \* the scripts with a line that failed
          enTurno,    \* the scripts that have a turn
          terminados, \* the scripts that ended
          caido       \* the process ended

vars == <<ingresados, lineas, hechas, fallidos, enTurno, terminados, caido>>

Init == /\ ingresados = {}
        /\ lineas = [g \in Pedidos |-> 0]
        /\ hechas = [g \in Pedidos |-> 0]
        /\ fallidos = {} /\ enTurno = {} /\ terminados = {}
        /\ caido = FALSE

Ingresar(g) ==
  /\ g \notin ingresados
  /\ ingresados' = ingresados \cup {g}
  /\ lineas' = [lineas EXCEPT ![g] = lineas'[g]]
  /\ UNCHANGED <<hechas, fallidos, enTurno, terminados, caido>>

DarTurno(g) ==
  /\ g \in ingresados \ (enTurno \cup terminados)
  /\ g \notin fallidos
  /\ hechas[g] < lineas[g] \/ lineas[g] <= 0
  /\ enTurno' = enTurno \cup {g}
  /\ Cardinality({h \in enTurno' : lineas[h] # -1}) <= Turnos
  /\ UNCHANGED <<ingresados, lineas, hechas, fallidos, terminados, caido>>

EjecutarLinea(g) ==
  /\ g \in enTurno \ fallidos
  /\ hechas[g] < lineas[g]
  /\ hechas' = [hechas EXCEPT ![g] = @ + 1]
  /\ fallidos' \in {fallidos, fallidos \cup {g}}
  /\ UNCHANGED <<ingresados, lineas, enTurno, terminados, caido>>

QuitarTurno(g) ==
  /\ g \in enTurno
  /\ enTurno' = enTurno \ {g}
  /\ UNCHANGED <<ingresados, lineas, hechas, fallidos, terminados, caido>>

Terminar(g) ==
  /\ g \in ingresados \ (enTurno \cup terminados)
  /\ g \in fallidos \/ hechas[g] = lineas[g]
  /\ terminados' = terminados \cup {g}
  /\ UNCHANGED <<ingresados, lineas, hechas, fallidos, enTurno, caido>>

Caer == /\ ~caido /\ caido' = TRUE
        /\ UNCHANGED <<ingresados, lineas, hechas, fallidos, enTurno, terminados>>

Next ==
  \/ ~caido /\ \E g \in Pedidos : \/ Ingresar(g) \/ DarTurno(g) \/ EjecutarLinea(g)
                                  \/ QuitarTurno(g) \/ Terminar(g)
  \/ Caer

Spec == Init /\ [][Next]_vars
====
