------------------------------- MODULE Almacen -------------------------------
(***************************************************************************)
(* What a process promises about the records of a table: the file system,  *)
(* whatever the memtable, the dump and the compaction do with them, and a  *)
(* memory, whatever it replaces, fills and journals. A record that was     *)
(* inserted in a table that exists is only forgotten when a newer one of   *)
(* its key is there, or a DROP of its table is in progress, or the process *)
(* has ended; and a record nobody inserted never appears.                  *)
(***************************************************************************)
EXTENDS ConjuntosDeRegistros

CONSTANTS
    Tablas,     \* names of tables
    Registros   \* records

VARIABLES
    reg,     \* reg[t]: the records of t that can still be found
    deBaja,  \* tables that do not exist, that a DROP is deleting, or whose
             \* memtable still has records of the table that was deleted
    sano     \* the process has not ended since it first started

vars == <<reg, deBaja, sano>>

Init ==
    /\ reg \in [Tablas -> SUBSET Registros]
    /\ deBaja \in SUBSET Tablas
    /\ sano = TRUE

\* The record may take the place of older ones of its key.
Insertar(t, r) ==
    /\ UNCHANGED <<deBaja, sano>>
    /\ r \in reg'[t]
    /\ reg'[t] \subseteq reg[t] \cup {r}
    /\ Domina(reg'[t], reg[t])
    /\ reg' = [reg EXCEPT ![t] = reg'[t]]

DarDeBaja(t) ==
    /\ deBaja' = deBaja \cup {t}
    /\ UNCHANGED <<reg, sano>>

\* Dump, compaction, DROP and CREATE: of a table that is not being deleted a
\* record may go only when a newer one of its key stays.
Depurar ==
    /\ reg' \in [Tablas -> SUBSET Registros]
    /\ \A t \in Tablas :
          /\ reg'[t] \subseteq reg[t]
          /\ t \notin deBaja => Domina(reg'[t], reg[t])
    /\ deBaja' \in SUBSET deBaja
    /\ UNCHANGED sano

\* Nothing is promised of what was in memory, nor of how the next process
\* reads what it finds: it may forget, and still not invent.
Olvidar ==
    /\ sano' = FALSE
    /\ reg' \in [Tablas -> SUBSET Registros]
    /\ \A t \in Tablas : reg'[t] \subseteq reg[t]
    /\ deBaja' \in SUBSET Tablas

Next ==
    \/ \E t \in Tablas, r \in Registros : Insertar(t, r)
    \/ \E t \in Tablas : DarDeBaja(t)
    \/ Depurar
    \/ Olvidar

Spec == Init /\ [][Next]_vars
=============================================================================
