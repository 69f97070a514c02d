------------------------- MODULE ConjuntosDeRegistros -------------------------
(***************************************************************************)
(* Sets of records, and what the readers and writers of the file system do *)
(* with them. A record is [key, ts]: its value travels with the timestamp  *)
(* and is left out, so two records of one key with one timestamp are one.  *)
(***************************************************************************)
EXTENDS Naturals

\* obtenerRegistroMayor and the readers of files: m is the greatest timestamp
\* S has for the key, 0 when it has none (armarRegistroNulo).
EsUltimo(m, S, k) ==
    \/ m = 0 /\ \A r \in S : r.key # k
    \/ /\ \E r \in S : r.key = k /\ r.ts = m
       /\ \A r \in S : r.key = k => r.ts <= m

\* Every record of S is in D, or D has a newer one of its key.
Domina(D, S) == \A r \in S : \E d \in D : d.key = r.key /\ d.ts >= r.ts

FusionTodo(S) == S
\* incorporarRegistro over all of S: of every key the newest record stays.
Fusion(S) == {r \in S : \A s \in S : s.key = r.key => s.ts <= r.ts}

\* determinarParticion.
ParticionDe(k, n) == k % n
=============================================================================
