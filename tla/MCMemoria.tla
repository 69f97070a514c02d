------------------------------ MODULE MCMemoria ------------------------------
(* Memoria for TLC. *)
EXTENDS Memoria, TLC

\* Clients differ only in their name.
SimetriaClientes == Permutations(Clientes)
=============================================================================
