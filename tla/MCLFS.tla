------------------------------- MODULE MCLFS -------------------------------
(* LFS for TLC. *)
EXTENDS LFS, TLC

\* Clients differ only in their name. Tables and keys are not permuted: the
\* request of an idle client is a fixed one (PedidoNulo).
SimetriaClientes == Permutations(Clientes)
=============================================================================
