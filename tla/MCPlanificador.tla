---- MODULE MCPlanificador ----
EXTENDS Planificador

CONSTANTS n1, n2, r1, r2, u1
====
