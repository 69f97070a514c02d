---- MODULE MCCriterios ----
EXTENDS Criterios

CONSTANTS m1, m2, t1, e1
====
