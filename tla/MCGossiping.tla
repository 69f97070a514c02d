---- MODULE MCGossiping ----
EXTENDS Gossiping, TLC

CONSTANTS m1, m2, m3

\* the other memory names m1; in the second, m1 names m3, that is never started
ConfiguracionesMC ==
  {[semillas |-> Kernel :> <<m1>> @@ m1 :> << >> @@ m2 :> <<m1>> @@ m3 :> << >>, maxCaidas |-> 1],
   [semillas |-> Kernel :> <<m1>> @@ m1 :> <<m3>> @@ m2 :> <<m1>> @@ m3 :> << >>, maxCaidas |-> 0]}
====
