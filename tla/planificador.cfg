\* Two levels, two scripts and a request; files of up to two lines, or missing
SPECIFICATION Spec
CONSTANTS
  n1 = n1
  n2 = n2
  r1 = r1
  r2 = r2
  u1 = u1
  Pedidos = {r1, r2, u1}
  Runs = {r1, r2}
  Niveles = {n1, n2}
  Nadie = Nadie
  MaxRafaga = 2
  MaxQuantum = 2
INVARIANTS
  TypeOK
  EnUnaSolaCola
  HayListo
  UnSoloLector
PROPERTIES
  TodoGuionTermina
  GuionesSpec
CHECK_DEADLOCK FALSE
