\* Two memories, a table, two keys, one executor beside the console and the metadata's thread
SPECIFICATION Spec
CONSTANTS
  m1 = m1
  m2 = m2
  t1 = t1
  e1 = e1
  Memorias = {m1, m2}
  Tablas = {t1}
  Keys = {0, 1}
  Consola = Consola
  Refresco = Refresco
  Ejecutores = {e1}
  Nadie = Nadie
  Previos = {"no", "SHC"}
  MaxAltas = 2
  MaxPedidos = 2
  MaxCaidas = 1
INVARIANTS
  TypeOK
  CriterioAsociada
  SHCConJournal
  CargaAcotada
CHECK_DEADLOCK FALSE
