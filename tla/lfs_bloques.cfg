\* Two tables of a partition, three blocks and two bytes: the dump, two compactions and a client at once
SPECIFICATION Spec
CONSTANTS
  t1 = t1
  t2 = t2
  Tablas = {t1, t2}
  Dump = Dump
  Cliente = Cliente
  Nadie = Nadie
  Blocks = 3
  BitsPorByte = 2
  Particiones = 1
  MaxTam = 2
  MaxDumps = 2
  MaxBajas = 1
INVARIANTS
  TypeOK
  ContenidoIntacto
  MarcasDeArchivos
PROPERTIES
  CompactacionTermina
CHECK_DEADLOCK FALSE
