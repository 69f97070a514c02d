\* Two memories that run, one that does not, and the Kernel; a memory may end at any point of a round, and start again
SPECIFICATION Spec
CONSTANTS
  m1 = m1
  m2 = m2
  m3 = m3
  Memorias = {m1, m2, m3}
  Kernel = Kernel
  Apagadas = {m3}
  Configuraciones <- ConfiguracionesMC
INVARIANTS
  TypeOK
  KernelSinRepetidas
PROPERTIES
  CaidaSeNota
  SeConocenTodas
