\* Two records with values of at most three bytes, in blocks of three, four and seven
SPECIFICATION Spec
CONSTANTS
  Keys = {1, 2}
  Timestamps = {1, 2}
  BlockSizes = {3, 4, 7}
  TamTimestamp = 2
  TamKey = 1
  TamanioValue = 3
  Todas = Todas
  MaxRegistros = 2
INVARIANTS
  TypeOK
PROPERTIES
  LeeHastaElCorte
CHECK_DEADLOCK FALSE
