\* All the records of the file, wherever a block cuts a value
SPECIFICATION Spec
CONSTANTS
  Keys = {1, 2}
  Timestamps = {1, 2}
  BlockSizes = {3, 4, 7}
  TamTimestamp = 2
  TamKey = 1
  TamanioValue = 3
  Todas = Todas
  MaxRegistros = 2
INVARIANT
  LeeTodos
CHECK_DEADLOCK FALSE
