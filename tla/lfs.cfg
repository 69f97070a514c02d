CONSTANTS
    Tablas = {t1}
    Claves = {1}
    Particiones = 2
    Clientes = {c1, c2}
    Pedidos = {"INSERT", "SELECT"}
    Iniciales = {t1}
    MaxTs = 1
    MaxDumps = 2
    MaxCaidas = 0
SPECIFICATION Spec
INVARIANTS
    TypeOK
PROPERTIES
    TodoPedidoTermina
    TmpSeCompacta
