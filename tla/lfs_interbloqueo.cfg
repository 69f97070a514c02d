CONSTANTS
    Tablas = {t1}
    Claves = {0}
    Particiones = 1
    Clientes = {c1, c2}
    Pedidos = {"INSERT", "DROP"}
    Iniciales = {t1}
    MaxTs = 1
    MaxDumps = 1
    MaxCaidas = 0
SPECIFICATION Spec
INVARIANT SinInterbloqueo
CHECK_DEADLOCK FALSE
