CONSTANTS
    Tablas = {t1}
    Claves = {0}
    Particiones = 1
    Clientes = {c1, c2}
    Pedidos = {"INSERT", "SELECT", "CREATE", "DROP"}
    Iniciales = {t1}
    MaxTs = 2
    MaxDumps = 1
    MaxCaidas = 1
SPECIFICATION Spec
SYMMETRY SimetriaClientes
INVARIANTS
    InsertadasAlDia
    ParticionesCompletas
    BajaBorraTodo
PROPERTIES
    BajaNoCortaCompactacion
    AlmacenSpec
CHECK_DEADLOCK FALSE
