CONSTANTS
    Tablas = {t1}
    Claves = {0, 1}
    Particiones = 2
    Clientes = {c1}
    Pedidos = {"INSERT", "SELECT"}
    Iniciales = {t1}
    MaxTs = 2
    MaxDumps = 2
    MaxCaidas = 0
SPECIFICATION Spec
INVARIANTS
    BinBienFormado
    SelectCompletoSinDump
PROPERTIES
    AlmacenSpec
    TemporalesNoSePisan
