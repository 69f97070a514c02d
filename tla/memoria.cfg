CONSTANTS
    Tablas = {t1}
    Claves = {0, 1}
    CantPaginas = 1
    Clientes = {c1, c2}
    Nadie = Nadie
    Pedidos = {"INSERT", "SELECT", "DROP"}
    Automatico = TRUE
    LfsFalla = FALSE
    MaxReloj = 3
    MaxPedidos = 3
SPECIFICATION Spec
SYMMETRY SimetriaClientes
INVARIANTS
    TypeOK
    HayMarcoParaCrear
    SelectAlDia
    HiloVigente
PROPERTY AlmacenSpec
CHECK_DEADLOCK FALSE
