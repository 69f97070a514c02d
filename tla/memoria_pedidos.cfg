CONSTANTS
    Tablas = {t1}
    Claves = {0, 1, 2}
    CantPaginas = 2
    Clientes = {c1, c2}
    Nadie = Nadie
    Pedidos = {"INSERT", "SELECT", "DROP", "JOURNAL"}
    Automatico = FALSE
    LfsFalla = TRUE
    MaxReloj = 3
    MaxPedidos = 3
SPECIFICATION Spec
INVARIANTS
    UnaPaginaPorClave
    SegmentosEnBitmap
PROPERTY TodoPedidoTermina
CHECK_DEADLOCK FALSE
