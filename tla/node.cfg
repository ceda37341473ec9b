SPECIFICATION NodeSpec
CONSTANTS
    Receiver = receiver
    Registrar = registrar
    Callers = {receiver, registrar}
    Sockets = {receiver}
    PoolLen = 2
    Span = 3
    MaxConns = 1
INVARIANTS
    EveryCoordinatorAsked
    PermitsConserved
PROPERTIES
    StaysInTouch
    DrainsOnCancel
