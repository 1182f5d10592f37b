SPECIFICATION Spec
CONSTANTS
    Requests = {r1, r2}
    Keys = {k1, k2}
    Contents = {c1, c2}
    Numeri = {n1, n2, n3}
    None = None
    Legacy = Legacy
    MaxFaults = 1
SYMMETRY Symmetry
INVARIANTS
    TypeOK
    AtMostOneActive
    ServedIsRegistered
    Idempotent
    ForceHasReplacement
PROPERTIES
    RegisterIsAppendOnly
    ImplementsRegistry
CHECK_DEADLOCK FALSE
