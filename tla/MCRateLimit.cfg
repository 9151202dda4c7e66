SPECIFICATION Spec
CONSTANTS
    Addresses = {a1, a2, a3}
    Budget = 2
    Window = 2
    MaxTracked = 2
    MaxTime = 4
    MaxAttempts = 3
SYMMETRY Symmetric
INVARIANTS TypeOK GuessesBounded
PROPERTY RefusalDoesNotProlong
