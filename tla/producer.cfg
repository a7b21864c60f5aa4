SPECIFICATION Spec
CONSTANTS
    c1 = c1
    c2 = c2
    Callers = {c1, c2}
    N = 3
    Retries = 1
    Unserializable <- Second
    MaxFaults = 2
SYMMETRY Symmetry
INVARIANTS EmitIsHonest InOrder
