SPECIFICATION Spec
CONSTANTS
    r1 = r1
    r2 = r2
    u = u
    v = v
    Readers = {r1, r2}
    Deps = {1, 2}
    Unis = {u, v}
    School = {1}
    Ttl = 1
    MaxEvents = 1
SYMMETRY Symmetry
INVARIANTS AnswersExact EveryKeyHasTtl
