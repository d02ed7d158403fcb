SPECIFICATION Spec
CONSTANTS
    r1 = r1
    r2 = r2
    r3 = r3
    r4 = r4
    Requests = {r1, r2, r3, r4}
    s1 = s1
    s2 = s2
    Students = {s1, s2}
    MaxCapacity = 2
    Workers = 2
SYMMETRY Symmetry
INVARIANTS OverbookingBounded DuplicatesBounded
CHECK_DEADLOCK FALSE
