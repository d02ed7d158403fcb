SPECIFICATION Spec
CONSTANTS
    Requests = {r1, r2, r3}
    Gradings = {g1}
    Students = {s1, s2}
    Marks = {0, 1}
    Workers = 2
INVARIANTS MixedOnlyIfMet RowsBounded
CHECK_DEADLOCK FALSE
