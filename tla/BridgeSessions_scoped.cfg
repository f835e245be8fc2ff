CONSTANTS
    s1 = s1
    s2 = s2
    Sessions <- TwoSessions
    ErrorsCap = 3
SPECIFICATION Spec
INVARIANTS SessionScoped
SYMMETRY Symmetry
CHECK_DEADLOCK FALSE
