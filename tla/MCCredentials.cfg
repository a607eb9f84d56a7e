SPECIFICATION Spec
CONSTANTS
    None = None
    Groups = {g1, g2}
    Bound = {g1}
    Maxima = {m1, m2}
    GracePeriods = {1, 2}
    Expiry = 2
    Calls = {q1, q2}
    MaxCalls = 4
    MaxTime = 3
SYMMETRY Interchangeable
CHECK_DEADLOCK FALSE
INVARIANTS
    PromiseKept
    AdmittedRightly
PROPERTIES
    ToldIsDone
