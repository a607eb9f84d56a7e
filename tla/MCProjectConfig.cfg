SPECIFICATION Spec
CONSTANTS
    A = A
    B = B
    f1 = f1
    f2 = f2
    a = a
    b = b
    None = None
    Slots = {A, B}
    Files = {f1, f2}
    Names = {a, b}
    RoutesOf <- MCRoutesOf
    Contents <- MCContents
    Budgeted = {f2}
    Slow = {f1}
    Replicas = {r1, r2}
    Calls = {q1, q2}
    MaxCalls = 3
    MaxCrashes = 1
SYMMETRY Interchangeable
CHECK_DEADLOCK FALSE
INVARIANTS
    ReferenceAgrees
    ServedAsApproved
    RoutesFollowServed
    BudgetExclusive
