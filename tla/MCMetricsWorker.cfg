SPECIFICATION FairSpec
CONSTANTS
    m1 = m1
    m2 = m2
    r1 = r1
    r2 = r2
    r3 = r3
    bad = bad
    Messages <- MCMessages
    RowsOf <- MCRowsOf
    Invalid = {bad}
    MaxBatch = 2
    MaxRetries = 1
    MaxCrashes = 1
    None = None
INVARIANTS
    
    CopiesBounded
    DeadlockCauses

    
CHECK_DEADLOCK FALSE
