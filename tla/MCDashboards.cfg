SPECIFICATION UsageSpec
CONSTANTS
    Routes = {"a", "b"}
    Keys = {1, 2}
    Groups = {11, 12}
    Arrivals <- MCArrivals
    Removable = {2}
    NameOf <- MCNameOf
    Served <- MCServed
    Times <- MCTimes
    Now = 39
    Offsets <- MCOffsets
    Lengths <- MCLengths
    MonthStarts <- MCMonthStarts
    Spans <- MCSpans
    MaxRows = 3
    MaxBuckets = 6
INVARIANTS
    TotalsAgree
    ChartsAddUp
    
    
CHECK_DEADLOCK FALSE
