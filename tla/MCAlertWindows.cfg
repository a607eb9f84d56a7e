SPECIFICATION FairSpec
CONSTANTS
    WindowRules = {tumbling}
    LimitRules = {limit}
    Dispatchers = {d1, d2}
    Schedulers = {s1, s2}
    MaxTime = 1
    MaxEvents = 2
    MaxFailures = 1
INVARIANTS
    AlertOnce
    AlertCountsEvents
PROPERTIES
    WindowAlerted
