SPECIFICATION FairSpec
CONSTANTS
    Items = {i1, i2, i3}
    Adders = {a1, a2}
    Timers = {t1, t2}
    main = main
    BatchSize = 2
    NoTimer = NoTimer
INVARIANTS
    Conservation
PROPERTIES
    LossCauses
    EventuallySent
    DeliverySpec
