SPECIFICATION Spec
CONSTANTS
    chat = chat
    responses = responses
    Slots = {chat, responses}
    Windows <- MCWindows
    Plan <- MCPlan
    Limit <- MCLimit
    LeastCheck <- MCLeastCheck
    Percentages = {50, 100}
    Usages = {1}
    MaxAmount = 1
    MaxSerial = 2
    MaxBreaks = 1
    MaxAhead = 0
INVARIANTS
    OvershootBounded
    ThresholdOnce
    ThresholdReported
    SpendAccounted
