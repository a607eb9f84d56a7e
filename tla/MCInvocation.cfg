SPECIFICATION Spec
CONSTANTS
    p = p
    f = f
    g = g
    None = None
    Chain <- MCChain
    Native = {p, g}
    Whisper = {f}
    Deltas = {f}
    Unmetered = {g}
    ToolCallers = {f}
    Length = 2
    Requests = {q1, q2}
SYMMETRY Interchangeable
CHECK_DEADLOCK FALSE
INVARIANTS
    AccountsAgree
    CacheWhole
PROPERTIES
    ReplySpec
