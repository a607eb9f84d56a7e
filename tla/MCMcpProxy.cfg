SPECIFICATION Spec
CONSTANTS
    a = a
    b = b
    wide = wide
    narrow = narrow
    shut = shut
    moved = moved
    None = None
    Servers = {a, b}
    Tools = {t}
    Calls <- MCCalls
    Configs = {wide, narrow, shut, moved}
    Uses <- MCUses
    Allows <- MCAllows
    Forwarding = {moved}
    Clients = {x, y}
    MaxInFlight = 2
    Ttl = 1
    Timeout = 1
    MaxMessages = 2
    MaxServes = 1
    MaxTime = 3
CHECK_DEADLOCK FALSE
INVARIANTS
    ListsWhole
PROPERTIES
    MessagesAnswered
