\* One fire-and-forget request on a sound wire, its context may be done at any time.
SPECIFICATION SafeSpec
CONSTANTS
    Calls = {c1}
    Sync = {}
    NoCall = NoCall
    EventCap = 1
    InCap = 1
    OutCap = 1
    SrvCap = 3
    MaxSurplus = 0
    MaxForeign = 0
    MaxPush = 0
    Pings = TRUE
    Duplicates = FALSE
    Faults = {}
INVARIANTS
    NoSendOnClosed
