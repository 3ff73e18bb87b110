\* One unsolicited message fills the event channel before Close.
SPECIFICATION SafeSpec
CONSTANTS
    Calls = {c1}
    Sync = {c1}
    NoCall = NoCall
    EventCap = 1
    InCap = 1
    OutCap = 1
    SrvCap = 3
    MaxSurplus = 0
    MaxForeign = 0
    MaxPush = 1
    Pings = TRUE
    Duplicates = FALSE
    Faults = {}
INVARIANTS
    DisconnectDelivered
