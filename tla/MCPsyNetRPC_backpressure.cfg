\* One call and the ping, with room for one message to the server, which may stop
\* reading: everything can come to wait for the one that writes.
SPECIFICATION Spec
CONSTANTS
    Calls = {c1}
    Sync = {c1}
    NoCall = NoCall
    EventCap = 1
    InCap = 1
    OutCap = 1
    SrvCap = 3
    MaxSurplus = 0
    MaxForeign = 0
    MaxPush = 0
    Pings = TRUE
    Duplicates = FALSE
    Faults = {}
CHECK_DEADLOCK FALSE
PROPERTIES
    CallCompletes
