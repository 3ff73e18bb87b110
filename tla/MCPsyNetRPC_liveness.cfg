\* One synchronous call and another user of the id counter; the buffers to the server
\* hold everything the client can have in transit, so that no write blocks for ever.
SPECIFICATION Spec
CONSTANTS
    Calls = {c1}
    Sync = {c1}
    NoCall = NoCall
    EventCap = 1
    InCap = 1
    OutCap = 3
    SrvCap = 3
    MaxSurplus = 0
    MaxForeign = 1
    MaxPush = 0
    Pings = TRUE
    Duplicates = FALSE
    Faults = {"dead", "broken"}
PROPERTIES
    CallCompletes
    EntryReclaimed
