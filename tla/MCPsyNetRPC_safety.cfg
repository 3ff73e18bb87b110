\* Two synchronous calls over a wire that may be reset, before the first ping is due;
\* room for one message to the server, so that writes block with p.mu held, and for
\* two answers; an unsolicited message.
SPECIFICATION SafeSpec
CONSTANTS
    Calls = {c1, c2}
    Sync = {c1, c2}
    NoCall = NoCall
    EventCap = 1
    InCap = 2
    OutCap = 1
    SrvCap = 3
    MaxSurplus = 0
    MaxForeign = 0
    MaxPush = 1
    Pings = FALSE
    Duplicates = FALSE
    Faults = {"broken"}
SYMMETRY CallSymmetry
INVARIANTS
    TypeOK
    ClosedMeansDrained
    NoDoubleClose
    ResponseMatch
    NoLostWaiter
    EventsUnclaimed
    PanicCause
    IInv
PROPERTIES
    EntryKept
    KeepsPromise
