\* One request whose response nobody receives, every way the wire may fail, a server that
\* may answer again and again: the reader can block on the full response channel. The
\* ping loop and the three closers are around it; the server may send a pong too many,
\* and the way out has room for the request, two pings and the close frame.
SPECIFICATION Spec
CONSTANTS
    Calls = {c1}
    Sync = {}
    NoCall = NoCall
    EventCap = 1
    InCap = 1
    OutCap = 4
    SrvCap = 3
    MaxSurplus = 1
    MaxForeign = 0
    MaxPush = 0
    Pings = TRUE
    Duplicates = TRUE
    Faults = {"dead", "broken"}
INVARIANTS
    TimerStopped
    PongFresh
    OneDisconnect
PROPERTIES
    DeadPeerDetected
    GoroutinesStop
    KeepsPromise
