\* One exchange, with up to two values of each header; a session with three messages each
\* way through buffers of two, in which either peer may leave at any time.
SPECIFICATION MitmSpec
CONSTANTS
    Cap = 2
    MaxSent = 3
    Times = {1, 2}
    MaxValues = 2
INVARIANTS
    TypeOK
    Faithful
    NoCloseInUse
    SignedAsDelivered
PROPERTIES
    SessionEnds
