\* Two callers that sign in, in every combination of programs, either of which may run again
\* and a token more than they need; every way the calls of allrequests may go; an item
\* shop that changes twice.
SPECIFICATION ProgramSpec
CONSTANTS
    Callers = {p1, p2}
    p1 = p1
    p2 = p2
    Casts <- MCCasts
    Versions = {v1, v2}
    Default = v1
    MaxTokens = 3
    MaxRuns = 1
    MaxSets = 2
    MaxChanges = 2
    MaxNulls = 2
    MaxAlarms = 9
INVARIANTS
    ProgramsTypeOK
    SavedTokenLives
    OneVersion
    LeftoverExplained
    ExecutesAll
    AlarmsExplained
PROPERTIES
    OnlyPeersDelay
