\* Lifetimes below, at, between and above multiples of the interval; an interval
\* that was left out; polls that take up to an interval.
SPECIFICATION Spec
CONSTANTS
    Intervals = {0, 1, 2, 3}
    Lifetimes = {0, 1, 2, 4, 5, 6}
    MaxDelay = 2
    HttpTimeout = 3
    MaxOversleep = 1
INVARIANTS
    TypeOK
    OutcomeHonest
    GivesUpLate
PROPERTIES
    PollSpacing
    WaitEnds
