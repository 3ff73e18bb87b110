\* Two rounds of a code that lives for five ticks, no delays.
SPECIFICATION Spec
CONSTANTS
    Intervals = {2}
    Lifetimes = {5}
    MaxDelay = 0
    HttpTimeout = 1
    MaxOversleep = 0
INVARIANTS
    CompletionReturned
