SPECIFICATION LiveSpec
CONSTANTS
    Word = {"a", "b"}
    MaxConcurrency = 2
    Program <- MCDeadline

INVARIANTS InFlightIsTracked
CHECK_DEADLOCK FALSE
