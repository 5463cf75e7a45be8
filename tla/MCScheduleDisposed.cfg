\* A disposed timer and the log, across a restart.
CONSTANTS
    Author = {a}
    TimerId = {1}
    MaxPending = 1
    MaxDead = 1
    DuePerAuthor = 1
    Homes = {"durable"}
    Poison = {}
    MaxMem = 1
    Backoff = 1
    FireAt <- Deadlines
    Horizon = 2
    MaxFaults = 0
    MaxStops = 1
SPECIFICATION Spec
INVARIANTS
    DisposedNeverRang
