\* One author, two timers in either home, the second always refused by the harness:
\* a fault, a crash or a close, quotas of one.
CONSTANTS
    Author = {a}
    TimerId = {1, 2}
    MaxPending = 1
    MaxDead = 1
    DuePerAuthor = 1
    Homes = {"durable", "memory"}
    Poison = {2}
    MaxMem = 1
    Backoff = 1
    FireAt <- Deadlines
    Horizon = 2
    MaxFaults = 1
    MaxStops = 1
SPECIFICATION FairSpec
INVARIANTS FireAtMostOnce ParkCoversTimers
PROPERTIES SilencedStaysSilent PendingResolves
