\* A member's request or a client's that is repeated, the sweep and two events.
CONSTANTS
    Actor = {a, b}
    System = sys
    Req = {1}
    Pen = {1}
    Caller = {a}
    Client = {1, 2}
    Spans = {1}
    Batch = 1
    MaxNow = 2
    MaxProgress = 1
    MaxEvent = 2
SPECIFICATION LiveSpec
INVARIANTS TerminalIsLast HonestDeadline AcceptedIsStored
PROPERTIES EveryRequestCloses OrphanCloses
CHECK_DEADLOCK FALSE
