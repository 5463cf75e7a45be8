\* Progress in flight while the reaper writes.
CONSTANTS
    Actor = {a, b}
    System = sys
    Req = {1}
    Pen = {1, 2}
    Caller = {a}
    Client = {}
    Spans = {1}
    Batch = 1
    MaxNow = 2
    MaxProgress = 1
    MaxEvent = 0
SPECIFICATION Spec
INVARIANT SlidingDeadline
CHECK_DEADLOCK FALSE
