\* Two rows of any kind, queues of one, two events.
CONSTANTS
    MaxRows = 2
    Kinds = {"request", "describe", "event"}
    ReadBatch = 1
    MailboxCap = 1
    QueueCap = 1
    MaxEvent = 2
SPECIFICATION LiveSpec
INVARIANTS AccountHasHolder HonestOverload
PROPERTIES NothingSilentlyLost StopEnds
CHECK_DEADLOCK FALSE
