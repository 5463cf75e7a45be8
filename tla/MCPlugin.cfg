SPECIFICATION LiveSpec
CONSTANTS
    Seat = {"s", "t", "u"}
    Addr = {"A", "B"}
    Dev = {1, 2, 3}
    Conn = {1, 2}
    Call = {"k"}
    Verdict = {"ok"}
    None = None
    Route = "A"
    Scene <- MCScene
INVARIANTS RegistryIsTrue OneLive InOrder
PROPERTIES CallsKeepContract NobodyWaits WayIsLive
CHECK_DEADLOCK FALSE
