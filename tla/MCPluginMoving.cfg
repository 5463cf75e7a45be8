SPECIFICATION Spec
CONSTANTS
    Seat = {"s", "t", "u"}
    Addr = {"A", "B"}
    Dev = {1, 2, 3}
    Conn = {1, 2}
    Call = {"k"}
    Verdict = {"ok"}
    None = None
    Route = "A"
    Scene <- MCMoving
INVARIANT HeldIsServing
CHECK_DEADLOCK FALSE
