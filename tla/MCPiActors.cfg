CONSTANTS
    Bridge = {1, 2}
    Req = {1, 2}
    Call <- MCCall
    Oversize = {}
    FrameCap = 1
    Status = {0, 401, 429, 500}
    Verdict = {"result", "retryable"}
    NoBridge = NoBridge
    Launch = Launch
    Kinds = {"idle", "eager", "llm"}
    MaxConcurrency = 2
    QueueCapacity = 1
    MaxRetries = 1
    MaxEvent <- MCMaxEvent
SPECIFICATION LiveSpec
INVARIANTS EnvIsOwn BridgesAreHeld RepliesAreHonest
PROPERTIES CallsKeepContract CallReturns ActorEnds
CHECK_DEADLOCK FALSE
