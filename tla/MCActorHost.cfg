\* One actor as body and carrier: a crash with a connection, or two connections.
CONSTANTS
    Actor = {1}
    Kinds = {"body", "carrier"}
    MaxKey = 2
    Unit = {1, 2, 3}
    Binding = {1, 2}
    MaxCrash = 1
    MaxEvent = 2
    MayClose = TRUE
SPECIFICATION LiveSpec
INVARIANTS StatesAreExact RoutesAreTrue EndpointIsNewest CleanCloseIsQuiet
PROPERTIES StaleIsFinal Converges
CHECK_DEADLOCK FALSE
