\* A human, agents of a declaration that is edited, and a peer.
SPECIFICATION LiveSpec
CONSTANTS
  Id = {1, 2}
  Principal = {"human"}
  Decl = {"agent", "peer"}
  Def = {1, 2, 3}
  Origin <- MCOrigin
  PeerDef = {3}
  ServerDef = {1, 3}
  Domain = {"server", "device"}
  Server = "server"
  MaxCalls = 1
  MaxBody = 1
  MaxEvent = 3
CHECK_DEADLOCK FALSE
INVARIANTS SeatsAreTrue KeyFixesBody
PROPERTIES StaleIsFinal SealedIsQuiet DeclarationsConverge
