SPECIFICATION Spec
CONSTANTS
  c1 = c1
  Clients = {c1}
INVARIANTS TypeOK FetchesJoined
PROPERTIES ShutdownCompletes ClientGoneReleases
