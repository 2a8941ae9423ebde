\* The server and ssize-admin on an empty database, a gap in the numbers, a
\* stray file without one, a failing statement and a kill; then a request
\* and two signals at any moment of the server's life.
CONSTANTS
  Procs = {server, admin}
  Server = server
  Versions = {1, 3}
  Stray = {0}
  None = None
  MaxFailures = 1
  MaxCrashes = 1
  Requests = {r1}
  MaxSignals = 2
SPECIFICATION Spec
INVARIANTS TypeOK SchemaMatchesVersion ReadyBeforeTraffic ThreadsJoined CleanExitKeepsEvents
PROPERTIES VersionOnlyAdvances AllGetThrough ShutdownCompletes
CHECK_DEADLOCK FALSE
