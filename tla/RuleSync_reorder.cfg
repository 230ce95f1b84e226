\* Snapshots arriving while the main loop is blocked: spawned goroutines race.
CONSTANTS
  None = None
  MaxSnapshots = 3
  NumGroups = 1
  SlowDiscovery = FALSE
  AllowCancel = FALSE
SPECIFICATION Spec
INVARIANT BatchesInOrder
\* The model stops once its bound on snapshots is used up and every
\* goroutine is blocked or gone: the agent then waits for rule changes.
CHECK_DEADLOCK FALSE
