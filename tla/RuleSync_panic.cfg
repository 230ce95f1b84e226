\* Cancellation while updates are in flight: send on a closed channel.
CONSTANTS
  None = None
  MaxSnapshots = 2
  NumGroups = 1
  SlowDiscovery = TRUE
  AllowCancel = TRUE
SPECIFICATION Spec
INVARIANT NoPanic
\* The model stops once its bound on snapshots is used up and every
\* goroutine is blocked or gone: the agent then waits for rule changes.
CHECK_DEADLOCK FALSE
