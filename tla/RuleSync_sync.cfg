\* Snapshots come one at a time, as the discovery notifier produces them;
\* the agent context may be cancelled at any point.
CONSTANTS
  None = None
  MaxSnapshots = 4
  NumGroups = 2
  SlowDiscovery = TRUE
  AllowCancel = TRUE
SPECIFICATION FairSpec
INVARIANT TypeOK
INVARIANT BatchesInOrder
PROPERTY LatestDelivered
PROPERTY SenderStopsOnCancel
\* The model stops once its bound on snapshots is used up and every
\* goroutine is blocked or gone: the agent then waits for rule changes.
CHECK_DEADLOCK FALSE
