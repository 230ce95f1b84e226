\* Tasks started before and after Wait(ctx, d), with the warning loop.
CONSTANTS
  k1 = k1
  k2 = k2
  k3 = k3
  Tasks <- MCTasks
  NotifyAfter = TRUE
SPECIFICATION FairSpec
INVARIANT TypeOK
PROPERTY NotifierTerminates
\* Once every task has returned and Wait's goroutines have exited nothing
\* is left to run: the process is shutting down.
CHECK_DEADLOCK FALSE
