\* A task started with Go after Wait has returned.
CONSTANTS
  k1 = k1
  k2 = k2
  k3 = k3
  Tasks <- MCTasks
  NotifyAfter = TRUE
SPECIFICATION Spec
PROPERTY AddHappensBeforeWait
\* Once every task has returned and Wait's goroutines have exited nothing
\* is left to run: the process is shutting down.
CHECK_DEADLOCK FALSE
