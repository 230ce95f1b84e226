\* Stop called while the startCortex goroutine has not yet run.
CONSTANTS
  g1 = g1
  g2 = g2
  Agents <- MCAgents
SPECIFICATION Spec
SYMMETRY MCSymmetry
INVARIANT StopJoinsCortex
\* After Stop has returned nothing is left to run.
CHECK_DEADLOCK FALSE
