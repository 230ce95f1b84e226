\* Stop called while StartAgent, startCortex and ListenAndServe goroutines run.
CONSTANTS
  g1 = g1
  g2 = g2
  Agents <- MCAgents
SPECIFICATION Spec
SYMMETRY MCSymmetry
INVARIANT StopJoinsAll
\* After Stop has returned nothing is left to run.
CHECK_DEADLOCK FALSE
