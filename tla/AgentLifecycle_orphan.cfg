\* Shutdown racing the ListenAndServe goroutine.
CONSTANTS
  g1 = g1
  g2 = g2
  Agents <- MCAgents
SPECIFICATION FairSpec
PROPERTY AgentServerStops
\* After Stop has returned nothing is left to run.
CHECK_DEADLOCK FALSE
