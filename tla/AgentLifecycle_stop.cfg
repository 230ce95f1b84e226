\* A test that starts up to two agents and then calls Stop.
CONSTANTS
  g1 = g1
  g2 = g2
  Agents <- MCAgents
SPECIFICATION FairSpec
INVARIANT TypeOK
PROPERTY StopReturnsUnlessBootstrapAbandoned
\* After Stop has returned nothing is left to run.
CHECK_DEADLOCK FALSE
