\* Stop is called while an agent is inside agent.New: its bootstrap, on
\* the cancelled context, fails or never leaves the keyring Put loop.
CONSTANTS
  g1 = g1
  g2 = g2
  Agents <- MCAgents
SPECIFICATION FairSpec
PROPERTY StopTerminates
\* After Stop has returned nothing is left to run.
CHECK_DEADLOCK FALSE
