\* A reliable token store that never expires tokens, no agent crash, and a
\* gateway store that may fail once a request has created the cluster:
\* an agent is wedged.
CONSTANTS
  a1 = a1
  a2 = a2
  t1 = t1
  None = None
  Agents <- MCAgents
  Tokens <- MCTokens
  AgentToken <- MCAgentToken
  MaxRequests = 2
  MaxCrashes = 0
  ExclusiveCreate = TRUE
  GatewayStoreMayFail = TRUE
  AgentStoreMayFail = FALSE
  TokensMayExpire = FALSE
SPECIFICATION Spec
SYMMETRY MCSymmetry
INVARIANT NoWedgedAgent
\* The model stops once its bound on requests is used up and every
\* agent is Ready or waiting to join: the agent process then idles.
CHECK_DEADLOCK FALSE
