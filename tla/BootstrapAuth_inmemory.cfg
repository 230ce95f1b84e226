\* In-memory ClusterStore (CreateCluster overwrites) and one agent crash:
\* two requests for one clientID are both admitted.
CONSTANTS
  a1 = a1
  a2 = a2
  t1 = t1
  None = None
  Agents <- MCAgents
  Tokens <- MCTokens
  AgentToken <- MCAgentToken
  MaxRequests = 2
  MaxCrashes = 1
  ExclusiveCreate = FALSE
  GatewayStoreMayFail = FALSE
  AgentStoreMayFail = FALSE
  TokensMayExpire = FALSE
SPECIFICATION Spec
SYMMETRY MCSymmetry
INVARIANT AtMostOneAdmission
\* The model stops once its bound on requests is used up and every
\* agent is Ready or waiting to join: the agent process then idles.
CHECK_DEADLOCK FALSE
