\* Exclusive CreateCluster, gateway and agent store failures, token expiry
\* and one agent crash: the safety of the admission protocol.
CONSTANTS
  a1 = a1
  a2 = a2
  t1 = t1
  None = None
  Agents <- MCAgents
  Tokens <- MCTokens
  AgentToken <- MCAgentToken
  MaxRequests = 4
  MaxCrashes = 2
  ExclusiveCreate = TRUE
  GatewayStoreMayFail = TRUE
  AgentStoreMayFail = TRUE
  TokensMayExpire = TRUE
SPECIFICATION Spec
SYMMETRY MCSymmetry
INVARIANT KeyringAgreement
\* The model stops once its bound on requests is used up and every
\* agent is Ready or waiting to join: the agent process then idles.
CHECK_DEADLOCK FALSE
