\* Reliable gateway, agent keyring store that may fail (the Put retry loop):
\* every agent eventually becomes Ready and none is wedged.
CONSTANTS
  a1 = a1
  a2 = a2
  t1 = t1
  None = None
  Agents <- MCAgents
  Tokens <- MCTokens
  AgentToken <- MCAgentToken
  MaxRequests = 2
  MaxCrashes = 0
  ExclusiveCreate = TRUE
  GatewayStoreMayFail = FALSE
  AgentStoreMayFail = TRUE
  TokensMayExpire = FALSE
SPECIFICATION FairSpec
INVARIANT TypeOK
INVARIANT NoWedgedAgent
PROPERTY EventuallyReady
\* The model stops once its bound on requests is used up and every
\* agent is Ready or waiting to join: the agent process then idles.
CHECK_DEADLOCK FALSE
