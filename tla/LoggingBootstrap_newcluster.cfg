\* Logging agents with valid tokens, some with ids not yet registered.
CONSTANTS
  c1 = c1
  c2 = c2
  ClientIDs <- MCClientIDs
  Req = {1, 2}
  MaxObjects = 2
  TokenStoreMayFail = FALSE
SPECIFICATION Spec
INVARIANT NewClusterNotRefused
\* Every request ends answered; the handler then waits for the next one.
CHECK_DEADLOCK FALSE
