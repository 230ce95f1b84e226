---------------------------- MODULE BootstrapAuth ----------------------------
(***************************************************************************)
(* The bootstrap handshake between agents and the gateway.                 *)
(*                                                                         *)
(* Gateway side: ServerConfig.handleBootstrapAuth (pkg/bootstrap/server.go)*)
(* run as one process per request.  Every storage call it makes is one     *)
(* atomic step, so requests interleave between store calls, as concurrent  *)
(* fiber handlers do.                                                      *)
(*                                                                         *)
(* Agent side: Agent.New / Agent.bootstrap / Agent.loadKeyring             *)
(* (pkg/agent/agent.go).  The bootstrap client that calls /bootstrap/join  *)
(* and /bootstrap/auth is not under src/ and is modelled from the spec.    *)
(*                                                                         *)
(* A keyring is identified with the request that minted it: each request  *)
(* generates a fresh ephemeral key pair, so two requests never derive the  *)
(* same shared keys.                                                       *)
(***************************************************************************)
EXTENDS Naturals, FiniteSets

CONSTANTS
  Agents,           \* agent identities (ident.Provider.UniqueIdentifier)
  Tokens,           \* bootstrap token ids
  AgentToken,       \* [Agents -> Tokens]: token in each agent's bootstrapper
  MaxRequests,      \* bound on /bootstrap/auth requests in a behaviour
  MaxCrashes,       \* bound on agent process crashes
  ExclusiveCreate,  \* TRUE: CreateCluster fails on an existing id;
                    \* FALSE: it overwrites (the in-memory ClusterStore)
  GatewayStoreMayFail, \* gateway store calls may return Unavailable
  AgentStoreMayFail,   \* the agent's keyring store may return Unavailable
  TokensMayExpire,  \* token leases may run out while agents bootstrap
  None

ASSUME AgentToken \in [Agents -> Tokens]
ASSUME MaxRequests \in Nat \ {0} /\ MaxCrashes \in Nat
ASSUME {ExclusiveCreate, GatewayStoreMayFail, AgentStoreMayFail,
        TokensMayExpire} \subseteq BOOLEAN

Req == 1..MaxRequests

(* Program counter of a request handler, one value per store call.        *)
ReqPcs == {"idle", "getToken", "getCluster", "create", "increment", "put",
           "done"}
Codes == {0, 200, 401, 409, 500}

(* Program counter of an agent process.                                    *)
AgentPcs == {"start", "join", "awaiting", "persist", "load", "ready",
             "failed"}

VARIABLES
  tokenLive,   \* tokens the TokenStore returns (not expired or deleted)
  usage,       \* BootstrapTokenMetadata.UsageCount per token
  clusters,    \* ids present in the gateway ClusterStore
  gwKeyring,   \* gateway-internal KeyringStore, per cluster id
  reqs,        \* request handler state per request slot
  nextReq,     \* next free request slot
  agentPc,     \* where each agent process is
  awaiting,    \* the request whose answer the agent process holds
  localKr,     \* the agent's own KeyringStore (namespace "agent")
  agentKr,     \* the keyring an agent in "ready" loaded into memory
  crashes      \* agent crashes so far

vars == <<tokenLive, usage, clusters, gwKeyring, reqs, nextReq, agentPc,
          awaiting, localKr, agentKr, crashes>>
gwVars == <<tokenLive, usage, clusters, gwKeyring>>
agentVars == <<agentPc, awaiting, localKr, agentKr, crashes>>

TypeOK ==
  /\ tokenLive \subseteq Tokens
  /\ usage \in [Tokens -> 0..MaxRequests]
  /\ clusters \subseteq Agents
  /\ gwKeyring \in [Agents -> Req \cup {None}]
  /\ reqs \in [Req -> [id : Agents \cup {None}, token : Tokens \cup {None},
                       pc : ReqPcs, code : Codes]]
  /\ nextReq \in 1..MaxRequests + 1
  /\ agentPc \in [Agents -> AgentPcs]
  /\ awaiting \in [Agents -> Req \cup {None}]
  /\ localKr \in [Agents -> Req \cup {None}]
  /\ agentKr \in [Agents -> Req \cup {None}]
  /\ crashes \in 0..MaxCrashes

Init ==
  /\ tokenLive = Tokens
  /\ usage = [t \in Tokens |-> 0]
  /\ clusters = {}
  /\ gwKeyring = [a \in Agents |-> None]
  /\ reqs = [r \in Req |-> [id |-> None, token |-> None, pc |-> "idle",
                            code |-> 0]]
  /\ nextReq = 1
  /\ agentPc = [a \in Agents |-> "start"]
  /\ awaiting = [a \in Agents |-> None]
  /\ localKr = [a \in Agents |-> None]
  /\ agentKr = [a \in Agents |-> None]
  /\ crashes = 0

-----------------------------------------------------------------------------
(***************************************************************************)
(* Gateway: handleBootstrapAuth, one action per store call.                *)
(***************************************************************************)

Goto(r, pc) == reqs' = [reqs EXCEPT ![r].pc = pc]
Respond(r, code) == reqs' = [reqs EXCEPT ![r].pc = "done", ![r].code = code]

(* TokenStore.GetToken as the in-memory store answers it, under its      *)
(* mutex: ErrNotFound for a token not in the map, else the token.          *)
TokenStoreGet(t) == IF t \in tokenLive THEN "found" ELSE "notfound"

(* jws.Verify succeeds (the client signs its own token), then              *)
(* TokenStore.GetToken: ErrNotFound -> 401, any other error -> 500.        *)
GetToken(r) ==
  /\ reqs[r].pc = "getToken"
  /\ \/ TokenStoreGet(reqs[r].token) = "notfound" /\ Respond(r, 401)
     \/ GatewayStoreMayFail /\ Respond(r, 500)
     \/ TokenStoreGet(reqs[r].token) = "found" /\ Goto(r, "getCluster")
  /\ UNCHANGED <<gwVars, nextReq, agentVars>>

(* ClusterStore.GetCluster under the store's mutex: ErrNotFound for an id *)
(* not in the map, else the cluster.                                       *)
ClusterStoreGet(id) == IF id \in clusters THEN "found" ELSE "notfound"

(* ClusterStore.GetCluster(clientID): found -> 409, error other than       *)
(* ErrNotFound -> 500, ErrNotFound -> go on (the ephemeral key pair and    *)
(* the shared secret are computed here; they cannot fail for a key the     *)
(* client generated).                                                      *)
GetCluster(r) ==
  /\ reqs[r].pc = "getCluster"
  /\ \/ ClusterStoreGet(reqs[r].id) = "found" /\ Respond(r, 409)
     \/ GatewayStoreMayFail /\ Respond(r, 500)
     \/ ClusterStoreGet(reqs[r].id) = "notfound" /\ Goto(r, "create")
  /\ UNCHANGED <<gwVars, nextReq, agentVars>>

(* Mutant: CreateCluster that never refuses an existing id.               *)
CreateClusterOverwrites(r) ==
  /\ reqs[r].pc = "create"
  /\ \/ GatewayStoreMayFail /\ Respond(r, 500) /\ UNCHANGED clusters
     \/ clusters' = clusters \cup {reqs[r].id} /\ Goto(r, "increment")
  /\ UNCHANGED <<tokenLive, usage, gwKeyring, nextReq, agentVars>>

(* ClusterStore.CreateCluster: an error -> 500.  With ExclusiveCreate the *)
(* store is the one spec 4.4 asks for ("concurrent CreateCluster with     *)
(* identical id: exactly one must succeed"): a create of an id created    *)
(* since the GetCluster check fails.  No ClusterStore under src does so:  *)
(* the in-memory store (clusters[cluster.Id] = cluster) overwrites, which *)
(* is ExclusiveCreate = FALSE.                                             *)
CreateCluster(r) ==
  /\ reqs[r].pc = "create"
  /\ \/ /\ ExclusiveCreate /\ reqs[r].id \in clusters
        /\ Respond(r, 500) /\ UNCHANGED clusters
     \/ GatewayStoreMayFail /\ Respond(r, 500) /\ UNCHANGED clusters
     \/ /\ ~(ExclusiveCreate /\ reqs[r].id \in clusters)
        /\ clusters' = clusters \cup {reqs[r].id}
        /\ Goto(r, "increment")
  /\ UNCHANGED <<tokenLive, usage, gwKeyring, nextReq, agentVars>>

(* Mutant: the UpdateToken mutator is applied twice (once more on a      *)
(* retried write), so one admission counts as two uses.                    *)
IncrementUsageCountTwice(r) ==
  /\ reqs[r].pc = "increment"
  /\ \/ reqs[r].token \notin tokenLive /\ Respond(r, 500) /\ UNCHANGED usage
     \/ GatewayStoreMayFail /\ Respond(r, 500) /\ UNCHANGED usage
     \/ /\ reqs[r].token \in tokenLive
        /\ usage' = [usage EXCEPT ![reqs[r].token] = @ + 2]
        /\ Goto(r, "put")
  /\ UNCHANGED <<tokenLive, clusters, gwKeyring, nextReq, agentVars>>

(* UpdateToken of the in-memory store with the UsageCount++ mutator: under *)
(* the mutex, the token is cloned, mutated and stored back; a token not in *)
(* the map (checked before and after the mutator) is ErrNotFound.          *)
TokenStoreIncrement(t) == usage' = [usage EXCEPT ![t] = @ + 1]

(* h.TokenStore.IncrementUsageCount(ref): any error -> 500, with the       *)
(* cluster already created.  storage.TokenStore declares no such method   *)
(* (only UpdateToken), so this call does not compile; it is taken as the  *)
(* UpdateToken with a UsageCount++ mutator that the stores implement,     *)
(* which fails with ErrNotFound for a token deleted since GetToken.        *)
IncrementUsageCount(r) ==
  /\ reqs[r].pc = "increment"
  /\ \/ reqs[r].token \notin tokenLive /\ Respond(r, 500) /\ UNCHANGED usage
     \/ GatewayStoreMayFail /\ Respond(r, 500) /\ UNCHANGED usage
     \/ /\ reqs[r].token \in tokenLive
        /\ TokenStoreIncrement(reqs[r].token)
        /\ Goto(r, "put")
  /\ UNCHANGED <<tokenLive, clusters, gwKeyring, nextReq, agentVars>>

(* ClusterStore.KeyringStore(ref) then Put(kr): an error -> 500;           *)
(* otherwise the keyring is stored under the cluster id and the server     *)
(* public key is returned with 200.                                        *)
PutKeyring(r) ==
  /\ reqs[r].pc = "put"
  /\ \/ GatewayStoreMayFail /\ Respond(r, 500) /\ UNCHANGED gwKeyring
     \/ gwKeyring' = [gwKeyring EXCEPT ![reqs[r].id] = r] /\ Respond(r, 200)
  /\ UNCHANGED <<tokenLive, usage, clusters, nextReq, agentVars>>

(* The token's lease runs out (etcd lease, or the in-memory lease store    *)
(* calling DeleteToken), or an administrator deletes the token.            *)
TokenExpire(t) ==
  /\ TokensMayExpire
  /\ t \in tokenLive
  /\ tokenLive' = tokenLive \ {t}
  /\ UNCHANGED <<usage, clusters, gwKeyring, reqs, nextReq, agentVars>>

-----------------------------------------------------------------------------
(***************************************************************************)
(* Agent: New -> bootstrap -> loadKeyring.                                 *)
(***************************************************************************)

AgentGoto(a, pc) == agentPc' = [agentPc EXCEPT ![a] = pc]

(* bootstrap(): keyringStore.Get.  Found -> warn and use it; ErrNotFound   *)
(* -> call the bootstrapper; another error -> New returns an error.        *)
GetLocalKeyring(a) ==
  /\ agentPc[a] = "start"
  /\ \/ localKr[a] # None /\ AgentGoto(a, "load")
     \/ localKr[a] = None /\ AgentGoto(a, "join")
     \/ AgentStoreMayFail /\ AgentGoto(a, "failed")
  /\ UNCHANGED <<gwVars, reqs, nextReq, awaiting, localKr, agentKr, crashes>>

(* Bootstrap client (spec): GET /bootstrap/join, find the signature for    *)
(* its own token, then POST /bootstrap/auth with clientID = the agent's    *)
(* identity.  A join that does not list the token, or fails, is fatal.     *)
ClientJoin(a) ==
  /\ agentPc[a] = "join"
  /\ \/ /\ AgentToken[a] \notin tokenLive \/ GatewayStoreMayFail
        /\ AgentGoto(a, "failed")
        /\ UNCHANGED <<reqs, nextReq, awaiting>>
     \/ /\ AgentToken[a] \in tokenLive
        /\ nextReq <= MaxRequests
        /\ reqs' = [reqs EXCEPT ![nextReq] = [id |-> a, token |-> AgentToken[a],
                                             pc |-> "getToken", code |-> 0]]
        /\ awaiting' = [awaiting EXCEPT ![a] = nextReq]
        /\ nextReq' = nextReq + 1
        /\ AgentGoto(a, "awaiting")
  /\ UNCHANGED <<gwVars, localKr, agentKr, crashes>>

(* The auth response: 200 -> derive the keyring; anything else -> the     *)
(* bootstrapper fails and New returns "bootstrap error".                   *)
ClientAuthResponse(a) ==
  /\ agentPc[a] = "awaiting"
  /\ reqs[awaiting[a]].pc = "done"
  /\ AgentGoto(a, IF reqs[awaiting[a]].code = 200 THEN "persist" ELSE "failed")
  /\ UNCHANGED <<gwVars, reqs, nextReq, awaiting, localKr, agentKr, crashes>>

(* Mutant: the retry loop gives up on a failed Put and goes on to load.  *)
PersistKeyringGivesUp(a) ==
  /\ agentPc[a] = "persist"
  /\ \/ localKr' = [localKr EXCEPT ![a] = awaiting[a]]
     \/ AgentStoreMayFail /\ UNCHANGED localKr
  /\ AgentGoto(a, "load")
  /\ UNCHANGED <<gwVars, reqs, nextReq, awaiting, agentKr, crashes>>

(* keyringStore.Put(newKeyring) in a loop that sleeps and retries until   *)
(* it succeeds: a failed attempt only logs and sleeps, so it is a         *)
(* stuttering step.  The loop never checks ctx; the agents here are never *)
(* cancelled (cancellation during this loop is in AgentLifecycle), and a  *)
(* store that never recovers keeps the agent in the loop forever.         *)
PersistKeyring(a) ==
  /\ agentPc[a] = "persist"
  /\ localKr' = [localKr EXCEPT ![a] = awaiting[a]]
  /\ AgentGoto(a, "load")
  /\ UNCHANGED <<gwVars, reqs, nextReq, awaiting, agentKr, crashes>>

(* Finalize (its error is only logged), then loadKeyring:                 *)
(* keyringStore.Get; an error makes New fail.                              *)
LoadKeyring(a) ==
  /\ agentPc[a] = "load"
  /\ \/ /\ localKr[a] # None
        /\ agentKr' = [agentKr EXCEPT ![a] = localKr[a]]
        /\ AgentGoto(a, "ready")
     \/ /\ localKr[a] = None \/ AgentStoreMayFail
        /\ AgentGoto(a, "failed") /\ UNCHANGED agentKr
  /\ UNCHANGED <<gwVars, reqs, nextReq, awaiting, localKr, crashes>>

(* Environment: the process exits after New failed and its controller     *)
(* restarts the pod, which runs New from the start (no code under src).   *)
Restart(a) ==
  /\ agentPc[a] = "failed"
  /\ AgentGoto(a, "start")
  /\ awaiting' = [awaiting EXCEPT ![a] = None]
  /\ UNCHANGED <<gwVars, reqs, nextReq, localKr, agentKr, crashes>>

(* The agent process is killed at any point; memory is lost, its keyring  *)
(* store is not, and requests already sent go on at the gateway.           *)
Crash(a) ==
  /\ crashes < MaxCrashes
  /\ agentPc[a] \notin {"start", "failed"}
  /\ AgentGoto(a, "start")
  /\ awaiting' = [awaiting EXCEPT ![a] = None]
  /\ agentKr' = [agentKr EXCEPT ![a] = None]
  /\ crashes' = crashes + 1
  /\ UNCHANGED <<gwVars, reqs, nextReq, localKr>>

-----------------------------------------------------------------------------
GatewayStep ==
  \E r \in Req : \/ GetToken(r) \/ GetCluster(r) \/ CreateCluster(r)
                 \/ IncrementUsageCount(r) \/ PutKeyring(r)

AgentStep ==
  \E a \in Agents : \/ GetLocalKeyring(a) \/ ClientJoin(a)
                    \/ ClientAuthResponse(a) \/ PersistKeyring(a)
                    \/ LoadKeyring(a)
                    \/ Restart(a) \/ Crash(a)

Next ==
  \/ GatewayStep
  \/ AgentStep
  \/ \E t \in Tokens : TokenExpire(t)

(* Handlers run to completion; the agent's own steps are taken by its     *)
(* goroutine; a store that fails is eventually available again, so a step *)
(* repeatedly enabled with a successful outcome eventually succeeds; pods *)
(* that exit are restarted by their controller.                            *)
Fairness ==
  /\ \A r \in Req : WF_vars(GetToken(r) \/ GetCluster(r) \/ CreateCluster(r)
                            \/ IncrementUsageCount(r) \/ PutKeyring(r))
  /\ \A a \in Agents :
       /\ SF_vars(GetLocalKeyring(a) /\ agentPc'[a] # "failed")
       /\ WF_vars(ClientJoin(a)) /\ WF_vars(ClientAuthResponse(a))
       /\ WF_vars(PersistKeyring(a))
       /\ SF_vars(LoadKeyring(a) /\ agentPc'[a] = "ready")
       /\ WF_vars(Restart(a))

Spec == Init /\ [][Next]_vars
FairSpec == Spec /\ Fairness

-----------------------------------------------------------------------------
(***************************************************************************)
(* Properties                                                              *)
(***************************************************************************)

Admitted(a) == {r \in Req : reqs[r].id = a /\ reqs[r].code = 200}

(* An agent that reached Ready holds the very keyring the gateway stored  *)
(* for its cluster id: otherwise every MAC it sends is rejected.  Breaks  *)
(* if a crashed agent's old request and its new one both pass the         *)
(* GetCluster check in handleBootstrapAuth and both store a keyring.      *)
KeyringAgreement ==
  \A a \in Agents : agentPc[a] = "ready" => agentKr[a] = gwKeyring[a]

(* Spec 8.4: of several /bootstrap/auth calls with the same clientID at   *)
(* most one is answered 200 (the check in handleBootstrapAuth and the     *)
(* CreateCluster that follows it are separate store calls).               *)
AtMostOneAdmission ==
  \A a \in Agents : Cardinality(Admitted(a)) <= 1

(* An agent that can still become Ready: it holds a keyring, or it holds  *)
(* a 200 not yet persisted, or a request for it is still being handled.   *)
CanStillBootstrap(a) ==
  \/ localKr[a] # None
  \/ agentPc[a] \in {"awaiting", "persist"} /\ reqs[awaiting[a]].code = 200
  \/ \E r \in Req : reqs[r].id = a /\ reqs[r].pc \notin {"idle", "done"}

(* No agent is wedged: once the gateway holds a cluster for an agent's id *)
(* every further /bootstrap/auth is answered 409, so an agent without its *)
(* keyring and with nothing in flight can never bootstrap again.          *)
NoWedgedAgent ==
  \A a \in Agents : a \in clusters => CanStillBootstrap(a)

(* Every agent eventually reaches Ready (agent.New returns).              *)
EventuallyReady == \A a \in Agents : <>(agentPc[a] = "ready")

=============================================================================
