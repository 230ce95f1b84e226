# TLA+ models of opni-monitoring

This directory holds TLA+ models of the concurrent parts of opni-monitoring
(`src/`), together with the TLC configurations that check them. Each module
models one component. An `MC<Module>.tla` file instantiates the module with
model values, and each `<Module>_<run>.cfg` is one question asked of the
model. `PROJECT.json` lists the components, runs, mutants, findings and
hazards. Its `map` links every definition to the lines of Go it translates.

Check one run from this directory:

    tlc -workers 2 -config BootstrapAuth_exclusive.cfg MCBootstrapAuth

## The system and how its parts interact

- **Gateway bootstrap server** (`pkg/bootstrap/server.go`)
  - `/bootstrap/join` lists bootstrap tokens. It answers 405 when there are none.
  - `/bootstrap/auth` checks the token and refuses a cluster id that already exists (409).
    It then creates the cluster, increments the token's usage count and stores the
    gateway's copy of the keyring.
  - `/bootstrap/logging` checks the token and looks the cluster up in the Kubernetes
    logging store.
- **Agent** (`pkg/agent/agent.go`)
  - On start it loads its keyring from its own keyring store.
  - If it has none, it bootstraps through the two endpoints above and stores the
    result locally.
  - It serves an HTTP app. `ListenAndServe` and `Shutdown` coordinate through a mutex.
  - It streams rule groups to the gateway (`pkg/agent/rules.go`). A forwarder
    goroutine, a main loop and a sender goroutine are joined by channels. The sender
    retries with backoff and can be cancelled.
- **Stores**
  - Tokens and keyrings are Kubernetes custom resources (`pkg/storage/crds`).
    Writes are resourceVersion compare-and-swap operations.
  - Logging clusters are labelled objects with generated names, and OpenSearch
    user passwords are Secrets named after the user (`pkg/storage/kubernetes`).
  - A stored token holds its id and secret as hex text. `/bootstrap/join` decodes
    each one (`pkg/tokens/conversion.go`) and keys its signature by the id
    re-encoded.
  - The tests use in-memory stores (`pkg/test/mock_helpers.go`). They include the
    RBAC store that subject access is computed from.
- **Wait context** (`pkg/util/waitctx`): a WaitGroup carried in a context, used to
  join background tasks. The restrictive functions panic on a context without
  one; the permissive ones skip it.
- **Test environment** (`pkg/test/environment.go`): starts etcd, cortex, the gateway
  and agents, and stops them through one WaitGroup.

The hard behaviours are these:
- concurrent HTTP handlers interleave between store calls;
- an agent can crash between the gateway's write and its own;
- tokens can expire while a handshake is under way;
- CAS conflicts are retried against a bounded budget;
- goroutines send on channels that may already be closed, and deliver out of order;
- WaitGroup `Add` can race `Wait`;
- a mutex hand-off leaves a window in which a server can escape shutdown.

## Modules

| module | models | state (variables) | actions |
|---|---|---|---|
| `BootstrapAuth` | `handleBootstrapAuth`. Each request is a process, and each store call is one step. The agent side is `Agent.bootstrap` and `loadKeyring`, with crash and pod restart (`Crash`, `Restart`: environment actions, not mapped). | tokens, usage counts, gateway clusters and keyrings; the pc of each request; the agent pc, local keyring and loaded keyring | `GetToken`, `GetCluster`, `CreateCluster`, `IncrementUsageCount`, `PutKeyring`, `TokenExpire`, `GetLocalKeyring`, `ClientJoin`, `ClientAuthResponse`, `PersistKeyring`, `LoadKeyring`, `Restart` |
| `TokenStore` | `CRDStore` token methods, TTL garbage collection, the join handler, and the auth handler's `GetToken` | objects `[present, ver, usage]`, expiry, the UpdateToken calls in flight, the handlers' answers | `CreateToken`, `DeleteToken`, `TtlElapses`, `GarbageCollectToken`, `AuthGetToken`, `ListTokens`, `HandleBootstrapJoin`, `StartUpdate`, `UpdateGet`, `UpdateWrite` |
| `LoggingBootstrap` | `handleBootstrapLogging` up to its cluster lookup (401, or 500 for a token store error other than NotFound, then the lookup), against `KubernetesStore.GetCluster` | the number of objects labelled with each id; each request's pc and answer | `Receive`, `VerifyToken`, `GetCluster` |
| `RuleSync` | `streamRuleGroupUpdates` and `streamRulesToGateway` | snapshots produced, spawned senders, the `pending` channel, the pc and docs of the main loop and the sender, the docs the gateway applied, the batches sent, cancel and panic | `Discover`, `CloseUpdates`, `SpawnedSendPanics`, `MainSelect`, `MainSend`, `SenderRecv`, `SenderExit`, `PostAccepted`, `PostFailed`, `Backoff`, `Cancel` |
| `KeyringRegister` | the abstract `KeyringStore` contract; the in-memory mock is this contract | data; each Put's status | `Call`, `Put`, `Fail`, `Get` |
| `CrdKeyringStore` | `crdKeyringStore.Put` and `Get` | the object `[present, ver, data]`; each Put's pc, version read and tries | `Call`, `GetFirst`, `Create`, `RetryGet`, `Update`, `Get` |
| `SubjectAccess` | the mock RBAC and cluster stores, plus the spec §4.10 evaluator | roles, bindings, clusters, labels; the evaluator's pc and partial result | the seven store operations; `EvalStart`, `ListRoleBindings`, `GetRole`, `RolesDone`, `ListClusters`, `EvalReturn` |
| `WaitCtx` | both `waitctx` variants, on a context made by `FromContext` or not | the variant, whether the context has a WaitGroup, the counter, tasks, Wait's caller, joiner and notifier goroutines, a panic | `Go`, `TaskDone`, `Wait`, `JoinerCloses`, `NotifierStops` |
| `LoggingStore` | `opensearchUserStore.Put` and `Get`; `KubernetesStore.CreateCluster`, `DeleteCluster` and `UpdateCluster` | the user Secret `[present, ver, data]` and each Put's pc; LoggingCluster objects by generated name `[present, id, ver]`, names used and deleted, each UpdateCluster's pc and listed version | `UserCall`, `UserCreate`, `UserGet`, `UserUpdate`, `UserRead`, `CreateCluster`, `DeleteCluster`, `UpdateList`, `UpdateWrite` |
| `TokenConversion` | `FromBootstrapToken`, statement by statement, and `ToBootstrapToken` (`pkg/tokens/conversion.go`). `encoding/hex` decoding is a RECURSIVE operator that returns, like `DecodeString`, the prefix decoded before an error | the argument and whether the store created it, the raw token it came from, the pc, the decoded id, the returned token | `DecodeID`, `DecodeSecret` |
| `AgentLifecycle` | `Environment.Start`, `Stop`, `startCortex` (which panics when it runs after `Stop` removed the temporary directory), `StartAgent` with `agent.New` (bootstrap, the keyring Put loop that never checks ctx, the keyring load), and the agent's `ListenAndServe` and `Shutdown` | the WaitGroup counter, cancel, the pcs of Stop, cortex, etcd, the gateway and each agent, the shutdown lock | `CortexAdd`, `CortexExit`, `EtcdExit`, `GatewayExit`, `StopCancel`, `StopReturns`, `SpawnStartAgent`, `StartAgent`, `Bootstrap`, `Persist`, `Load`, `ServerUnlock`, `ServerListen`, `AgentCtxDone`, `ShutdownLock`, `AppShutdown`, `StartAgentDone` |

Small helpers stand for the store calls that a handler makes, such as
`TokenStoreGet`, `ClusterStoreGet` and `StoreGetCluster`. Each is mapped to the
mock or store method it models. An action covers the whole handler step,
including its early returns and error answers.

How data is abstracted:
- a keyring is identified with the request or writer that produced it;
- tokens, clusters, roles and agents are model values;
- time is reduced to "this token's TTL has run out".

### Refinement

`CrdKeyringStore` instantiates `KeyringRegister` with a refinement mapping:
- the register's data is the object's data, or `NoKeyring` when there is no object;
- a Put is "pending" from its first API call until it returns.

The run `CrdKeyringStore_refine` checks `Abstract!Spec` as a property. Under
the Create race, Conflict retries and arbitrary store errors, every Put that
returns nil replaced the keyring in exactly one step, and every failing Put
changed nothing.

`LoggingStore` instantiates the same `KeyringRegister` for the OpenSearch user
Secret (`UserRegister`): the register's data is the Secret's password, or
`NoUser` when Get answers NotFound. `LoggingStore_refine` checks
`ImplementsUserRegister`. Put has no retry, so a Put that loses the Create
race and then meets a Conflict fails; the refinement shows that it then
changed nothing.

## Runs

`PROJECT.json` lists twelve runs:

| run | expect | what it shows |
|---|---|---|
| `BootstrapAuth_exclusive` | pass | With the exclusive create that spec §4.4 asks of a cluster store, up to 2 agent crashes, failing stores and expiring tokens, an agent's keyring always agrees with the gateway's (`KeyringAgreement`). No cluster store under `src/` has an exclusive create; `BootstrapAuth_inmemory.cfg` shows what the in-memory one does. |
| `BootstrapAuth_wedge` | violation | A gateway store failure at `IncrementUsageCount`, after `CreateCluster`, answers 500 and leaves the cluster without a keyring. Every later bootstrap of that agent is answered 409, so it is wedged (`NoWedgedAgent`). Expiry of the token or a failing `PutKeyring` does the same. |
| `TokenStore_cas` | pass | Concurrent `UpdateToken` calls lose no increment (`NoLostUpdate`). |
| `TokenConversion_decode` | pass | One `FromBootstrapToken` call runs on every small token the store created and on every small object another client wrote. The call returns a token exactly for even-length hex of either case, with the bytes a reference decoder gives, and otherwise returns nil with the error (`DecodeMatchesReference`). A created token comes back as the raw token it was made from, and `HexID` of the result, the key `bootstrapJoinResponse` signs it under, is the stored `TokenID` (`JoinSignatureKeyIsTokenID`). |
| `TokenStore_expiry` | violation | Spec §4.4 says an expired token reads as NotFound and is filtered out of `ListTokens` (`ExpiredTokenReadsAsNotFound`). The handlers instead answer `/bootstrap/auth` 500 for it, or `/bootstrap/join` 200 with a nil entry for it. |
| `RuleSync_sync` | pass | Batches are posted in order. The latest snapshot is delivered unless the agent is cancelled. After cancel the sender exits, also from backoff. |
| `CrdKeyringStore_refine` | pass | `crdKeyringStore` refines `KeyringRegister`. |
| `WaitCtx_notify` | pass | With either variant, and a context with or without a WaitGroup, Wait's notifier goroutine ends once the tasks are done and the counter never goes negative. |
| `LoggingStore_refine` | pass | Colliding user Puts refine the register (`ImplementsUserRegister`). Two UpdateCluster calls that both succeed on one object listed it at different versions (`UpdatesSerialised`). |
| `AgentLifecycle_stop` | pass | Once `Stop` has cancelled, it returns (`StopReturnsUnlessBootstrapAbandoned`) unless an agent was cancelled inside its bootstrap, which `AgentLifecycle_hang.cfg` shows hangs. This holds wherever the cancel falls in the `shutdownLock` hand-off between `New`, `ListenAndServe` and `Shutdown`, with up to two agents started at any time. Whether each agent's server ends is not claimed: `AgentLifecycle_orphan.cfg` shows it may not. |
| `RuleSync_panic` | violation | After cancel, a spawned goroutine or the main loop sends on the closed updates channel and panics (`NoPanic`). |
| `AgentLifecycle_join` | violation | `Stop` returns, and removes the temporary directory, while goroutines the environment started are still to run or running (`StopJoinsAll`): `startCortex` and `StartAgent` call `Add(1)` inside their goroutines, and an agent's `ListenAndServe` can escape `Shutdown`. |

Every property of a passing run has a mutant in `PROJECT.json`. A mutant is a
plausible bug in one mapped definition, and TLC reports the property violated
once the bug is put in. `PROJECT.json` `findings` explains each violation
against the code line where it bites.

Fifteen more cfgs are kept: thirteen counterexamples with a finding each, and two passing checks. Each narrows one cause of a listed violation, or checks a property that no listed run checks. They are left
out of the run list to keep it to the main questions. Reproduce one with, for
example, `tlc -config WaitCtx_join.cfg MCWaitCtx`.

| cfg | property | what TLC finds |
|---|---|---|
| `BootstrapAuth_inmemory` | `AtMostOneAdmission` | The mock cluster store overwrites. An agent crashes with a request in flight and bootstraps again, and its old and new requests are both admitted for its id. |
| `AgentLifecycle_hang` | `StopTerminates` | `Stop` cancels while an agent is inside `agent.New`. The keyring Put loop (`agent.go:176`) never checks ctx and never ends. Alternatively New fails and `StartAgent` panics. Either way `Stop` never returns. |
| `BootstrapAuth_live` (passes; no finding) | `NoWedgedAgent`, `EventuallyReady` | Without crashes, gateway store failures or expiry, no agent is wedged and each eventually loads its keyring. It assumes away exactly what `BootstrapAuth_wedge` shows, so it is not a listed run. |
| `SubjectAccess_exact` (passes; no finding) | `QuiescentAccessExact` | A quiescent evaluation equals the spec's definition of access. The evaluator is modelled from the spec and computes that same set, so the check says little about the code. |
| `TokenStore_expired401` | `ExpiredTokenIsUnauthorized` | An expired token is answered 500, not 401. |
| `TokenStore_join405` | `JoinListsOnlyLiveTokens` | Garbage-collected tokens leave nil slots in the list, so `/bootstrap/join` answers 200 instead of 405. |
| `AgentLifecycle_orphan` | `AgentServerStops` | A Shutdown between Unlock and Listen leaves the server serving forever. |
| `LoggingBootstrap_newcluster` | `NewClusterNotRefused` | A new id is answered 500, because "not found" is not `ErrNotFound`. |
| `RuleSync_reorder` | `BatchesInOrder` | One goroutine per snapshot delivers snapshots out of order (`RuleSync_sync` checks the property with snapshots produced one at a time). |
| `LoggingStore_unique` | `OneClusterPerId` | Two `CreateCluster` calls with one id both succeed, against spec §4.4's "exactly one". |
| `CrdKeyringStore_create` | `PutSucceedsOnHealthyStore` | Two first Puts race, and one fails with AlreadyExists. |
| `SubjectAccess_held` | `AccessWasHeld` | An overlapped evaluation grants a cluster that no state granted. |
| `WaitCtx_join` | `WaitJoinsTasks` | Wait returns before the tasks finish. |
| `WaitCtx_addafterwait` | `AddHappensBeforeWait` | `Add` happens after `Wait` started. |
| `AgentLifecycle_cortex` | `StopJoinsCortex` | Stop returns before cortex's `Add(1)`. |

## Bounds

The bounds are chosen so that each hazard's interleaving fits:

| module | bounds | why they suffice |
|---|---|---|
| `BootstrapAuth` | 2 agents, 1 token, up to 4 requests, up to 2 crashes | Two agents let one agent's requests interleave with another's. Two crashes let an agent crash both after the gateway's write and after its own, and a crash with a request in flight produces the two requests for one id. |
| `TokenStore` | 2 tokens, 3 updaters, 2 tries | Three updaters can exhaust a two-try budget. |
| `TokenConversion` | hex texts of up to 3 characters over `0 9 a F g`; IDs and secrets of up to 2 bytes over `0 10 171 255` | The texts cover every error path of `hex.DecodeString`: odd length, a bad first or second digit of a pair, an upper-case digit, and a bad pair after a good one (the partial decode). The bytes give each digit position both letter and number digits. |
| `CrdKeyringStore` | 5 writers | With 2 tries (refine run), 5 writers can push one Put to its last retry. `create` uses 4 tries. |
| `RuleSync` | 4 snapshots of 2 groups (3 of 1 for the reordering) | Enough for a preemption during backoff, for a cancel at any point, and for a reordering of three snapshots. |
| `SubjectAccess` | 2 of each kind, up to 3 writes | Three writes fit a delete, a create and a relabel inside one evaluation. |
| `WaitCtx` | 3 tasks, both variants, with and without a WaitGroup | Three tasks let one finish before Wait, one run across it and one start after it. |
| `LoggingStore` | 3 user Puts; 2 UpdateCluster calls, 1 cluster id, 2 generated names, versions up to 3 | Three Puts give a Create winner and two Get-Update losers that Conflict with each other; two names let a delete be followed by a re-create under a new name while an update holds the old one. |
| `AgentLifecycle` | 2 agents | Two agents let one be cancelled in its bootstrap while the other is at any point of the `ListenAndServe`/`Shutdown` hand-off. |

Symmetry is used over interchangeable model values, and only in cfgs that check nothing but invariants. Temporal and action properties are checked without it.

## Fairness

Fairness is weak for each goroutine or handler step that the Go scheduler keeps
enabled.

Strong fairness is used in a few places:
- **RuleSync:**
  - a POST eventually being accepted, standing for a gateway that recovers;
  - the cancel branch of the backoff select, since that select is re-entered while
    the timer keeps firing;
- **BootstrapAuth:**
  - the agent's local keyring store eventually answering.

No fairness is assumed for management calls, token expiry or crashes: these are
environment choices.

In `AgentLifecycle` every goroutine step, including the agent's `Bootstrap`,
`Persist` and `Load`, is weakly fair. The keyring Put loop's success
(`Persist`) is enabled only while the context is live: after `Stop`'s cancel
every Put fails, and the loop retries forever. This is what
`AgentLifecycle_hang.cfg` shows.

## Not modelled

- the agent's push relay (`handlePushRequest`): a stateless proxy;
- generated cortexadmin gRPC code;
- CLI and config parsing;
- `Token.HexID` and `HexSecret` live in `pkg/tokens` outside `src/`; they are modelled as `hex.EncodeToString`;
- `KubernetesStore.ListClusters` and `NewKubernetesStore`: a read that changes
  nothing and no property reads its label filtering, and client set-up;
- `handleBootstrapLogging` after its lookup (`server.go:217-258`): unreachable,
  because `GetCluster` never returns `ErrNotFound`. The stores it would call
  are modelled in `LoggingStore` with concurrent callers instead;
- the gomock expectations in `mock_helpers.go` (`EXPECT().DoAndReturn` plumbing). The in-memory store bodies those expectations run are modelled, and the map points at them.

## Latent defects met while modelling

- `environment.go:338` assigns the two results of `agent.New` to one variable, so
  the file does not compile. `AgentLifecycle` takes New's error to make
  `StartAgent` panic or return.
- `server.go:151` calls `TokenStore.IncrementUsageCount`, which
  `storage.TokenStore` (`stores.go:24-30`) does not declare. `BootstrapAuth`
  takes it as `UpdateToken` with a `UsageCount++` mutator.
- `KubernetesStore.CreateCluster` writes into `cluster.Labels`
  (`loggingcluster_store.go:23-24`). `server.go:246-250` builds a cluster
  without labels, so the write panics on a nil map. That caller is unreachable
  today (`LoggingBootstrap_newcluster`), and no module models the labels map.
- `SubjectAccess` reduces a role's label selector to one label, and
  `KeyringRegister` takes the in-memory keyring store's unguarded map as an
  atomic register. The map is a data race under concurrent Puts.

## Plan for later sittings

1. An abstract "latest snapshot wins" spec for RuleSync, with the single-sender
   implementation shown to refine it. `LatestDelivered` and `BatchesInOrder`
   already state its content, and no mutant of the sender's code would break a
   refinement without also breaking those two.
2. The in-memory keyring store's unguarded map: a data race as a nondeterministic
   outcome.
3. The rest of `handleBootstrapLogging`, composed with `LoggingStore`, should the
   not-found path be fixed.
4. `Environment.startEtcd` under a cancelled Start.
5. More of `Agent.New` and of the gateway configuration, to raise map coverage.
