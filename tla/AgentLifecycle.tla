---------------------------- MODULE AgentLifecycle ----------------------------
(***************************************************************************)
(* Start and stop of agents and of the test environment that runs them.   *)
(*                                                                         *)
(* Agent (pkg/agent/agent.go): New locks shutdownLock; ListenAndServe     *)
(* unlocks it and calls app.Listen; Shutdown locks it and calls           *)
(* app.Shutdown.                                                           *)
(*                                                                         *)
(* Environment (pkg/test/environment.go): Start adds the etcd and gateway *)
(* waiters to e.waitGroup and spawns `go e.startCortex()`, which adds its *)
(* own; each waiter calls Done once the context is cancelled and its      *)
(* process is gone.  A test runs `go e.StartAgent(...)`: Add(1), New,     *)
(* `go agent.ListenAndServe()`, <-ctx.Done(), agent.Shutdown(), Done.     *)
(* New takes the lock and then bootstraps against the environment's etcd  *)
(* and gateway (keyringStore.Get, the bootstrapper, the keyring Put loop, *)
(* loadKeyring), each call on the environment's context; which keyring   *)
(* the gateway grants is the BootstrapAuth module.                         *)
(*                                                                         *)
(* environment.go:338 calls agent.New without a context and drops its     *)
(* error, so it does not compile; what StartAgent does once New fails is  *)
(* chosen nondeterministically: it panics, as it does on every other      *)
(* error, or it returns.                                                   *)
(* Stop cancels the context, waits for the group and removes the          *)
(* temporary directory the processes use.                                  *)
(*                                                                         *)
(* When app.Shutdown runs before app.Listen has opened the listener, what *)
(* the later Listen does is up to fiber and fasthttp: the model lets it   *)
(* either return or serve.                                                 *)
(***************************************************************************)
EXTENDS Naturals, FiniteSets

CONSTANTS
  Agents        \* agents a test starts with e.StartAgent

VARIABLES
  wg,           \* e.waitGroup counter
  ctxDone,      \* e.cancel() has been called
  envPc,        \* Stop: "running", "waiting" (in Wait), "stopped"
  etcdUp,       \* the etcd waiter has not called Done
  gatewayUp,    \* the gateway waiter has not called Done
  cortexPc,     \* startCortex: "spawned", "added", "done", "panicked"
  agPc,         \* [Agents -> StartAgent's point]
  locked,       \* [Agents -> shutdownLock is held]
  srvPc,        \* [Agents -> ListenAndServe's point]
  appShut       \* [Agents -> app.Shutdown has been called]

vars == <<wg, ctxDone, envPc, etcdUp, gatewayUp, cortexPc, agPc, locked,
          srvPc, appShut>>
agentVars == <<agPc, locked, srvPc, appShut>>

AgPcs == {"idle", "spawned", "bootstrap", "persist", "load", "waitCtx", "lock",
          "shutdown", "returning", "done", "panicked"}
SrvPcs == {"none", "spawned", "unlocked", "serving", "returned"}

TypeOK ==
  /\ wg \in 0..(3 + Cardinality(Agents))
  /\ ctxDone \in BOOLEAN
  /\ envPc \in {"running", "waiting", "stopped"}
  /\ etcdUp \in BOOLEAN /\ gatewayUp \in BOOLEAN
  /\ cortexPc \in {"spawned", "added", "done", "panicked"}
  /\ agPc \in [Agents -> AgPcs]
  /\ locked \in [Agents -> BOOLEAN]
  /\ srvPc \in [Agents -> SrvPcs]
  /\ appShut \in [Agents -> BOOLEAN]

(* Start has returned: etcd and the gateway were added synchronously,     *)
(* startCortex runs in its own goroutine.                                  *)
Init ==
  /\ wg = 2
  /\ ctxDone = FALSE
  /\ envPc = "running"
  /\ etcdUp = TRUE /\ gatewayUp = TRUE
  /\ cortexPc = "spawned"
  /\ agPc = [a \in Agents |-> "idle"]
  /\ locked = [a \in Agents |-> FALSE]
  /\ srvPc = [a \in Agents |-> "none"]
  /\ appShut = [a \in Agents |-> FALSE]

(* A StartAgent or startCortex goroutine panicked: the test process is   *)
(* gone.                                                                   *)
TestPanicked == cortexPc = "panicked" \/ \E a \in Agents : agPc[a] = "panicked"

-----------------------------------------------------------------------------
(* Environment                                                             *)

(* startCortex: e.waitGroup.Add(1), write the config, start the process   *)
(* and poll it until ready or cancelled, then spawn its waiter.  Once     *)
(* Stop has removed the temporary directory, os.Create of the config      *)
(* fails and startCortex panics.                                           *)
CortexAdd ==
  /\ cortexPc = "spawned"
  /\ ~TestPanicked
  /\ wg' = wg + 1
  /\ cortexPc' = IF envPc = "stopped" THEN "panicked" ELSE "added"
  /\ UNCHANGED <<ctxDone, envPc, etcdUp, gatewayUp, agentVars>>

(* The waiters: <-e.ctx.Done(), then cmd.Wait() or g.Shutdown(), then the *)
(* deferred e.waitGroup.Done().                                            *)
CortexExit ==
  /\ cortexPc = "added" /\ ctxDone
  /\ ~TestPanicked
  /\ wg' = wg - 1
  /\ cortexPc' = "done"
  /\ UNCHANGED <<ctxDone, envPc, etcdUp, gatewayUp, agentVars>>

EtcdExit ==
  /\ etcdUp /\ ctxDone
  /\ ~TestPanicked
  /\ wg' = wg - 1
  /\ etcdUp' = FALSE
  /\ UNCHANGED <<ctxDone, envPc, gatewayUp, cortexPc, agentVars>>

GatewayExit ==
  /\ gatewayUp /\ ctxDone
  /\ ~TestPanicked
  /\ wg' = wg - 1
  /\ gatewayUp' = FALSE
  /\ UNCHANGED <<ctxDone, envPc, etcdUp, cortexPc, agentVars>>

(* Stop: e.cancel(), e.mockCtrl.Finish(), then e.waitGroup.Wait().         *)
StopCancel ==
  /\ envPc = "running"
  /\ ~TestPanicked
  /\ ctxDone' = TRUE
  /\ envPc' = "waiting"
  /\ UNCHANGED <<wg, etcdUp, gatewayUp, cortexPc, agentVars>>

(* Wait returns once the counter is zero; os.RemoveAll(e.tempDir).         *)
StopReturns ==
  /\ envPc = "waiting"
  /\ ~TestPanicked
  /\ wg = 0
  /\ envPc' = "stopped"
  /\ UNCHANGED <<wg, ctxDone, etcdUp, gatewayUp, cortexPc, agentVars>>

-----------------------------------------------------------------------------
(* Agents                                                                  *)

(* The test runs `go e.StartAgent(...)` while the environment is up.       *)
SpawnStartAgent(a) ==
  /\ agPc[a] = "idle"
  /\ ~TestPanicked
  /\ envPc = "running"
  /\ agPc' = [agPc EXCEPT ![a] = "spawned"]
  /\ UNCHANGED <<wg, ctxDone, envPc, etcdUp, gatewayUp, cortexPc, locked,
                 srvPc, appShut>>

(* Mutant: StartAgent without its e.waitGroup.Add(1).                     *)
StartAgentNoAdd(a) ==
  /\ agPc[a] = "spawned"
  /\ ~TestPanicked
  /\ locked' = [locked EXCEPT ![a] = TRUE]
  /\ agPc' = [agPc EXCEPT ![a] = "bootstrap"]
  /\ UNCHANGED <<wg, ctxDone, envPc, etcdUp, gatewayUp, cortexPc, srvPc, appShut>>

(* agent.New up to its bootstrap: builds the app, gets the identity and  *)
(* takes a.shutdownLock.Lock().                                            *)
NewAgent(a) == locked' = [locked EXCEPT ![a] = TRUE]

(* StartAgent: e.waitGroup.Add(1), then agent.New.                         *)
StartAgent(a) ==
  /\ agPc[a] = "spawned"
  /\ ~TestPanicked
  /\ wg' = wg + 1
  /\ NewAgent(a)
  /\ agPc' = [agPc EXCEPT ![a] = "bootstrap"]
  /\ UNCHANGED <<ctxDone, envPc, etcdUp, gatewayUp, cortexPc, srvPc, appShut>>

(* New fails and returns its error: StartAgent panics or returns.         *)
NewFails(a) == agPc' = [agPc EXCEPT ![a] = "panicked"] \/ agPc' = [agPc EXCEPT ![a] = "returning"]

(* bootstrap: keyringStore.Get finds nothing in the fresh etcd, and the   *)
(* bootstrapper's join and auth requests get a keyring from the gateway.  *)
(* On a cancelled context the etcd client and the HTTP client fail at     *)
(* once, and New returns the error.                                       *)
Bootstrap(a) ==
  /\ agPc[a] = "bootstrap"
  /\ ~TestPanicked
  /\ \/ ~ctxDone /\ agPc' = [agPc EXCEPT ![a] = "persist"]
     \/ ctxDone /\ NewFails(a)
  /\ UNCHANGED <<wg, ctxDone, envPc, etcdUp, gatewayUp, cortexPc, locked,
                 srvPc, appShut>>

(* The keyring Put loop: Put(ctx, newKeyring) until it succeeds, sleeping  *)
(* a second after each failure and never looking at ctx.  Once the        *)
(* context is cancelled every Put fails and the loop never ends.           *)
Persist(a) ==
  /\ agPc[a] = "persist"
  /\ ~TestPanicked
  /\ ~ctxDone
  /\ agPc' = [agPc EXCEPT ![a] = "load"]
  /\ UNCHANGED <<wg, ctxDone, envPc, etcdUp, gatewayUp, cortexPc, locked,
                 srvPc, appShut>>

(* Finalize, loadKeyring's Get (failing on a cancelled context), the     *)
(* gateway client and `go streamRulesToGateway`; New returns the agent    *)
(* still holding shutdownLock and StartAgent runs                          *)
(* `go agent.ListenAndServe()`.                                            *)
Load(a) ==
  /\ agPc[a] = "load"
  /\ ~TestPanicked
  /\ \/ /\ ~ctxDone
        /\ srvPc' = [srvPc EXCEPT ![a] = "spawned"]
        /\ agPc' = [agPc EXCEPT ![a] = "waitCtx"]
     \/ ctxDone /\ NewFails(a) /\ UNCHANGED srvPc
  /\ UNCHANGED <<wg, ctxDone, envPc, etcdUp, gatewayUp, cortexPc, locked,
                 appShut>>

(* Mutant: ListenAndServe without a.shutdownLock.Unlock().                 *)
ServerUnlockMissing(a) ==
  /\ srvPc[a] = "spawned"
  /\ ~TestPanicked
  /\ srvPc' = [srvPc EXCEPT ![a] = "unlocked"]
  /\ UNCHANGED <<wg, ctxDone, envPc, etcdUp, gatewayUp, cortexPc, agPc,
                 locked, appShut>>

(* ListenAndServe: a.shutdownLock.Unlock().                                *)
ServerUnlock(a) ==
  /\ srvPc[a] = "spawned"
  /\ ~TestPanicked
  /\ locked' = [locked EXCEPT ![a] = FALSE]
  /\ srvPc' = [srvPc EXCEPT ![a] = "unlocked"]
  /\ UNCHANGED <<wg, ctxDone, envPc, etcdUp, gatewayUp, cortexPc, agPc,
                 appShut>>

(* a.app.Listen(addr): serves until app.Shutdown.  After an earlier       *)
(* app.Shutdown it may return at once, or open a listener that nothing    *)
(* will close.                                                             *)
ServerListen(a) ==
  /\ srvPc[a] = "unlocked"
  /\ ~TestPanicked
  /\ \/ srvPc' = [srvPc EXCEPT ![a] = "serving"]
     \/ appShut[a] /\ srvPc' = [srvPc EXCEPT ![a] = "returned"]
  /\ UNCHANGED <<wg, ctxDone, envPc, etcdUp, gatewayUp, cortexPc, agPc,
                 locked, appShut>>

(* StartAgent: <-e.ctx.Done().                                             *)
AgentCtxDone(a) ==
  /\ agPc[a] = "waitCtx"
  /\ ~TestPanicked
  /\ ctxDone
  /\ agPc' = [agPc EXCEPT ![a] = "lock"]
  /\ UNCHANGED <<wg, ctxDone, envPc, etcdUp, gatewayUp, cortexPc, locked,
                 srvPc, appShut>>

(* Shutdown: a.shutdownLock.Lock(), blocking while it is held.             *)
ShutdownLock(a) ==
  /\ agPc[a] = "lock"
  /\ ~TestPanicked
  /\ ~locked[a]
  /\ locked' = [locked EXCEPT ![a] = TRUE]
  /\ agPc' = [agPc EXCEPT ![a] = "shutdown"]
  /\ UNCHANGED <<wg, ctxDone, envPc, etcdUp, gatewayUp, cortexPc, srvPc,
                 appShut>>

(* Shutdown: return a.app.Shutdown(), the lock staying held.  It closes   *)
(* the listener of a serving app.Listen, which then returns.               *)
AppShutdown(a) ==
  /\ agPc[a] = "shutdown"
  /\ ~TestPanicked
  /\ appShut' = [appShut EXCEPT ![a] = TRUE]
  /\ srvPc' = [srvPc EXCEPT ![a] = IF @ = "serving" THEN "returned" ELSE @]
  /\ agPc' = [agPc EXCEPT ![a] = "returning"]
  /\ UNCHANGED <<wg, ctxDone, envPc, etcdUp, gatewayUp, cortexPc, locked>>

(* StartAgent returns: the deferred e.waitGroup.Done().                    *)
StartAgentDone(a) ==
  /\ agPc[a] = "returning"
  /\ ~TestPanicked
  /\ wg' = wg - 1
  /\ agPc' = [agPc EXCEPT ![a] = "done"]
  /\ UNCHANGED <<ctxDone, envPc, etcdUp, gatewayUp, cortexPc, locked, srvPc,
                 appShut>>

-----------------------------------------------------------------------------
Next ==
  \/ CortexAdd \/ CortexExit \/ EtcdExit \/ GatewayExit
  \/ StopCancel \/ StopReturns
  \/ \E a \in Agents :
       \/ SpawnStartAgent(a) \/ StartAgent(a) \/ Bootstrap(a)
       \/ Persist(a) \/ Load(a) \/ ServerUnlock(a)
       \/ ServerListen(a) \/ AgentCtxDone(a) \/ ShutdownLock(a)
       \/ AppShutdown(a) \/ StartAgentDone(a)

Spec == Init /\ [][Next]_vars

(* Every goroutine that can run eventually does, and the test eventually  *)
(* calls Stop; whether it starts agents first is its choice.               *)
FairSpec ==
  /\ Spec
  /\ WF_vars(CortexAdd) /\ WF_vars(CortexExit)
  /\ WF_vars(EtcdExit) /\ WF_vars(GatewayExit)
  /\ WF_vars(StopCancel) /\ WF_vars(StopReturns)
  /\ \A a \in Agents :
       /\ WF_vars(StartAgent(a)) /\ WF_vars(Bootstrap(a))
       /\ WF_vars(Persist(a)) /\ WF_vars(Load(a)) /\ WF_vars(ServerUnlock(a))
       /\ WF_vars(ServerListen(a)) /\ WF_vars(AgentCtxDone(a))
       /\ WF_vars(ShutdownLock(a)) /\ WF_vars(AppShutdown(a))
       /\ WF_vars(StartAgentDone(a))

-----------------------------------------------------------------------------
(* Stop returns: once it is called, e.waitGroup.Wait() is released.  Every *)
(* started agent must get through New and its Shutdown through            *)
(* shutdownLock, whatever point its ListenAndServe goroutine has reached. *)
StopTerminates ==
  envPc = "waiting" ~> envPc = "stopped"

(* An agent whose New was cancelled inside the keyring Put loop, or whose *)
(* StartAgent panicked, never lets Stop return.                           *)
BootstrapAbandoned ==
  \E a \in Agents : agPc[a] \in {"persist", "panicked"}

(* Stop returns unless an agent was cancelled during its bootstrap: the  *)
(* shutdownLock hand-off between New, ListenAndServe and Shutdown never   *)
(* blocks Wait, at whatever point of ListenAndServe Stop cancels.          *)
StopReturnsUnlessBootstrapAbandoned ==
  envPc = "waiting" ~> (envPc = "stopped" \/ BootstrapAbandoned)

(* Stop joins what Start started: when it removes the temporary           *)
(* directory, the cortex starter goroutine has finished.                   *)
StopJoinsCortex ==
  envPc = "stopped" => cortexPc = "done"

(* shutdownLock makes Shutdown wait for ListenAndServe, so that after     *)
(* StartAgent has returned its agent's server eventually stops.           *)
AgentServerStops ==
  \A a \in Agents : agPc[a] = "done" ~> srvPc[a] = "returned"

(* Stop joins every goroutine the environment started (spec design note: *)
(* shutdown awaits the quiescence of every spawned task): when Wait       *)
(* returns and the temporary directory is removed, the cortex starter,    *)
(* each StartAgent goroutine the test spawned and each agent's            *)
(* ListenAndServe goroutine have all finished.                             *)
StopJoinsAll ==
  envPc = "stopped" =>
    /\ cortexPc = "done"
    /\ \A a \in Agents : agPc[a] \in {"idle", "done"}
                      /\ srvPc[a] \in {"none", "returned"}

=============================================================================
