------------------------------- MODULE WaitCtx -------------------------------
(***************************************************************************)
(* The wait context of pkg/util/waitctx/context.go: a sync.WaitGroup      *)
(* carried in a context so that background tasks started with Go can be   *)
(* joined on shutdown by Wait.  Both variants are modelled: restrictive   *)
(* (the package's AddOne, Done, Wait and Go) panics on a context that     *)
(* FromContext did not make; permissive ignores the missing WaitGroup.    *)
(*                                                                         *)
(* Processes: each task's goroutine, the caller of Wait, the goroutine    *)
(* Wait starts to run wg.Wait and close(done), and the warning goroutine  *)
(* started when notifyAfter is given.                                      *)
(***************************************************************************)
EXTENDS Naturals, FiniteSets

CONSTANTS
  Tasks,        \* functions handed to Go
  NotifyAfter   \* Wait is called with a notifyAfter duration

VARIABLES
  counter,      \* the WaitGroup counter
  task,         \* [Tasks -> {"new", "running", "finished"}]
  waitPc,       \* the caller of Wait: "before", "returned"
  joiner,       \* goroutine running wg.Wait: "none", "waiting", "closed"
  notifier,     \* warning goroutine: "none", "running", "stopped"
  joined,       \* the tasks running when Wait was called
  variant,      \* the functions called: "restrictive" or "permissive"
  hasData,      \* the context carries a WaitGroup (made by FromContext)
  panicked      \* panic("context is not a WaitContext") ended the process

vars == <<counter, task, waitPc, joiner, notifier, joined, variant, hasData,
          panicked>>

(* The two implementations the package exports; the package-level        *)
(* AddOne, Done, Wait and Go are the restrictive ones.                     *)
Variants == {"restrictive", "permissive"}

TypeOK ==
  /\ counter \in 0..Cardinality(Tasks)
  /\ task \in [Tasks -> {"new", "running", "finished"}]
  /\ waitPc \in {"before", "returned"}
  /\ joiner \in {"none", "waiting", "closed"}
  /\ notifier \in {"none", "running", "stopped"}
  /\ joined \subseteq Tasks
  /\ variant \in Variants
  /\ hasData \in BOOLEAN /\ panicked \in BOOLEAN

(* FromContext (or Background) attaches a fresh WaitGroup; a caller may  *)
(* also pass a context that never went through it.                        *)
Init ==
  /\ counter = 0
  /\ task = [t \in Tasks |-> "new"]
  /\ waitPc = "before"
  /\ joiner = "none"
  /\ notifier = "none"
  /\ joined = {}
  /\ variant \in Variants
  /\ hasData \in BOOLEAN
  /\ panicked = FALSE

(* restrictive's `if data == nil { panic(...) }`.                          *)
NotAWaitContext == variant = "restrictive" /\ ~hasData

(* Every step below is guarded by ~panicked: a panic that nobody          *)
(* recovers ends the process and all of its goroutines.                    *)

(* AddOne: wg.Add(1) on the context's WaitGroup; permissive skips it    *)
(* when there is none (restrictive has panicked before).                   *)
AddOne == counter' = IF hasData THEN counter + 1 ELSE counter

(* Go: AddOne, then `go func() { defer Done(ctx); fn() }()`; a panic in   *)
(* AddOne starts no goroutine.                                             *)
Go(t) ==
  /\ ~panicked
  /\ task[t] = "new"
  /\ \/ /\ NotAWaitContext
        /\ panicked' = TRUE /\ UNCHANGED <<counter, task>>
     \/ /\ ~NotAWaitContext
        /\ AddOne
        /\ task' = [task EXCEPT ![t] = "running"]
        /\ UNCHANGED panicked
  /\ UNCHANGED <<waitPc, joiner, notifier, joined, variant, hasData>>

(* Mutant: fn itself also calls Done(ctx) before the deferred one.        *)
TaskDoneTwice(t) ==
  /\ ~panicked
  /\ task[t] = "running"
  /\ counter' = counter - 2
  /\ task' = [task EXCEPT ![t] = "finished"]
  /\ UNCHANGED <<waitPc, joiner, notifier, joined, variant, hasData, panicked>>

(* fn returns; the deferred Done runs wg.Done(), which permissive skips   *)
(* without a WaitGroup (a running task means restrictive did not panic).  *)
TaskDone(t) ==
  /\ ~panicked
  /\ task[t] = "running"
  /\ counter' = IF hasData THEN counter - 1 ELSE counter
  /\ task' = [task EXCEPT ![t] = "finished"]
  /\ UNCHANGED <<waitPc, joiner, notifier, joined, variant, hasData, panicked>>

(* Wait: start `go func() { defer close(done); wg.Wait() }()`, start the  *)
(* warning loop if notifyAfter is given, and return.  Without a          *)
(* WaitGroup restrictive panics and permissive returns at once.           *)
Wait ==
  /\ ~panicked
  /\ waitPc = "before"
  /\ \/ /\ NotAWaitContext
        /\ panicked' = TRUE /\ UNCHANGED <<waitPc, joiner, notifier, joined>>
     \/ /\ ~NotAWaitContext
        /\ waitPc' = "returned"
        /\ joiner' = IF hasData THEN "waiting" ELSE "none"
        /\ notifier' = IF hasData /\ NotifyAfter THEN "running" ELSE "none"
        /\ joined' = {t \in Tasks : task[t] = "running"}
        /\ UNCHANGED panicked
  /\ UNCHANGED <<counter, task, variant, hasData>>

(* wg.Wait() returns once the counter is zero; done is closed.            *)
JoinerCloses ==
  /\ ~panicked
  /\ joiner = "waiting"
  /\ counter = 0
  /\ joiner' = "closed"
  /\ UNCHANGED <<counter, task, waitPc, notifier, joined, variant, hasData,
                 panicked>>

(* Mutant: the warning loop without its `case <-done: return`.            *)
NotifierIgnoresDone ==
  /\ notifier = "running"
  /\ joiner = "closed"
  /\ FALSE
  /\ UNCHANGED vars

(* The warning loop: `case <-done: return`; its other case prints a       *)
(* warning every d and changes nothing.                                    *)
NotifierStops ==
  /\ ~panicked
  /\ notifier = "running"
  /\ joiner = "closed"
  /\ notifier' = "stopped"
  /\ UNCHANGED <<counter, task, waitPc, joiner, joined, variant, hasData,
                 panicked>>

Next ==
  \/ \E t \in Tasks : Go(t) \/ TaskDone(t)
  \/ Wait
  \/ JoinerCloses
  \/ NotifierStops

Spec == Init /\ [][Next]_vars

(* Goroutines are scheduled; the tasks handed to Go return.                *)
FairSpec ==
  /\ Spec
  /\ \A t \in Tasks : WF_vars(TaskDone(t))
  /\ WF_vars(JoinerCloses) /\ WF_vars(NotifierStops)

-----------------------------------------------------------------------------
(* The warning goroutine Wait starts with notifyAfter does not leak: once *)
(* every task has returned, it eventually stops printing and exits.       *)
NotifierTerminates ==
  (\A t \in Tasks : task[t] # "running") ~> (notifier # "running")

(* Wait joins the background tasks (spec: the wait group lets long-lived  *)
(* background tasks be joined on shutdown): once Wait has returned, none  *)
(* of the tasks that were running when it was called is still running.   *)
WaitJoinsTasks ==
  waitPc = "returned" => \A t \in joined : task[t] # "running"

(* sync.WaitGroup: an Add that raises the counter from zero must happen   *)
(* before the Wait; otherwise it races the wg.Wait of Wait's goroutine.   *)
AddHappensBeforeWait ==
  [][joiner = "waiting" /\ counter = 0 => counter' = 0]_<<counter, joiner>>

=============================================================================
