------------------------------ MODULE RuleSync ------------------------------
(***************************************************************************)
(* Rule-group streaming from the agent to the gateway                      *)
(* (pkg/agent/rules.go).                                                   *)
(*                                                                         *)
(* Goroutines, one action per channel operation or request:                *)
(*  - the forwarder of streamRuleGroupUpdates: for every snapshot of the  *)
(*    discovery notifier it spawns a goroutine that sends the marshalled  *)
(*    documents on groupYamlDocs;                                          *)
(*  - the main loop of streamRulesToGateway: receives from groupYamlDocs  *)
(*    and sends on pending (capacity 1);                                   *)
(*  - the sender goroutine: takes docs from pending, POSTs each document  *)
(*    to /api/agent/sync_rules, and on a failure waits for either newer   *)
(*    docs (preemption), the 5 s timer, or cancellation.                   *)
(* The periodic notifier (pkg/rules, not under src/) and the gateway's    *)
(* sync_rules handler are modelled from the spec.                          *)
(*                                                                         *)
(* Snapshot n is the n-th result of rule discovery; its documents are one *)
(* per rule group, so a document is a pair <<snapshot, group>>.            *)
(***************************************************************************)
EXTENDS Naturals, Sequences

CONSTANTS
  MaxSnapshots,   \* discovery results produced in a behaviour
  NumGroups,      \* rule groups (documents) per snapshot
  SlowDiscovery,  \* TRUE: a new snapshot comes only after the previous one
                  \* left the forwarder (discovery interval >> send time)
  AllowCancel,    \* whether the agent context may be cancelled
  None

ASSUME MaxSnapshots \in Nat \ {0} /\ NumGroups \in Nat \ {0}
ASSUME {SlowDiscovery, AllowCancel} \subseteq BOOLEAN

Snap == 1..MaxSnapshots
Groups == 1..NumGroups

VARIABLES
  produced,      \* snapshots the notifier has emitted so far
  waiting,       \* snapshots held by spawned goroutines blocked on
                 \* groupYamlDocs <- docs
  docsClosed,    \* groupYamlDocs closed (the notifier channel closed)
  mainPc,        \* main loop: "select", "send" (pending <- docs), "exited"
  mainDocs,      \* docs the main loop is sending on pending
  pending,       \* the buffered pending channel: a snapshot or None
  pendingClosed, \* the sender closed pending on exit
  sPc,           \* sender: "recv", "post", "backoff", "exited"
  sDocs,         \* docs the sender is delivering
  sIdx,          \* index of the next document of sDocs to POST
  applied,       \* gateway: snapshot of the last accepted doc per group
  sent,          \* batches reported "successfully sent", in order
  ctxDone,       \* the agent context was cancelled
  panicked       \* a goroutine panicked (send on a closed channel)

vars == <<produced, waiting, docsClosed, mainPc, mainDocs, pending,
          pendingClosed, sPc, sDocs, sIdx, applied, sent, ctxDone, panicked>>
feedVars == <<produced, waiting, docsClosed>>
mainVars == <<mainPc, mainDocs>>
senderVars == <<sPc, sDocs, sIdx, applied, sent>>

TypeOK ==
  /\ produced \in 0..MaxSnapshots
  /\ waiting \subseteq Snap
  /\ docsClosed \in BOOLEAN
  /\ mainPc \in {"select", "send", "exited"}
  /\ mainDocs \in Snap \cup {None}
  /\ pending \in Snap \cup {None}
  /\ pendingClosed \in BOOLEAN
  /\ sPc \in {"recv", "post", "backoff", "exited"}
  /\ sDocs \in Snap \cup {None}
  /\ sIdx \in Groups
  /\ applied \in [Groups -> 0..MaxSnapshots]
  /\ sent \in Seq(Snap)
  /\ ctxDone \in BOOLEAN
  /\ panicked \in BOOLEAN

Init ==
  /\ produced = 0
  /\ waiting = {}
  /\ docsClosed = FALSE
  /\ mainPc = "select"
  /\ mainDocs = None
  /\ pending = None
  /\ pendingClosed = FALSE
  /\ sPc = "recv"
  /\ sDocs = None
  /\ sIdx = 1
  /\ applied = [g \in Groups |-> 0]
  /\ sent = <<>>
  /\ ctxDone = FALSE
  /\ panicked = FALSE

-----------------------------------------------------------------------------
(* Discovery and the forwarder goroutine                                   *)

(* The notifier emits a new snapshot; the forwarder receives it from      *)
(* notifierC and spawns `go func() { groupYamlDocs <- marshal(...) }()`.   *)
Discover ==
  /\ ~ctxDone
  /\ produced < MaxSnapshots
  /\ SlowDiscovery => waiting = {}
  /\ produced' = produced + 1
  /\ waiting' = waiting \cup {produced + 1}
  /\ UNCHANGED <<docsClosed, mainVars, pending, pendingClosed, senderVars,
                 ctxDone, panicked>>

(* After cancellation the notifier closes notifierC and the forwarder     *)
(* runs `defer close(groupYamlDocs)`.                                      *)
CloseUpdates ==
  /\ ctxDone
  /\ ~docsClosed
  /\ docsClosed' = TRUE
  /\ UNCHANGED <<produced, waiting, mainVars, pending, pendingClosed,
                 senderVars, ctxDone, panicked>>

(* A spawned goroutine still blocked on groupYamlDocs <- docs when the    *)
(* channel is closed panics.                                               *)
SpawnedSendPanics ==
  /\ docsClosed
  /\ waiting # {}
  /\ panicked' = TRUE
  /\ UNCHANGED <<feedVars, mainVars, pending, pendingClosed, senderVars,
                 ctxDone>>

-----------------------------------------------------------------------------
(* Main loop of streamRulesToGateway                                       *)

(* select: a spawned goroutine's send completes (any of the blocked       *)
(* senders: they race), or updateC is closed, or ctx is done.             *)
MainSelect ==
  /\ mainPc = "select"
  /\ \/ \E s \in waiting :
          /\ waiting' = waiting \ {s}
          /\ mainDocs' = s
          /\ mainPc' = "send"
     \/ docsClosed /\ mainPc' = "exited" /\ UNCHANGED <<waiting, mainDocs>>
     \/ ctxDone /\ mainPc' = "exited" /\ UNCHANGED <<waiting, mainDocs>>
  /\ UNCHANGED <<produced, docsClosed, pending, pendingClosed, senderVars,
                 ctxDone, panicked>>

(* pending <- yamlDocs: blocks while pending is full; panics once the     *)
(* sender has closed pending.                                              *)
MainSend ==
  /\ mainPc = "send"
  /\ \/ pendingClosed /\ panicked' = TRUE /\ UNCHANGED <<mainVars, pending>>
     \/ /\ ~pendingClosed /\ pending = None
        /\ pending' = mainDocs
        /\ mainPc' = "select"
        /\ mainDocs' = None
        /\ UNCHANGED panicked
  /\ UNCHANGED <<feedVars, pendingClosed, senderVars, ctxDone>>

-----------------------------------------------------------------------------
(* Sender goroutine                                                        *)

SenderExit ==
  /\ sPc' = "exited"
  /\ pendingClosed' = TRUE
  /\ UNCHANGED <<pending, sDocs, sIdx>>

TakePending ==
  /\ pending # None
  /\ sDocs' = pending
  /\ pending' = None
  /\ sIdx' = 1
  /\ sPc' = "post"
  /\ UNCHANGED pendingClosed

(* select { case docs = <-pending: ...; case <-ctx.Done(): return }       *)
SenderRecv ==
  /\ sPc = "recv"
  /\ TakePending \/ (ctxDone /\ SenderExit)
  /\ UNCHANGED <<feedVars, mainVars, applied, sent, ctxDone, panicked>>

(* Mutant: `continue` instead of `break` after the last document, so the  *)
(* batch is posted again from the first document.                          *)
PostAcceptedResends ==
  /\ sPc = "post"
  /\ ~ctxDone
  /\ applied' = [applied EXCEPT ![sIdx] = sDocs]
  /\ IF sIdx = NumGroups
       THEN sent' = Append(sent, sDocs) /\ sIdx' = 1
       ELSE sIdx' = sIdx + 1 /\ UNCHANGED sent
  /\ UNCHANGED <<feedVars, mainVars, pending, pendingClosed, sPc, sDocs,
                 ctxDone, panicked>>

(* Mutant: the document index is not reset when the batch is done.       *)
PostAcceptedNoReset ==
  /\ sPc = "post"
  /\ ~ctxDone
  /\ applied' = [applied EXCEPT ![sIdx] = sDocs]
  /\ sIdx' = sIdx + 1
  /\ IF sIdx = NumGroups
       THEN sent' = Append(sent, sDocs) /\ sPc' = "recv"
       ELSE UNCHANGED <<sPc, sent>>
  /\ UNCHANGED <<feedVars, mainVars, pending, pendingClosed, sDocs, ctxDone,
                 panicked>>

(* The POST of document sIdx is answered 202: the gateway stores it.      *)
(* After the last document the batch is logged as sent and the loop       *)
(* breaks back to the receive.                                             *)
PostAccepted ==
  /\ sPc = "post"
  /\ ~ctxDone
  /\ applied' = [applied EXCEPT ![sIdx] = sDocs]
  /\ IF sIdx = NumGroups
       THEN /\ sent' = Append(sent, sDocs)
            /\ sPc' = "recv" /\ sIdx' = 1
       ELSE /\ sIdx' = sIdx + 1
            /\ UNCHANGED <<sPc, sent>>
  /\ UNCHANGED <<feedVars, mainVars, pending, pendingClosed, sDocs, ctxDone,
                 panicked>>

(* The POST fails: an error, the 2 s timeout, a cancelled context, or a   *)
(* code other than 202.  The sender logs and enters the backoff select.   *)
PostFailed ==
  /\ sPc = "post"
  /\ sPc' = "backoff"
  /\ UNCHANGED <<feedVars, mainVars, pending, pendingClosed, sDocs, sIdx,
                 applied, sent, ctxDone, panicked>>

(* Mutant: `case <-pending:` receives the newer snapshot but does not    *)
(* assign it to docs, so the retry re-posts the stale batch.               *)
BackoffDropsNewer ==
  /\ sPc = "backoff"
  /\ \/ pending # None /\ pending' = None /\ sIdx' = 1 /\ sPc' = "post"
        /\ UNCHANGED <<pendingClosed, sDocs>>
     \/ sPc' = "post" /\ sIdx' = 1 /\ UNCHANGED <<pending, pendingClosed, sDocs>>
     \/ ctxDone /\ SenderExit
  /\ UNCHANGED <<feedVars, mainVars, applied, sent, ctxDone, panicked>>

(* Mutant: the backoff select without its ctx.Done() case.                 *)
BackoffIgnoresCancel ==
  /\ sPc = "backoff"
  /\ \/ TakePending
     \/ sPc' = "post" /\ sIdx' = 1 /\ UNCHANGED <<pending, pendingClosed, sDocs>>
  /\ UNCHANGED <<feedVars, mainVars, applied, sent, ctxDone, panicked>>

(* select { case docs = <-pending: goto RETRY;                            *)
(*          case <-time.After(5s): goto RETRY;  case <-ctx.Done(): return }*)
(* RETRY starts again from the first document.                             *)
Backoff ==
  /\ sPc = "backoff"
  /\ \/ TakePending
     \/ sPc' = "post" /\ sIdx' = 1 /\ UNCHANGED <<pending, pendingClosed, sDocs>>
     \/ ctxDone /\ SenderExit
  /\ UNCHANGED <<feedVars, mainVars, applied, sent, ctxDone, panicked>>

-----------------------------------------------------------------------------
(* The agent's context is cancelled (shutdown).                            *)
Cancel ==
  /\ AllowCancel
  /\ ~ctxDone
  /\ ctxDone' = TRUE
  /\ UNCHANGED <<feedVars, mainVars, pending, pendingClosed, senderVars,
                 panicked>>

(* A panic kills the process: no goroutine takes another step.            *)
Alive == ~panicked

Next ==
  \/ Alive /\ Discover
  \/ Alive /\ CloseUpdates
  \/ Alive /\ SpawnedSendPanics
  \/ Alive /\ MainSelect
  \/ Alive /\ MainSend
  \/ Alive /\ SenderRecv
  \/ Alive /\ PostAccepted
  \/ Alive /\ PostFailed
  \/ Alive /\ Backoff
  \/ Alive /\ Cancel

(* Every goroutine keeps running; Go's select picks among ready cases at  *)
(* random, so a case ready again and again is eventually taken; a POST    *)
(* returns within its 2 s timeout; the notifier keeps ticking; the        *)
(* gateway eventually accepts each document sent to it again and again    *)
(* (its failures are transient).                                           *)
Fairness ==
  /\ WF_vars(~panicked /\ Discover)
  /\ WF_vars(~panicked /\ MainSelect) /\ WF_vars(~panicked /\ MainSend)
  /\ WF_vars(~panicked /\ SenderRecv)
  /\ WF_vars(~panicked /\ (PostAccepted \/ PostFailed))
  /\ \A g \in Groups : SF_vars(~panicked /\ PostAccepted /\ sIdx = g)
  /\ SF_vars(~panicked /\ Backoff /\ sPc' = "exited")
  /\ WF_vars(~panicked /\ Backoff)

Spec == Init /\ [][Next]_vars
FairSpec == Spec /\ Fairness

-----------------------------------------------------------------------------
(* Properties                                                              *)

(* Spec 5: snapshots are delivered in order.  The batches the sender      *)
(* reports as "successfully sent" are strictly increasing, so no snapshot *)
(* is delivered after a newer one and none twice.                          *)
BatchesInOrder ==
  \A i, j \in DOMAIN sent : i < j => sent[i] < sent[j]

(* Latest wins: unless the agent is cancelled, once discovery stops the   *)
(* gateway eventually holds the newest snapshot for every rule group,      *)
(* whatever was preempted.                                                 *)
LatestDelivered == <>[](ctxDone \/ \A g \in Groups : applied[g] = MaxSnapshots)

(* Spec 4.7.1 (4): after cancellation the sender goroutine returns, even  *)
(* during backoff.                                                         *)
SenderStopsOnCancel == ctxDone ~> (sPc = "exited" \/ panicked)

(* No goroutine sends on a closed channel: neither the main loop on       *)
(* pending after the sender closed it, nor a spawned goroutine on         *)
(* groupYamlDocs after the forwarder closed it.                            *)
NoPanic == ~panicked

=============================================================================
