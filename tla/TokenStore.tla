------------------------------ MODULE TokenStore ------------------------------
(***************************************************************************)
(* The custom-resource TokenStore (pkg/storage/crds/token_store.go) and   *)
(* the gateway handlers that read it: /bootstrap/join, which lists the    *)
(* tokens (pkg/bootstrap/server.go bootstrapJoinResponse), and the        *)
(* GetToken step of /bootstrap/auth.                                       *)
(*                                                                         *)
(* Each BootstrapToken is one Kubernetes object with a resourceVersion.   *)
(* Every client call (Get, List, Create, Update, Delete) is one atomic    *)
(* step of the API server; UpdateToken is a read-modify-write whose       *)
(* Update fails with a conflict when the version read is stale, and       *)
(* retry.OnError repeats it a bounded number of times.  Time is           *)
(* abstracted to the moment each token's TTL runs out: from then on       *)
(* patchTTL computes a TTL of 0 for it.                                    *)
(***************************************************************************)
EXTENDS Naturals, FiniteSets

CONSTANTS
  Tokens,     \* token ids (random, so never reused)
  Updaters,   \* concurrent UpdateToken callers (IncrementUsageCount)
  MaxTries,   \* attempts retry.OnError(defaultBackoff, IsConflict) makes
  NilToken    \* the nil entry ListTokens leaves for an expired token

ASSUME MaxTries \in Nat \ {0}
ASSUME NilToken \notin Tokens

MaxVersion == 1 + Cardinality(Updaters)

VARIABLES
  created,    \* tokens CreateToken has returned
  obj,        \* [Tokens -> [present, ver, usage]]: the API server's objects
  expired,    \* tokens whose creationTimestamp + ttl lies in the past
  gc,         \* tokens a garbageCollectToken goroutine is deleting
  upd,        \* state of each UpdateToken call
  okCount,    \* UpdateToken calls that returned success, per token
  authResp,   \* the answer of the last /bootstrap/auth GetToken, per token
  joinResp    \* the last /bootstrap/join answer: [code, listed]

vars == <<created, obj, expired, gc, upd, okCount, authResp, joinResp>>
storeVars == <<created, obj, expired, gc>>

UpdPcs == {"idle", "get", "update", "done"}
Results == {"none", "ok", "notfound", "conflict"}
AuthCodes == {"none", "valid", "401", "500"}

TypeOK ==
  /\ created \subseteq Tokens
  /\ obj \in [Tokens -> [present : BOOLEAN, ver : 0..MaxVersion,
                         usage : 0..Cardinality(Updaters)]]
  /\ expired \subseteq created
  /\ gc \subseteq created
  /\ upd \in [Updaters -> [tok : Tokens, pc : UpdPcs, ver : 0..MaxVersion,
                           usage : 0..Cardinality(Updaters),
                           tries : 0..MaxTries, result : Results]]
  /\ okCount \in [Tokens -> 0..Cardinality(Updaters)]
  /\ authResp \in [Tokens -> AuthCodes]
  /\ joinResp \in [code : {0, 200, 405}, listed : SUBSET (Tokens \cup {NilToken})]

Init ==
  /\ created = {}
  /\ obj = [t \in Tokens |-> [present |-> FALSE, ver |-> 0, usage |-> 0]]
  /\ expired = {}
  /\ gc = {}
  /\ \E tok \in [Updaters -> Tokens] :
       upd = [u \in Updaters |-> [tok |-> tok[u], pc |-> "idle", ver |-> 0,
                                  usage |-> 0, tries |-> 0, result |-> "none"]]
  /\ okCount = [t \in Tokens |-> 0]
  /\ authResp = [t \in Tokens |-> "none"]
  /\ joinResp = [code |-> 0, listed |-> {}]

-----------------------------------------------------------------------------
(* CreateToken: a fresh random id, UsageCount 0, created as a new object. *)
CreateToken(t) ==
  /\ t \notin created
  /\ created' = created \cup {t}
  /\ obj' = [obj EXCEPT ![t] = [present |-> TRUE, ver |-> 1, usage |-> 0]]
  /\ UNCHANGED <<expired, gc, upd, okCount, authResp, joinResp>>

(* DeleteToken by an administrator; a missing object is ErrNotFound.      *)
DeleteToken(t) ==
  /\ obj[t].present
  /\ obj' = [obj EXCEPT ![t].present = FALSE]
  /\ UNCHANGED <<created, expired, gc, upd, okCount, authResp, joinResp>>

(* Time passes beyond creationTimestamp + ttl: patchTTL now yields 0.     *)
TtlElapses(t) ==
  /\ t \in created \ expired
  /\ expired' = expired \cup {t}
  /\ UNCHANGED <<created, obj, gc, upd, okCount, authResp, joinResp>>

(* patchTTL then the Ttl <= 0 test of GetToken and ListTokens.            *)
TtlExpired(t) == t \in expired

(* garbageCollectToken: retry.OnError(Delete) until it succeeds or the    *)
(* object is NotFound; the goroutine then ends.                            *)
GarbageCollectToken(t) ==
  /\ t \in gc
  /\ gc' = gc \ {t}
  /\ obj' = [obj EXCEPT ![t].present = FALSE]
  /\ UNCHANGED <<created, expired, upd, okCount, authResp, joinResp>>

-----------------------------------------------------------------------------
(* /bootstrap/auth calls GetToken.  Get: NotFound -> storage.ErrNotFound;  *)
(* found with TTL 0 -> spawn the GC goroutine and return                   *)
(* errors.NewNotFound, a Kubernetes error.  The handler answers 401 for    *)
(* errors.Is(err, storage.ErrNotFound) and 500 for any other error.        *)
AuthGetToken(t) ==
  /\ t \in created
  /\ \/ ~obj[t].present
        /\ authResp' = [authResp EXCEPT ![t] = "401"] /\ UNCHANGED gc
     \/ obj[t].present /\ TtlExpired(t)
        /\ gc' = gc \cup {t}
        /\ authResp' = [authResp EXCEPT ![t] = "500"]
     \/ obj[t].present /\ ~TtlExpired(t)
        /\ authResp' = [authResp EXCEPT ![t] = "valid"] /\ UNCHANGED gc
  /\ UNCHANGED <<created, obj, expired, upd, okCount, joinResp>>

(* ListTokens: one List; tokens is make([]..., len(items)) and an expired *)
(* item is skipped with `continue`, so its slot stays nil.                 *)
ListTokens ==
  {t \in Tokens : obj[t].present /\ ~TtlExpired(t)}
    \cup (IF \E t \in Tokens : obj[t].present /\ TtlExpired(t)
            THEN {NilToken} ELSE {})

(* handleBootstrapJoin: bootstrapJoinResponse signs every listed entry    *)
(* (FromBootstrapToken of a nil entry yields the empty token), and no     *)
(* signatures -> 405, otherwise 200.  Each expired item gets a GC.         *)
HandleBootstrapJoin ==
  /\ gc' = gc \cup {t \in Tokens : obj[t].present /\ TtlExpired(t)}
  /\ joinResp' = [code |-> IF ListTokens = {} THEN 405 ELSE 200,
                  listed |-> ListTokens]
  /\ UNCHANGED <<created, obj, expired, upd, okCount, authResp>>

-----------------------------------------------------------------------------
(* UpdateToken(ref, mutator) with mutator = UsageCount++.                  *)
StartUpdate(u) ==
  /\ upd[u].pc = "idle"
  /\ upd[u].tok \in created
  /\ upd' = [upd EXCEPT ![u].pc = "get"]
  /\ UNCHANGED <<storeVars, okCount, authResp, joinResp>>

(* Mutant: the mutator runs on a Spec the clone shares with the object    *)
(* read (a shallow copy), so the increment is applied twice.               *)
UpdateGetSharedSpec(u) ==
  LET t == upd[u].tok IN
  /\ upd[u].pc = "get"
  /\ IF obj[t].present
       THEN upd' = [upd EXCEPT ![u].pc = "update", ![u].ver = obj[t].ver,
                               ![u].usage = obj[t].usage + 2]
       ELSE upd' = [upd EXCEPT ![u].pc = "done", ![u].result = "notfound"]
  /\ UNCHANGED <<storeVars, okCount, authResp, joinResp>>

(* Get existing (an error ends the retry: NotFound -> ErrNotFound), clone *)
(* it and apply the mutator to the clone.                                  *)
UpdateGet(u) ==
  LET t == upd[u].tok IN
  /\ upd[u].pc = "get"
  /\ IF obj[t].present
       THEN upd' = [upd EXCEPT ![u].pc = "update", ![u].ver = obj[t].ver,
                               ![u].usage = obj[t].usage + 1]
       ELSE upd' = [upd EXCEPT ![u].pc = "done", ![u].result = "notfound"]
  /\ UNCHANGED <<storeVars, okCount, authResp, joinResp>>

(* Mutant: Update that ignores the resourceVersion it read.                *)
UpdateWriteBlind(u) ==
  LET t == upd[u].tok IN
  /\ upd[u].pc = "update"
  /\ IF obj[t].present
       THEN /\ obj' = [obj EXCEPT ![t].ver = @ + 1, ![t].usage = upd[u].usage]
            /\ upd' = [upd EXCEPT ![u].pc = "done", ![u].result = "ok"]
            /\ okCount' = [okCount EXCEPT ![t] = @ + 1]
       ELSE /\ upd' = [upd EXCEPT ![u].pc = "done", ![u].result = "notfound"]
            /\ UNCHANGED <<obj, okCount>>
  /\ UNCHANGED <<created, expired, gc, authResp, joinResp>>

(* Update(clone): the object is gone -> NotFound (terminal, ErrNotFound); *)
(* its version moved on -> Conflict, retried from the Get while attempts   *)
(* remain, else returned; otherwise written and the clone returned.        *)
UpdateWrite(u) ==
  LET t == upd[u].tok IN
  /\ upd[u].pc = "update"
  /\ \/ /\ ~obj[t].present
        /\ upd' = [upd EXCEPT ![u].pc = "done", ![u].result = "notfound"]
        /\ UNCHANGED <<obj, okCount>>
     \/ /\ obj[t].present /\ obj[t].ver # upd[u].ver
        /\ upd' = IF upd[u].tries + 1 < MaxTries
                    THEN [upd EXCEPT ![u].pc = "get", ![u].tries = @ + 1]
                    ELSE [upd EXCEPT ![u].pc = "done", ![u].tries = @ + 1,
                                     ![u].result = "conflict"]
        /\ UNCHANGED <<obj, okCount>>
     \/ /\ obj[t].present /\ obj[t].ver = upd[u].ver
        /\ obj' = [obj EXCEPT ![t].ver = @ + 1, ![t].usage = upd[u].usage]
        /\ upd' = [upd EXCEPT ![u].pc = "done", ![u].result = "ok"]
        /\ okCount' = [okCount EXCEPT ![t] = @ + 1]
  /\ UNCHANGED <<created, expired, gc, authResp, joinResp>>

-----------------------------------------------------------------------------
Next ==
  \/ \E t \in Tokens : \/ CreateToken(t) \/ DeleteToken(t) \/ TtlElapses(t)
                       \/ GarbageCollectToken(t) \/ AuthGetToken(t)
  \/ HandleBootstrapJoin
  \/ \E u \in Updaters : StartUpdate(u) \/ UpdateGet(u) \/ UpdateWrite(u)

Spec == Init /\ [][Next]_vars

-----------------------------------------------------------------------------
(***************************************************************************)
(* Properties                                                              *)
(***************************************************************************)

(* No lost update: while a token exists its UsageCount equals the number  *)
(* of UpdateToken calls that reported success on it, however the Get and  *)
(* Update steps of concurrent IncrementUsageCount calls interleave.       *)
NoLostUpdate ==
  \A t \in Tokens : obj[t].present => obj[t].usage = okCount[t]

(* The stored usage count of a token never goes down (spec: "the observed *)
(* counter is never decreased"), even when a stale clone is written.      *)
UsageNeverDecreases ==
  [][\A t \in Tokens : obj'[t].present /\ obj[t].present
                         => obj'[t].usage >= obj[t].usage]_obj

(* A token that is missing or expired is answered 401 by /bootstrap/auth  *)
(* (spec scenario: ttl 1s, wait 2s, expect 401); the store is healthy, so  *)
(* GetToken never makes it answer 500.                                     *)
ExpiredTokenIsUnauthorized ==
  \A t \in Tokens : authResp[t] # "500"

(* /bootstrap/join answers 200 only with signatures of live tokens; with  *)
(* none it answers 405 (spec: "No tokens - server is not accepting").     *)
JoinListsOnlyLiveTokens ==
  joinResp.code = 200 => NilToken \notin joinResp.listed

(* Spec 4.4: the CRD store has no native TTL, so GetToken recomputes it   *)
(* and answers NotFound once it has run out, and ListTokens filters       *)
(* expired entries out.  Expiry is applied lazily, when a token is read;  *)
(* to the bootstrap handlers an expired token must then be a token that   *)
(* does not exist: /bootstrap/auth answers it 401, never 500, and         *)
(* /bootstrap/join lists no entry for it.                                  *)
ExpiredTokenReadsAsNotFound ==
  ExpiredTokenIsUnauthorized /\ JoinListsOnlyLiveTokens

=============================================================================
