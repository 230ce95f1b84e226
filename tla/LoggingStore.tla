---------------------------- MODULE LoggingStore ----------------------------
(***************************************************************************)
(* The KubernetesStore of pkg/storage/kubernetes: LoggingCluster objects  *)
(* (loggingcluster_store.go) and the OpenSearch user Secrets of           *)
(* opensearchUserStore (kubernetes.go).  Concurrent callers are           *)
(* processes; each API-server call is one atomic step.                     *)
(*                                                                         *)
(* Users: the Secret named after one user id, written by concurrent Puts  *)
(* (the handler draws user names at random, so two Puts of one name are  *)
(* a name collision).  A password is identified with the writer.           *)
(*                                                                         *)
(* LoggingClusters: objects get a generated name ("downstream-" + random) *)
(* and carry the cluster id as a label; names are never reused.  Calls    *)
(* that make one API call and fail change nothing and are left out.       *)
(***************************************************************************)
EXTENDS Naturals, FiniteSets

CONSTANTS
  Writers,      \* concurrent opensearchUserStore.Put calls on one user id
  Updaters,     \* concurrent UpdateCluster calls
  Ids,          \* cluster ids (the OpniClusterID label)
  Names,        \* generated object names
  MaxVersion,   \* bound on a LoggingCluster's resourceVersion
  StoreMayFail, \* the API server may answer a call with an error
  NoUser        \* Get of the user answers NotFound

ASSUME StoreMayFail \in BOOLEAN /\ MaxVersion \in Nat \ {0}

VARIABLES
  secret,   \* the user's Secret: [present, ver, data]
  uput,     \* [Writers -> [pc, ver]]: each Put in progress
  useen,    \* what the last Get of the user returned
  lc,       \* [Names -> [present, id, ver]]: LoggingCluster objects
  used,     \* names some CreateCluster has used
  deleted,  \* names a DeleteCluster has removed
  upd       \* [Updaters -> [pc, id, name, ver]]: each UpdateCluster call

vars == <<secret, uput, useen, lc, used, deleted, upd>>
userVars == <<secret, uput, useen>>
clusterVars == <<lc, used, deleted, upd>>

PutPcs == {"idle", "create", "get", "update", "ok", "failed"}
UpdPcs == {"idle", "update", "ok", "failed"}

TypeOK ==
  /\ secret \in [present : BOOLEAN, ver : Nat, data : Writers \cup {NoUser}]
  /\ uput \in [Writers -> [pc : PutPcs, ver : Nat]]
  /\ useen \in Writers \cup {NoUser}
  /\ lc \in [Names -> [present : BOOLEAN, id : Ids, ver : 0..MaxVersion]]
  /\ used \subseteq Names /\ deleted \subseteq used
  /\ upd \in [Updaters -> [pc : UpdPcs, id : Ids, name : Names,
                          ver : 0..MaxVersion]]

(* The id and name fields of an absent object or an idle call.            *)
AnyId == CHOOSE i \in Ids : TRUE

Init ==
  /\ secret = [present |-> FALSE, ver |-> 0, data |-> NoUser]
  /\ uput = [w \in Writers |-> [pc |-> "idle", ver |-> 0]]
  /\ useen = NoUser
  /\ lc = [n \in Names |-> [present |-> FALSE, id |-> AnyId, ver |-> 0]]
  /\ used = {} /\ deleted = {}
  /\ upd = [u \in Updaters |-> [pc |-> "idle", id |-> AnyId,
                                name |-> CHOOSE n \in Names : TRUE, ver |-> 0]]

-----------------------------------------------------------------------------
(* opensearchUserStore                                                     *)

SetPut(w, pc) == uput' = [uput EXCEPT ![w].pc = pc]

(* Put: the Secret {name: user.Id, data.password} is built and Created.   *)
UserCall(w) ==
  /\ uput[w].pc = "idle"
  /\ SetPut(w, "create")
  /\ UNCHANGED <<secret, useen, clusterVars>>

(* Mutant: AlreadyExists taken for success, as if the user were new.     *)
UserCreateIgnoresExisting(w) ==
  /\ uput[w].pc = "create"
  /\ \/ /\ ~secret.present
        /\ secret' = [present |-> TRUE, ver |-> 1, data |-> w]
     \/ secret.present /\ UNCHANGED secret
  /\ SetPut(w, "ok")
  /\ UNCHANGED <<useen, clusterVars>>

(* client.Create: success -> return nil; AlreadyExists -> Get the Secret  *)
(* and update it; any other error -> return it.                            *)
UserCreate(w) ==
  /\ uput[w].pc = "create"
  /\ \/ /\ ~secret.present
        /\ secret' = [present |-> TRUE, ver |-> 1, data |-> w]
        /\ SetPut(w, "ok")
     \/ secret.present /\ SetPut(w, "get") /\ UNCHANGED secret
     \/ StoreMayFail /\ SetPut(w, "failed") /\ UNCHANGED secret
  /\ UNCHANGED <<useen, clusterVars>>

(* client.Get into indexUserSecret; an error is returned.                  *)
UserGet(w) ==
  /\ uput[w].pc = "get"
  /\ \/ uput' = [uput EXCEPT ![w].pc = "update", ![w].ver = secret.ver]
     \/ StoreMayFail /\ SetPut(w, "failed")
  /\ UNCHANGED <<secret, useen, clusterVars>>

(* Data["password"] = secret; client.Update on the version read: success, *)
(* or Conflict (or another error), which Put returns without a retry.     *)
UserUpdate(w) ==
  /\ uput[w].pc = "update"
  /\ \/ /\ secret.present /\ secret.ver = uput[w].ver
        /\ secret' = [secret EXCEPT !.ver = @ + 1, !.data = w]
        /\ SetPut(w, "ok")
     \/ secret.ver # uput[w].ver /\ SetPut(w, "failed") /\ UNCHANGED secret
     \/ StoreMayFail /\ SetPut(w, "failed") /\ UNCHANGED secret
  /\ UNCHANGED <<useen, clusterVars>>

(* Get: the Secret's password, or the client's NotFound error.             *)
UserRead ==
  /\ useen' = IF secret.present THEN secret.data ELSE NoUser
  /\ useen' # useen
  /\ UNCHANGED <<secret, uput, clusterVars>>

-----------------------------------------------------------------------------
(* LoggingCluster store                                                    *)

WithId(i) == {n \in Names : lc[n].present /\ lc[n].id = i}

(* CreateCluster: labels[OpniClusterID] = id; Create with GenerateName,   *)
(* which the API server completes with a fresh name.                       *)
CreateCluster(i) ==
  /\ \E n \in Names \ used :
       /\ lc' = [lc EXCEPT ![n] = [present |-> TRUE, id |-> i, ver |-> 1]]
       /\ used' = used \cup {n}
  /\ UNCHANGED <<deleted, upd, userVars>>

(* DeleteCluster: DeleteAllOf the objects labelled with the id.            *)
DeleteCluster(i) ==
  /\ WithId(i) # {}
  /\ lc' = [n \in Names |-> IF n \in WithId(i)
                              THEN [lc[n] EXCEPT !.present = FALSE] ELSE lc[n]]
  /\ deleted' = deleted \cup WithId(i)
  /\ UNCHANGED <<used, upd, userVars>>

(* UpdateCluster, first call: List the objects labelled with the id; an   *)
(* error is returned (wrapped as ErrNotFound), and so is any count but    *)
(* exactly one; the one object, with its resourceVersion, is updated.     *)
UpdateList(u, i) ==
  /\ upd[u].pc = "idle"
  /\ \/ \E n \in WithId(i) :
          /\ WithId(i) = {n}
          /\ upd' = [upd EXCEPT ![u] = [pc |-> "update", id |-> i, name |-> n,
                                        ver |-> lc[n].ver]]
     \/ /\ Cardinality(WithId(i)) # 1 \/ StoreMayFail
        /\ upd' = [upd EXCEPT ![u].pc = "failed", ![u].id = i]
  /\ UNCHANGED <<lc, used, deleted, userVars>>

(* Mutant: Update as an upsert that recreates an object deleted since.    *)
UpdateWriteUpserts(u) ==
  /\ upd[u].pc = "update"
  /\ lc[upd[u].name].ver < MaxVersion
  /\ lc' = [lc EXCEPT ![upd[u].name] = [present |-> TRUE, id |-> upd[u].id,
                                        ver |-> @.ver + 1]]
  /\ upd' = [upd EXCEPT ![u].pc = "ok"]
  /\ UNCHANGED <<used, deleted, userVars>>

(* Mutant: the listed object's resourceVersion is not sent.               *)
UpdateWriteAnyVersion(u) ==
  /\ upd[u].pc = "update"
  /\ \/ /\ lc[upd[u].name].present
        /\ lc[upd[u].name].ver < MaxVersion
        /\ lc' = [lc EXCEPT ![upd[u].name].ver = @ + 1]
        /\ upd' = [upd EXCEPT ![u].pc = "ok"]
     \/ /\ ~lc[upd[u].name].present
        /\ upd' = [upd EXCEPT ![u].pc = "failed"] /\ UNCHANGED lc
  /\ UNCHANGED <<used, deleted, userVars>>

(* UpdateCluster, second call: name, user and labels set on the listed    *)
(* object and client.Update: it succeeds on the resourceVersion listed;   *)
(* Conflict, NotFound (deleted since) or another error is returned.       *)
UpdateWrite(u) ==
  /\ upd[u].pc = "update"
  /\ LET n == upd[u].name IN
     \/ /\ lc[n].present /\ lc[n].ver = upd[u].ver
        /\ lc[n].ver < MaxVersion
        /\ lc' = [lc EXCEPT ![n].ver = @ + 1]
        /\ upd' = [upd EXCEPT ![u].pc = "ok"]
     \/ /\ ~lc[n].present \/ lc[n].ver # upd[u].ver \/ StoreMayFail
        /\ upd' = [upd EXCEPT ![u].pc = "failed"] /\ UNCHANGED lc
  /\ UNCHANGED <<used, deleted, userVars>>

Next ==
  \/ \E w \in Writers : UserCall(w) \/ UserCreate(w) \/ UserGet(w) \/ UserUpdate(w)
  \/ UserRead
  \/ \E i \in Ids : CreateCluster(i) \/ DeleteCluster(i)
  \/ \E u \in Updaters, i \in Ids : UpdateList(u, i)
  \/ \E u \in Updaters : UpdateWrite(u)

Spec == Init /\ [][Next]_vars

-----------------------------------------------------------------------------
(* The user Secret as a register: its password, or NoUser; a Put is       *)
(* pending from its Create until it returns.                               *)
AbsUser == IF secret.present THEN secret.data ELSE NoUser
AbsPut ==
  [w \in Writers |->
     IF uput[w].pc \in {"idle", "ok", "failed"} THEN uput[w].pc ELSE "pending"]

UserRegister == INSTANCE KeyringRegister
                  WITH NoKeyring <- NoUser, data <- AbsUser, put <- AbsPut,
                       seen <- useen

(* opensearchUserStore implements the single-object store contract: each  *)
(* Put that returns nil replaced the password in one atomic step (by      *)
(* Create, or by the Update after AlreadyExists), each failing Put        *)
(* changed nothing, and Get returns the password stored at that moment,   *)
(* whatever the interleaving of the Create race and the Get-Update.       *)
ImplementsUserRegister == UserRegister!Spec

(* Spec 4.4: concurrent UpdateCluster calls are serialised by CAS: two    *)
(* calls that both returned success on one object listed it at different *)
(* versions, so neither overwrote a state it had not seen.                 *)
UpdatesSerialised ==
  \A u1, u2 \in Updaters :
    (u1 # u2 /\ upd[u1].pc = "ok" /\ upd[u2].pc = "ok"
             /\ upd[u1].name = upd[u2].name) => upd[u1].ver # upd[u2].ver

(* A LoggingCluster removed by DeleteCluster stays removed: an            *)
(* UpdateCluster that listed it before the delete cannot bring it back.   *)
DeletedStaysDeleted == \A n \in deleted : ~lc[n].present

(* Spec 4.4: of concurrent CreateCluster calls with one id exactly one   *)
(* succeeds, so no id is ever carried by two LoggingCluster objects       *)
(* (GetCluster and UpdateCluster refuse an id with more than one).        *)
OneClusterPerId == \A i \in Ids : Cardinality(WithId(i)) <= 1

=============================================================================
