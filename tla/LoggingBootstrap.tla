--------------------------- MODULE LoggingBootstrap ---------------------------
(***************************************************************************)
(* /bootstrap/logging (ServerConfig.handleBootstrapLogging,               *)
(* pkg/bootstrap/server.go) against the Kubernetes LoggingClusterStore    *)
(* (pkg/storage/kubernetes/loggingcluster_store.go).  Concurrent requests *)
(* are processes; each store call is one atomic step.                      *)
(*                                                                         *)
(* LoggingCluster objects carry the client id as a label and get a        *)
(* generated name, so the store may hold any number of objects for one    *)
(* id; the model keeps their count per id.                                 *)
(***************************************************************************)
EXTENDS Naturals

CONSTANTS
  ClientIDs,    \* ids the logging agents present
  Req,          \* concurrent /bootstrap/logging requests
  MaxObjects,   \* bound on LoggingCluster objects per id
  TokenStoreMayFail \* GetToken may fail with an error other than ErrNotFound

VARIABLES
  objects,      \* [ClientIDs -> Nat]: LoggingCluster objects labelled with id
  reqs          \* [Req -> [id, pc, code]]

vars == <<objects, reqs>>

ReqPcs == {"idle", "getToken", "getCluster", "done"}
Codes == {0, 200, 401, 409, 500}

TypeOK ==
  /\ objects \in [ClientIDs -> 0..MaxObjects]
  /\ reqs \in [Req -> [id : ClientIDs, pc : ReqPcs, code : Codes]]

(* The namespace may already hold LoggingCluster objects for an id (left  *)
(* by an operator or an earlier registration), several of them for one   *)
(* id included, since each Create uses GenerateName.                       *)
Init ==
  /\ objects \in [ClientIDs -> 0..MaxObjects]
  /\ \E id \in [Req -> ClientIDs] :
       reqs = [r \in Req |-> [id |-> id[r], pc |-> "idle", code |-> 0]]

Respond(r, code) == reqs' = [reqs EXCEPT ![r].pc = "done", ![r].code = code]

(* A request arrives with an Authorization header.                         *)
Receive(r) ==
  /\ reqs[r].pc = "idle"
  /\ reqs' = [reqs EXCEPT ![r].pc = "getToken"]
  /\ UNCHANGED objects

(* Empty header, a JWS that does not verify, or a token GetToken reports  *)
(* as ErrNotFound -> 401; any other GetToken error -> 500; a token found  *)
(* -> on to the cluster check.  (The token store itself is the TokenStore *)
(* module.)                                                                *)
VerifyToken(r) ==
  /\ reqs[r].pc = "getToken"
  /\ \/ Respond(r, 401)
     \/ TokenStoreMayFail /\ Respond(r, 500)
     \/ reqs' = [reqs EXCEPT ![r].pc = "getCluster"]
  /\ UNCHANGED objects

(* KubernetesStore.GetCluster: List the objects labelled with the id; a  *)
(* List error or any count but exactly one -> fmt.Errorf (the count error  *)
(* "fetched %d clusters, expected 1" wraps nothing); one -> the cluster.   *)
StoreGetCluster(id) == IF objects[id] = 1 THEN "found" ELSE "error"

(* The handler: found -> 409 "ID already in use"; an error that is not    *)
(* storage.ErrNotFound -> 500; ErrNotFound -> go on to create the user.   *)
(* StoreGetCluster never returns ErrNotFound, so the rest of the handler  *)
(* (OpenSearch user, CreateCluster, 200) is never reached.                 *)
GetCluster(r) ==
  /\ reqs[r].pc = "getCluster"
  /\ IF StoreGetCluster(reqs[r].id) = "found"
       THEN Respond(r, 409) ELSE Respond(r, 500)
  /\ UNCHANGED objects

Next == \E r \in Req : Receive(r) \/ VerifyToken(r) \/ GetCluster(r)

Spec == Init /\ [][Next]_vars

-----------------------------------------------------------------------------
(* A logging agent with a valid token and a ClientID the gateway has not  *)
(* registered is admitted (spec: generate the OpenSearch user, create the *)
(* LoggingCluster, answer 200): the store being healthy, the handler      *)
(* never answers such a request 500.                                       *)
NewClusterNotRefused ==
  \A r \in Req : reqs[r].code = 500 => objects[reqs[r].id] > 1

=============================================================================
