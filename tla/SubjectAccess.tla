---------------------------- MODULE SubjectAccess ----------------------------
(***************************************************************************)
(* Subject access over the in-memory RBAC and cluster stores of            *)
(* pkg/test/mock_helpers.go (NewTestRBACStore, NewTestClusterStore).       *)
(* Each store call holds the store's mutex and is one atomic step.         *)
(*                                                                         *)
(* The evaluator (spec 4.10; its code is not under src/) lists the role    *)
(* bindings, keeps those naming the subject, loads each binding's role    *)
(* with GetRole and then, per role found, lists the clusters its          *)
(* match_labels selects and adds the ids in its cluster_ids.  Those are   *)
(* separate store calls, so management calls (CreateRole, DeleteRole,     *)
(* bindings, clusters and their labels) interleave with them.             *)
(*                                                                         *)
(* Roles and bindings are fixed records named by model values; the stores *)
(* hold which of them exist.  A selector is one label value.  Binding     *)
(* taints (ApplyRoleBindingTaints, run by the mock after it unlocks) only *)
(* annotate and are left out.                                              *)
(***************************************************************************)
EXTENDS Naturals, FiniteSets

CONSTANTS
  Subject,          \* the subject SubjectAccess is asked about
  Subjects,         \* all subjects
  Clusters,         \* cluster ids
  Labels,           \* values of the one label selectors test
  Roles,            \* role ids
  Bindings,         \* role binding ids
  RoleClusterIDs,   \* [Roles -> SUBSET Clusters]: Role.ClusterIDs
  RoleMatch,        \* [Roles -> Labels]: Role.MatchLabels
  BindingRole,      \* [Bindings -> Roles]: RoleBinding.RoleId
  BindingSubjects,  \* [Bindings -> SUBSET Subjects]: RoleBinding.Subjects
  MaxWrites         \* bound on management calls in a behaviour

ASSUME Subject \in Subjects
ASSUME RoleClusterIDs \in [Roles -> SUBSET Clusters]
ASSUME RoleMatch \in [Roles -> Labels]
ASSUME BindingRole \in [Bindings -> Roles]
ASSUME BindingSubjects \in [Bindings -> SUBSET Subjects]

VARIABLES
  roles,        \* keys of the mock's roles map
  rbs,          \* keys of the mock's rbs map
  clusters,     \* keys of the mock's clusters map
  label,        \* [Clusters -> Labels]: each cluster's label value
  evPc,         \* the evaluator: "idle", "list", "roles", "clusters", "done"
  evBindings,   \* bindings of Subject not yet resolved to a role
  evRoles,      \* roles found and not yet expanded to clusters
  result,       \* clusters gathered so far
  quiet,        \* no management call since the evaluation started
  held,         \* clusters Subject could access at some moment of the call
  writes        \* management calls so far

vars == <<roles, rbs, clusters, label, evPc, evBindings, evRoles, result,
          quiet, held, writes>>
storeVars == <<roles, rbs, clusters, label>>
evVars == <<evPc, evBindings, evRoles, result>>

(* The reference definition, spec 8 property 2: S may access C iff some  *)
(* binding lists S and its role lists C or selects C's labels.            *)
Selects(r, c) == c \in RoleClusterIDs[r] \/ (c \in clusters /\ label[c] = RoleMatch[r])
Access ==
  {c \in Clusters : \E b \in rbs : /\ Subject \in BindingSubjects[b]
                                   /\ BindingRole[b] \in roles
                                   /\ Selects(BindingRole[b], c)}

TypeOK ==
  /\ roles \subseteq Roles /\ rbs \subseteq Bindings
  /\ clusters \subseteq Clusters /\ label \in [Clusters -> Labels]
  /\ evPc \in {"idle", "list", "roles", "clusters", "done"}
  /\ evBindings \subseteq Bindings /\ evRoles \subseteq Roles
  /\ result \subseteq Clusters /\ quiet \in BOOLEAN /\ held \subseteq Clusters
  /\ writes \in 0..MaxWrites

Init ==
  /\ roles \in SUBSET Roles /\ rbs \in SUBSET Bindings
  /\ clusters \in SUBSET Clusters /\ label \in [Clusters -> Labels]
  /\ evPc = "idle" /\ evBindings = {} /\ evRoles = {} /\ result = {}
  /\ quiet = TRUE /\ held = {}
  /\ writes = 0

(* A call in progress records what Subject may access in the new state.  *)
Running(pc) == pc \in {"list", "roles", "clusters"}

-----------------------------------------------------------------------------
(* Management calls: each is one locked map update of the mock.           *)

Write ==
  /\ writes < MaxWrites
  /\ writes' = writes + 1
  /\ quiet' = FALSE
  /\ held' = IF Running(evPc) THEN held \cup Access' ELSE held
  /\ UNCHANGED evVars

(* CreateRole: roles[role.Id] = role.                                      *)
CreateRole(r) ==
  /\ roles' = roles \cup {r}
  /\ UNCHANGED <<rbs, clusters, label>>
  /\ Write

(* DeleteRole: ErrNotFound for a missing id, else delete(roles, id).       *)
DeleteRole(r) ==
  /\ r \in roles
  /\ roles' = roles \ {r}
  /\ UNCHANGED <<rbs, clusters, label>>
  /\ Write

(* CreateRoleBinding: rbs[rb.Id] = rb; a missing role is not rejected.    *)
CreateRoleBinding(b) ==
  /\ rbs' = rbs \cup {b}
  /\ UNCHANGED <<roles, clusters, label>>
  /\ Write

(* DeleteRoleBinding: ErrNotFound for a missing id, else delete.           *)
DeleteRoleBinding(b) ==
  /\ b \in rbs
  /\ rbs' = rbs \ {b}
  /\ UNCHANGED <<roles, clusters, label>>
  /\ Write

(* CreateCluster: clusters[cluster.Id] = cluster, with its labels.        *)
CreateCluster(c, l) ==
  /\ clusters' = clusters \cup {c}
  /\ label' = [label EXCEPT ![c] = l]
  /\ UNCHANGED <<roles, rbs>>
  /\ Write

(* DeleteCluster: ErrNotFound for a missing id, else delete.               *)
DeleteCluster(c) ==
  /\ c \in clusters
  /\ clusters' = clusters \ {c}
  /\ UNCHANGED <<roles, rbs, label>>
  /\ Write

(* UpdateCluster: ErrNotFound for a missing id; else clone, apply the     *)
(* mutator (here: set the label) and store the clone.                      *)
UpdateCluster(c, l) ==
  /\ c \in clusters
  /\ label' = [label EXCEPT ![c] = l]
  /\ UNCHANGED <<roles, rbs, clusters>>
  /\ Write

-----------------------------------------------------------------------------
(* The evaluator                                                           *)

(* A call of SubjectAccess(Subject) starts.                                *)
EvalStart ==
  /\ evPc \in {"idle", "done"}
  /\ evPc' = "list"
  /\ result' = {}
  /\ quiet' = TRUE
  /\ held' = Access
  /\ UNCHANGED <<storeVars, evBindings, evRoles, writes>>

(* ListRoleBindings: the rbs map cloned under the lock; the bindings that *)
(* list Subject are kept.                                                  *)
ListRoleBindings ==
  /\ evPc = "list"
  /\ evBindings' = {b \in rbs : Subject \in BindingSubjects[b]}
  /\ evPc' = "roles"
  /\ UNCHANGED <<storeVars, evRoles, result, quiet, held, writes>>

(* GetRole(binding.RoleId): ErrNotFound for a deleted role (the binding   *)
(* is tainted and contributes nothing), else the role.  After the last    *)
(* binding the evaluator goes on to the clusters.                          *)
GetRole(b) ==
  /\ evPc = "roles"
  /\ b \in evBindings
  /\ evBindings' = evBindings \ {b}
  /\ evRoles' = IF BindingRole[b] \in roles
                  THEN evRoles \cup {BindingRole[b]} ELSE evRoles
  /\ evPc' = IF evBindings' = {} THEN "clusters" ELSE "roles"
  /\ UNCHANGED <<storeVars, result, quiet, held, writes>>

(* All bindings resolved (or none listed Subject).                         *)
RolesDone ==
  /\ evPc = "roles"
  /\ evBindings = {}
  /\ evPc' = "clusters"
  /\ UNCHANGED <<storeVars, evBindings, evRoles, result, quiet, held, writes>>

(* Mutant: ListClusters whose selector predicate accepts every cluster.  *)
ListClustersNoSelector(r) ==
  /\ evPc = "clusters"
  /\ r \in evRoles
  /\ evRoles' = evRoles \ {r}
  /\ result' = result \cup RoleClusterIDs[r] \cup clusters
  /\ UNCHANGED <<storeVars, evPc, evBindings, quiet, held, writes>>

(* ListClusters(role.MatchLabels): under the lock, every stored cluster   *)
(* the ClusterSelector predicate accepts; the role's cluster ids are      *)
(* added to them.                                                          *)
ListClusters(r) ==
  /\ evPc = "clusters"
  /\ r \in evRoles
  /\ evRoles' = evRoles \ {r}
  /\ result' = result \cup RoleClusterIDs[r]
                      \cup {c \in clusters : label[c] = RoleMatch[r]}
  /\ UNCHANGED <<storeVars, evPc, evBindings, quiet, held, writes>>

(* Every role expanded: the deduplicated list is returned.                 *)
EvalReturn ==
  /\ evPc = "clusters"
  /\ evRoles = {}
  /\ evPc' = "done"
  /\ UNCHANGED <<storeVars, evBindings, evRoles, result, quiet, held, writes>>

Next ==
  \/ \E r \in Roles : CreateRole(r) \/ DeleteRole(r)
  \/ \E b \in Bindings : CreateRoleBinding(b) \/ DeleteRoleBinding(b)
  \/ \E c \in Clusters, l \in Labels : UpdateCluster(c, l) \/ CreateCluster(c, l)
  \/ \E c \in Clusters : DeleteCluster(c)
  \/ EvalStart \/ ListRoleBindings \/ RolesDone \/ EvalReturn
  \/ \E b \in Bindings : GetRole(b)
  \/ \E r \in Roles : ListClusters(r)

Spec == Init /\ [][Next]_vars

-----------------------------------------------------------------------------
(* Spec 8 property 2: a SubjectAccess call that no management call        *)
(* overlapped returns exactly the clusters the subject may access.         *)
QuiescentAccessExact ==
  evPc = "done" /\ quiet => result = Access

(* A call overlapped by management calls returns only clusters that the   *)
(* subject could access at some moment during the call (it never grants  *)
(* access no state of the stores granted).                                 *)
AccessWasHeld ==
  evPc = "done" => result \subseteq held

=============================================================================
