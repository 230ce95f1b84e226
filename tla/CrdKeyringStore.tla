--------------------------- MODULE CrdKeyringStore ---------------------------
(***************************************************************************)
(* crdKeyringStore (pkg/storage/crds/keyring_store.go): a keyring kept in *)
(* one Keyring custom resource named after ref.Id.  Put reads the object;  *)
(* if it is absent it Creates it, otherwise it runs retry.OnError(Conflict)*)
(* around Get-then-Update, where Update succeeds only on the               *)
(* resourceVersion it read.  Concurrent callers of Put are processes; each *)
(* API-server call is one atomic step.                                     *)
(***************************************************************************)
EXTENDS Naturals

CONSTANTS
  Writers,      \* concurrent callers of Put on one ref
  MaxTries,     \* attempts defaultBackoff allows retry.OnError
  StoreMayFail, \* the API server may answer with an error other than
                \* NotFound, AlreadyExists or Conflict
  NoKeyring

ASSUME MaxTries \in Nat \ {0} /\ StoreMayFail \in BOOLEAN

VARIABLES
  obj,          \* the Keyring object: [present, ver, data]
  wr,           \* [Writers -> [pc, ver, tries]]: each Put in progress
  seen          \* what the last Get returned

vars == <<obj, wr, seen>>

WriterPcs == {"idle", "get", "create", "retryGet", "update", "ok", "failed"}

TypeOK ==
  /\ obj \in [present : BOOLEAN, ver : Nat, data : Writers \cup {NoKeyring}]
  /\ wr \in [Writers -> [pc : WriterPcs, ver : Nat, tries : 0..MaxTries]]
  /\ seen \in Writers \cup {NoKeyring}

Init ==
  /\ obj = [present |-> FALSE, ver |-> 0, data |-> NoKeyring]
  /\ wr = [w \in Writers |-> [pc |-> "idle", ver |-> 0, tries |-> 0]]
  /\ seen = NoKeyring

SetPc(w, pc) == wr' = [wr EXCEPT ![w].pc = pc]

(* A caller starts Put; keyring.Marshal cannot fail on a built keyring.    *)
Call(w) ==
  /\ wr[w].pc = "idle"
  /\ SetPc(w, "get")
  /\ UNCHANGED <<obj, seen>>

(* The first client.Get: NotFound -> build the object and Create it;      *)
(* another error -> return it; found -> enter the retry.OnError loop.      *)
GetFirst(w) ==
  /\ wr[w].pc = "get"
  /\ \/ ~obj.present /\ SetPc(w, "create")
     \/ obj.present /\ SetPc(w, "retryGet")
     \/ StoreMayFail /\ SetPc(w, "failed")
  /\ UNCHANGED <<obj, seen>>

(* return ks.client.Create(ctx, kr): AlreadyExists if another Put created *)
(* the object since the Get; the error is returned, not retried.           *)
Create(w) ==
  /\ wr[w].pc = "create"
  /\ \/ /\ ~obj.present
        /\ obj' = [present |-> TRUE, ver |-> 1, data |-> w]
        /\ SetPc(w, "ok")
     \/ obj.present /\ SetPc(w, "failed") /\ UNCHANGED obj
     \/ StoreMayFail /\ SetPc(w, "failed") /\ UNCHANGED obj
  /\ UNCHANGED seen

(* Inside the retry: client.Get; its resourceVersion goes into the Update. *)
RetryGet(w) ==
  /\ wr[w].pc = "retryGet"
  /\ \/ wr' = [wr EXCEPT ![w].pc = "update", ![w].ver = obj.ver]
     \/ StoreMayFail /\ SetPc(w, "failed")
  /\ UNCHANGED <<obj, seen>>

(* Mutant: the error of Update is dropped and Put returns nil.             *)
UpdateIgnoresConflict(w) ==
  /\ wr[w].pc = "update"
  /\ \/ /\ obj.ver = wr[w].ver
        /\ obj' = [obj EXCEPT !.ver = @ + 1, !.data = w]
     \/ obj.ver # wr[w].ver /\ UNCHANGED obj
  /\ SetPc(w, "ok")
  /\ UNCHANGED seen

(* Mutant: one more attempt than the backoff allows.                       *)
UpdateRetriesOnceMore(w) ==
  /\ wr[w].pc = "update"
  /\ \/ /\ obj.ver = wr[w].ver
        /\ obj' = [obj EXCEPT !.ver = @ + 1, !.data = w]
        /\ SetPc(w, "ok")
     \/ /\ obj.ver # wr[w].ver
        /\ wr' = [wr EXCEPT ![w].tries = @ + 1,
                            ![w].pc = IF wr[w].tries + 1 <= MaxTries
                                      THEN "retryGet" ELSE "failed"]
        /\ UNCHANGED obj
  /\ UNCHANGED seen

(* kr.Data = data; client.Update: it succeeds on the resourceVersion it   *)
(* read, else answers Conflict, which retry.OnError retries while the     *)
(* backoff has steps left and otherwise returns.                           *)
Update(w) ==
  /\ wr[w].pc = "update"
  /\ \/ /\ obj.ver = wr[w].ver
        /\ obj' = [obj EXCEPT !.ver = @ + 1, !.data = w]
        /\ SetPc(w, "ok")
     \/ /\ obj.ver # wr[w].ver
        /\ wr' = [wr EXCEPT ![w].tries = @ + 1,
                            ![w].pc = IF wr[w].tries + 1 < MaxTries
                                      THEN "retryGet" ELSE "failed"]
        /\ UNCHANGED obj
     \/ StoreMayFail /\ SetPc(w, "failed") /\ UNCHANGED obj
  /\ UNCHANGED seen

(* Get: NotFound -> storage.ErrNotFound; otherwise Unmarshal(kr.Data).     *)
Get ==
  /\ seen' = IF obj.present THEN obj.data ELSE NoKeyring
  /\ seen' # seen
  /\ UNCHANGED <<obj, wr>>

Next ==
  \/ Get
  \/ \E w \in Writers : \/ Call(w) \/ GetFirst(w) \/ Create(w)
                        \/ RetryGet(w) \/ Update(w)

Spec == Init /\ [][Next]_vars

-----------------------------------------------------------------------------
(* The refinement mapping: the register holds the object's data; a Put is *)
(* pending from its first call to the API server until it returns.         *)
AbsData == IF obj.present THEN obj.data ELSE NoKeyring
AbsPut ==
  [w \in Writers |->
     IF wr[w].pc \in {"idle", "ok", "failed"} THEN wr[w].pc ELSE "pending"]

Abstract == INSTANCE KeyringRegister WITH data <- AbsData, put <- AbsPut

(* crdKeyringStore implements the KeyringStore contract: each Put that    *)
(* returns nil replaced the stored keyring in exactly one atomic step and  *)
(* each Put that returns an error changed nothing, whatever the            *)
(* interleaving of the Create race and the Conflict retries.               *)
ImplementsKeyringRegister == Abstract!Spec

(* Spec 4.4: Put after an existing keyring overwrites it atomically: with *)
(* the API server healthy, no Put returns an error.                        *)
PutSucceedsOnHealthyStore == \A w \in Writers : wr[w].pc # "failed"

=============================================================================
