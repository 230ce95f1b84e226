--------------------------- MODULE KeyringRegister ---------------------------
(***************************************************************************)
(* What a KeyringStore (pkg/storage/stores.go) promises: a single-object   *)
(* register scoped by (prefix, ref.id).  Put either replaces the stored    *)
(* keyring in one atomic step and returns nil, or returns an error having *)
(* changed nothing; Get returns the keyring stored at that moment, or      *)
(* ErrNotFound.  The in-memory KeyringStore of pkg/test/mock_helpers.go is *)
(* this register without the error.                                        *)
(*                                                                         *)
(* A keyring is identified with the writer that put it.                    *)
(***************************************************************************)
CONSTANTS
  Writers,      \* concurrent callers of Put on one (prefix, ref)
  NoKeyring     \* Get answers ErrNotFound

VARIABLES
  data,         \* the stored keyring, or NoKeyring
  put,          \* [Writers -> {"idle", "pending", "ok", "failed"}]
  seen          \* what the last Get returned

Init ==
  /\ data = NoKeyring
  /\ put = [w \in Writers |-> "idle"]
  /\ seen = NoKeyring

(* A caller starts Put(ctx, keyring).                                      *)
Call(w) ==
  /\ put[w] = "idle"
  /\ put' = [put EXCEPT ![w] = "pending"]
  /\ UNCHANGED <<data, seen>>

(* The mock's Put: keyrings[prefix+ref.Id] = keyring; return nil.         *)
Put(w) ==
  /\ put[w] = "pending"
  /\ data' = w
  /\ put' = [put EXCEPT ![w] = "ok"]
  /\ UNCHANGED seen

(* A backend Put that returns an error leaves the register as it was.    *)
Fail(w) ==
  /\ put[w] = "pending"
  /\ put' = [put EXCEPT ![w] = "failed"]
  /\ UNCHANGED <<data, seen>>

(* The mock's Get: the stored keyring, or ErrNotFound.                    *)
Get ==
  /\ seen' = data
  /\ UNCHANGED <<data, put>>

Next == Get \/ \E w \in Writers : Call(w) \/ Put(w) \/ Fail(w)

Spec == Init /\ [][Next]_<<data, put, seen>>

=============================================================================
