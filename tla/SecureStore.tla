---------------------------- MODULE SecureStore ----------------------------
(***************************************************************************)
(* What the storage API of src/include/sec_storage.h promises its caller:  *)
(* users that come and go, each with a password and with files that need   *)
(* one.  Registering a user and creating a file are not atomic: they       *)
(* begin, and they finish or are abandoned, and what is abandoned stays    *)
(* behind half made.  Everything else is one step.                         *)
(***************************************************************************)
CONSTANTS Users, Files, Passwords, Values, None

Half == "half"   \* a file whose creation has begun and not finished

VARIABLES account,  \* "absent", "half" or "registered", for each user
          key,      \* the password that opens a user's files
          store,    \* for each user and file: None, Half or its contents
          pending   \* the registration or creation under way

vars == <<account, key, store, pending>>

Empty == [f \in Files |-> None]

Init ==
  /\ account = [u \in Users |-> "absent"]
  /\ key = [u \in Users |-> None]
  /\ store = [u \in Users |-> Empty]
  /\ pending = None

BeginRegister(u) ==
  /\ pending = None /\ account[u] = "absent"
  /\ account' = [account EXCEPT ![u] = "half"]
  /\ pending' = <<"register", u>>
  /\ UNCHANGED <<key, store>>

SetKey(u, p) ==
  /\ pending = <<"register", u>> /\ account[u] = "half" /\ key[u] = None
  /\ key' = [key EXCEPT ![u] = p]
  /\ UNCHANGED <<account, store, pending>>

\* A user is registered only with a password.
FinishRegister(u) ==
  /\ pending = <<"register", u>> /\ account[u] = "half" /\ key[u] # None
  /\ account' = [account EXCEPT ![u] = "registered"]
  /\ pending' = None
  /\ UNCHANGED <<key, store>>

\* A user that has a password is removed in one step with all the files.
Unregister(u) ==
  /\ pending = None /\ key[u] # None
  /\ account' = [account EXCEPT ![u] = "absent"]
  /\ key' = [key EXCEPT ![u] = None]
  /\ store' = [store EXCEPT ![u] = Empty]
  /\ UNCHANGED pending

BeginCreate(u, f) ==
  /\ pending = None /\ key[u] # None /\ store[u][f] = None
  /\ store' = [store EXCEPT ![u] = [@ EXCEPT ![f] = Half]]
  /\ pending' = <<"create", u, f>>
  /\ UNCHANGED <<account, key>>

\* The contents appear whole, and only by the call that began.
FinishCreate(u, f, v) ==
  /\ pending = <<"create", u, f>> /\ store[u][f] = Half
  /\ store' = [store EXCEPT ![u] = [@ EXCEPT ![f] = v]]
  /\ pending' = None
  /\ UNCHANGED <<account, key>>

Delete(u, f) ==
  /\ pending = None /\ key[u] # None /\ store[u][f] # None
  /\ store' = [store EXCEPT ![u] = [@ EXCEPT ![f] = None]]
  /\ UNCHANGED <<account, key, pending>>

Abandon ==
  /\ pending # None
  /\ pending' = None
  /\ UNCHANGED <<account, key, store>>

Next ==
  \/ \E u \in Users :
       \/ BeginRegister(u) \/ FinishRegister(u) \/ Unregister(u)
       \/ \E p \in Passwords : SetKey(u, p)
       \/ \E f \in Files :
            \/ BeginCreate(u, f) \/ Delete(u, f)
            \/ \E v \in Values : FinishCreate(u, f, v)
  \/ Abandon

Spec == Init /\ [][Next]_vars
=============================================================================
