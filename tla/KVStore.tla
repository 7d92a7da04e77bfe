------------------------------ MODULE KVStore ------------------------------
(***************************************************************************)
(* What put(), del() and get() promise to callers while the process runs:  *)
(* one map.  A write takes effect at once, at some moment between its call *)
(* and its return; get(k) answers store[k].  Freezes, flushes and the SST  *)
(* files do not show.                                                      *)
(***************************************************************************)
EXTENDS Integers

CONSTANTS Keys, Clients

VARIABLES
  store,   \* the value of every key, 0 if it has none
  call     \* the write every client is in

Idle == [key |-> -1, ent |-> 0, done |-> TRUE]

Pending == [key : Keys, ent : Int, done : {FALSE}]

Init == store = [k \in Keys |-> 0] /\ call = [c \in Clients |-> Idle]

Invoke(c) ==
  /\ call[c] = Idle
  /\ call'[c] \in Pending
  /\ call' = [call EXCEPT ![c] = call'[c]]
  /\ UNCHANGED store

(* A negative entry is a delete. *)
TakeEffect(c) ==
  /\ call[c] \in Pending
  /\ store' = [store EXCEPT ![call[c].key] = IF call[c].ent > 0 THEN call[c].ent ELSE 0]
  /\ call' = [call EXCEPT ![c] = [key |-> @.key, ent |-> @.ent, done |-> TRUE]]

Return(c) ==
  /\ call[c] # Idle /\ call[c].done
  /\ call' = [call EXCEPT ![c] = Idle]
  /\ UNCHANGED store

Next == \E c \in Clients : Invoke(c) \/ TakeEffect(c) \/ Return(c)

Spec == Init /\ [][Next]_<<store, call>>
=============================================================================
