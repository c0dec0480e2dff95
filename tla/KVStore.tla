------------------------------ MODULE KVStore ------------------------------
(***************************************************************************)
(* What a Bitcask handle promises its callers: a map from keys to values   *)
(* in which put(k, v) and delete(k) take effect atomically, one at a time  *)
(* (they are serialised by the writer mutex).  A call that is in flight   *)
(* when the process dies may take effect or may be lost, but a restart    *)
(* never changes the value of a key that no call is writing.              *)
(*                                                                         *)
(*   store   : the value of every key, Nil when the key is absent.        *)
(*   pending : the put/delete call that has started and not yet taken     *)
(*             effect, or Nil.                                            *)
(*   restarts: how many times the process has died and been reopened.     *)
(***************************************************************************)
EXTENDS Naturals

CONSTANTS Keys, Values, Nil

ASSUME Nil \notin Values

VARIABLES store, pending, restarts

Calls == [op : {"put"}, key : Keys, val : Values]
         \cup [op : {"del"}, key : Keys, val : {Nil}]

TypeOK ==
    /\ store \in [Keys -> Values \cup {Nil}]
    /\ pending \in Calls \cup {Nil}
    /\ restarts \in Nat

Init ==
    /\ store = [k \in Keys |-> Nil]
    /\ pending = Nil
    /\ restarts = 0

\* A call reaches the store (the writer mutex admits one call at a time).
Begin(c) ==
    /\ pending = Nil
    /\ pending' = c
    /\ UNCHANGED <<store, restarts>>

\* The call takes effect: put sets the value, delete makes the key absent.
Commit ==
    /\ pending # Nil
    /\ store' = [store EXCEPT ![pending.key] = pending.val]
    /\ pending' = Nil
    /\ UNCHANGED restarts

\* The process dies and is reopened: the call in flight, if any, has taken
\* effect or is lost; every other key keeps its value.
Restart ==
    /\ restarts' = restarts + 1
    /\ pending' = Nil
    /\ \/ store' = store
       \/ pending # Nil /\ store' = [store EXCEPT ![pending.key] = pending.val]

Next ==
    \/ \E c \in Calls : Begin(c)
    \/ Commit
    \/ Restart

Spec == Init /\ [][Next]_<<store, pending, restarts>>

=============================================================================
