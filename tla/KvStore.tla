------------------------------ MODULE KvStore ------------------------------
(***************************************************************************)
(* What the storage engine of a locality group promises its tablet: a map *)
(* from user keys to the newest write, changed only by writes applied one  *)
(* at a time in sequence order (spec section 5: writes are linearisable  *)
(* in queue order; section 3: a read returns the highest-sequence entry,   *)
(* not found for a deletion).  A                                           *)
(* value is identified by the sequence number that wrote it; 0 is a       *)
(* missing or deleted key.  Memtable swaps, dumps, compactions and file   *)
(* deletion are internal and leave the map as it is.                      *)
(***************************************************************************)
EXTENDS Naturals

CONSTANT Keys

VARIABLES
    store,  \* key -> the sequence of its newest put, 0 if absent or deleted
    last    \* the sequence of the newest applied write

kvVars == <<store, last>>

Init ==
    /\ store = [k \in Keys |-> 0]
    /\ last = 0

\* A put of key k at the next sequence.
Put(k) ==
    /\ store' = [store EXCEPT ![k] = last + 1]
    /\ last' = last + 1

\* A deletion of key k at the next sequence.
Del(k) ==
    /\ store' = [store EXCEPT ![k] = 0]
    /\ last' = last + 1

Next == \E k \in Keys : Put(k) \/ Del(k)

Spec == Init /\ [][Next]_kvVars
=============================================================================
