---------------------------- MODULE BoundedCache ----------------------------
(***************************************************************************)
(* What the permanent part of RingBufferCache promises its users, without  *)
(* slots, head, pins or a scan: a map from keys to responses whose total   *)
(* size is bounded, in which a response that a reader is using stays where *)
(* it is, unchanged, until the reader lets go of it.                       *)
(*                                                                         *)
(* RingStore is shown to implement this module (ImplementsBoundedCache).   *)
(***************************************************************************)
EXTENDS Integers

CONSTANTS
    Keys,           \* cache keys
    Values,         \* complete responses
    Readers,        \* streams that may be serving a hit
    Capacity,       \* bound on the accounted size of all cached responses
    SizeOf(_, _),   \* accounted size of a response cached under a key
    NoEntry         \* "nothing": not an entry and not a value

Entry == [key : Keys, val : Values]

VARIABLES
    store,          \* the response cached under each key, or NoEntry
    used,           \* accounted size of everything cached
    using           \* the entry each reader is using, or NoEntry

vars == <<store, used, using>>

Init ==
    /\ store = [k \in Keys |-> NoEntry]
    /\ used = 0
    /\ using = [r \in Readers |-> NoEntry]

(* A complete response is cached under a key that has none, if it fits. *)
Put(k, v) ==
    /\ store[k] = NoEntry
    /\ used + SizeOf(k, v) <= Capacity
    /\ store' = [store EXCEPT ![k] = v]
    /\ used' = used + SizeOf(k, v)
    /\ UNCHANGED using

(* A response nobody is using may be forgotten. *)
Evict(k) ==
    /\ store[k] # NoEntry
    /\ \A r \in Readers : using[r] # [key |-> k, val |-> store[k]]
    /\ store' = [store EXCEPT ![k] = NoEntry]
    /\ used' = used - SizeOf(k, store[k])
    /\ UNCHANGED using

(* A reader gets the response that is cached under its key. *)
Use(r, k) ==
    /\ using[r] = NoEntry
    /\ store[k] # NoEntry
    /\ using' = [using EXCEPT ![r] = [key |-> k, val |-> store[k]]]
    /\ UNCHANGED <<store, used>>

Release(r) ==
    /\ using[r] # NoEntry
    /\ using' = [using EXCEPT ![r] = NoEntry]
    /\ UNCHANGED <<store, used>>

Next ==
    \/ \E k \in Keys : Evict(k) \/ (\E v \in Values : Put(k, v))
    \/ \E r \in Readers : Release(r) \/ (\E k \in Keys : Use(r, k))

Spec == Init /\ [][Next]_vars
=============================================================================
