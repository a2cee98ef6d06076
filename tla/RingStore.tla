----------------------------- MODULE RingStore ------------------------------
(***************************************************************************)
(* The permanent part of RingBufferCache (ring-cache/cache.h, cache.cc):   *)
(* the ring of slots, the key map, the byte accounting, the eviction scan, *)
(* and the pins that keep an entry in place while a hit is being served.   *)
(*                                                                         *)
(* The mutex is held from BeginFinalize until InsertEntry or Drop, and for *)
(* the single step LookupHit.  Serving a hit and giving a pin back happen  *)
(* without the mutex, so they interleave with every iteration of the scan: *)
(* scan = "unlocked" is the only value at which LookupHit and              *)
(* BeginFinalize can get the mutex, and ServeHit and Drain do not ask.     *)
(*                                                                         *)
(* Which responses arrive, and when a body has drained, is up to the       *)
(* environment.  That a response is never finalized under a key that is    *)
(* already cached is assumed here (in Next) and discharged by              *)
(* RingCache, which composes this module with the coalescing part.         *)
(***************************************************************************)
EXTENDS Integers, FiniteSets

CONSTANTS
    Keys,           \* cache keys
    Values,         \* complete responses (headers and body)
    Readers,        \* streams that may be serving a hit
    Capacity,       \* capacity_
    SlotCount,      \* slot_count_
    SizeOf(_, _),   \* Entry::size(): key, number of headers and body length
    HasBody(_),     \* whether a response's body is non-empty
    NoEntry,        \* the null unique_ptr of an empty slot
    SizeModulus     \* 2^64: size_t arithmetic wraps here

ASSUME SlotCountAssumption == SlotCount \in Nat \ {0}
ASSUME CapacityAssumption == Capacity \in Nat \ {0}
ASSUME ModulusAssumption == SizeModulus \in Nat /\ Capacity < SizeModulus
ASSUME SizeAssumption ==
    \A k \in Keys, v \in Values : SizeOf(k, v) \in 0 .. (SizeModulus - 1)
ASSUME HasBodyAssumption == \A v \in Values : HasBody(v) \in BOOLEAN
ASSUME ReadersAssumption == IsFiniteSet(Readers)

Slots == 0 .. (SlotCount - 1)
NoSlot == -1
Entry == [key : Keys, val : Values]
ASSUME NoEntryAssumption == NoEntry \notin Entry /\ NoEntry \notin Values

VARIABLES
    slots,          \* slots_: the entry in each slot, or NoEntry
    cache_map,      \* cache_map_: the slot of each cached key, or NoSlot
    used_size,      \* used_size_
    head,           \* head_
    pins,           \* pins_ of the entry in each slot
    ref,            \* the slot whose entry a reader points to, or NoSlot
    serving,        \* where a reader is between lookup() and its last unpin
    scan,           \* where finalizeLocked() is, "unlocked" when it is not
    job,            \* the response being finalized, or NoEntry
    start           \* start, later start_slot, of the scan

vars == <<slots, cache_map, used_size, head, pins, ref, serving,
          scan, job, start>>
ring == <<slots, cache_map, used_size, head>>
hits == <<pins, ref, serving>>

TypeOK ==
    /\ slots \in [Slots -> Entry \cup {NoEntry}]
    /\ cache_map \in [Keys -> Slots \cup {NoSlot}]
    /\ used_size \in 0 .. (SizeModulus - 1)
    /\ head \in Slots
    /\ pins \in [Slots -> Nat]
    /\ ref \in [Readers -> Slots \cup {NoSlot}]
    /\ serving \in [Readers -> {"no", "headers", "body"}]
    /\ scan \in {"unlocked", "evict", "slot", "drop"}
    /\ job \in Entry \cup {NoEntry}
    /\ (job = NoEntry) <=> (scan = "unlocked")
    /\ start \in Slots

Init ==
    /\ slots = [i \in Slots |-> NoEntry]
    /\ cache_map = [k \in Keys |-> NoSlot]
    /\ used_size = 0
    /\ head = 0
    /\ pins = [i \in Slots |-> 0]
    /\ ref = [r \in Readers |-> NoSlot]
    /\ serving = [r \in Readers |-> "no"]
    /\ scan = "unlocked"
    /\ job = NoEntry
    /\ start = 0

-----------------------------------------------------------------------------
(* Arithmetic on size_t, written without % so that each case is visible. *)

Plus(a, b) == IF a + b < SizeModulus THEN a + b ELSE a + b - SizeModulus
Minus(a, b) == IF a >= b THEN a - b ELSE a - b + SizeModulus

Size(e) == SizeOf(e.key, e.val)
Room == Minus(Capacity, used_size)

(* Mutant: the head runs off the end of slots_. *)
AdvanceNoWrap(i) == i + 1

(* (head_ + 1) % slot_count_ *)
Advance(i) == IF i + 1 = SlotCount THEN 0 ELSE i + 1

-----------------------------------------------------------------------------
(* lookup(), the Hit case.                                                 *)

(* Mutant: the pin is never given back. *)
UnpinNothing(i) == UNCHANGED pins

Pin(i) == pins' = [pins EXCEPT ![i] = @ + 1]
Unpin(i) == pins' = [pins EXCEPT ![i] = @ - 1]

Cached(k) == cache_map[k] # NoSlot

(* The critical section: find the entry and pin it. *)
LookupHit(r, k) ==
    /\ scan = "unlocked"
    /\ serving[r] = "no"
    /\ Cached(k)
    /\ Pin(cache_map[k])
    /\ ref' = [ref EXCEPT ![r] = cache_map[k]]
    /\ serving' = [serving EXCEPT ![r] = "headers"]
    /\ UNCHANGED <<ring, scan, job, start>>

(* After the unlock: copy the headers out of the entry; without a body the
   pin is given back at once, otherwise the body's fragment keeps it. *)
ServeHit(r) ==
    /\ serving[r] = "headers"
    /\ IF HasBody(slots[ref[r]].val)
       THEN /\ serving' = [serving EXCEPT ![r] = "body"]
            /\ UNCHANGED <<pins, ref>>
       ELSE /\ Unpin(ref[r])
            /\ ref' = [ref EXCEPT ![r] = NoSlot]
            /\ serving' = [serving EXCEPT ![r] = "no"]
    /\ UNCHANGED <<ring, scan, job, start>>

(* The fragment's releasor: the connection has drained, or dropped, the
   body.  It runs on the reader's thread, with no lock. *)
Drain(r) ==
    /\ serving[r] = "body"
    /\ Unpin(ref[r])
    /\ ref' = [ref EXCEPT ![r] = NoSlot]
    /\ serving' = [serving EXCEPT ![r] = "no"]
    /\ UNCHANGED <<ring, scan, job, start>>

-----------------------------------------------------------------------------
(* finalizeLocked() and evictTillCapacityLocked().                         *)

(* Mutant: no early exit. *)
OversizedIgnored(k, v) == FALSE

(* size_needed > capacity_ *)
Oversized(k, v) == SizeOf(k, v) > Capacity

(* The mutex is taken and a complete response is finalized.  A response
   larger than the whole cache is turned away at once; any other starts
   the scan where the head is. *)
BeginFinalize(k, v) ==
    /\ scan = "unlocked"
    /\ job' = [key |-> k, val |-> v]
    /\ scan' = IF Oversized(k, v) THEN "drop" ELSE "evict"
    /\ start' = head
    /\ UNCHANGED <<ring, hits>>

(* Mutant: there is room as long as the cache is not overfull. *)
EnoughIfNotOverfull == used_size <= Capacity

(* The negation of the first loop's condition. *)
Enough == Room >= Size(job)

(* Mutant: the scan does not look at the pins. *)
EvictablePinned(i) == slots[i] # NoEntry

Evictable(i) == slots[i] # NoEntry /\ pins[i] = 0

(* Mutant: an entry leaves its slot but stays in the map. *)
ForgetNothing(k) == UNCHANGED cache_map

Forget(k) == cache_map' = [cache_map EXCEPT ![k] = NoSlot]

(* evictHeadLocked() *)
EvictHead ==
    /\ used_size' = Minus(used_size, Size(slots[head]))
    /\ Forget(slots[head].key)
    /\ slots' = [slots EXCEPT ![head] = NoEntry]

(* Mutants: the first loop stops one slot short of a full turn, or never. *)
BackAtStartTooSoon == Advance(head') = start
NeverBackAtStart == FALSE

(* start == head_, after the head has advanced *)
BackAtStart == head' = start

(* One iteration of the first loop: there is too little room, so evict what
   the head points to unless it is pinned, and go on; back at the start
   with too little room, the response is dropped. *)
ScanStep ==
    /\ scan = "evict"
    /\ ~Enough
    /\ \/ Evictable(head) /\ EvictHead
       \/ ~Evictable(head) /\ UNCHANGED <<slots, cache_map, used_size>>
    /\ head' = Advance(head)
    /\ scan' = IF BackAtStart /\ Room' < Size(job) THEN "drop" ELSE "evict"
    /\ UNCHANGED <<hits, job, start>>

(* The first loop ends with enough room; the second one looks for a slot. *)
RoomFound ==
    /\ scan = "evict"
    /\ Enough
    /\ scan' = "slot"
    /\ start' = head
    /\ UNCHANGED <<ring, hits, job>>

(* One iteration of the second loop, over an occupied slot. *)
SlotTaken ==
    /\ scan = "slot"
    /\ slots[head] # NoEntry
    /\ head' = Advance(head)
    /\ scan' = IF BackAtStart THEN "drop" ELSE "slot"
    /\ UNCHANGED <<slots, cache_map, used_size, hits, job, start>>

(* Mutant: the size is taken of the moved-from response. *)
ChargedNothing(e) == used_size

Charged(e) == Plus(used_size, Size(e))

(* Mutant: the head stays at the slot just filled. *)
HeadStays == head

HeadAfterInsert == Advance(head)

(* Room and a free slot: insertEntryLocked() makes the entry, with no pins,
   and the mutex is released. *)
InsertEntry ==
    /\ scan = "slot"
    /\ slots[head] = NoEntry
    /\ slots' = [slots EXCEPT ![head] = job]
    /\ pins' = [pins EXCEPT ![head] = 0]
    /\ cache_map' = [cache_map EXCEPT ![job.key] = head]
    /\ head' = HeadAfterInsert
    /\ used_size' = Charged(job)
    /\ scan' = "unlocked"
    /\ job' = NoEntry
    /\ UNCHANGED <<ref, serving, start>>

(* evictTillCapacityLocked() has returned false: the response is forgotten
   and the mutex is released. *)
Drop ==
    /\ scan = "drop"
    /\ scan' = "unlocked"
    /\ job' = NoEntry
    /\ UNCHANGED <<ring, hits, start>>

-----------------------------------------------------------------------------
Finalizing == ScanStep \/ RoomFound \/ SlotTaken \/ InsertEntry \/ Drop

Next ==
    \/ \E r \in Readers : ServeHit(r) \/ Drain(r)
    \/ \E r \in Readers, k \in Keys : LookupHit(r, k)
    \/ \E k \in Keys, v \in Values : ~Cached(k) /\ BeginFinalize(k, v)
    \/ Finalizing

SafetySpec == Init /\ [][Next]_vars

-----------------------------------------------------------------------------
(* Properties.                                                             *)

SlotSize(i) == IF slots[i] = NoEntry THEN 0 ELSE Size(slots[i])

(* f is the running total of the sizes of the entries in slots 0, 1, ... *)
RunningTotal(f) ==
    /\ f[0] = 0
    /\ \A i \in Slots : f[i + 1] = f[i] + SlotSize(i)
    /\ \A i, j \in 0 .. SlotCount : i <= j => f[i] <= f[j]

(* used_size_ is exactly the total size of the entries that sit in the
   slots, which never exceeds capacity_: so the unsigned subtraction
   capacity_ - used_size_ in the scan never wraps.  The size of a response is
   taken three times: size_needed in finalizeLocked, which room is made for,
   and Entry::size(), added in insertEntryLocked and taken away by a later
   scan in evictHeadLocked.  SizeOf is the value of all three. *)
Accounted ==
    \E f \in [0 .. SlotCount -> 0 .. Capacity] :
        RunningTotal(f) /\ used_size = f[SlotCount]

(* cache_map_ and slots_ describe the same set of entries: a key's pointer
   leads to the live entry with that key, and every entry in a slot can be
   found under its key.  A pointer to an evicted entry, or an entry that no
   lookup can reach, would break it. *)
MapMatchesSlots ==
    /\ \A k \in Keys : Cached(k) =>
          slots[cache_map[k]] # NoEntry /\ slots[cache_map[k]].key = k
    /\ \A i \in Slots : slots[i] # NoEntry => cache_map[slots[i].key] = i

Holders(i) == {r \in Readers : ref[r] = i}

(* An entry's pins_ is the number of streams that still point into it, at
   every moment between a pin under the mutex and the unpins without it: no
   hit leaks a pin and none gives one back twice. *)
PinsExact ==
    \A i \in Slots : slots[i] # NoEntry => pins[i] = Cardinality(Holders(i))

(* The entry a stream points into stays in its slot, unchanged, until that
   stream gives its pin back, whatever a finalizing thread evicts or inserts
   meanwhile: lookup() copies the headers, and the connection sends the
   body, from memory that is still there. *)
InUseStays ==
    [][\A r \in Readers :
          ref[r] # NoSlot /\ ref'[r] = ref[r]
              => slots[ref[r]] # NoEntry /\ slots'[ref[r]] = slots[ref[r]]]_vars

(* A response is dropped for one of three reasons only: it is larger than
   the cache, a full turn of the scan could not make room for it, or there
   is room but every slot is taken.  Both loops stop at the right slot. *)
DropHasReason ==
    scan = "drop" =>
        \/ Size(job) > Capacity
        \/ Room < Size(job)
        \/ \A i \in Slots : slots[i] # NoEntry

(* What a user of the store sees of it: the response under each key, and the
   entry each reader is looking at. *)
VisibleStore ==
    [k \in Keys |-> IF Cached(k) THEN slots[cache_map[k]].val ELSE NoEntry]
VisibleUse ==
    [r \in Readers |-> IF ref[r] = NoSlot THEN NoEntry ELSE slots[ref[r]]]

Bounded == INSTANCE BoundedCache WITH
    store <- VisibleStore, used <- used_size, using <- VisibleUse

(* The ring, with its head, pins and scan, is a bounded cache: nothing a
   reader is using changes or goes away, what is cached is never more than
   the capacity, and the sizes are accounted without a wrap. *)
ImplementsBoundedCache == Bounded!Spec
=============================================================================
