-------------------------- MODULE RingStoreHistory --------------------------
(***************************************************************************)
(* RingStore with history variables, for what can only be said about the   *)
(* order of insertions or about a whole scan.  Every step is a step of     *)
(* RingStore; the history variables restrict none of them.                 *)
(***************************************************************************)
EXTENDS RingStore, SequencesExt

VARIABLES
    order,          \* the cached keys, oldest entry first
    spared,         \* slots this scan has passed over because of their pins
    before,         \* the keys that were cached when this scan began
    moves,          \* how far this scan has moved the head
    skipped         \* whether any scan has ever passed over an entry in use

history == <<order, spared, before, moves, skipped>>
hvars == <<vars, history>>

CachedKeys == {k \in Keys : Cached(k)}

HInit ==
    /\ Init
    /\ order = <<>>
    /\ spared = {}
    /\ before = {}
    /\ moves = 0
    /\ skipped = FALSE

HBeginFinalize(k, v) ==
    /\ ~Cached(k)
    /\ BeginFinalize(k, v)
    /\ spared' = {}
    /\ before' = CachedKeys
    /\ moves' = 0
    /\ UNCHANGED <<order, skipped>>

InUse(i) == slots[i] # NoEntry /\ pins[i] # 0

(* The places in the order of the keys that this step forgets: at most one. *)
EvictedNow == {n \in DOMAIN order : cache_map'[order[n]] = NoSlot}

HScanStep ==
    /\ ScanStep
    /\ order' = IF EvictedNow = {} THEN order
                ELSE RemoveAt(order, CHOOSE n \in EvictedNow : TRUE)
    /\ spared' = spared \cup {i \in {head} : InUse(i)}
    /\ moves' = moves + 1
    /\ skipped' = (skipped \/ InUse(head))
    /\ UNCHANGED before

HSlotTaken ==
    /\ SlotTaken
    /\ moves' = moves + 1
    /\ UNCHANGED <<order, spared, before, skipped>>

HInsertEntry ==
    /\ InsertEntry
    /\ order' = Append(order, job.key)
    /\ UNCHANGED <<spared, before, moves, skipped>>

HNext ==
    \/ \E k \in Keys, v \in Values : HBeginFinalize(k, v)
    \/ HScanStep
    \/ HSlotTaken
    \/ HInsertEntry
    \/ /\ \/ \E r \in Readers : ServeHit(r) \/ Drain(r)
          \/ \E r \in Readers, k \in Keys : LookupHit(r, k)
          \/ RoomFound
          \/ Drop
       /\ UNCHANGED history

HSpec == HInit /\ [][HNext]_hvars

-----------------------------------------------------------------------------
(* A response that would fit is dropped for want of room only when every
   entry left in the cache was in use when the scan came to it: the scan
   looks at every slot once, from wherever the head stood, and no unused
   entry escapes it. *)
DropOnlyBehindPins ==
    scan = "drop" /\ Size(job) <= Capacity /\ Room < Size(job)
        => \A i \in Slots : slots[i] # NoEntry => i \in spared

(* A dropped response has cost another one its place only when it would have
   fitted and an entry in use stood in the way.  An oversized response and
   one that finds no slot evict nothing: in particular, once the first loop
   has evicted an entry, the second always finds a free slot. *)
FutileEvictionOnlyBehindPins ==
    scan = "drop" /\ CachedKeys # before
        => Size(job) <= Capacity /\ Room < Size(job) /\ spared # {}

(* A finalization moves the head less than two full turns, whatever is
   pinned and however pins are given back meanwhile: this is how long the
   mutex can be held.  The second loop gets a full turn only if the first one
   did not have to move, since an eviction leaves a free slot behind. *)
ScanBounded == moves < 2 * SlotCount

(* Entries leave the ring in the order in which they came, as long as no scan
   has ever come across an entry in use.  It relies on the head, which both
   loops of the scan and the insertion move, always standing between the
   youngest entry and the oldest. *)
Fifo == [][~skipped => EvictedNow \subseteq {1}]_hvars

(* The README's description of evictions (README.md:318): the order is that
   of a FIFO "with some exceptions", and the exception it names is that "a
   younger unused entry can get evicted if the older ones are still in use".
   This says that there is no other one.  An older entry counts as in use
   here if it is pinned when the younger one is evicted, or was when this
   scan came to it. *)
FifoUnlessInUse ==
    [][\A n \in EvictedNow : \A m \in 1 .. (n - 1) :
          \/ pins[cache_map[order[m]]] # 0
          \/ cache_map[order[m]] \in spared]_hvars

(* The name and the checks of the unit test UncachedDoesntEvictOthers: what
   was cached before a response that in the end is not cached is still
   cached after it. *)
UncachedDoesntEvictOthers == scan = "drop" => CachedKeys = before
=============================================================================
