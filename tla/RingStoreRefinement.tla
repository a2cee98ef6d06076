------------------------ MODULE RingStoreRefinement -------------------------
(***************************************************************************)
(* RingStore implements BoundedCache.  The inductive invariant of          *)
(* RingStoreProofs makes the mapping a step or a stutter: InsertEntry is a *)
(* Put, an iteration of the scan that evicts is an Evict, LookupHit is a   *)
(* Use, giving a pin back is a Release, and all else is invisible.         *)
(***************************************************************************)
EXTENDS RingStoreProofs

(* What a lookup of each key would find, by the slots. *)
LEMMA VisibleStoreFact ==
    ASSUME IInv, NEW k \in Keys
    PROVE  /\ Cached(k) => /\ cache_map[k] \in Slots
                           /\ slots[cache_map[k]] \in Entry
                           /\ slots[cache_map[k]] =
                                 [key |-> k, val |-> VisibleStore[k]]
                           /\ VisibleStore[k] # NoEntry
           /\ ~Cached(k) => VisibleStore[k] = NoEntry
<1>1. ASSUME Cached(k)
      PROVE  /\ cache_map[k] \in Slots
             /\ slots[cache_map[k]] \in Entry
             /\ slots[cache_map[k]].key = k
  BY <1>1 DEF IInv, TypeOK, MapMatchesSlots, Cached
<1>2. ASSUME Cached(k) PROVE VisibleStore[k] = slots[cache_map[k]].val
  BY <1>2 DEF VisibleStore
<1>3. ~Cached(k) => VisibleStore[k] = NoEntry
  BY DEF VisibleStore
<1> QED
  BY <1>1, <1>2, <1>3, NoEntryAssumption DEF Entry

(* If the entries stay, so does what lookups find. *)
LEMMA StoreStutters ==
    ASSUME UNCHANGED <<slots, cache_map>>
    PROVE  VisibleStore' = VisibleStore
BY DEF VisibleStore, Cached

(* A reader that serves a hit is seen to use the entry it points into. *)
LEMMA VisibleUseFact ==
    ASSUME IInv, NEW r \in Readers
    PROVE  /\ ref[r] = NoSlot => VisibleUse[r] = NoEntry
           /\ ref[r] # NoSlot => /\ ref[r] \in Slots
                                 /\ VisibleUse[r] = slots[ref[r]]
                                 /\ VisibleUse[r] # NoEntry
BY DEF VisibleUse, IInv, TypeOK, RefsLive

(* The initial states correspond. *)
LEMMA InitRefines == Init => Bounded!Init
BY DEF Init, Bounded!Init, VisibleStore, VisibleUse, Cached

(* A hit is a Use. *)
LEMMA LookupHitRefines ==
    ASSUME IInv, NEW r \in Readers, NEW k \in Keys, LookupHit(r, k)
    PROVE  Bounded!Use(r, k)
<1>1. ref[r] = NoSlot /\ Cached(k)
  BY DEF LookupHit, IInv, RefsLive
<1>2. VisibleUse[r] = NoEntry
  BY <1>1, VisibleUseFact
<1>3. /\ VisibleStore[k] # NoEntry /\ cache_map[k] \in Slots
      /\ slots[cache_map[k]] = [key |-> k, val |-> VisibleStore[k]]
  BY <1>1, VisibleStoreFact
<1>4. VisibleUse' = [VisibleUse EXCEPT ![r] = [key |-> k, val |-> VisibleStore[k]]]
  BY <1>1, <1>3, NoSlotIsNone DEF LookupHit, VisibleUse, ring, IInv, TypeOK
<1>5. VisibleStore' = VisibleStore /\ used_size' = used_size
  BY StoreStutters DEF LookupHit, ring
<1> QED
  BY <1>2, <1>3, <1>4, <1>5 DEF Bounded!Use

(* Giving the pin back is a Release. *)
LEMMA ReleaseRefines ==
    ASSUME IInv, NEW r \in Readers, serving[r] # "no",
           ref' = [ref EXCEPT ![r] = NoSlot], UNCHANGED ring
    PROVE  Bounded!Release(r)
<1>1. ref[r] # NoSlot
  BY DEF IInv, RefsLive
<1>2. VisibleUse[r] # NoEntry
  BY <1>1, VisibleUseFact
<1>3. VisibleUse' = [VisibleUse EXCEPT ![r] = NoEntry]
  BY <1>1 DEF VisibleUse, ring, IInv, TypeOK
<1>4. VisibleStore' = VisibleStore /\ used_size' = used_size
  BY StoreStutters DEF ring
<1> QED
  BY <1>2, <1>3, <1>4 DEF Bounded!Release

(* An iteration that evicts is an Evict of the key at the head. *)
LEMMA EvictRefines ==
    ASSUME IInv, ScanStep, Evictable(head), EvictHead
    PROVE  \E k \in Keys : Bounded!Evict(k)
<1> DEFINE k == slots[head].key
<1>1. /\ head \in Slots /\ slots[head] # NoEntry /\ slots[head] \in Entry
      /\ k \in Keys /\ cache_map[k] = head
  BY DEF Evictable, IInv, TypeOK, MapMatchesSlots, Entry
<1>2. Cached(k)
  BY <1>1, NoSlotIsNone DEF Cached
<1>3. VisibleStore[k] # NoEntry /\ slots[head] = [key |-> k, val |-> VisibleStore[k]]
  BY <1>1, <1>2, VisibleStoreFact
<1>4. \A r \in Readers : VisibleUse[r] # [key |-> k, val |-> VisibleStore[k]]
  <2> SUFFICES ASSUME NEW r \in Readers, VisibleUse[r] = slots[head]
               PROVE  FALSE
    BY <1>3
  <2>1. ref[r] \in Slots /\ slots[ref[r]] = slots[head]
    BY <1>1, VisibleUseFact
  <2>2. ref[r] = head
    BY <1>1, <2>1 DEF IInv, MapMatchesSlots
  <2>3. Cardinality(Holders(head)) = 0
    BY <1>1 DEF IInv, PinsExact, Evictable
  <2>4. Holders(head) = {}
    BY <1>1, <2>3, HoldersFinite, FS_EmptySet
  <2> QED
    BY <2>2, <2>4 DEF Holders
<1>5. VisibleStore' = [VisibleStore EXCEPT ![k] = NoEntry]
  <2>1. \A m \in Keys : m # k /\ Cached(m) => cache_map[m] # head
    BY <1>1 DEF IInv, MapMatchesSlots, Cached
  <2> QED
    BY <1>1, <2>1 DEF EvictHead, Forget, VisibleStore, Cached, IInv, TypeOK
<1>6. used_size' = used_size - SizeOf(k, VisibleStore[k])
  <2>1. used_size' = used_size - Size(slots[head])
    BY <1>1, AccountedAfterEvict DEF EvictHead, IInv
  <2> QED
    BY <1>3, <2>1 DEF Size
<1>7. VisibleUse' = VisibleUse
  <2>1. \A r \in Readers : ref[r] # NoSlot => slots'[ref[r]] = slots[ref[r]]
    <3> SUFFICES ASSUME NEW r \in Readers, ref[r] # NoSlot
                 PROVE  slots'[ref[r]] = slots[ref[r]]
      OBVIOUS
    <3> QED
      BY StepKeepsEntry DEF ScanStep, hits, Next, Finalizing
  <2> QED
    BY <2>1 DEF VisibleUse, ScanStep, hits
<1> QED
  BY <1>1, <1>3, <1>4, <1>5, <1>6, <1>7 DEF Bounded!Evict

(* An insertion is a Put. *)
LEMMA InsertRefines ==
    ASSUME IInv, InsertEntry
    PROVE  \E k \in Keys, v \in Values : Bounded!Put(k, v)
<1>1. /\ job \in Entry /\ job.key \in Keys /\ job.val \in Values
      /\ head \in Slots /\ slots[head] = NoEntry /\ ~Cached(job.key)
      /\ used_size + Size(job) <= Capacity
  BY DEF InsertEntry, IInv, TypeOK, Entry, JobReady
<1>2. VisibleStore[job.key] = NoEntry
  BY <1>1, VisibleStoreFact
<1>3. used_size' = used_size + SizeOf(job.key, job.val)
  BY <1>1, AccountedAfterInsert DEF InsertEntry, IInv, Charged, Size
<1>4. VisibleStore' = [VisibleStore EXCEPT ![job.key] = job.val]
  <2>1. \A m \in Keys : Cached(m) => cache_map[m] # head
    BY <1>1 DEF IInv, MapMatchesSlots, Cached
  <2> QED
    BY <1>1, <2>1, NoSlotIsNone DEF InsertEntry, VisibleStore, Cached, IInv, TypeOK
<1>5. VisibleUse' = VisibleUse
  <2>1. \A r \in Readers : ref[r] # NoSlot => slots'[ref[r]] = slots[ref[r]]
    BY <1>1 DEF InsertEntry, IInv, RefsLive, TypeOK
  <2> QED
    BY <2>1 DEF VisibleUse, InsertEntry
<1>6. used_size + SizeOf(job.key, job.val) <= Capacity
  BY <1>1 DEF Size
<1> QED
  BY <1>1, <1>2, <1>3, <1>4, <1>5, <1>6 DEF Bounded!Put

(* A step that touches neither entries nor references is invisible. *)
LEMMA Invisible ==
    ASSUME UNCHANGED <<slots, cache_map, used_size, ref>>
    PROVE  UNCHANGED Bounded!vars
BY StoreStutters DEF Bounded!vars, VisibleUse

(* Every step of the ring is a step of the bounded cache, or invisible. *)
LEMMA NextRefines == IInv /\ [Next]_vars => [Bounded!Next]_(Bounded!vars)
<1> SUFFICES ASSUME IInv, [Next]_vars PROVE [Bounded!Next]_(Bounded!vars)
  OBVIOUS
<1>1. ASSUME NEW r \in Readers, ServeHit(r) PROVE [Bounded!Next]_(Bounded!vars)
  <2>1. CASE HasBody(slots[ref[r]].val)
    BY <1>1, <2>1, Invisible DEF ServeHit, ring
  <2>2. CASE ~HasBody(slots[ref[r]].val)
    BY <1>1, <2>2, ReleaseRefines DEF ServeHit, Bounded!Next
  <2> QED
    BY <2>1, <2>2
<1>2. ASSUME NEW r \in Readers, Drain(r) PROVE [Bounded!Next]_(Bounded!vars)
  BY <1>2, ReleaseRefines DEF Drain, Bounded!Next
<1>3. ASSUME NEW r \in Readers, NEW k \in Keys, LookupHit(r, k)
      PROVE  [Bounded!Next]_(Bounded!vars)
  BY <1>3, LookupHitRefines DEF Bounded!Next
<1>4. ASSUME NEW k \in Keys, NEW v \in Values, BeginFinalize(k, v)
      PROVE  [Bounded!Next]_(Bounded!vars)
  BY <1>4, Invisible DEF BeginFinalize, ring, hits
<1>5. CASE ScanStep
  <2>1. CASE Evictable(head) /\ EvictHead
    BY <1>5, <2>1, EvictRefines DEF Bounded!Next
  <2>2. CASE UNCHANGED <<slots, cache_map, used_size>>
    BY <1>5, <2>2, Invisible DEF ScanStep, hits
  <2> QED
    BY <1>5, <2>1, <2>2 DEF ScanStep
<1>6. CASE RoomFound \/ SlotTaken \/ Drop
  BY <1>6, Invisible DEF RoomFound, SlotTaken, Drop, ring, hits
<1>7. CASE InsertEntry
  BY <1>7, InsertRefines DEF Bounded!Next
<1>8. CASE UNCHANGED vars
  BY <1>8, Invisible DEF vars
<1> QED
  BY <1>1, <1>2, <1>3, <1>4, <1>5, <1>6, <1>7, <1>8 DEF Next, Finalizing

(* The ring buffer implements the bounded cache: to its users it is a map
   that holds at most capacity_ and in which nothing they use changes. *)
THEOREM Refinement == SafetySpec => ImplementsBoundedCache
<1>1. Init => Bounded!Init
  BY InitRefines
<1>2. IInv /\ [Next]_vars => [Bounded!Next]_(Bounded!vars)
  BY NextRefines
<1> QED
  BY <1>1, <1>2, Invariance, PTL
  DEF SafetySpec, ImplementsBoundedCache, Bounded!Spec
=============================================================================
