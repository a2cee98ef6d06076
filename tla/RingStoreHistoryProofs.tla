----------------------- MODULE RingStoreHistoryProofs -----------------------
(***************************************************************************)
(* Proofs about whole scans and about the order of evictions, for every    *)
(* instance of RingStoreHistory.                                           *)
(*                                                                         *)
(* The invariant of RingStoreProofs carries over, since every step of      *)
(* RingStoreHistory is one of RingStore.  ScanInv adds how far a scan has  *)
(* come and what it has left behind; OrderInv says where in the ring the   *)
(* oldest and the youngest entry are, as long as nothing has been spared.  *)
(***************************************************************************)
EXTENDS RingStoreHistory, RingStoreProofs, SequenceTheorems

(* How far the head has to go from a to b. *)
Distance(a, b) == IF a <= b THEN b - a ELSE b - a + SlotCount

FreeSlot == \E i \in Slots : slots[i] = NoEntry

(* What the first loop has done: it has moved from start to head, or all the
   way round to find enough room in the end; once it has moved, there is room
   only because it has left a free slot behind; and it has left an entry
   behind only because of its pins. *)
EvictInv ==
    /\ Size(job) <= Capacity
    /\ \/ moves = Distance(start, head)
       \/ moves = SlotCount /\ head = start /\ Enough
    /\ moves = 0 \/ ~Enough \/ FreeSlot
    /\ \A i \in Passed(start, head) : slots[i] # NoEntry => i \in spared

(* The second loop goes on from where the first has left the head; if the
   first has moved it, there is a free slot to be found. *)
SlotInv ==
    \/ moves = Distance(start, head)
    \/ FreeSlot /\ moves <= SlotCount + Distance(start, head)

(* While a scan goes on, an entry that has left the cache has left its slot
   free. *)
ScanInv ==
    /\ moves \in Nat
    /\ scan = "evict" => EvictInv
    /\ scan = "slot" => SlotInv
    /\ scan \in {"evict", "slot"} => CachedKeys = before \/ FreeSlot

(* The inductive invariant about scans. *)
SInv ==
    /\ IInv
    /\ ScanInv
    /\ ScanBounded
    /\ DropOnlyBehindPins
    /\ FutileEvictionOnlyBehindPins

(* The slots from p on hold the keys of order, and the others are empty. *)
RingOrder(p) ==
    /\ Len(order) <= SlotCount
    /\ \A i \in Slots :
          IF Distance(p, i) < Len(order)
          THEN slots[i] # NoEntry /\ slots[i].key = order[Distance(p, i) + 1]
          ELSE slots[i] = NoEntry

(* Where the head, or the second loop's start, is between the youngest entry
   and the oldest, which is in slot p: before all the empty slots when no scan
   is going on, among them in the first loop, and before or behind all of
   them once there is enough room. *)
HeadBetween(p) ==
    LET n == SlotCount - Len(order) IN
    /\ scan \in {"unlocked", "drop"} => Distance(head, p) = n
    /\ scan = "evict" =>
          /\ Distance(head, p) <= n
          /\ Distance(head, p) \in {0, n} \/ ~Enough
    /\ scan = "slot" => Distance(start, p) \in {0, n}

(* The inductive invariant about the order of entries. *)
OrderInv ==
    /\ order \in Seq(Keys)
    /\ skipped \in BOOLEAN
    /\ ~skipped =>
          /\ spared = {}
          /\ \E p \in Slots : RingOrder(p) /\ (order # <<>> => HeadBetween(p))

-----------------------------------------------------------------------------
(* Facts about the ring.                                                   *)

(* A running total to which nothing is added stays at nothing. *)
LEMMA TotalOfNothing ==
    ASSUME NEW f, f[0] = 0, \A i \in Slots : f[i + 1] = f[i]
    PROVE  f[SlotCount] = 0
<1> DEFINE T == {j \in 0 .. SlotCount : f[j] # 0}
<1>1. ASSUME T # {} PROVE FALSE
  <2>1. T \subseteq Nat
    BY SlotCountAssumption
  <2>2. PICK x \in T : \A y \in T : x <= y
    BY <1>1, <2>1, LeastNatural
  <2>3. x \in 1 .. SlotCount /\ f[x] # 0
    BY SlotCountAssumption
  <2>4. x - 1 \in Slots /\ (x - 1) + 1 = x /\ x - 1 \in 0 .. SlotCount
    BY <2>3, SlotCountAssumption DEF Slots
  <2>5. f[x - 1] # 0
    BY <2>3, <2>4
  <2> QED
    BY <2>2, <2>3, <2>4, <2>5
<1> QED
  BY <1>1, SlotCountAssumption

(* A distance is less than a full turn. *)
LEMMA DistanceType ==
    \A a, b \in Slots : Distance(a, b) \in 0 .. (SlotCount - 1)
BY SlotCountAssumption DEF Distance, Slots

(* No slot is away from itself, and only a slot itself is at no distance. *)
LEMMA DistanceZero == \A a, b \in Slots : Distance(a, b) = 0 <=> a = b
BY SlotCountAssumption DEF Distance, Slots

(* Different slots are a full turn apart, there and back. *)
LEMMA DistanceTurn ==
    \A a, b \in Slots : a # b => Distance(a, b) + Distance(b, a) = SlotCount
BY SlotCountAssumption DEF Distance, Slots

(* Different slots are at different distances. *)
LEMMA DistanceInjective ==
    \A a, b, c \in Slots : Distance(a, b) = Distance(a, c) => b = c
BY SlotCountAssumption DEF Distance, Slots

(* There is a slot at every distance. *)
LEMMA DistanceOnto ==
    \A a \in Slots : \A d \in 0 .. (SlotCount - 1) :
        \E b \in Slots : Distance(a, b) = d
<1> TAKE a \in Slots
<1> TAKE d \in 0 .. (SlotCount - 1)
<1> DEFINE b == IF a + d < SlotCount THEN a + d ELSE a + d - SlotCount
<1>1. b \in Slots /\ Distance(a, b) = d
  BY SlotCountAssumption DEF Distance, Slots
<1> QED
  BY <1>1

(* The head moves one away from where it was, unless it comes back, *)
LEMMA DistanceMore ==
    \A a, b \in Slots :
        Distance(a, Advance(b)) =
            IF Advance(b) = a THEN 0 ELSE Distance(a, b) + 1
BY SlotCountAssumption DEF Distance, Slots, Advance

(* after having passed all the others, *)
LEMMA DistanceBack ==
    \A a, b \in Slots : Advance(b) = a => Distance(a, b) = SlotCount - 1
BY SlotCountAssumption DEF Distance, Slots, Advance

(* and one nearer to where it goes, unless it has been there. *)
LEMMA DistanceLess ==
    \A a, b \in Slots :
        Distance(Advance(a), b) =
            IF a = b THEN SlotCount - 1 ELSE Distance(a, b) - 1
BY SlotCountAssumption DEF Distance, Slots, Advance

(* A slot that has been passed is nearer than the head. *)
LEMMA DistancePassed ==
    \A a, b, i \in Slots :
        i \in Passed(a, b) <=> Distance(a, i) < Distance(a, b)
BY SlotCountAssumption DEF Distance, Passed, Slots

-----------------------------------------------------------------------------
(* Every step is one of RingStore.                                         *)

(* The history variables restrict nothing, so the steps are the store's. *)
LEMMA HNextNext == [HNext]_hvars => [Next]_vars
BY DEF HNext, Next, Finalizing, HBeginFinalize, HScanStep, HSlotTaken,
       HInsertEntry, hvars, vars

-----------------------------------------------------------------------------
(* Scans.                                                                  *)

(* Steps of readers change nothing that is said about a scan. *)
LEMMA ReadersScan ==
    ASSUME SInv, UNCHANGED <<ring, scan, job, start, history>>
    PROVE  /\ ScanInv' /\ ScanBounded'
           /\ DropOnlyBehindPins' /\ FutileEvictionOnlyBehindPins'
<1>1. UNCHANGED <<Size(job), Room, Enough, FreeSlot, CachedKeys>>
  BY DEF ring, Size, Room, Minus, Enough, FreeSlot, CachedKeys, Cached
<1>2. ScanInv'
  <2>1. scan = "evict" => EvictInv'
    BY <1>1 DEF SInv, ScanInv, EvictInv, Passed, Distance, ring, history
  <2>2. scan = "slot" => SlotInv'
    BY <1>1 DEF SInv, ScanInv, SlotInv, Distance, ring, history
  <2> QED
    BY <1>1, <2>1, <2>2 DEF SInv, ScanInv, history
<1>3. ScanBounded' /\ DropOnlyBehindPins' /\ FutileEvictionOnlyBehindPins'
  BY <1>1 DEF SInv, ScanBounded, DropOnlyBehindPins,
              FutileEvictionOnlyBehindPins, ring, history
<1> QED
  BY <1>2, <1>3

(* A scan begins with nothing passed, spared or evicted. *)
LEMMA BeginScan ==
    ASSUME SInv, NEW k \in Keys, NEW v \in Values, HBeginFinalize(k, v)
    PROVE  /\ ScanInv' /\ ScanBounded'
           /\ DropOnlyBehindPins' /\ FutileEvictionOnlyBehindPins'
<1> USE DEF HBeginFinalize, BeginFinalize
<1>1. job' \in Entry /\ Size(job') = SizeOf(k, v) /\ Size(job)' = Size(job')
  BY DEF Entry, Size
<1>2. Size(job)' \in Nat /\ Capacity \in Nat
  BY <1>1, SizeType, CapacityAssumption
<1>3. CachedKeys' = CachedKeys
  BY DEF CachedKeys, Cached, ring
<1>4. head' = start' /\ head' \in Slots /\ moves' = 0
  BY DEF SInv, IInv, TypeOK, ring
<1>5. CASE Oversized(k, v)
  <2>1. scan' = "drop" /\ Size(job)' > Capacity
    BY <1>1, <1>5 DEF Oversized
  <2>2. ScanInv' /\ ScanBounded'
    BY <1>4, <2>1, SlotCountAssumption DEF ScanInv, ScanBounded
  <2>3. DropOnlyBehindPins'
    BY <1>2, <2>1 DEF DropOnlyBehindPins
  <2>4. FutileEvictionOnlyBehindPins'
    BY <1>3, <2>1 DEF FutileEvictionOnlyBehindPins
  <2> QED
    BY <2>2, <2>3, <2>4
<1>6. CASE ~Oversized(k, v)
  <2>1. scan' = "evict" /\ Size(job)' <= Capacity
    BY <1>1, <1>2, <1>6 DEF Oversized
  <2>2. Distance(start', head') = 0 /\ Passed(start', head') = {}
    BY <1>4, DistanceZero, PassedNone
  <2>3. EvictInv'
    BY <1>4, <2>1, <2>2 DEF EvictInv
  <2>4. ScanInv' /\ ScanBounded'
    BY <1>3, <1>4, <2>1, <2>3, SlotCountAssumption DEF ScanInv, ScanBounded
  <2>5. DropOnlyBehindPins' /\ FutileEvictionOnlyBehindPins'
    BY <2>1 DEF DropOnlyBehindPins, FutileEvictionOnlyBehindPins
  <2> QED
    BY <2>4, <2>5
<1> QED
  BY <1>5, <1>6

(* What an iteration of the first loop leaves in the slot it passes: an
   entry only if that is now among the spared ones; and either something was
   evicted there, or nothing has changed. *)
LEMMA ScanStepEffect ==
    ASSUME SInv, HScanStep
    PROVE  /\ \A i \in Slots : slots'[i] # NoEntry => slots[i] # NoEntry
           /\ spared \subseteq spared'
           /\ slots'[head] # NoEntry => head \in spared'
           /\ \/ FreeSlot'
              \/ /\ UNCHANGED <<slots, cache_map, used_size>>
                 /\ CachedKeys' = CachedKeys
<1> USE DEF SInv, IInv, TypeOK
<1>1. CASE Evictable(head) /\ EvictHead
  <2>1. slots' = [slots EXCEPT ![head] = NoEntry] /\ head \in Slots
    BY <1>1 DEF EvictHead
  <2> QED
    BY <2>1 DEF HScanStep, FreeSlot
<1>2. CASE ~Evictable(head) /\ UNCHANGED <<slots, cache_map, used_size>>
  <2>1. slots[head] # NoEntry => InUse(head)
    BY <1>2 DEF Evictable, InUse
  <2>2. CachedKeys' = CachedKeys
    BY <1>2 DEF CachedKeys, Cached
  <2> QED
    BY <1>2, <2>1, <2>2 DEF HScanStep
<1> QED
  BY <1>1, <1>2 DEF HScanStep, ScanStep

(* An iteration of the first loop.  If it is the last and there still is not
   enough room, all slots have been passed, and some entry was spared: an
   empty ring would have had room. *)
LEMMA ScanStepScan ==
    ASSUME SInv, IInv', HScanStep
    PROVE  /\ ScanInv' /\ ScanBounded'
           /\ DropOnlyBehindPins' /\ FutileEvictionOnlyBehindPins'
<1>1. /\ scan = "evict" /\ ~Enough /\ head' = Advance(head)
      /\ job' = job /\ start' = start /\ before' = before /\ moves' = moves + 1
  BY DEF HScanStep, ScanStep
<1>2. head \in Slots /\ start \in Slots /\ head' \in Slots /\ SlotCount \in Nat
  BY SlotCountAssumption DEF SInv, IInv, TypeOK
<1>3. /\ Size(job)' = Size(job) /\ Size(job) \in Nat /\ Size(job) <= Capacity
      /\ Capacity \in Nat
  BY <1>1, SizeType, CapacityAssumption
  DEF SInv, ScanInv, EvictInv, Size, IInv, TypeOK
<1>4. /\ moves = Distance(start, head)
      /\ \A i \in Passed(start, head) : slots[i] # NoEntry => i \in spared
      /\ CachedKeys = before \/ FreeSlot
  BY <1>1 DEF SInv, ScanInv, EvictInv
<1>5. \A i \in Slots : i \in Passed(start, head) \cup {head} =>
          (slots'[i] # NoEntry => i \in spared')
  BY <1>4, ScanStepEffect
<1>6. Room' = Capacity - used_size' /\ used_size' \in 0 .. Capacity
  <2>1. Accounted'
    BY DEF IInv
  <2>2. PICK f \in [0 .. SlotCount -> 0 .. Capacity] : used_size' = f[SlotCount]
    BY <2>1 DEF Accounted
  <2>3. used_size' \in 0 .. Capacity
    BY <2>2, SlotCountAssumption
  <2> QED
    BY <2>3, CapacityAssumption DEF Room, Minus
<1>7. (CachedKeys = before \/ FreeSlot)' /\ (~Enough \/ FreeSlot)'
  <2>1. CASE FreeSlot'
    BY <2>1
  <2>2. CASE UNCHANGED <<slots, cache_map, used_size>> /\ CachedKeys' = CachedKeys
    BY <1>1, <1>4, <2>2 DEF FreeSlot, Enough, Room, Minus, Size
  <2> QED
    BY <2>1, <2>2, ScanStepEffect
<1>8. moves' \in Nat /\ moves' <= SlotCount
  BY <1>1, <1>2, <1>4, DistanceType
<1>9. CASE Advance(head) = start /\ Room' < Size(job)
  <2>1. scan' = "drop"
    BY <1>1, <1>9 DEF HScanStep, ScanStep, BackAtStart
  <2>2. \A i \in Slots : slots'[i] # NoEntry => i \in spared'
    BY <1>2, <1>5, <1>9, PassedAll
  <2>3. spared' # {}
    <3>1. SUFFICES ASSUME spared' = {} PROVE FALSE
      OBVIOUS
    <3>2. \A i \in Slots : slots'[i] = NoEntry
      BY <2>2, <3>1
    <3>3. PICK f \in [0 .. SlotCount -> 0 .. Capacity] :
              RunningTotal(f)' /\ used_size' = f[SlotCount]
      BY DEF IInv, Accounted
    <3>4. \A i \in Slots : f[i] \in Nat
      BY SlotCountAssumption, CapacityAssumption DEF Slots
    <3>5. f[0] = 0 /\ \A i \in Slots : f[i + 1] = f[i]
      BY <3>2, <3>3, <3>4 DEF RunningTotal, SlotSize
    <3>6. used_size' = 0
      BY <3>3, <3>5, TotalOfNothing
    <3> QED
      BY <1>3, <1>6, <1>9, <3>6
  <2>4. ScanInv' /\ ScanBounded'
    BY <1>2, <1>8, <2>1, SlotCountAssumption DEF ScanInv, ScanBounded
  <2>5. DropOnlyBehindPins' /\ FutileEvictionOnlyBehindPins'
    BY <1>3, <1>9, <2>2, <2>3
    DEF DropOnlyBehindPins, FutileEvictionOnlyBehindPins
  <2> QED
    BY <2>4, <2>5
<1>10. CASE ~(Advance(head) = start /\ Room' < Size(job))
  <2>1. scan' = "evict"
    BY <1>1, <1>10 DEF HScanStep, ScanStep, BackAtStart
  <2>2. EvictInv'
    <3>1. CASE Advance(head) = start
      <4>1. moves' = SlotCount
        BY <1>1, <1>2, <1>4, <3>1, DistanceBack
      <4>2. Enough'
        BY <1>3, <1>6, <1>10, <3>1 DEF Enough
      <4>3. Passed(start', head') = {}
        BY <1>1, <1>2, <3>1, PassedNone
      <4> QED
        BY <1>1, <1>3, <1>7, <3>1, <4>1, <4>2, <4>3 DEF EvictInv
    <3>2. CASE Advance(head) # start
      <4>1. moves' = Distance(start, Advance(head))
        BY <1>1, <1>2, <1>4, <3>2, DistanceMore
      <4>2. Distance(start, Advance(head)) = Distance(start', head')
        BY <1>1
      <4>3. \A i \in Passed(start', head') : slots'[i] # NoEntry => i \in spared'
        <5>1. Passed(start', head') \subseteq Passed(start, head) \cup {head}
          BY <1>1, <1>2, <3>2, PassedMore
        <5>2. Passed(start, head) \subseteq Slots
          BY <1>2 DEF Passed, Slots
        <5> QED
          BY <1>2, <1>5, <5>1, <5>2
      <4> QED
        BY <1>3, <1>7, <4>1, <4>2, <4>3 DEF EvictInv
    <3> QED
      BY <3>1, <3>2
  <2>3. ScanInv' /\ ScanBounded'
    BY <1>2, <1>7, <1>8, <2>1, <2>2, SlotCountAssumption DEF ScanInv, ScanBounded
  <2>4. DropOnlyBehindPins' /\ FutileEvictionOnlyBehindPins'
    BY <2>1 DEF DropOnlyBehindPins, FutileEvictionOnlyBehindPins
  <2> QED
    BY <2>3, <2>4
<1> QED
  BY <1>9, <1>10

(* The first loop ends.  Either it has not moved the head, or there is a free
   slot. *)
LEMMA RoomFoundScan ==
    ASSUME SInv, RoomFound, UNCHANGED history
    PROVE  /\ ScanInv' /\ ScanBounded'
           /\ DropOnlyBehindPins' /\ FutileEvictionOnlyBehindPins'
<1>1. /\ scan = "evict" /\ Enough /\ scan' = "slot" /\ start' = head
      /\ head' = head /\ slots' = slots /\ cache_map' = cache_map
      /\ moves' = moves /\ before' = before
  BY DEF RoomFound, ring, history
<1>2. head \in Slots /\ start \in Slots /\ SlotCount \in Nat
  BY SlotCountAssumption DEF SInv, IInv, TypeOK
<1>3. Distance(start', head') = 0
  BY <1>1, <1>2, DistanceZero
<1>4. /\ moves \in Nat /\ moves <= SlotCount
      /\ moves = 0 \/ FreeSlot
  BY <1>1, <1>2, DistanceType DEF SInv, ScanInv, EvictInv
<1>5. CachedKeys' = CachedKeys /\ FreeSlot' = FreeSlot
  BY <1>1 DEF CachedKeys, Cached, FreeSlot
<1>6. SlotInv'
  BY <1>1, <1>2, <1>3, <1>4, <1>5 DEF SlotInv
<1>7. ScanInv'
  BY <1>1, <1>4, <1>5, <1>6 DEF SInv, ScanInv
<1>8. ScanBounded'
  BY <1>1 DEF SInv, ScanBounded
<1> QED
  BY <1>1, <1>7, <1>8 DEF DropOnlyBehindPins, FutileEvictionOnlyBehindPins

(* An iteration of the second loop.  If it is the last, all slots are taken,
   so the first loop did not move the head, and nothing was evicted. *)
LEMMA SlotTakenScan ==
    ASSUME SInv, HSlotTaken
    PROVE  /\ ScanInv' /\ ScanBounded'
           /\ DropOnlyBehindPins' /\ FutileEvictionOnlyBehindPins'
<1>1. /\ scan = "slot" /\ slots[head] # NoEntry /\ head' = Advance(head)
      /\ slots' = slots /\ cache_map' = cache_map /\ used_size' = used_size
      /\ job' = job /\ start' = start /\ before' = before /\ moves' = moves + 1
  BY DEF HSlotTaken, SlotTaken
<1>2. head \in Slots /\ start \in Slots /\ SlotCount \in Nat
  BY SlotCountAssumption DEF SInv, IInv, TypeOK
<1>3. SlotInv /\ moves \in Nat /\ (CachedKeys = before \/ FreeSlot)
  BY <1>1 DEF SInv, ScanInv
<1>4. CachedKeys' = CachedKeys /\ FreeSlot' = FreeSlot
  BY <1>1 DEF CachedKeys, Cached, FreeSlot
<1>5. CASE Advance(head) = start
  <2>1. scan' = "drop"
    BY <1>1, <1>5 DEF HSlotTaken, SlotTaken, BackAtStart
  <2>2. ~FreeSlot
    <3>1. \A i \in Passed(start, head) : slots[i] # NoEntry
      BY <1>1 DEF SInv, IInv, JobReady
    <3> QED
      BY <1>1, <1>2, <1>5, <3>1, PassedAll DEF FreeSlot
  <2>3. moves' = SlotCount
    BY <1>1, <1>2, <1>3, <1>5, <2>2, DistanceBack DEF SlotInv
  <2>4. Room' >= Size(job)'
    <3>1. used_size + Size(job) <= Capacity /\ job \in Entry
      BY <1>1 DEF SInv, IInv, JobReady, TypeOK
    <3>2. Room = Capacity - used_size /\ used_size \in 0 .. Capacity
      BY AccountedBound DEF SInv, IInv
    <3>3. Room' = Room /\ Size(job)' = Size(job)
      BY <1>1 DEF Room, Minus, Size
    <3> QED
      BY <3>1, <3>2, <3>3, SizeType, CapacityAssumption
  <2>5. Room' \in Int /\ Size(job)' \in Int
    <3>1. job \in Entry /\ used_size \in Nat /\ SizeModulus \in Int
      BY <1>1, ModulusAssumption DEF SInv, IInv, TypeOK
    <3> QED
      BY <1>1, <3>1, SizeType, CapacityAssumption DEF Room, Minus, Size
  <2>6. ScanInv' /\ ScanBounded'
    BY <1>2, <2>1, <2>3, SlotCountAssumption DEF ScanInv, ScanBounded
  <2>7. DropOnlyBehindPins' /\ FutileEvictionOnlyBehindPins'
    BY <1>1, <1>3, <1>4, <2>2, <2>4, <2>5
    DEF DropOnlyBehindPins, FutileEvictionOnlyBehindPins
  <2> QED
    BY <2>6, <2>7
<1>6. CASE Advance(head) # start
  <2>1. scan' = "slot"
    BY <1>1, <1>6 DEF HSlotTaken, SlotTaken, BackAtStart
  <2>2. Distance(start', head') = Distance(start, head) + 1
    BY <1>1, <1>2, <1>6, DistanceMore
  <2>3. SlotInv'
    BY <1>1, <1>2, <1>3, <1>4, <2>2, DistanceType DEF SlotInv
  <2>4. Distance(start', head') \in 0 .. (SlotCount - 1)
    BY <1>1, <1>2, AdvanceType, DistanceType
  <2>5. ScanInv' /\ ScanBounded'
    BY <1>1, <1>2, <1>3, <1>4, <2>1, <2>3, <2>4
    DEF ScanInv, ScanBounded, SlotInv
  <2>6. DropOnlyBehindPins' /\ FutileEvictionOnlyBehindPins'
    BY <2>1 DEF DropOnlyBehindPins, FutileEvictionOnlyBehindPins
  <2> QED
    BY <2>5, <2>6
<1> QED
  BY <1>5, <1>6

(* The mutex is released. *)
LEMMA ReleaseScan ==
    ASSUME SInv, scan' = "unlocked", moves' = moves
    PROVE  /\ ScanInv' /\ ScanBounded'
           /\ DropOnlyBehindPins' /\ FutileEvictionOnlyBehindPins'
BY DEF SInv, ScanInv, ScanBounded, DropOnlyBehindPins,
       FutileEvictionOnlyBehindPins

(* Every step preserves the invariant about scans. *)
LEMMA NextSInv == SInv /\ [HNext]_hvars => SInv'
<1> SUFFICES ASSUME SInv, [HNext]_hvars PROVE SInv'
  OBVIOUS
<1>1. IInv'
  BY HNextNext, NextIInv DEF SInv
<1>2. SUFFICES /\ ScanInv' /\ ScanBounded'
               /\ DropOnlyBehindPins' /\ FutileEvictionOnlyBehindPins'
  BY <1>1 DEF SInv
<1>3. ASSUME NEW k \in Keys, NEW v \in Values, HBeginFinalize(k, v)
      PROVE  /\ ScanInv' /\ ScanBounded'
             /\ DropOnlyBehindPins' /\ FutileEvictionOnlyBehindPins'
  BY <1>3, BeginScan
<1>4. CASE HScanStep
  BY <1>1, <1>4, ScanStepScan
<1>5. CASE HSlotTaken
  BY <1>5, SlotTakenScan
<1>6. CASE RoomFound /\ UNCHANGED history
  BY <1>6, RoomFoundScan
<1>7. CASE HInsertEntry \/ (Drop /\ UNCHANGED history)
  BY <1>7, ReleaseScan DEF HInsertEntry, InsertEntry, Drop, history
<1>8. CASE UNCHANGED <<ring, scan, job, start, history>>
  BY <1>8, ReadersScan
<1> QED
  BY <1>3, <1>4, <1>5, <1>6, <1>7, <1>8
  DEF HNext, hvars, vars, ring, ServeHit, Drain, LookupHit

(* The invariant about scans holds in every reachable state. *)
THEOREM ScanInvariance == HSpec => []SInv
<1>1. HInit => SInv
  <2> SUFFICES ASSUME HInit PROVE SInv
    OBVIOUS
  <2>1. IInv
    BY InitIInv DEF HInit
  <2>2. ScanInv /\ ScanBounded
    BY SlotCountAssumption DEF HInit, Init, ScanInv, ScanBounded
  <2>3. DropOnlyBehindPins /\ FutileEvictionOnlyBehindPins
    BY DEF HInit, Init, DropOnlyBehindPins, FutileEvictionOnlyBehindPins
  <2> QED
    BY <2>1, <2>2, <2>3 DEF SInv
<1>2. SInv /\ [HNext]_hvars => SInv'
  BY NextSInv
<1> QED
  BY <1>1, <1>2, PTL DEF HSpec

(* A response that would fit is dropped for want of room only behind entries
   that were in use when the scan came to them. *)
THEOREM DropsBehindPins == HSpec => []DropOnlyBehindPins
<1>1. SInv => DropOnlyBehindPins
  BY DEF SInv
<1> QED
  BY <1>1, ScanInvariance, PTL

(* A response that is not cached has evicted others only if it would have
   fitted and an entry in use stood in the way. *)
THEOREM FutileEvictions == HSpec => []FutileEvictionOnlyBehindPins
<1>1. SInv => FutileEvictionOnlyBehindPins
  BY DEF SInv
<1> QED
  BY <1>1, ScanInvariance, PTL

(* The mutex is held for less than two turns of the head. *)
THEOREM ScansBounded == HSpec => []ScanBounded
<1>1. SInv => ScanBounded
  BY DEF SInv
<1> QED
  BY <1>1, ScanInvariance, PTL

-----------------------------------------------------------------------------
(* The order of evictions.                                                 *)

(* The place of the n-th oldest entry, and that its key leads there. *)
LEMMA OrderedCached ==
    ASSUME IInv, order \in Seq(Keys), NEW p \in Slots, RingOrder(p),
           NEW n \in DOMAIN order
    PROVE  \E i \in Slots : /\ Distance(p, i) = n - 1
                            /\ slots[i] # NoEntry
                            /\ slots[i].key = order[n]
                            /\ cache_map[order[n]] = i
<1>1. n \in 1 .. Len(order) /\ Len(order) \in Nat /\ Len(order) <= SlotCount
  BY DEF RingOrder
<1>2. n - 1 \in 0 .. (SlotCount - 1)
  BY <1>1, SlotCountAssumption
<1>3. PICK i \in Slots : Distance(p, i) = n - 1
  BY <1>2, DistanceOnto
<1>4. slots[i] # NoEntry /\ slots[i].key = order[n]
  BY <1>1, <1>3 DEF RingOrder
<1> QED
  BY <1>3, <1>4 DEF IInv, MapMatchesSlots

(* If there is an entry at the head of the first loop, it is the oldest. *)
LEMMA HeadIsOldest ==
    ASSUME IInv, order \in Seq(Keys), NEW p \in Slots, RingOrder(p),
           order # <<>> => HeadBetween(p), scan = "evict", slots[head] # NoEntry
    PROVE  head = p /\ order # <<>>
<1>1. /\ head \in Slots /\ SlotCount \in Nat /\ Len(order) \in Nat
      /\ Distance(p, head) \in Nat /\ Distance(head, p) \in Nat
  BY SlotCountAssumption, DistanceType DEF IInv, TypeOK
<1>2. Distance(p, head) < Len(order)
  BY DEF IInv, TypeOK, RingOrder
<1>3. order # <<>>
  BY <1>1, <1>2
<1>4. Distance(head, p) <= SlotCount - Len(order)
  BY <1>3 DEF HeadBetween
<1> QED
  BY <1>1, <1>2, <1>3, <1>4, DistanceTurn

(* What an iteration of the first loop evicts before anything was spared:
   nothing, or the oldest entry. *)
LEMMA EvictsOldest ==
    ASSUME IInv, order \in Seq(Keys), NEW p \in Slots, RingOrder(p),
           order # <<>> => HeadBetween(p), ScanStep
    PROVE  \/ /\ Evictable(head) /\ EvictHead
              /\ head = p /\ order # <<>> /\ EvictedNow = {1}
           \/ /\ ~Evictable(head) /\ UNCHANGED <<slots, cache_map, used_size>>
              /\ EvictedNow = {}
<1>1. CASE Evictable(head) /\ EvictHead
  <2>1. head = p /\ order # <<>>
    BY <1>1, HeadIsOldest DEF ScanStep, Evictable
  <2>2. head \in Slots /\ slots[head] \in Entry /\ slots[head].key \in Keys
    BY <1>1 DEF IInv, TypeOK, Evictable, Entry
  <2>3. 1 \in DOMAIN order /\ DOMAIN order = 1 .. Len(order)
    BY <2>1
  <2>4. slots[head].key = order[1]
    <3>1. PICK i \in Slots : Distance(p, i) = 1 - 1 /\ slots[i].key = order[1]
      BY <2>3, OrderedCached
    <3>2. i = head
      BY <2>1, <3>1, DistanceZero
    <3> QED
      BY <3>1, <3>2
  <2>5. \A k \in Keys : cache_map'[k] =
            IF k = slots[head].key THEN NoSlot ELSE cache_map[k]
    BY <1>1 DEF EvictHead, Forget, IInv, TypeOK
  <2>6. 1 \in EvictedNow
    BY <2>2, <2>3, <2>4, <2>5 DEF EvictedNow
  <2>7. ASSUME NEW n \in EvictedNow PROVE n = 1
    <3>1. n \in DOMAIN order /\ order[n] \in Keys /\ n \in Nat
      BY <2>3 DEF EvictedNow
    <3>2. PICK i \in Slots : /\ Distance(p, i) = n - 1
                             /\ cache_map[order[n]] = i
                             /\ slots[i].key = order[n]
      BY <3>1, OrderedCached
    <3>3. cache_map[order[n]] # NoSlot
      BY <3>2, NoSlotIsNone
    <3>4. order[n] = slots[head].key
      BY <2>5, <3>1, <3>3 DEF EvictedNow
    <3>5. cache_map[slots[head].key] = head
      BY <1>1, <2>2 DEF IInv, MapMatchesSlots, Evictable
    <3>6. i = p
      BY <2>1, <3>2, <3>4, <3>5
    <3>7. n - 1 = 0
      BY <3>2, <3>6, DistanceZero
    <3> QED
      BY <3>1, <3>7
  <2> QED
    BY <1>1, <2>1, <2>6, <2>7
<1>2. CASE ~Evictable(head) /\ UNCHANGED <<slots, cache_map, used_size>>
  <2>1. ASSUME NEW n \in EvictedNow PROVE FALSE
    <3>1. n \in DOMAIN order /\ cache_map[order[n]] = NoSlot
      BY <1>2 DEF EvictedNow
    <3>2. PICK i \in Slots : cache_map[order[n]] = i
      BY <3>1, OrderedCached
    <3> QED
      BY <3>1, <3>2, NoSlotIsNone
  <2> QED
    BY <1>2, <2>1
<1> QED
  BY <1>1, <1>2 DEF ScanStep

(* The order stays a sequence of keys, whatever is evicted. *)
LEMMA OrderType ==
    ASSUME order \in Seq(Keys), HScanStep
    PROVE  order' \in Seq(Keys)
<1>1. CASE EvictedNow = {}
  BY <1>1 DEF HScanStep
<1>2. CASE EvictedNow # {}
  <2>1. PICK n \in EvictedNow : order' = RemoveAt(order, n)
    BY <1>2 DEF HScanStep
  <2>2. n \in 1 .. Len(order) /\ Len(order) \in Nat
    BY DEF EvictedNow
  <2>3. SubSeq(order, 1, n - 1) \in Seq(Keys)
    BY <2>2
  <2>4. SubSeq(order, n + 1, Len(order)) \in Seq(Keys)
    BY <2>2
  <2> QED
    BY <2>1, <2>3, <2>4, ConcatProperties DEF RemoveAt
<1> QED
  BY <1>1, <1>2

(* An iteration of the first loop that has not met an entry in use: it
   passes an empty slot or evicts the oldest entry, after which the next
   slot, if any, holds the oldest. *)
LEMMA ScanStepOrder ==
    ASSUME SInv, SInv', OrderInv, HScanStep
    PROVE  OrderInv'
<1>1. order' \in Seq(Keys) /\ skipped' \in BOOLEAN
  BY OrderType DEF OrderInv, HScanStep
<1> SUFFICES ASSUME ~skipped'
             PROVE  /\ spared' = {}
                    /\ \E p \in Slots :
                          RingOrder(p)' /\ (order' # <<>> => HeadBetween(p)')
  BY <1>1 DEF OrderInv
<1>2. ~skipped /\ ~InUse(head) /\ spared' = {} /\ order \in Seq(Keys)
  BY DEF HScanStep, OrderInv
<1>3. PICK p \in Slots : RingOrder(p) /\ (order # <<>> => HeadBetween(p))
  BY <1>2 DEF OrderInv
<1>4. /\ scan = "evict" /\ ~Enough /\ head' = Advance(head) /\ head \in Slots
      /\ scan' \in {"evict", "drop"} /\ job' = job /\ head' \in Slots
  BY AdvanceType DEF HScanStep, ScanStep, SInv, IInv, TypeOK
<1>5. ASSUME scan' = "drop" PROVE \A i \in Slots : slots'[i] = NoEntry
  <2>1. Size(job)' = Size(job) /\ Size(job) <= Capacity /\ Room' < Size(job)
    BY <1>4, <1>5 DEF Size, SInv, ScanInv, EvictInv, HScanStep, ScanStep
  <2> QED
    BY <1>2, <1>5, <2>1 DEF SInv, DropOnlyBehindPins
<1>6. SlotCount \in Nat /\ Len(order) \in Nat /\ Len(order) <= SlotCount
  BY <1>2, <1>3, SlotCountAssumption DEF RingOrder
<1>7. CASE Evictable(head) /\ EvictHead
  <2>1. head = p /\ order # <<>> /\ EvictedNow = {1}
    BY <1>2, <1>3, <1>7, EvictsOldest DEF HScanStep, SInv
  <2>2. order' = RemoveAt(order, 1)
    BY <2>1 DEF HScanStep
  <2>3. order' = Tail(order)
    BY <1>2, <2>1, <2>2 DEF RemoveAt
  <2>4. /\ Len(order') = Len(order) - 1
        /\ \A j \in 1 .. Len(order') : order'[j] = order[j + 1]
    BY <1>2, <2>1, <2>3
  <2>5. \A i \in Slots : slots'[i] = IF i = p THEN NoEntry ELSE slots[i]
    BY <1>7, <2>1 DEF EvictHead, SInv, IInv, TypeOK
  <2>0. PICK q \in Slots : q = Advance(head) /\ head' = q
    BY <1>4
  <2>6. RingOrder(q)'
    <3>1. ASSUME NEW i \in Slots
          PROVE  IF Distance(q, i) < Len(order')
                 THEN /\ slots'[i] # NoEntry
                      /\ slots'[i].key = order'[Distance(q, i) + 1]
                 ELSE slots'[i] = NoEntry
      <4>1. Distance(q, i) = IF i = p THEN SlotCount - 1 ELSE Distance(p, i) - 1
        BY <1>4, <2>0, <2>1, DistanceLess
      <4>2. Distance(p, i) \in Nat /\ (Distance(p, i) = 0 <=> i = p)
        BY DistanceType, DistanceZero
      <4>3. CASE i = p
        BY <1>6, <2>4, <2>5, <4>1, <4>3
      <4>4. CASE i # p /\ Distance(p, i) < Len(order)
        <5>1. slots[i] # NoEntry /\ slots[i].key = order[Distance(p, i) + 1]
          BY <1>3, <4>4 DEF RingOrder
        <5>2. Distance(q, i) + 1 = Distance(p, i)
          BY <4>1, <4>2, <4>4
        <5>3. order'[Distance(p, i)] = order[Distance(p, i) + 1]
          BY <1>6, <2>4, <4>2, <4>4
        <5> QED
          BY <1>6, <2>4, <2>5, <4>1, <4>2, <4>4, <5>1, <5>2, <5>3
      <4>5. CASE i # p /\ ~(Distance(p, i) < Len(order))
        BY <1>3, <1>6, <2>4, <2>5, <4>1, <4>2, <4>5 DEF RingOrder
      <4> QED
        BY <4>3, <4>4, <4>5
    <3>2. Len(order') <= SlotCount
      BY <1>6, <2>4
    <3> QED
      BY <3>1, <3>2 DEF RingOrder, Distance
  <2>7. order' # <<>> => HeadBetween(q)'
    <3>1. Distance(q, q) = 0
      BY <2>0, DistanceZero
    <3>2. CASE scan' = "drop"
      <4>1. slots'[q] = NoEntry
        BY <2>0, <1>5, <3>2
      <4>2. ~(0 < Len(order'))
        BY <2>0, <2>6, <3>1, <4>1 DEF RingOrder, Distance
      <4> QED
        BY <1>1, <4>2
    <3>3. CASE scan' = "evict"
      BY <1>6, <2>0, <2>4, <3>1, <3>3 DEF HeadBetween, Distance
    <3> QED
      BY <1>4, <3>2, <3>3
  <2> QED
    BY <1>2, <2>0, <2>6, <2>7
<1>8. CASE ~Evictable(head) /\ UNCHANGED <<slots, cache_map, used_size>>
  <2>1. EvictedNow = {}
    BY <1>2, <1>3, <1>8, EvictsOldest DEF HScanStep, SInv
  <2>2. order' = order
    BY <2>1 DEF HScanStep
  <2>3. slots[head] = NoEntry
    BY <1>2, <1>8 DEF Evictable, InUse
  <2>4. RingOrder(p)'
    BY <1>3, <1>8, <2>2 DEF RingOrder, Distance
  <2>5. ASSUME order' # <<>> PROVE HeadBetween(p)'
    <3>1. Len(order) > 0
      BY <1>2, <2>2, <2>5
    <3>2. slots[p] # NoEntry
      <4>1. Distance(p, p) = 0
        BY DistanceZero
      <4> QED
        BY <1>3, <3>1, <4>1 DEF RingOrder
    <3>3. head # p
      BY <2>3, <3>2
    <3>4. Distance(head', p) = Distance(head, p) - 1
      BY <1>4, <3>3, DistanceLess
    <3>5. scan' = "evict"
      BY <1>4, <1>5, <1>8, <3>2
    <3>6. ~Enough'
      BY <1>4, <1>8 DEF Enough, Room, Minus, Size
    <3>7. Distance(head, p) <= SlotCount - Len(order)
      BY <1>3, <1>4, <2>2, <2>5 DEF HeadBetween
    <3>8. Distance(head', p) <= SlotCount - Len(order')
      BY <1>4, <1>6, <2>2, <3>4, <3>7, DistanceType
    <3> QED
      BY <3>5, <3>6, <3>8 DEF HeadBetween, Distance
  <2> QED
    BY <1>2, <2>4, <2>5
<1> QED
  BY <1>7, <1>8 DEF HScanStep, ScanStep

(* A step that leaves the entries and their order alone. *)
LEMMA SameOrder ==
    ASSUME OrderInv, UNCHANGED <<slots, order, skipped>>,
           spared' \in {spared, {}},
           \A p \in Slots : RingOrder(p) /\ order # <<>> /\ HeadBetween(p)
                               => HeadBetween(p)'
    PROVE  OrderInv'
<1>1. order' \in Seq(Keys) /\ skipped' \in BOOLEAN
  BY DEF OrderInv
<1>2. ASSUME ~skipped'
      PROVE  /\ spared' = {}
             /\ \E p \in Slots :
                   RingOrder(p)' /\ (order' # <<>> => HeadBetween(p)')
  <2>1. ~skipped /\ spared = {}
    BY <1>2 DEF OrderInv
  <2>2. PICK p \in Slots : RingOrder(p) /\ (order # <<>> => HeadBetween(p))
    BY <2>1 DEF OrderInv
  <2>3. RingOrder(p)'
    BY <2>2 DEF RingOrder, Distance
  <2> QED
    BY <2>1, <2>2, <2>3
<1> QED
  BY <1>1, <1>2 DEF OrderInv

(* A full second loop: the ring is full and the head is at the oldest entry,
   where it was. *)
LEMMA SlotTakenOrder ==
    ASSUME SInv, SInv', OrderInv, HSlotTaken
    PROVE  OrderInv'
<1>1. /\ scan = "slot" /\ head' = Advance(head) /\ start' = start
      /\ slots' = slots /\ order' = order /\ skipped' = skipped
      /\ spared' = spared /\ scan' = IF head' = start THEN "drop" ELSE "slot"
  BY DEF HSlotTaken, SlotTaken, BackAtStart
<1>2. ASSUME NEW p \in Slots, RingOrder(p), order # <<>>, HeadBetween(p)
      PROVE  HeadBetween(p)'
  <2>1. Distance(start, p) \in {0, SlotCount - Len(order)}
    BY <1>1, <1>2 DEF HeadBetween
  <2>2. CASE scan' = "slot"
    BY <1>1, <2>1, <2>2 DEF HeadBetween, Distance
  <2>3. CASE scan' = "drop"
    <3>1. /\ Advance(head) = start /\ head' = start
          /\ head \in Slots /\ start \in Slots
      BY <1>1, <2>3 DEF SInv, IInv, TypeOK
    <3>2. \A i \in Slots : slots[i] # NoEntry
      <4>1. \A i \in Passed(start, head) \cup {head} : slots[i] # NoEntry
        BY <1>1 DEF HSlotTaken, SlotTaken, SInv, IInv, JobReady
      <4> QED
        BY <3>1, <4>1, PassedAll
    <3>3. PICK i \in Slots : Distance(p, i) = SlotCount - 1
      BY DistanceOnto, SlotCountAssumption
    <3>4. Len(order) = SlotCount
      <4>1. SlotCount - 1 < Len(order) /\ Len(order) <= SlotCount
        BY <1>2, <3>2, <3>3 DEF RingOrder
      <4> QED
        BY <4>1, SlotCountAssumption DEF OrderInv
    <3>5. Distance(head', p) = SlotCount - Len(order')
      BY <1>1, <2>1, <3>1, <3>4, SlotCountAssumption
    <3> QED
      BY <2>3, <3>5 DEF HeadBetween, Distance
  <2> QED
    BY <1>1, <2>2, <2>3
<1> QED
  BY <1>1, <1>2, SameOrder

(* The slot the second loop finds is the one right behind the youngest
   entry. *)
LEMMA InsertsBehindYoungest ==
    ASSUME IInv, order \in Seq(Keys), NEW p \in Slots, RingOrder(p),
           order # <<>>, HeadBetween(p), InsertEntry
    PROVE  Distance(p, head) = Len(order)
<1>1. /\ scan = "slot" /\ slots[head] = NoEntry
      /\ head \in Slots /\ start \in Slots
  BY DEF InsertEntry, IInv, TypeOK
<1>2. \A i \in Passed(start, head) : slots[i] # NoEntry
  BY <1>1 DEF IInv, JobReady
<1>3. /\ Distance(start, p) \in {0, SlotCount - Len(order)}
      /\ Len(order) \in Nat /\ Len(order) > 0 /\ Len(order) <= SlotCount
      /\ SlotCount \in Nat
  BY <1>1, SlotCountAssumption DEF HeadBetween, RingOrder
<1>4. ~(Distance(p, head) < Len(order)) /\ Distance(p, head) \in 0 .. (SlotCount - 1)
  BY <1>1, DistanceType DEF RingOrder
<1>5. CASE start = p
  <2>1. ASSUME Distance(p, head) > Len(order) PROVE FALSE
    <3>1. PICK b \in Slots : Distance(p, b) = Len(order)
      BY <1>3, <1>4, <2>1, DistanceOnto
    <3>2. b \in Passed(start, head)
      BY <1>1, <1>5, <2>1, <3>1, DistancePassed
    <3>3. slots[b] = NoEntry
      BY <1>3, <3>1 DEF RingOrder
    <3> QED
      BY <1>2, <3>2, <3>3
  <2> QED
    BY <1>3, <1>4, <2>1
<1>6. CASE start # p
  <2>1. Distance(start, p) = SlotCount - Len(order)
    BY <1>1, <1>3, <1>6, DistanceZero
  <2>2. Distance(p, start) = Len(order)
    BY <1>1, <1>3, <1>6, <2>1, DistanceTurn, DistanceType
  <2>3. slots[start] = NoEntry
    BY <1>1, <1>3, <2>2 DEF RingOrder
  <2>4. start \notin Passed(start, head)
    BY <1>2, <2>3
  <2>5. ~(0 < Distance(start, head))
    BY <1>1, <2>4, DistancePassed, DistanceZero
  <2>6. head = start
    BY <1>1, <2>5, DistanceZero, DistanceType
  <2> QED
    BY <2>2, <2>6
<1> QED
  BY <1>5, <1>6

(* The new entry is the youngest, and the head goes behind it. *)
LEMMA InsertOrder ==
    ASSUME SInv, OrderInv, HInsertEntry
    PROVE  OrderInv'
<1>1. /\ scan = "slot" /\ slots[head] = NoEntry /\ head \in Slots
      /\ job \in Entry /\ job.key \in Keys /\ job # NoEntry
      /\ order' = Append(order, job.key) /\ head' = Advance(head)
      /\ scan' = "unlocked" /\ spared' = spared /\ skipped' = skipped
      /\ \A i \in Slots : slots'[i] = IF i = head THEN job ELSE slots[i]
  BY DEF HInsertEntry, InsertEntry, HeadAfterInsert, SInv, IInv, TypeOK, Entry
<1>2. /\ order \in Seq(Keys) /\ order' \in Seq(Keys)
      /\ Len(order) \in Nat /\ Len(order') = Len(order) + 1
      /\ \A j \in 1 .. Len(order) : order'[j] = order[j]
      /\ order'[Len(order) + 1] = job.key
  BY <1>1, AppendProperties DEF OrderInv
<1>3. SlotCount \in Nat \ {0}
  BY SlotCountAssumption
<1> SUFFICES ASSUME ~skipped'
             PROVE  /\ spared' = {}
                    /\ \E p \in Slots :
                          RingOrder(p)' /\ (order' # <<>> => HeadBetween(p)')
  BY <1>1, <1>2 DEF OrderInv
<1>4. ~skipped /\ spared' = {}
  BY <1>1 DEF OrderInv
<1>5. PICK p \in Slots : RingOrder(p) /\ (order # <<>> => HeadBetween(p))
  BY <1>4 DEF OrderInv
<1>6. PICK q \in Slots : /\ Distance(q, head) = Len(order)
                         /\ Distance(head', q) = SlotCount - Len(order')
                         /\ \A i \in Slots : i # head =>
                               IF Distance(q, i) < Len(order)
                               THEN /\ slots[i] # NoEntry
                                    /\ slots[i].key = order[Distance(q, i) + 1]
                               ELSE slots[i] = NoEntry
  <2>1. CASE order = <<>>
    <3>1. Distance(head, head) = 0 /\ Len(order) = 0
      BY <1>1, <2>1, DistanceZero
    <3>2. Distance(Advance(head), head) = SlotCount - 1
      BY <1>1, DistanceLess
    <3>3. \A i \in Slots : slots[i] = NoEntry /\ ~(Distance(head, i) < 0)
      BY <1>1, <1>5, <3>1, DistanceType DEF RingOrder
    <3>4. Distance(head', head) = SlotCount - Len(order')
      BY <1>1, <1>2, <1>3, <3>1, <3>2
    <3> QED
      BY <1>1, <3>1, <3>3, <3>4
  <2>2. CASE order # <<>>
    <3>1. Distance(p, head) = Len(order)
      BY <1>2, <1>5, <2>2, InsertsBehindYoungest DEF SInv, HInsertEntry
    <3>2. Len(order) > 0
      BY <1>2, <2>2
    <3>3. head # p
      BY <1>1, <3>1, <3>2, DistanceZero
    <3>4. Distance(head, p) = SlotCount - Len(order)
      BY <1>1, <1>2, <1>3, <3>1, <3>3, DistanceTurn, DistanceType
    <3>5. Distance(Advance(head), p) = Distance(head, p) - 1
      BY <1>1, <3>3, DistanceLess
    <3>6. Distance(head', p) = SlotCount - Len(order')
      BY <1>1, <1>2, <1>3, <3>4, <3>5
    <3> QED
      BY <1>5, <3>1, <3>6 DEF RingOrder
  <2> QED
    BY <2>1, <2>2
<1>7. ASSUME NEW i \in Slots
      PROVE  IF Distance(q, i) < Len(order')
             THEN /\ slots'[i] # NoEntry
                  /\ slots'[i].key = order'[Distance(q, i) + 1]
             ELSE slots'[i] = NoEntry
  <2>1. Distance(q, i) \in Nat
    BY DistanceType
  <2>2. CASE i = head
    BY <1>1, <1>2, <1>6, <2>2
  <2>3. CASE i # head
    <3>1. Distance(q, i) # Len(order)
      BY <1>1, <1>6, <2>3, DistanceInjective
    <3>2. CASE Distance(q, i) < Len(order)
      <4>1. Distance(q, i) + 1 \in 1 .. Len(order)
        BY <1>2, <2>1, <3>2
      <4>2. slots[i] # NoEntry /\ slots[i].key = order[Distance(q, i) + 1]
        BY <1>6, <2>3, <3>2
      <4> QED
        BY <1>1, <1>2, <2>1, <2>3, <3>2, <4>1, <4>2
    <3>3. CASE ~(Distance(q, i) < Len(order))
      BY <1>1, <1>2, <1>6, <2>1, <2>3, <3>1, <3>3
    <3> QED
      BY <3>2, <3>3
  <2> QED
    BY <2>2, <2>3
<1>8. Len(order') <= SlotCount
  BY <1>1, <1>2, <1>3, <1>6, DistanceType
<1>9. RingOrder(q)'
  BY <1>7, <1>8 DEF RingOrder, Distance
<1>10. HeadBetween(q)'
  BY <1>1, <1>6 DEF HeadBetween, Distance
<1> QED
  BY <1>4, <1>9, <1>10

(* Every step preserves the invariant about the order. *)
LEMMA NextOrderInv == SInv /\ SInv' /\ OrderInv /\ [HNext]_hvars => OrderInv'
<1> SUFFICES ASSUME SInv, SInv', OrderInv, [HNext]_hvars PROVE OrderInv'
  OBVIOUS
<1>1. ASSUME NEW k \in Keys, NEW v \in Values, HBeginFinalize(k, v)
      PROVE  OrderInv'
  <2>1. /\ scan = "unlocked" /\ scan' \in {"evict", "drop"} /\ head' = head
        /\ slots' = slots /\ order' = order /\ skipped' = skipped /\ spared' = {}
    BY <1>1 DEF HBeginFinalize, BeginFinalize, ring
  <2>2. ASSUME NEW p \in Slots, RingOrder(p), order # <<>>, HeadBetween(p)
        PROVE  HeadBetween(p)'
    <3>1. Distance(head, p) = SlotCount - Len(order)
      BY <2>1, <2>2 DEF HeadBetween
    <3>2. SlotCount - Len(order) \in Int
      BY SlotCountAssumption DEF OrderInv
    <3> QED
      BY <2>1, <3>1, <3>2 DEF HeadBetween, Distance
  <2> QED
    BY <2>1, <2>2, SameOrder
<1>2. CASE HScanStep
  BY <1>2, ScanStepOrder
<1>3. CASE HSlotTaken
  BY <1>3, SlotTakenOrder
<1>4. CASE HInsertEntry
  BY <1>4, InsertOrder
<1>5. CASE RoomFound /\ UNCHANGED history
  <2>1. /\ scan = "evict" /\ scan' = "slot" /\ start' = head /\ Enough
        /\ UNCHANGED <<slots, order, skipped, spared>>
    BY <1>5 DEF RoomFound, ring, history
  <2>2. \A p \in Slots : HeadBetween(p) => HeadBetween(p)'
    BY <2>1 DEF HeadBetween, Distance
  <2> QED
    BY <2>1, <2>2, SameOrder
<1>6. CASE Drop /\ UNCHANGED history
  <2>1. /\ scan = "drop" /\ scan' = "unlocked" /\ head' = head
        /\ UNCHANGED <<slots, order, skipped, spared>>
    BY <1>6 DEF Drop, ring, history
  <2>2. \A p \in Slots : HeadBetween(p) => HeadBetween(p)'
    BY <2>1 DEF HeadBetween, Distance
  <2> QED
    BY <2>1, <2>2, SameOrder
<1>7. CASE UNCHANGED <<ring, scan, job, start, history>>
  <2>1. UNCHANGED <<slots, order, skipped, spared>>
    BY <1>7 DEF ring, history
  <2>2. \A p \in Slots : HeadBetween(p) => HeadBetween(p)'
    BY <1>7 DEF HeadBetween, Distance, Enough, Room, Minus, Size, ring, history
  <2> QED
    BY <2>1, <2>2, SameOrder
<1> QED
  BY <1>1, <1>2, <1>3, <1>4, <1>5, <1>6, <1>7
  DEF HNext, hvars, vars, ring, ServeHit, Drain, LookupHit

(* As long as nothing has been spared, the entries stand in the ring in the
   order in which they came, and the head between the youngest and the
   oldest. *)
THEOREM OrderInvariance == HSpec => []OrderInv
<1>1. HInit => OrderInv
  <2> SUFFICES ASSUME HInit PROVE OrderInv
    OBVIOUS
  <2>1. 0 \in Slots
    BY SlotCountAssumption DEF Slots
  <2>2. RingOrder(0)
    BY <2>1, DistanceType, SlotCountAssumption DEF HInit, Init, RingOrder
  <2>3. order = <<>> /\ spared = {} /\ skipped = FALSE /\ order \in Seq(Keys)
    BY DEF HInit
  <2>4. \E p \in Slots : RingOrder(p) /\ (order # <<>> => HeadBetween(p))
    BY <2>1, <2>2, <2>3
  <2> QED
    BY <2>3, <2>4 DEF OrderInv
<1>2. SInv /\ SInv' /\ OrderInv /\ [HNext]_hvars => OrderInv'
  BY NextOrderInv
<1> QED
  BY <1>1, <1>2, ScanInvariance, PTL DEF HSpec

(* Before anything was spared, a step evicts the oldest entry or none. *)
LEMMA StepFifo ==
    ASSUME SInv, OrderInv, HNext, ~skipped
    PROVE  EvictedNow \subseteq {1}
<1>1. order \in Seq(Keys) /\ IInv
  BY DEF OrderInv, SInv
<1>2. PICK p \in Slots : RingOrder(p) /\ (order # <<>> => HeadBetween(p))
  BY DEF OrderInv
<1>3. CASE HScanStep
  BY <1>1, <1>2, <1>3, EvictsOldest DEF HScanStep
<1>4. CASE \A k \in Keys : cache_map'[k] = cache_map[k] \/ cache_map'[k] \in Slots
  <2>1. ASSUME NEW n \in EvictedNow PROVE FALSE
    <3>1. n \in DOMAIN order /\ order[n] \in Keys /\ cache_map'[order[n]] = NoSlot
      BY <1>1 DEF EvictedNow
    <3>2. PICK i \in Slots : cache_map[order[n]] = i
      BY <1>1, <1>2, <3>1, OrderedCached
    <3> QED
      BY <1>4, <3>1, <3>2, NoSlotIsNone
  <2> QED
    BY <2>1
<1>5. CASE HInsertEntry
  BY <1>1, <1>4, <1>5 DEF HInsertEntry, InsertEntry, IInv, TypeOK
<1> QED
  BY <1>3, <1>4, <1>5
  DEF HNext, HBeginFinalize, BeginFinalize, HSlotTaken, SlotTaken, RoomFound,
      Drop, ServeHit, Drain, LookupHit, ring

(* First in, first out, as long as no scan has come across an entry in
   use. *)
THEOREM FirstInFirstOut == HSpec => Fifo
<1>1. SInv /\ OrderInv /\ [HNext]_hvars =>
        [~skipped => EvictedNow \subseteq {1}]_hvars
  BY StepFifo
<1> QED
  BY <1>1, ScanInvariance, OrderInvariance, PTL DEF HSpec, Fifo
=============================================================================
