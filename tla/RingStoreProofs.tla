-------------------------- MODULE RingStoreProofs ---------------------------
(***************************************************************************)
(* Proofs about RingStore, for every set of keys, responses and readers,   *)
(* every capacity and every number of slots.                               *)
(*                                                                         *)
(* None of the properties is inductive alone: that pins_ stays a natural   *)
(* number needs PinsExact, which needs that no reader points into an empty *)
(* slot, which in turn needs PinsExact when an entry is evicted; that the  *)
(* accounting does not wrap needs that the scan has left enough room; and  *)
(* that both loops stop rightly needs to know what they have passed.       *)
(***************************************************************************)
EXTENDS RingStore, TLAPS, FiniteSetTheorems, WellFoundedInduction

(* A reader points into an entry exactly while it is serving a hit, and the
   entry is there. *)
RefsLive ==
    \A r \in Readers :
        /\ ref[r] = NoSlot <=> serving[r] = "no"
        /\ ref[r] # NoSlot => slots[ref[r]] # NoEntry

(* The slots the head has passed since it stood at a, if it is at b now and
   has not been round. *)
Passed(a, b) == IF a <= b THEN a .. (b - 1)
                ELSE (a .. (SlotCount - 1)) \cup (0 .. (b - 1))

(* What the scan has established about the response it works for. *)
JobReady ==
    /\ scan # "unlocked" => ~Cached(job.key)
    /\ scan = "slot" =>
          /\ used_size + Size(job) <= Capacity
          /\ \A i \in Passed(start, head) : slots[i] # NoEntry

(* The inductive invariant. *)
IInv ==
    /\ TypeOK
    /\ RefsLive
    /\ MapMatchesSlots
    /\ PinsExact
    /\ Accounted
    /\ JobReady
    /\ DropHasReason

-----------------------------------------------------------------------------
(* Facts about the operators.                                              *)

(* Every non-empty set of natural numbers has a least element: what stands
   for an induction here. *)
LEMMA LeastNatural ==
    ASSUME NEW T, T \subseteq Nat, T # {}
    PROVE  \E x \in T : \A y \in T : x <= y
<1> DEFINE R == {p \in Nat \X Nat : p[1] < p[2]}
<1>1. R = OpToRel(<, Nat)
  BY DEF OpToRel
<1>2. IsWellFoundedOn(R, Nat)
  BY <1>1, NatLessThanWellFounded, Zenon
<1>3. \A a, b \in Nat : a < b => <<a, b>> \in R
  OBVIOUS
<1> HIDE DEF R
<1>4. PICK x \in T : \A y \in T : ~(<<y, x>> \in R)
  BY <1>2, WFMin
<1>5. ASSUME NEW y \in T PROVE x <= y
  <2>1. ~(<<y, x>> \in R)
    BY <1>4
  <2>2. x \in Nat /\ y \in Nat
    OBVIOUS
  <2> QED
    BY <1>3, <2>1, <2>2
<1> QED
  BY <1>5

(* Entry::size() of a well-formed entry is a size_t. *)
LEMMA SizeType == \A e \in Entry : Size(e) \in Nat /\ Size(e) < SizeModulus
BY SizeAssumption, ModulusAssumption DEF Size, Entry

(* The head stays inside the ring. *)
LEMMA AdvanceType == \A i \in Slots : Advance(i) \in Slots
BY SlotCountAssumption DEF Slots, Advance

(* NoSlot is not a slot. *)
LEMMA NoSlotIsNone == NoSlot \notin Slots
BY SlotCountAssumption DEF Slots, NoSlot

(* The readers that point into a slot can be counted. *)
LEMMA HoldersFinite ==
    \A i \in Slots : IsFiniteSet(Holders(i)) /\ Cardinality(Holders(i)) \in Nat
BY ReadersAssumption, FS_Subset, FS_CardinalityType DEF Holders

(* The memory bound: an accounted cache is within its capacity, so the room
   left is what an integer subtraction gives. *)
LEMMA AccountedBound ==
    ASSUME Accounted
    PROVE  /\ used_size \in 0 .. Capacity
           /\ Room = Capacity - used_size
<1>1. PICK f \in [0 .. SlotCount -> 0 .. Capacity] :
          RunningTotal(f) /\ used_size = f[SlotCount]
  BY DEF Accounted
<1>2. used_size \in 0 .. Capacity
  BY <1>1, SlotCountAssumption
<1> QED
  BY <1>2, CapacityAssumption DEF Room, Minus

(* Initially the ring is empty and nothing holds the mutex. *)
LEMMA InitIInv == Init => IInv
<1> SUFFICES ASSUME Init PROVE IInv
  OBVIOUS
<1> USE DEF Init
<1>1. TypeOK
  BY SlotCountAssumption, ModulusAssumption, CapacityAssumption, NoEntryAssumption
  DEF TypeOK, Slots
<1>2. RefsLive
  BY DEF RefsLive
<1>3. MapMatchesSlots
  BY DEF MapMatchesSlots, Cached
<1>4. PinsExact
  BY DEF PinsExact
<1>5. Accounted
  <2> DEFINE f == [j \in 0 .. SlotCount |-> 0]
  <2>1. f \in [0 .. SlotCount -> 0 .. Capacity]
    BY CapacityAssumption
  <2>2. RunningTotal(f)
    BY SlotCountAssumption DEF RunningTotal, SlotSize, Slots
  <2>3. used_size = f[SlotCount]
    BY SlotCountAssumption
  <2> QED
    BY <2>1, <2>2, <2>3 DEF Accounted
<1>6. JobReady /\ DropHasReason
  BY DEF JobReady, DropHasReason
<1> QED
  BY <1>1, <1>2, <1>3, <1>4, <1>5, <1>6 DEF IInv

-----------------------------------------------------------------------------
(* Steps that leave the entries alone.                                     *)

(* What is said about the entries holds on as long as they stay. *)
LEMMA EntriesStay ==
    ASSUME Accounted, MapMatchesSlots, UNCHANGED <<slots, cache_map, used_size>>
    PROVE  Accounted' /\ MapMatchesSlots'
<1>1. Accounted'
  BY DEF Accounted, RunningTotal, SlotSize, Size
<1>2. MapMatchesSlots'
  BY DEF MapMatchesSlots, Cached
<1> QED
  BY <1>1, <1>2

(* What the scan knows does not depend on readers. *)
LEMMA ScanStays ==
    ASSUME JobReady, DropHasReason, UNCHANGED <<ring, scan, job, start>>
    PROVE  JobReady' /\ DropHasReason'
BY DEF JobReady, DropHasReason, ring, Cached, Size, Passed, Room, Minus

(* A reader that points nowhere, and then into slot i, adds one holder to it
   and to no other. *)
LEMMA HoldersAfterPin ==
    ASSUME TypeOK, NEW r \in Readers, NEW i \in Slots, ref[r] = NoSlot,
           ref' = [ref EXCEPT ![r] = i]
    PROVE  \A j \in Slots : Cardinality(Holders(j)') =
              Cardinality(Holders(j)) + (IF j = i THEN 1 ELSE 0)
<1> TAKE j \in Slots
<1>1. r \notin Holders(j)
  BY NoSlotIsNone DEF Holders
<1>2. CASE j = i
  <2>1. Holders(j)' = Holders(j) \cup {r}
    BY <1>2 DEF Holders, TypeOK
  <2> QED
    BY <1>1, <1>2, <2>1, HoldersFinite, FS_AddElement
<1>3. CASE j # i
  <2>1. Holders(j)' = Holders(j)
    BY <1>3, NoSlotIsNone DEF Holders, TypeOK
  <2> QED
    BY <1>3, <2>1, HoldersFinite
<1> QED
  BY <1>2, <1>3

(* A reader that lets go of slot i takes one holder from it and from no
   other, and there was at least one. *)
LEMMA HoldersAfterUnpin ==
    ASSUME TypeOK, NEW r \in Readers, ref[r] \in Slots,
           ref' = [ref EXCEPT ![r] = NoSlot]
    PROVE  /\ Cardinality(Holders(ref[r])) > 0
           /\ \A j \in Slots : Cardinality(Holders(j)') =
                 Cardinality(Holders(j)) - (IF j = ref[r] THEN 1 ELSE 0)
<1>1. Cardinality(Holders(ref[r])) > 0
  <2>1. r \in Holders(ref[r])
    BY DEF Holders
  <2>2. Cardinality(Holders(ref[r])) # 0
    BY <2>1, HoldersFinite, FS_EmptySet
  <2> QED
    BY <2>2, HoldersFinite
<1>2. ASSUME NEW j \in Slots
      PROVE  Cardinality(Holders(j)') =
                Cardinality(Holders(j)) - (IF j = ref[r] THEN 1 ELSE 0)
  <2>1. CASE j = ref[r]
    <3>1. Holders(j)' = Holders(j) \ {r}
      BY <2>1, NoSlotIsNone DEF Holders, TypeOK
    <3>2. r \in Holders(j)
      BY <2>1 DEF Holders
    <3> QED
      BY <2>1, <3>1, <3>2, HoldersFinite, FS_RemoveElement
  <2>2. CASE j # ref[r]
    <3>1. Holders(j)' = Holders(j)
      BY <2>2, NoSlotIsNone DEF Holders, TypeOK
    <3> QED
      BY <2>2, <3>1, HoldersFinite
  <2> QED
    BY <2>1, <2>2
<1> QED
  BY <1>1, <1>2

(* lookup() pins the entry it has found. *)
LEMMA LookupHitIInv ==
    ASSUME IInv, NEW r \in Readers, NEW k \in Keys, LookupHit(r, k)
    PROVE  IInv'
<1> USE DEF IInv
<1>1. cache_map[k] \in Slots /\ slots[cache_map[k]] # NoEntry
  BY DEF LookupHit, Cached, TypeOK, MapMatchesSlots
<1>2. ref[r] = NoSlot
  BY DEF LookupHit, RefsLive
<1>3. TypeOK'
  BY <1>1 DEF LookupHit, Pin, ring, TypeOK
<1>4. RefsLive'
  BY <1>1, NoSlotIsNone DEF LookupHit, RefsLive, ring, TypeOK
<1>5. Accounted' /\ MapMatchesSlots'
  BY EntriesStay DEF LookupHit, ring
<1>6. JobReady' /\ DropHasReason'
  BY ScanStays DEF LookupHit
<1>7. PinsExact'
  <2>1. \A j \in Slots : Cardinality(Holders(j)') =
              Cardinality(Holders(j)) + (IF j = cache_map[k] THEN 1 ELSE 0)
    BY <1>1, <1>2, HoldersAfterPin DEF LookupHit
  <2>2. \A j \in Slots : slots'[j] = slots[j]
            /\ pins'[j] = pins[j] + (IF j = cache_map[k] THEN 1 ELSE 0)
    BY <1>1 DEF LookupHit, Pin, ring, TypeOK
  <2> QED
    BY <2>1, <2>2 DEF PinsExact
<1> QED
  BY <1>3, <1>4, <1>5, <1>6, <1>7

(* Giving a pin back, however the reader came to do so. *)
LEMMA ReleaseIInv ==
    ASSUME IInv, NEW r \in Readers, serving[r] # "no", Unpin(ref[r]),
           ref' = [ref EXCEPT ![r] = NoSlot],
           serving' = [serving EXCEPT ![r] = "no"],
           UNCHANGED <<ring, scan, job, start>>
    PROVE  IInv'
<1> USE DEF IInv
<1>1. ref[r] \in Slots /\ slots[ref[r]] # NoEntry
  BY DEF RefsLive, TypeOK
<1>2. /\ Cardinality(Holders(ref[r])) > 0
      /\ \A j \in Slots : Cardinality(Holders(j)') =
            Cardinality(Holders(j)) - (IF j = ref[r] THEN 1 ELSE 0)
  BY <1>1, HoldersAfterUnpin
<1>3. pins[ref[r]] > 0
  BY <1>1, <1>2 DEF PinsExact
<1>4. TypeOK'
  BY <1>1, <1>3 DEF Unpin, ring, TypeOK
<1>5. RefsLive'
  BY DEF RefsLive, ring, TypeOK
<1>6. Accounted' /\ MapMatchesSlots'
  BY EntriesStay DEF ring
<1>7. JobReady' /\ DropHasReason'
  BY ScanStays
<1>8. PinsExact'
  <2>1. \A j \in Slots : slots'[j] = slots[j]
            /\ pins'[j] = pins[j] - (IF j = ref[r] THEN 1 ELSE 0)
    BY <1>1 DEF Unpin, ring, TypeOK
  <2> QED
    BY <1>2, <2>1 DEF PinsExact
<1> QED
  BY <1>4, <1>5, <1>6, <1>7, <1>8

(* The unlocked half of a hit. *)
LEMMA ServeHitIInv ==
    ASSUME IInv, NEW r \in Readers, ServeHit(r)
    PROVE  IInv'
<1>1. CASE HasBody(slots[ref[r]].val)
  <2> USE <1>1 DEF IInv, ServeHit
  <2>1. TypeOK'
    BY DEF TypeOK, ring
  <2>2. RefsLive'
    BY DEF RefsLive, TypeOK, ring
  <2>3. Accounted' /\ MapMatchesSlots'
    BY EntriesStay DEF ring
  <2>4. JobReady' /\ DropHasReason'
    BY ScanStays
  <2>5. PinsExact'
    BY DEF PinsExact, Holders, ring
  <2> QED
    BY <2>1, <2>2, <2>3, <2>4, <2>5
<1>2. CASE ~HasBody(slots[ref[r]].val)
  BY <1>2, ReleaseIInv DEF ServeHit
<1> QED
  BY <1>1, <1>2

(* The body has drained. *)
LEMMA DrainIInv ==
    ASSUME IInv, NEW r \in Readers, Drain(r)
    PROVE  IInv'
BY ReleaseIInv DEF Drain

-----------------------------------------------------------------------------
(* The accounting, when an entry leaves and when one comes.                *)

(* evictHeadLocked() takes away exactly what the entry was charged for, and
   the subtraction does not wrap. *)
LEMMA AccountedAfterEvict ==
    ASSUME TypeOK, Accounted, NEW h \in Slots, slots[h] # NoEntry,
           slots' = [slots EXCEPT ![h] = NoEntry],
           used_size' = Minus(used_size, Size(slots[h]))
    PROVE  /\ Accounted'
           /\ used_size' = used_size - Size(slots[h])
           /\ used_size' \in 0 .. Capacity
<1>0. PICK z \in Nat : z = Size(slots[h]) /\ SlotSize(h) = z
  BY SizeType DEF TypeOK, SlotSize
<1>1. PICK f \in [0 .. SlotCount -> 0 .. Capacity] :
          RunningTotal(f) /\ used_size = f[SlotCount]
  BY DEF Accounted
<1> DEFINE g == [j \in 0 .. SlotCount |-> IF j <= h THEN f[j] ELSE f[j] - z]
<1>2. /\ h \in 0 .. SlotCount /\ h + 1 \in 0 .. SlotCount /\ h \in Nat
      /\ SlotCount \in 0 .. SlotCount /\ h < SlotCount
  BY SlotCountAssumption DEF Slots
<1>3. f[h + 1] = f[h] + z /\ f[h] \in Nat
  BY <1>0, <1>1, <1>2 DEF RunningTotal
<1>4. \A j \in 0 .. SlotCount : h < j => f[h + 1] <= f[j]
  BY <1>1, <1>2 DEF RunningTotal
<1>5. \A j \in 0 .. SlotCount : f[j] \in 0 .. Capacity
  BY <1>1
<1>6. g \in [0 .. SlotCount -> 0 .. Capacity]
  <2>1. ASSUME NEW j \in 0 .. SlotCount
        PROVE  (IF j <= h THEN f[j] ELSE f[j] - z) \in 0 .. Capacity
    BY <1>0, <1>2, <1>3, <1>4, <1>5, CapacityAssumption
  <2> QED
    BY <2>1
<1>7. \A i \in Slots : SlotSize(i)' = IF i = h THEN 0 ELSE SlotSize(i)
  BY DEF SlotSize, Size, TypeOK
<1>8. RunningTotal(g)'
  <2>1. g[0] = 0
    BY <1>1, <1>2, SlotCountAssumption DEF RunningTotal
  <2>2. \A i \in Slots : g[i + 1] = g[i] + SlotSize(i)'
    <3> TAKE i \in Slots
    <3>1. /\ i \in 0 .. SlotCount /\ i + 1 \in 0 .. SlotCount
          /\ f[i + 1] = f[i] + SlotSize(i) /\ f[i] \in Nat /\ f[i + 1] \in Nat
          /\ i \in Nat
      BY <1>1, <1>5, SlotCountAssumption, CapacityAssumption DEF Slots, RunningTotal
    <3>2. CASE i < h
      BY <1>2, <1>7, <3>1, <3>2
    <3>3. CASE i = h
      BY <1>0, <1>2, <1>3, <1>7, <3>1, <3>3
    <3>4. CASE i > h
      <4>1. SlotSize(i) \in Nat
        BY SizeType DEF SlotSize, TypeOK
      <4> QED
        BY <1>0, <1>2, <1>7, <3>1, <3>4, <4>1
    <3> QED
      BY <1>2, <3>1, <3>2, <3>3, <3>4
  <2>3. \A i, j \in 0 .. SlotCount : i <= j => g[i] <= g[j]
    <3> TAKE i, j \in 0 .. SlotCount
    <3>1. (i <= j => f[i] <= f[j]) /\ f[i] \in Nat /\ f[j] \in Nat
      BY <1>1, <1>5, CapacityAssumption DEF RunningTotal
    <3>2. i <= h => f[i] <= f[h]
      BY <1>1, <1>2 DEF RunningTotal
    <3>3. j > h => f[h] + z <= f[j]
      BY <1>2, <1>3, <1>4
    <3>4. ASSUME i <= j PROVE g[i] <= g[j]
      <4>1. CASE j <= h
        BY <1>2, <3>1, <3>4, <4>1
      <4>2. CASE i <= h /\ j > h
        BY <1>0, <1>2, <1>3, <3>1, <3>2, <3>3, <4>2
      <4>3. CASE i > h
        BY <1>0, <1>2, <3>1, <3>4, <4>3
      <4> QED
        BY <1>2, <3>4, <4>1, <4>2, <4>3
    <3> QED
      BY <3>4
  <2> QED
    BY <2>1, <2>2, <2>3 DEF RunningTotal
<1>9. used_size' = used_size - z /\ g[SlotCount] = used_size - z
  <2>1. z <= used_size /\ used_size \in Nat
    BY <1>0, <1>1, <1>2, <1>3, <1>4, <1>5, CapacityAssumption
  <2>2. used_size' = Minus(used_size, z)
    BY <1>0
  <2>3. Minus(used_size, z) = used_size - z
    BY <1>0, <2>1 DEF Minus
  <2>4. g[SlotCount] = used_size - z
    BY <1>1, <1>2
  <2> QED
    BY <2>2, <2>3, <2>4
<1> QED
  BY <1>0, <1>2, <1>6, <1>8, <1>9 DEF Accounted

(* insertEntryLocked() charges the entry to a cache that has room for it,
   and the addition does not wrap. *)
LEMMA AccountedAfterInsert ==
    ASSUME TypeOK, Accounted, NEW h \in Slots, NEW e \in Entry,
           slots[h] = NoEntry, used_size + Size(e) <= Capacity,
           slots' = [slots EXCEPT ![h] = e],
           used_size' = Plus(used_size, Size(e))
    PROVE  /\ Accounted'
           /\ used_size' = used_size + Size(e)
           /\ used_size' \in 0 .. Capacity
<1> DEFINE z == Size(e)
<1>0. z \in Nat /\ SlotSize(h) = 0 /\ used_size + z <= Capacity
  BY SizeType DEF SlotSize
<1>1. PICK f \in [0 .. SlotCount -> 0 .. Capacity] :
          RunningTotal(f) /\ used_size = f[SlotCount]
  BY DEF Accounted
<1> DEFINE g == [j \in 0 .. SlotCount |-> IF j <= h THEN f[j] ELSE f[j] + z]
<1> HIDE DEF z
<1>2. /\ h \in 0 .. SlotCount /\ h + 1 \in 0 .. SlotCount /\ h \in Nat
      /\ SlotCount \in 0 .. SlotCount /\ h < SlotCount
  BY SlotCountAssumption DEF Slots
<1>3. \A j \in 0 .. SlotCount : f[j] \in 0 .. Capacity /\ f[j] <= used_size
  BY <1>1, <1>2 DEF RunningTotal
<1>4. g \in [0 .. SlotCount -> 0 .. Capacity]
  <2>1. ASSUME NEW j \in 0 .. SlotCount
        PROVE  (IF j <= h THEN f[j] ELSE f[j] + z) \in 0 .. Capacity
    BY <1>0, <1>1, <1>2, <1>3, CapacityAssumption
  <2> QED
    BY <2>1
<1>5. \A i \in Slots : SlotSize(i)' = IF i = h THEN z ELSE SlotSize(i)
  BY NoEntryAssumption DEF SlotSize, Size, TypeOK, z
<1>6. RunningTotal(g)'
  <2>1. g[0] = 0
    BY <1>1, <1>2, SlotCountAssumption DEF RunningTotal
  <2>2. \A i \in Slots : g[i + 1] = g[i] + SlotSize(i)'
    <3> TAKE i \in Slots
    <3>1. /\ i \in 0 .. SlotCount /\ i + 1 \in 0 .. SlotCount
          /\ f[i + 1] = f[i] + SlotSize(i) /\ f[i] \in Nat /\ f[i + 1] \in Nat
          /\ i \in Nat
      BY <1>1, <1>3, SlotCountAssumption, CapacityAssumption DEF Slots, RunningTotal
    <3>2. CASE i < h
      BY <1>2, <1>5, <3>1, <3>2
    <3>3. CASE i = h
      BY <1>0, <1>2, <1>5, <3>1, <3>3
    <3>4. CASE i > h
      <4>1. SlotSize(i) \in Nat
        BY SizeType DEF SlotSize, TypeOK
      <4> QED
        BY <1>0, <1>2, <1>5, <3>1, <3>4, <4>1
    <3> QED
      BY <1>2, <3>1, <3>2, <3>3, <3>4
  <2>3. \A i, j \in 0 .. SlotCount : i <= j => g[i] <= g[j]
    <3> TAKE i, j \in 0 .. SlotCount
    <3>1. (i <= j => f[i] <= f[j]) /\ f[i] \in Nat /\ f[j] \in Nat
      BY <1>1, <1>3, CapacityAssumption DEF RunningTotal
    <3> QED
      BY <1>0, <1>2, <3>1
  <2> QED
    BY <2>1, <2>2, <2>3 DEF RunningTotal
<1>7. used_size' = used_size + z /\ g[SlotCount] = used_size + z
  BY <1>0, <1>1, <1>2, <1>3, CapacityAssumption, ModulusAssumption DEF Plus, z
<1> QED
  BY <1>2, <1>4, <1>6, <1>7 DEF Accounted, z

-----------------------------------------------------------------------------
(* How far the head has come.                                              *)

(* A loop that starts has passed nothing. *)
LEMMA PassedNone == \A a \in Slots : Passed(a, a) = {}
BY SlotCountAssumption DEF Passed, Slots

(* One more step passes one more slot, as long as it does not end where the
   loop began. *)
LEMMA PassedMore ==
    ASSUME NEW a \in Slots, NEW h \in Slots, Advance(h) # a
    PROVE  Passed(a, Advance(h)) \subseteq Passed(a, h) \cup {h}
BY SlotCountAssumption DEF Passed, Slots, Advance

(* If it does, the loop has passed every slot. *)
LEMMA PassedAll ==
    ASSUME NEW a \in Slots, NEW h \in Slots, Advance(h) = a
    PROVE  Slots \subseteq Passed(a, h) \cup {h}
BY SlotCountAssumption DEF Passed, Slots, Advance

-----------------------------------------------------------------------------
(* Steps of the thread that holds the mutex.                               *)

(* finalizeLocked() begins. *)
LEMMA BeginFinalizeIInv ==
    ASSUME IInv, NEW k \in Keys, NEW v \in Values, ~Cached(k),
           BeginFinalize(k, v)
    PROVE  IInv'
<1> USE DEF IInv
<1>1. job' \in Entry /\ job'.key = k /\ job'.val = v
  BY DEF BeginFinalize, Entry
<1>2. TypeOK'
  BY <1>1, NoEntryAssumption DEF BeginFinalize, TypeOK, ring, hits
<1>3. RefsLive' /\ PinsExact'
  BY DEF BeginFinalize, RefsLive, PinsExact, Holders, ring, hits
<1>4. Accounted' /\ MapMatchesSlots'
  BY EntriesStay DEF BeginFinalize, ring
<1>5. JobReady' /\ DropHasReason'
  BY <1>1 DEF BeginFinalize, JobReady, DropHasReason, Oversized, Size, Cached, ring
<1> QED
  BY <1>2, <1>3, <1>4, <1>5

(* An iteration of the first loop that evicts: nobody points into an entry
   with no pins, so nobody loses anything. *)
LEMMA EvictIInv ==
    ASSUME IInv, ScanStep, Evictable(head), EvictHead
    PROVE  IInv'
<1> USE DEF IInv
<1>1. /\ head \in Slots /\ slots[head] \in Entry /\ slots[head] # NoEntry
      /\ job \in Entry /\ job # NoEntry
  BY DEF TypeOK, Evictable, ScanStep
<1>2. Accounted'
  BY <1>1, AccountedAfterEvict DEF EvictHead
<1>3. used_size' \in 0 .. Capacity
  BY <1>1, AccountedAfterEvict DEF EvictHead
<1>4. TypeOK'
  <2>1. head' \in Slots
    BY <1>1, AdvanceType DEF ScanStep
  <2>2. used_size' \in 0 .. (SizeModulus - 1)
    BY <1>3, ModulusAssumption, CapacityAssumption
  <2>3. cache_map' \in [Keys -> Slots \cup {NoSlot}]
    BY DEF EvictHead, Forget, TypeOK
  <2>4. slots' \in [Slots -> Entry \cup {NoEntry}]
    BY DEF EvictHead, TypeOK
  <2> QED
    BY <1>1, <2>1, <2>2, <2>3, <2>4 DEF ScanStep, TypeOK, hits
<1>5. \A r \in Readers : ref[r] # head
  <2>1. Cardinality(Holders(head)) = 0
    BY <1>1 DEF PinsExact, Evictable
  <2>2. Holders(head) = {}
    BY <1>1, <2>1, HoldersFinite, FS_EmptySet
  <2> QED
    BY <2>2 DEF Holders
<1>6. RefsLive'
  BY <1>1, <1>5 DEF RefsLive, ScanStep, EvictHead, hits, TypeOK
<1>7. MapMatchesSlots'
  BY <1>1, NoSlotIsNone DEF MapMatchesSlots, EvictHead, Forget, Cached, TypeOK, Entry
<1>8. PinsExact'
  <2>1. \A i \in Slots : Holders(i)' = Holders(i)
    BY DEF ScanStep, hits, Holders
  <2> QED
    BY <2>1 DEF PinsExact, ScanStep, EvictHead, hits, TypeOK
<1>9. JobReady'
  BY DEF JobReady, ScanStep, EvictHead, Forget, Cached, TypeOK
<1>10. DropHasReason'
  BY DEF DropHasReason, ScanStep
<1> QED
  BY <1>2, <1>4, <1>6, <1>7, <1>8, <1>9, <1>10

(* An iteration of the first loop that evicts nothing. *)
LEMMA SkipIInv ==
    ASSUME IInv, ScanStep, UNCHANGED <<slots, cache_map, used_size>>
    PROVE  IInv'
<1> USE DEF IInv
<1>1. TypeOK'
  BY AdvanceType DEF ScanStep, TypeOK, hits
<1>2. RefsLive' /\ PinsExact'
  BY DEF ScanStep, RefsLive, PinsExact, Holders, hits
<1>3. Accounted' /\ MapMatchesSlots'
  BY EntriesStay
<1>4. JobReady'
  BY DEF JobReady, ScanStep, Cached
<1>5. DropHasReason'
  BY DEF DropHasReason, ScanStep
<1> QED
  BY <1>1, <1>2, <1>3, <1>4, <1>5

(* The first loop ends: there is room for the response. *)
LEMMA RoomFoundIInv ==
    ASSUME IInv, RoomFound
    PROVE  IInv'
<1> USE DEF IInv
<1>1. TypeOK'
  BY DEF RoomFound, TypeOK, ring, hits
<1>2. RefsLive' /\ PinsExact'
  BY DEF RoomFound, RefsLive, PinsExact, Holders, ring, hits
<1>3. Accounted' /\ MapMatchesSlots'
  BY EntriesStay DEF RoomFound, ring
<1>4. JobReady'
  <2>1. used_size + Size(job) <= Capacity
    <3>1. job \in Entry
      BY DEF RoomFound, TypeOK
    <3>2. Size(job) \in Nat
      BY <3>1, SizeType
    <3>3. Room >= Size(job)
      BY DEF RoomFound, Enough
    <3> QED
      BY <3>2, <3>3, AccountedBound, CapacityAssumption
  <2>2. Passed(start', head') = {}
    BY PassedNone DEF RoomFound, ring, TypeOK
  <2> QED
    BY <2>1, <2>2 DEF JobReady, RoomFound, ring, Cached, Size
<1>5. DropHasReason'
  BY DEF DropHasReason, RoomFound
<1> QED
  BY <1>1, <1>2, <1>3, <1>4, <1>5

(* An iteration of the second loop. *)
LEMMA SlotTakenIInv ==
    ASSUME IInv, SlotTaken
    PROVE  IInv'
<1> USE DEF IInv
<1>1. TypeOK'
  BY AdvanceType DEF SlotTaken, TypeOK, hits
<1>2. RefsLive' /\ PinsExact'
  BY DEF SlotTaken, RefsLive, PinsExact, Holders, hits
<1>3. Accounted' /\ MapMatchesSlots'
  BY EntriesStay DEF SlotTaken
<1>4. start \in Slots /\ head \in Slots /\ head' = Advance(head) /\ start' = start
  BY DEF TypeOK, SlotTaken
<1>5. \A i \in Passed(start, head) \cup {head} : slots'[i] # NoEntry
  BY DEF SlotTaken, JobReady
<1>6. CASE Advance(head) = start
  <2>1. \A i \in Slots : slots'[i] # NoEntry
    BY <1>4, <1>5, <1>6, PassedAll
  <2>2. scan' = "drop"
    BY <1>4, <1>6 DEF SlotTaken, BackAtStart
  <2>3. JobReady' /\ DropHasReason'
    BY <2>1, <2>2 DEF JobReady, DropHasReason, SlotTaken, Cached
  <2> QED
    BY <1>1, <1>2, <1>3, <2>3
<1>7. CASE Advance(head) # start
  <2>1. \A i \in Passed(start', head') : slots'[i] # NoEntry
    BY <1>4, <1>5, <1>7, PassedMore
  <2>2. scan' = "slot"
    BY <1>4, <1>7 DEF SlotTaken, BackAtStart
  <2>3. JobReady' /\ DropHasReason'
    BY <2>1, <2>2 DEF JobReady, DropHasReason, SlotTaken, Cached, Size
  <2> QED
    BY <1>1, <1>2, <1>3, <2>3
<1> QED
  BY <1>6, <1>7

(* The response is moved to the ring. *)
LEMMA InsertEntryIInv ==
    ASSUME IInv, InsertEntry
    PROVE  IInv'
<1> USE DEF IInv
<1>1. /\ head \in Slots /\ slots[head] = NoEntry
      /\ job \in Entry /\ job # NoEntry /\ job.key \in Keys
  BY DEF TypeOK, InsertEntry, Entry
<1>2. Accounted'
  BY <1>1, AccountedAfterInsert DEF InsertEntry, JobReady, Charged
<1>3. used_size' \in 0 .. Capacity
  BY <1>1, AccountedAfterInsert DEF InsertEntry, JobReady, Charged
<1>4. TypeOK'
  <2>1. head' \in Slots
    BY <1>1, AdvanceType DEF InsertEntry, HeadAfterInsert
  <2>2. used_size' \in 0 .. (SizeModulus - 1)
    BY <1>3, ModulusAssumption, CapacityAssumption
  <2> QED
    BY <1>1, <2>1, <2>2 DEF InsertEntry, TypeOK
<1>5. \A r \in Readers : ref[r] # head
  BY <1>1, NoSlotIsNone DEF RefsLive
<1>6. RefsLive'
  BY <1>1, <1>5 DEF RefsLive, InsertEntry, TypeOK
<1>7. MapMatchesSlots'
  BY <1>1, NoSlotIsNone
  DEF MapMatchesSlots, InsertEntry, Cached, TypeOK, Entry, JobReady
<1>8. PinsExact'
  <2>1. \A i \in Slots : Holders(i)' = Holders(i)
    BY DEF InsertEntry, Holders
  <2>2. Holders(head) = {}
    BY <1>5 DEF Holders
  <2>3. Cardinality(Holders(head)) = 0
    BY <2>2, FS_EmptySet
  <2> QED
    BY <1>1, <2>1, <2>3 DEF PinsExact, InsertEntry, TypeOK
<1>9. JobReady' /\ DropHasReason'
  BY DEF JobReady, DropHasReason, InsertEntry
<1> QED
  BY <1>2, <1>4, <1>6, <1>7, <1>8, <1>9

(* The response is dropped. *)
LEMMA DropIInv ==
    ASSUME IInv, Drop
    PROVE  IInv'
<1> USE DEF IInv
<1>1. TypeOK'
  BY DEF Drop, TypeOK, ring, hits
<1>2. RefsLive' /\ PinsExact'
  BY DEF Drop, RefsLive, PinsExact, Holders, ring, hits
<1>3. Accounted' /\ MapMatchesSlots'
  BY EntriesStay DEF Drop, ring
<1>4. JobReady' /\ DropHasReason'
  BY DEF Drop, JobReady, DropHasReason
<1> QED
  BY <1>1, <1>2, <1>3, <1>4

-----------------------------------------------------------------------------
(* The theorems.                                                           *)

(* Every step preserves the inductive invariant. *)
LEMMA NextIInv == IInv /\ [Next]_vars => IInv'
<1> SUFFICES ASSUME IInv, [Next]_vars PROVE IInv'
  OBVIOUS
<1>1. ASSUME NEW r \in Readers, ServeHit(r) PROVE IInv'
  BY <1>1, ServeHitIInv
<1>2. ASSUME NEW r \in Readers, Drain(r) PROVE IInv'
  BY <1>2, DrainIInv
<1>3. ASSUME NEW r \in Readers, NEW k \in Keys, LookupHit(r, k) PROVE IInv'
  BY <1>3, LookupHitIInv
<1>4. ASSUME NEW k \in Keys, NEW v \in Values, ~Cached(k), BeginFinalize(k, v)
      PROVE  IInv'
  BY <1>4, BeginFinalizeIInv
<1>5. CASE ScanStep
  BY <1>5, EvictIInv, SkipIInv DEF ScanStep
<1>6. CASE RoomFound
  BY <1>6, RoomFoundIInv
<1>7. CASE SlotTaken
  BY <1>7, SlotTakenIInv
<1>8. CASE InsertEntry
  BY <1>8, InsertEntryIInv
<1>9. CASE Drop
  BY <1>9, DropIInv
<1>10. CASE UNCHANGED vars
  <2> USE <1>10 DEF IInv, vars
  <2>1. TypeOK'
    BY DEF TypeOK
  <2>2. RefsLive' /\ PinsExact'
    BY DEF RefsLive, PinsExact, Holders
  <2>3. Accounted' /\ MapMatchesSlots'
    BY EntriesStay
  <2>4. JobReady' /\ DropHasReason'
    BY ScanStays DEF ring
  <2> QED
    BY <2>1, <2>2, <2>3, <2>4
<1> QED
  BY <1>1, <1>2, <1>3, <1>4, <1>5, <1>6, <1>7, <1>8, <1>9, <1>10
  DEF Next, Finalizing

(* The inductive invariant holds in every reachable state of the ring. *)
THEOREM Invariance == SafetySpec => []IInv
<1>1. Init => IInv
  BY InitIInv
<1>2. IInv /\ [Next]_vars => IInv'
  BY NextIInv
<1> QED
  BY <1>1, <1>2, PTL DEF SafetySpec

(* The ring's variables keep their types; in particular no pin count goes
   below zero and the head never leaves slots_. *)
THEOREM TypeCorrect == SafetySpec => []TypeOK
<1>1. IInv => TypeOK
  BY DEF IInv
<1> QED
  BY <1>1, Invariance, PTL

(* used_size_ is the total size of the cached entries and never exceeds
   capacity_, so no size_t expression of the scan wraps. *)
THEOREM MemoryBounded == SafetySpec => []Accounted
<1>1. IInv => Accounted
  BY DEF IInv
<1> QED
  BY <1>1, Invariance, PTL

(* cache_map_ and slots_ agree, between any two iterations of a scan. *)
THEOREM MapConsistent == SafetySpec => []MapMatchesSlots
<1>1. IInv => MapMatchesSlots
  BY DEF IInv
<1> QED
  BY <1>1, Invariance, PTL

(* pins_ counts the streams that point into an entry. *)
THEOREM PinsCountReaders == SafetySpec => []PinsExact
<1>1. IInv => PinsExact
  BY DEF IInv
<1> QED
  BY <1>1, Invariance, PTL

(* No response is dropped without a reason. *)
THEOREM DropsJustified == SafetySpec => []DropHasReason
<1>1. IInv => DropHasReason
  BY DEF IInv
<1> QED
  BY <1>1, Invariance, PTL

(* A step that leaves a reader's reference alone leaves its entry alone. *)
LEMMA StepKeepsEntry ==
    ASSUME IInv, [Next]_vars, NEW r \in Readers,
           ref[r] # NoSlot, ref'[r] = ref[r]
    PROVE  slots[ref[r]] # NoEntry /\ slots'[ref[r]] = slots[ref[r]]
<1>1. ref[r] \in Slots /\ slots[ref[r]] # NoEntry
  BY DEF IInv, TypeOK, RefsLive
<1>2. CASE UNCHANGED slots
  BY <1>1, <1>2
<1>3. CASE ScanStep /\ Evictable(head) /\ EvictHead
  <2>1. Cardinality(Holders(head)) = 0 /\ head \in Slots
    BY <1>3 DEF IInv, TypeOK, PinsExact, Evictable
  <2>2. Holders(head) = {}
    BY <2>1, HoldersFinite, FS_EmptySet
  <2>3. ref[r] # head
    BY <2>2 DEF Holders
  <2> QED
    BY <1>1, <1>3, <2>1, <2>3 DEF EvictHead, IInv, TypeOK
<1>4. CASE InsertEntry
  <2>1. ref[r] # head
    BY <1>1, <1>4 DEF InsertEntry
  <2> QED
    BY <1>1, <1>4, <2>1 DEF InsertEntry, IInv, TypeOK
<1> QED
  BY <1>2, <1>3, <1>4
  DEF Next, Finalizing, vars, ring, ServeHit, Drain, LookupHit, BeginFinalize,
      ScanStep, RoomFound, SlotTaken, Drop

(* The entry a stream is being served from is neither evicted nor replaced
   before the stream gives its pin back. *)
THEOREM EntriesInUseStay == SafetySpec => InUseStays
<1>1. IInv /\ [Next]_vars =>
        [\A r \in Readers : ref[r] # NoSlot /\ ref'[r] = ref[r]
            => slots[ref[r]] # NoEntry /\ slots'[ref[r]] = slots[ref[r]]]_vars
  BY StepKeepsEntry
<1> QED
  BY <1>1, Invariance, PTL DEF SafetySpec, InUseStays
=============================================================================
