--------------------------- MODULE RingCacheProofs --------------------------
(***************************************************************************)
(* Proofs about RingCache, for every set of streams, workers and keys and  *)
(* every ring: the coalescing part uses the store as RingStore allows, a   *)
(* leader owns what is inflight under its key, and only whole responses    *)
(* are cached.                                                             *)
(***************************************************************************)
EXTENDS RingCache, TLAPS, SequenceTheorems, FiniteSetTheorems

(* The theorems about the store, for its instance in RingCache. *)
P == INSTANCE RingStoreProofs WITH Readers <- Streams, Values <- Responses

Response == [items : Seq(Piece), ended : BOOLEAN]
NoResponse == [items |-> <<>>, ended |-> FALSE]
Busy == [op : {"finalize", "post"}, items : Seq(Piece), end : BOOLEAN,
         to : SUBSET Streams]
Hit == [op : {"hit"}, stream : Streams]

(* The types of all but the store. *)
Types ==
    /\ inflight \in [Keys -> InflightResponse \cup {NoEntry}]
    /\ cancelled \in [Streams -> BOOLEAN]
    /\ key \in [Streams -> Keys \cup {NoKey}]
    /\ role \in [Streams -> {"Unset", "Cached", "Leader", "Follower"}]
    /\ done \in [Streams -> BOOLEAN]
    /\ on \in [Streams -> Workers]
    /\ life \in [Streams -> {"new", "open", "destroyed"}]
    /\ resp \in [Streams -> Response]
    /\ queue \in [Workers -> Seq(Message)]
    /\ run \in [Workers -> {Idle} \cup Hit \cup Busy]

Publishing(w) == run[w].op \in {"finalize", "post"}

(* What a stream's filter and its response have to do with each other. *)
StreamInv ==
    \A s \in Streams :
        /\ life[s] = "new" => role[s] = "Unset" /\ ~done[s] /\ resp[s] = NoResponse
        /\ role[s] # "Unset" => key[s] # NoKey
        /\ role[s] = "Leader" \/ key[s] = NoKey =>
              /\ resp[s].items = FirstPieces(s, Len(resp[s].items))
              /\ Len(resp[s].items) <= MaxChunks + 1
        /\ role[s] = "Leader" /\ done[s] => resp[s].ended

(* Only followers wait and are posted to. *)
RecipientInv ==
    /\ \A k \in Keys : Inflight(k) =>
          \A f \in inflight[k].waiters : role[f] = "Follower"
    /\ \A w \in Workers : \A i \in DOMAIN queue[w] :
          role[queue[w][i].to] = "Follower"
    /\ \A w \in Workers : Publishing(w) =>
          \A f \in run[w].to : role[f] = "Follower"

(* A stream that points into an entry is serving a hit for its key. *)
HitInv ==
    /\ \A s \in Streams : ref[s] # Store!NoSlot =>
          role[s] = "Cached" /\ slots[ref[s]].key = key[s]
    /\ \A s \in Streams : serving[s] = "headers" =>
          ~done[s] /\ resp[s] = NoResponse

(* A whole response to l. *)
Complete(l, k, v) ==
    role[l] = "Leader" /\ done[l] /\ key[l] = k /\ resp[l].items = v

(* The mutex is held in the middle of a finalization by one worker, which
   finalizes the whole response of a leader that is done. *)
LockInv ==
    /\ Unlocked => \A w \in Workers : run[w].op # "finalize"
    /\ \A v, w \in Workers :
          run[v].op = "finalize" /\ run[w].op = "finalize" => v = w
    /\ ~Unlocked =>
          /\ Inflight(job.key)
          /\ \E l \in Streams : Complete(l, job.key, job.val)
          /\ \A l \in Streams : ActiveLeader(l) => key[l] # job.key

(* A key is cached or inflight or neither. *)
Exclusive == \A k \in Keys : ~(Store!Cached(k) /\ Inflight(k))

(* LeaderOwnsInflight, in the middle of a finalization too. *)
LeaderInv ==
    \A l \in Streams : ActiveLeader(l) =>
        /\ Inflight(key[l])
        /\ inflight[key[l]].spool = resp[l].items
        /\ \A m \in Streams : ActiveLeader(m) /\ key[m] = key[l] => m = l

(* What is cached, and what was served from the cache, is whole. *)
CompleteInv ==
    /\ \A i \in Store!Slots : slots[i] # NoEntry =>
          \E l \in Streams : Complete(l, slots[i].key, slots[i].val)
    /\ \A s \in Streams : role[s] = "Cached" /\ done[s] =>
          resp[s].ended /\ \E l \in Streams : Complete(l, key[s], resp[s].items)

(* The inductive invariant. *)
CInv ==
    /\ P!IInv
    /\ Types
    /\ StreamInv
    /\ RecipientInv
    /\ HitInv
    /\ LockInv
    /\ Exclusive
    /\ LeaderInv
    /\ CompleteInv

(* What is inflight has a leader that will finish it, if no leader is torn
   down and no response ends with trailers. *)
InflightInv ==
    /\ \A s \in Streams : role[s] = "Leader" /\ resp[s].ended => done[s]
    /\ \A k \in Keys : Inflight(k) =>
          \/ \E l \in Streams : ActiveLeader(l) /\ key[l] = k
          \/ ~Unlocked /\ job.key = k

-----------------------------------------------------------------------------
(* The store.                                                              *)

(* Complete responses are sequences of pieces. *)
LEMMA FirstPiecesType ==
    ASSUME NEW l \in Streams, NEW n \in 0 .. (MaxChunks + 1)
    PROVE  FirstPieces(l, n) \in Seq(Piece) /\ Len(FirstPieces(l, n)) = n
BY MaxChunksAssumption DEF FirstPieces, Piece

(* Complete responses are sequences of pieces. *)
LEMMA ResponsesType == Responses \subseteq Seq(Piece)
BY FirstPiecesType, MaxChunksAssumption DEF Responses

(* What RingStore assumes of its constants holds for the instance. *)
LEMMA StoreAssumptions ==
    /\ P!SlotCountAssumption /\ P!CapacityAssumption /\ P!ModulusAssumption
    /\ P!SizeAssumption /\ P!HasBodyAssumption /\ P!ReadersAssumption
    /\ P!NoEntryAssumption
<1>1. P!SlotCountAssumption /\ P!CapacityAssumption /\ P!ModulusAssumption
  BY RingAssumption
  DEF P!SlotCountAssumption, P!CapacityAssumption, P!ModulusAssumption
<1>2. P!SizeAssumption
  BY SizeAssumption DEF P!SizeAssumption
<1>3. P!HasBodyAssumption
  <2>1. \A v \in Responses : Len(v) \in Nat
    BY ResponsesType
  <2> QED
    BY <2>1 DEF P!HasBodyAssumption, HasBody
<1>4. P!ReadersAssumption
  BY StreamsAssumption DEF P!ReadersAssumption, P!IsFiniteSet, IsFiniteSet
<1>5. P!NoEntryAssumption
  BY NoEntryAssumption DEF P!NoEntryAssumption, Store!Entry, P!Entry
<1> QED
  BY <1>1, <1>2, <1>3, <1>4, <1>5

(* The store's steps are those of the module the theorems are about. *)
LEMMA StoreNext == Store!Next => P!Next
BY DEF
    Store!Next, Store!Finalizing, Store!ServeHit, Store!Drain, Store!LookupHit,
    Store!Unpin, Store!Pin, Store!NoSlot, Store!ring, Store!hits, Store!Cached,
    Store!BeginFinalize, Store!Oversized, Store!ScanStep, Store!Enough,
    Store!Room, Store!Minus, Store!Size, Store!Evictable, Store!EvictHead,
    Store!Forget, Store!Advance, Store!BackAtStart, Store!RoomFound,
    Store!SlotTaken, Store!InsertEntry, Store!Charged, Store!Plus,
    Store!HeadAfterInsert, Store!Drop,
    P!Next, P!Finalizing, P!ServeHit, P!Drain, P!LookupHit,
    P!Unpin, P!Pin, P!NoSlot, P!ring, P!hits, P!Cached,
    P!BeginFinalize, P!Oversized, P!ScanStep, P!Enough,
    P!Room, P!Minus, P!Size, P!Evictable, P!EvictHead,
    P!Forget, P!Advance, P!BackAtStart, P!RoomFound,
    P!SlotTaken, P!InsertEntry, P!Charged, P!Plus,
    P!HeadAfterInsert, P!Drop

(* So they preserve its inductive invariant, *)
LEMMA StoreIInv ==
    ASSUME P!IInv, Store!Next \/ UNCHANGED store
    PROVE  P!IInv'
<1>1. [P!Next]_(P!vars)
  BY StoreNext DEF P!vars, store
<1> QED
  BY <1>1, StoreAssumptions, P!NextIInv

(* and do not change an entry under a stream that points into it. *)
LEMMA StoreKeeps ==
    ASSUME P!IInv, Store!Next \/ UNCHANGED store, NEW s \in Streams,
           ref[s] # Store!NoSlot, ref'[s] = ref[s]
    PROVE  slots'[ref[s]] = slots[ref[s]]
<1>1. [P!Next]_(P!vars)
  BY StoreNext DEF P!vars, store
<1>2. ref[s] # P!NoSlot
  BY DEF P!NoSlot, Store!NoSlot
<1> QED
  BY <1>1, <1>2, StoreAssumptions, P!StepKeepsEntry

(* What is used here of the store's invariant. *)
LEMMA StoreFacts ==
    ASSUME P!IInv
    PROVE  /\ Store!TypeOK
           /\ \A s \in Streams : ref[s] = Store!NoSlot <=> serving[s] = "no"
           /\ \A s \in Streams : ref[s] # Store!NoSlot =>
                 ref[s] \in Store!Slots /\ slots[ref[s]] \in Store!Entry
           /\ \A k \in Keys : Store!Cached(k) =>
                 /\ cache_map[k] \in Store!Slots
                 /\ slots[cache_map[k]] \in Store!Entry
                 /\ slots[cache_map[k]].key = k
           /\ ~Unlocked => job \in Store!Entry /\ ~Store!Cached(job.key)
<1>1. Store!TypeOK
  BY DEF P!IInv, P!TypeOK, Store!TypeOK, P!Slots, Store!Slots, P!Entry,
         Store!Entry, P!NoSlot, Store!NoSlot
<1>2. \A s \in Streams : /\ ref[s] = Store!NoSlot <=> serving[s] = "no"
                         /\ ref[s] # Store!NoSlot => slots[ref[s]] # NoEntry
  BY DEF P!IInv, P!RefsLive, P!NoSlot, Store!NoSlot
<1>3. \A s \in Streams : ref[s] # Store!NoSlot =>
          ref[s] \in Store!Slots /\ slots[ref[s]] \in Store!Entry
  BY <1>1, <1>2 DEF Store!TypeOK
<1>4. \A k \in Keys : Store!Cached(k) =>
          slots[cache_map[k]] # NoEntry /\ slots[cache_map[k]].key = k
  BY DEF P!IInv, P!MapMatchesSlots, P!Cached, Store!Cached, P!NoSlot, Store!NoSlot
<1>5. \A k \in Keys : Store!Cached(k) =>
          cache_map[k] \in Store!Slots /\ slots[cache_map[k]] \in Store!Entry
  BY <1>1, <1>4 DEF Store!TypeOK, Store!Cached
<1>6. ~Unlocked => job \in Store!Entry /\ ~Store!Cached(job.key)
  BY <1>1 DEF Store!TypeOK, P!IInv, P!JobReady, P!Cached, Store!Cached, P!NoSlot, Store!NoSlot,
         Unlocked
<1> QED
  BY <1>1, <1>2, <1>3, <1>4, <1>5, <1>6

-----------------------------------------------------------------------------
(* What the helpers do.                                                    *)

(* Encoding on a stream appends to its response and to no other. *)
LEMMA EncodeEffect ==
    ASSUME Types, NEW s \in Streams, NEW items \in Seq(Piece),
           NEW end \in BOOLEAN, Encode(s, items, end)
    PROVE  /\ resp' \in [Streams -> Response]
           /\ resp'[s] = [items |-> resp[s].items \o items,
                          ended |-> resp[s].ended \/ end]
           /\ resp'[s].items = resp[s].items \o items
           /\ resp'[s].ended = (resp[s].ended \/ end)
           /\ \A t \in Streams : t # s => resp'[t] = resp[t]
<1>1. resp \in [Streams -> Response] /\ resp[s] \in Response
  BY DEF Types
<1>2. resp[s].items \in Seq(Piece) /\ resp[s].ended \in BOOLEAN
  BY <1>1 DEF Response
<1> DEFINE new == [items |-> resp[s].items \o items, ended |-> resp[s].ended \/ end]
<1>3. resp[s].items \o items \in Seq(Piece)
  BY <1>2, ConcatProperties
<1>4. new \in Response
  BY <1>2, <1>3 DEF Response
<1>5. resp' = [resp EXCEPT ![s] = new]
  BY <1>1 DEF Encode, Response
<1> QED
  BY <1>1, <1>4, <1>5

(* The end is noted on a stream and on no other. *)
LEMMA NoteEndEffect ==
    ASSUME Types, NEW s \in Streams, NEW end \in BOOLEAN, NoteEnd(s, end)
    PROVE  /\ done' \in [Streams -> BOOLEAN]
           /\ done'[s] = (done[s] \/ end)
           /\ \A t \in Streams : t # s => done'[t] = done[t]
BY DEF Types, NoteEnd

(* A post goes to the end of a worker's queue. *)
LEMMA PostedEffect ==
    ASSUME Types, NEW w \in Workers, NEW m \in Message, Posted(w, m)
    PROVE  /\ queue' \in [Workers -> Seq(Message)]
           /\ queue'[w] = Append(queue[w], m)
           /\ Len(queue'[w]) = Len(queue[w]) + 1
           /\ queue'[w][Len(queue[w]) + 1] = m
           /\ \A i \in 1 .. Len(queue[w]) : queue'[w][i] = queue[w][i]
           /\ \A v \in Workers : v # w => queue'[v] = queue[v]
<1>1. queue \in [Workers -> Seq(Message)] /\ queue[w] \in Seq(Message)
  BY DEF Types
<1>2. queue' = [queue EXCEPT ![w] = Append(queue[w], m)]
  BY DEF Posted
<1>3. /\ Append(queue[w], m) \in Seq(Message)
      /\ Len(Append(queue[w], m)) = Len(queue[w]) + 1
      /\ Append(queue[w], m)[Len(queue[w]) + 1] = m
      /\ \A i \in 1 .. Len(queue[w]) : Append(queue[w], m)[i] = queue[w][i]
  BY <1>1, AppendProperties
<1> QED
  BY <1>1, <1>2, <1>3

(* What is left to post. *)
LEMMA PostingType ==
    ASSUME NEW items \in Seq(Piece), NEW end \in BOOLEAN, NEW to \in SUBSET Streams
    PROVE  /\ Posting(items, end, to) \in {Idle} \cup Hit \cup Busy
           /\ Posting(items, end, to).op \in {"idle", "post"}
           /\ Posting(items, end, to).op = "post" =>
                 /\ to # {}
                 /\ Posting(items, end, to).to = to
                 /\ Posting(items, end, to).items = items
                 /\ Posting(items, end, to).end = end
BY DEF Posting, Idle, Busy

(* An inflight response is not the lack of one. *)
LEMMA InflightFacts ==
    ASSUME Types, NEW k \in Keys
    PROVE  /\ Inflight(k) => /\ inflight[k] \in InflightResponse
                             /\ inflight[k].spool \in Seq(Piece)
                             /\ inflight[k].waiters \in SUBSET Streams
           /\ \A r \in InflightResponse : r # NoEntry
BY NoEntryAssumption DEF Types, Inflight, InflightResponse

(* A waiter is registered. *)
LEMMA AddWaiterEffect ==
    ASSUME Types, NEW k \in Keys, Inflight(k), NEW s \in Streams,
           inflight' = [inflight EXCEPT ![k].waiters = @ \cup {s}]
    PROVE  /\ inflight' \in [Keys -> InflightResponse \cup {NoEntry}]
           /\ inflight'[k] \in InflightResponse
           /\ inflight'[k].spool = inflight[k].spool
           /\ inflight'[k].waiters = inflight[k].waiters \cup {s}
           /\ \A m \in Keys : m # k => inflight'[m] = inflight[m]
BY DEF Types, InflightResponse, Inflight

(* A waiter is removed. *)
LEMMA RemoveWaiterEffect ==
    ASSUME Types, NEW k \in Keys, Inflight(k), NEW s \in Streams,
           inflight' = [inflight EXCEPT ![k].waiters = @ \ {s}]
    PROVE  /\ inflight' \in [Keys -> InflightResponse \cup {NoEntry}]
           /\ inflight'[k] \in InflightResponse
           /\ inflight'[k].spool = inflight[k].spool
           /\ inflight'[k].waiters = inflight[k].waiters \ {s}
           /\ \A m \in Keys : m # k => inflight'[m] = inflight[m]
BY DEF Types, InflightResponse, Inflight

(* A piece is spooled. *)
LEMMA SpoolEffect ==
    ASSUME Types, NEW k \in Keys, Inflight(k), NEW spool \in Seq(Piece),
           inflight' = [inflight EXCEPT ![k].spool = spool]
    PROVE  /\ inflight' \in [Keys -> InflightResponse \cup {NoEntry}]
           /\ inflight'[k] \in InflightResponse
           /\ inflight'[k].spool = spool
           /\ inflight'[k].waiters = inflight[k].waiters
           /\ \A m \in Keys : m # k => inflight'[m] = inflight[m]
BY DEF Types, InflightResponse, Inflight

(* Whoever is posted to is a stream. *)
LEMMA RecipientTypes ==
    ASSUME Types
    PROVE  /\ \A k \in Keys : Inflight(k) => inflight[k].waiters \subseteq Streams
           /\ \A w \in Workers : \A i \in DOMAIN queue[w] :
                 queue[w][i] \in Message /\ queue[w][i].to \in Streams
           /\ \A w \in Workers : Publishing(w) =>
                 run[w] \in Busy /\ run[w].to \subseteq Streams
<1>1. \A k \in Keys : Inflight(k) => inflight[k].waiters \subseteq Streams
  BY InflightFacts
<1>2. ASSUME NEW w \in Workers, NEW i \in DOMAIN queue[w]
      PROVE  queue[w][i] \in Message /\ queue[w][i].to \in Streams
  <2>1. queue[w] \in Seq(Message)
    BY DEF Types
  <2>2. queue[w][i] \in Message
    BY <2>1
  <2> QED
    BY <2>2 DEF Message
<1>3. \A w \in Workers : Publishing(w) =>
          run[w] \in Busy /\ run[w].to \subseteq Streams
  BY DEF Types, Publishing, Busy, Hit, Idle
<1> QED
  BY <1>1, <1>2, <1>3

(* Nobody new is to be posted to. *)
LEMMA RecipientsStay ==
    ASSUME Types, RecipientInv, UNCHANGED queue,
           \A f \in Streams : role[f] = "Follower" => role'[f] = "Follower",
           \A k \in Keys : inflight'[k] # NoEntry =>
              Inflight(k) /\ inflight'[k].waiters \subseteq inflight[k].waiters,
           \A w \in Workers : run'[w].op \in {"finalize", "post"} =>
              Publishing(w) /\ run'[w].to \subseteq run[w].to
    PROVE  RecipientInv'
BY RecipientTypes DEF RecipientInv, Inflight, Publishing

(* Hits that go on. *)
LEMMA HitsStay ==
    ASSUME P!IInv, HitInv, Store!Next \/ UNCHANGED store, UNCHANGED key,
           \A t \in Streams : ref'[t] # Store!NoSlot => ref'[t] = ref[t],
           \A t \in Streams : role[t] = "Cached" => role'[t] = "Cached",
           \A t \in Streams : serving'[t] = "headers" =>
              serving[t] = "headers" /\ done'[t] = done[t] /\ resp'[t] = resp[t]
    PROVE  HitInv'
BY StoreKeeps DEF HitInv, Store!NoSlot

(* What is cached stays whole, if no entry comes and no hit is served. *)
LEMMA CompleteStays ==
    ASSUME CompleteInv, UNCHANGED key,
           \A i \in Store!Slots : slots'[i] # NoEntry => slots'[i] = slots[i],
           \A l \in Streams : role[l] \in {"Leader", "Cached"} /\ done[l] =>
              resp'[l] = resp[l] /\ role'[l] = role[l] /\ done'[l] = done[l],
           \A t \in Streams : role'[t] = "Cached" /\ done'[t] =>
              role[t] = "Cached" /\ done[t]
    PROVE  CompleteInv'
BY DEF CompleteInv, Complete

-----------------------------------------------------------------------------
(* Requests.                                                               *)

(* buildKey() fails. *)
LEMMA BypassCInv ==
    ASSUME CInv, NEW s \in Streams, Bypass(s)
    PROVE  CInv'
<1> USE DEF CInv
<1>1. P!IInv'
  BY StoreIInv DEF Bypass
<1>2. Types'
  BY DEF Bypass, Arrives, Types, filter
<1>3. StreamInv'
  BY DEF Bypass, Arrives, Types, filter, StreamInv
<1>4. RecipientInv'
  BY DEF Bypass, filter, RecipientInv, Inflight, Publishing
<1>5. HitInv'
  BY DEF Bypass, filter, store, HitInv
<1>6. \A l \in Streams : ActiveLeader(l)' => ActiveLeader(l)
  BY DEF Bypass, Arrives, Types, filter, StreamInv, ActiveLeader
<1>7. LockInv'
  BY <1>6 DEF Bypass, filter, store, LockInv, Unlocked, Inflight, Complete
<1>8. Exclusive'
  BY DEF Bypass, store, Exclusive, Inflight, Store!Cached
<1>9. LeaderInv'
  BY <1>6 DEF Bypass, filter, LeaderInv, Inflight
<1>10. CompleteInv'
  BY DEF Bypass, filter, store, CompleteInv, Complete
<1> QED
  BY <1>1, <1>2, <1>3, <1>4, <1>5, <1>7, <1>8, <1>9, <1>10

(* A hit. *)
LEMMA LookupCachedCInv ==
    ASSUME CInv, NEW s \in Streams, LookupCached(s)
    PROVE  CInv'
<1> USE DEF CInv
<1> DEFINE k == key[s]
<1>1. /\ life[s] = "new" /\ role[s] = "Unset" /\ ~done[s] /\ resp[s] = NoResponse
      /\ k \in Keys /\ on[s] \in Workers /\ run[on[s]] = Idle
  BY DEF LookupCached, Arrives, StreamInv, Types
<1>2. Store!Next
  BY <1>1 DEF LookupCached, Store!Next
<1>3. P!IInv'
  BY <1>2, StoreIInv
<1>4. /\ Unlocked /\ Store!Cached(k)
      /\ slots' = slots /\ cache_map' = cache_map /\ scan' = scan /\ job' = job
      /\ ref' = [ref EXCEPT ![s] = cache_map[k]]
      /\ serving' = [serving EXCEPT ![s] = "headers"]
  BY DEF LookupCached, Store!LookupHit, Store!ring, Unlocked
<1>5. ref \in [Streams -> Store!Slots \cup {Store!NoSlot}]
  BY StoreFacts DEF Store!TypeOK
<1>6. serving \in [Streams -> {"no", "headers", "body"}]
  BY StoreFacts DEF Store!TypeOK
<1>7. Types'
  <2>1. [op |-> "hit", stream |-> s] \in Hit
    BY DEF Hit
  <2> QED
    BY <2>1 DEF LookupCached, Arrives, Types
<1>8. StreamInv'
  BY <1>1 DEF LookupCached, Arrives, Types, StreamInv
<1>9. RecipientInv'
  <2>1. \A f \in Streams : role[f] = "Follower" => role'[f] = "Follower"
    BY <1>1 DEF LookupCached, Types
  <2>2. \A w \in Workers : run'[w].op \in {"finalize", "post"} => run'[w] = run[w]
    BY <1>1 DEF LookupCached, Types
  <2> QED
    BY <2>1, <2>2, RecipientsStay DEF LookupCached, Inflight, Publishing
<1>10. HitInv'
  <2>1. slots[cache_map[k]].key = k
    BY <1>1, <1>4, StoreFacts
  <2>2. \A t \in Streams : role[t] = "Cached" => role'[t] = "Cached"
    BY <1>1 DEF LookupCached, Types
  <2> QED
    BY <1>1, <1>4, <1>5, <1>6, <2>1, <2>2 DEF LookupCached, Types, HitInv
<1>11. \A l \in Streams : ActiveLeader(l)' => ActiveLeader(l)
  BY DEF LookupCached, Arrives, Types, ActiveLeader
<1>12. \A l \in Streams : \A kk, v : Complete(l, kk, v) => Complete(l, kk, v)'
  BY <1>1 DEF LookupCached, Types, Complete
<1>13. LockInv'
  <2>1. \A w \in Workers : run'[w].op = "finalize" => run[w].op = "finalize"
    BY <1>1 DEF LookupCached, Types
  <2> QED
    BY <1>4, <2>1 DEF LockInv, Unlocked
<1>14. Exclusive'
  BY <1>4 DEF LookupCached, Exclusive, Inflight, Store!Cached
<1>15. LeaderInv'
  BY <1>11 DEF LookupCached, LeaderInv, Inflight
<1>16. CompleteInv'
  <2>1. \A t \in Streams : role'[t] = "Cached" /\ done'[t] => role[t] = "Cached" /\ done[t]
    BY <1>1 DEF LookupCached, Types
  <2> QED
    BY <1>4, <1>12, <2>1 DEF LookupCached, CompleteInv
<1> QED
  BY <1>3, <1>7, <1>8, <1>9, <1>10, <1>13, <1>14, <1>15, <1>16

(* A miss makes a leader. *)
LEMMA LookupLeaderCInv ==
    ASSUME CInv, NEW s \in Streams, LookupLeader(s)
    PROVE  CInv'
<1> USE DEF CInv
<1>1. PICK k \in Keys : k = key[s]
  BY DEF LookupLeader, Arrives, StreamInv, Types
<1>2. /\ life[s] = "new" /\ role[s] = "Unset" /\ ~done[s] /\ resp[s] = NoResponse
      /\ key[s] = k /\ Unlocked /\ Absent(k)
      /\ inflight' = [inflight EXCEPT ![k] = [spool |-> <<>>, waiters |-> {}]]
      /\ role' = [role EXCEPT ![s] = "Leader"]
      /\ life' = [life EXCEPT ![s] = "open"]
      /\ UNCHANGED <<store, cancelled, key, done, on, resp, queue, run>>
  BY <1>1 DEF LookupLeader, Arrives, StreamInv
<1>3. [spool |-> <<>>, waiters |-> {}] \in InflightResponse
  BY DEF InflightResponse
<1>4. /\ inflight'[k] = [spool |-> <<>>, waiters |-> {}] /\ inflight'[k] # NoEntry
      /\ \A m \in Keys : m # k => inflight'[m] = inflight[m]
      /\ inflight[k] = NoEntry
  BY <1>2, <1>3, InflightFacts DEF Types, Absent, Inflight
<1>5. P!IInv'
  BY <1>2, StoreIInv
<1>6. Types'
  BY <1>2, <1>3 DEF Types
<1>7. StreamInv'
  <2>1. NoResponse.items = FirstPieces(s, Len(NoResponse.items))
        /\ Len(NoResponse.items) <= MaxChunks + 1
    BY MaxChunksAssumption DEF NoResponse, FirstPieces
  <2>2. k # NoKey
    BY StreamsAssumption
  <2> QED
    BY <1>2, <2>1, <2>2 DEF Types, StreamInv
<1>8. RecipientInv'
  BY <1>2, <1>4, RecipientTypes DEF Types, RecipientInv, Inflight, Publishing
<1>9. HitInv'
  BY <1>2, HitsStay DEF Types, store
<1>10. \A l \in Streams : ActiveLeader(l)' => l = s \/ ActiveLeader(l)
  BY <1>2 DEF Types, ActiveLeader
<1>11. LockInv'
  BY <1>2 DEF LockInv, Unlocked, store
<1>12. Exclusive'
  BY <1>2, <1>4 DEF Exclusive, Absent, Inflight, Store!Cached, store
<1>13. LeaderInv'
  <2>1. \A l \in Streams : ActiveLeader(l) => key[l] # k /\ key[l] \in Keys
    BY <1>4, StreamsAssumption DEF LeaderInv, Inflight, StreamInv, ActiveLeader, Types
  <2> QED
    BY <1>2, <1>4, <1>10, <2>1 DEF LeaderInv, Inflight, NoResponse
<1>14. CompleteInv'
  BY <1>2, CompleteStays DEF Types, store
<1> QED
  BY <1>5, <1>6, <1>7, <1>8, <1>9, <1>11, <1>12, <1>13, <1>14

(* A request for a key that is inflight makes a follower. *)
LEMMA LookupFollowerCInv ==
    ASSUME CInv, NEW s \in Streams, LookupFollower(s)
    PROVE  CInv'
<1> USE DEF CInv
<1>1. PICK k \in Keys : k = key[s]
  BY DEF LookupFollower, Arrives, StreamInv, Types
<1>2. /\ life[s] = "new" /\ role[s] = "Unset" /\ ~done[s] /\ resp[s] = NoResponse
      /\ key[s] = k /\ Unlocked /\ Inflight(k)
      /\ inflight' = [inflight EXCEPT ![k].waiters = @ \cup {s}]
      /\ Backfill(s, inflight[k].spool)
      /\ role' = [role EXCEPT ![s] = "Follower"]
      /\ life' = [life EXCEPT ![s] = "open"]
      /\ UNCHANGED <<store, cancelled, key, done, on, resp, run>>
  BY <1>1 DEF LookupFollower, Arrives, StreamInv
<1>3. /\ inflight' \in [Keys -> InflightResponse \cup {NoEntry}]
      /\ inflight'[k] # NoEntry
      /\ inflight'[k].spool = inflight[k].spool
      /\ inflight'[k].waiters = inflight[k].waiters \cup {s}
      /\ \A m \in Keys : m # k => inflight'[m] = inflight[m]
  BY <1>2, AddWaiterEffect, InflightFacts
<1> DEFINE m == [to |-> s, items |-> inflight[k].spool, end |-> FALSE]
<1>4. m \in Message /\ m.to = s /\ on[s] \in Workers
  BY <1>2, InflightFacts DEF Message, Types
<1>5. UNCHANGED queue \/ Posted(on[s], m)
  BY <1>2 DEF Backfill
<1> HIDE DEF m
<1>6. /\ queue' \in [Workers -> Seq(Message)]
      /\ \A w \in Workers : \A i \in DOMAIN queue'[w] :
            \/ i \in DOMAIN queue[w] /\ queue'[w][i] = queue[w][i]
            \/ queue'[w][i].to = s
  <2>1. CASE UNCHANGED queue
    BY <2>1 DEF Types
  <2>2. CASE Posted(on[s], m)
    <3>1. /\ queue' \in [Workers -> Seq(Message)]
          /\ Len(queue'[on[s]]) = Len(queue[on[s]]) + 1
          /\ queue'[on[s]][Len(queue[on[s]]) + 1] = m
          /\ \A i \in 1 .. Len(queue[on[s]]) : queue'[on[s]][i] = queue[on[s]][i]
          /\ \A v \in Workers : v # on[s] => queue'[v] = queue[v]
      BY <1>4, <2>2, PostedEffect
    <3>2. queue[on[s]] \in Seq(Message) /\ queue'[on[s]] \in Seq(Message)
      BY <1>4, <3>1 DEF Types
    <3>3. \A i \in DOMAIN queue'[on[s]] :
            \/ i \in DOMAIN queue[on[s]] /\ queue'[on[s]][i] = queue[on[s]][i]
            \/ queue'[on[s]][i].to = s
      BY <1>4, <3>1, <3>2
    <3> QED
      BY <3>1, <3>3
  <2> QED
    BY <1>5, <2>1, <2>2
<1>7. P!IInv'
  BY <1>2, StoreIInv
<1>8. Types'
  BY <1>2, <1>3, <1>6 DEF Types
<1>9. StreamInv'
  <2>1. k # NoKey
    BY StreamsAssumption
  <2> QED
    BY <1>2, <2>1 DEF Types, StreamInv
<1>10. RecipientInv'
  <2>1. \A f \in Streams : (role[f] = "Follower" => role'[f] = "Follower")
            /\ role'[s] = "Follower"
    BY <1>2 DEF Types
  <2>2. \A kk \in Keys : inflight'[kk] # NoEntry =>
            \A f \in inflight'[kk].waiters : role'[f] = "Follower"
    BY <1>2, <1>3, <2>1, RecipientTypes DEF RecipientInv, Inflight
  <2>3. \A w \in Workers : \A i \in DOMAIN queue'[w] :
            role'[queue'[w][i].to] = "Follower"
    BY <1>6, <2>1, RecipientTypes DEF RecipientInv
  <2>4. \A w \in Workers : run'[w].op \in {"finalize", "post"} =>
            \A f \in run'[w].to : role'[f] = "Follower"
    BY <1>2, <2>1, RecipientTypes DEF RecipientInv, Publishing
  <2> QED
    BY <2>2, <2>3, <2>4 DEF RecipientInv, Inflight, Publishing
<1>11. HitInv'
  BY <1>2, HitsStay DEF Types, store
<1>12. \A l \in Streams : ActiveLeader(l)' => ActiveLeader(l)
  BY <1>2 DEF Types, ActiveLeader
<1>13. LockInv'
  BY <1>2 DEF LockInv, Unlocked, store
<1>14. Exclusive'
  BY <1>2, <1>3 DEF Exclusive, Inflight, Store!Cached, store
<1>15. LeaderInv'
  <2>1. \A l \in Streams : ActiveLeader(l) => key[l] \in Keys
    BY DEF StreamInv, ActiveLeader, Types
  <2> QED
    BY <1>2, <1>3, <1>12, <2>1 DEF LeaderInv, Inflight
<1>16. CompleteInv'
  BY <1>2, CompleteStays DEF Types, store
<1> QED
  BY <1>7, <1>8, <1>9, <1>10, <1>11, <1>13, <1>14, <1>15, <1>16

(* The unlocked half of a hit: the whole response is encoded. *)
LEMMA ServeCachedCInv ==
    ASSUME CInv, NEW s \in Streams, ServeCached(s)
    PROVE  CInv'
<1> USE DEF CInv
<1>1. /\ Store!ServeHit(s) /\ serving[s] = "headers" /\ on[s] \in Workers
      /\ run[on[s]] = [op |-> "hit", stream |-> s]
      /\ slots' = slots /\ cache_map' = cache_map /\ scan' = scan /\ job' = job
      /\ done' = [done EXCEPT ![s] = TRUE]
      /\ run' = [run EXCEPT ![on[s]] = Idle]
      /\ UNCHANGED <<inflight, cancelled, key, role, on, life, queue>>
  BY DEF ServeCached, Store!ServeHit, Store!ring, Types
<1>2. ref[s] # Store!NoSlot
  BY <1>1, StoreFacts
<1>3. /\ role[s] = "Cached" /\ ~done[s] /\ resp[s] = NoResponse
      /\ slots[ref[s]].key = key[s]
  BY <1>1, <1>2 DEF HitInv
<1>4. ref[s] \in Store!Slots /\ slots[ref[s]] \in Store!Entry
  BY <1>2, StoreFacts
<1>5. PICK v \in Seq(Piece) : v = slots[ref[s]].val
  BY <1>4, ResponsesType DEF Store!Entry
<1>6. Encode(s, v, TRUE)
  BY <1>5 DEF ServeCached
<1>7. /\ resp' \in [Streams -> Response]
      /\ resp'[s].items = resp[s].items \o v /\ resp'[s].ended
      /\ \A t \in Streams : t # s => resp'[t] = resp[t]
  BY <1>6, EncodeEffect
<1>8. resp'[s].items = v
  BY <1>3, <1>7 DEF NoResponse
<1>9. Store!Next
  BY <1>1 DEF Store!Next
<1>10. P!IInv'
  BY <1>9, StoreIInv
<1>11. Types'
  BY <1>1, <1>7 DEF Types
<1>12. StreamInv'
  <2>1. \A t \in Streams : t # s => done'[t] = done[t]
    BY <1>1 DEF Types
  <2>2. life[s] # "new" /\ key[s] # NoKey
    BY <1>3 DEF StreamInv
  <2> QED
    BY <1>1, <1>3, <1>7, <2>1, <2>2 DEF StreamInv
<1>13. RecipientInv'
  <2>1. \A w \in Workers : run'[w].op \in {"finalize", "post"} => run'[w] = run[w]
    BY <1>1 DEF Types, Idle
  <2> QED
    BY <1>1, <2>1, RecipientsStay DEF Inflight, Publishing
<1>14. HitInv'
  <2>1. /\ ref \in [Streams -> Store!Slots \cup {Store!NoSlot}]
        /\ serving \in [Streams -> {"no", "headers", "body"}]
    BY StoreFacts DEF Store!TypeOK
  <2>2. \A t \in Streams : ref'[t] # Store!NoSlot => ref'[t] = ref[t]
    BY <1>1, <2>1 DEF Store!ServeHit
  <2>3. serving'[s] # "headers" /\ \A t \in Streams : t # s => serving'[t] = serving[t]
    BY <1>1, <2>1 DEF Store!ServeHit
  <2>4. \A t \in Streams : t # s => done'[t] = done[t]
    BY <1>1 DEF Types
  <2> QED
    BY <1>1, <1>7, <1>9, <2>2, <2>3, <2>4, HitsStay
<1>15. \A l \in Streams : (role[l] = "Leader" => done'[l] = done[l] /\ resp'[l] = resp[l])
          /\ (ActiveLeader(l)' => ActiveLeader(l))
  BY <1>1, <1>3, <1>7 DEF Types, ActiveLeader
<1>16. \A l \in Streams : \A k, u : Complete(l, k, u) => Complete(l, k, u)'
  BY <1>1, <1>15 DEF Complete
<1>17. LockInv'
  <2>1. \A w \in Workers : run'[w].op = "finalize" => run[w].op = "finalize"
    BY <1>1 DEF Types, Idle
  <2> QED
    BY <1>1, <1>15, <1>16, <2>1 DEF LockInv, Unlocked, Inflight
<1>18. Exclusive'
  BY <1>1 DEF Exclusive, Inflight, Store!Cached
<1>19. LeaderInv'
  BY <1>1, <1>15 DEF LeaderInv, Inflight, ActiveLeader
<1>20. CompleteInv'
  <2>1. PICK l \in Streams : Complete(l, key[s], v)
    BY <1>1, <1>3, <1>4, <1>5, NoEntryAssumption DEF CompleteInv
  <2>2. \A t \in Streams : t # s => done'[t] = done[t]
    BY <1>1 DEF Types
  <2> QED
    BY <1>1, <1>7, <1>8, <1>16, <2>1, <2>2 DEF CompleteInv
<1> QED
  BY <1>10, <1>11, <1>12, <1>13, <1>14, <1>17, <1>18, <1>19, <1>20

(* The body of a hit has drained. *)
LEMMA DrainCachedCInv ==
    ASSUME CInv, NEW s \in Streams, DrainCached(s)
    PROVE  CInv'
<1> USE DEF CInv
<1>1. /\ Store!Drain(s)
      /\ slots' = slots /\ cache_map' = cache_map /\ scan' = scan /\ job' = job
      /\ UNCHANGED <<inflight, cancelled, key, role, done, on, life, resp, queue, run>>
  BY DEF DrainCached, Store!Drain, Store!ring, filter
<1>2. Store!Next
  BY <1>1 DEF Store!Next
<1>3. P!IInv'
  BY <1>2, StoreIInv
<1>4. Types' /\ StreamInv' /\ RecipientInv'
  BY <1>1 DEF Types, StreamInv, RecipientInv, Inflight, Publishing
<1>5. HitInv'
  <2>1. /\ ref \in [Streams -> Store!Slots \cup {Store!NoSlot}]
        /\ serving \in [Streams -> {"no", "headers", "body"}]
    BY StoreFacts DEF Store!TypeOK
  <2>2. \A t \in Streams : ref'[t] # Store!NoSlot => ref'[t] = ref[t]
    BY <1>1, <2>1 DEF Store!Drain
  <2>3. \A t \in Streams : serving'[t] = "headers" => serving[t] = "headers"
    BY <1>1, <2>1 DEF Store!Drain
  <2> QED
    BY <1>1, <1>2, <2>2, <2>3, HitsStay
<1>6. LockInv' /\ LeaderInv'
  BY <1>1 DEF LockInv, LeaderInv, Unlocked, Inflight, ActiveLeader, Complete
<1>7. Exclusive' /\ CompleteInv'
  BY <1>1 DEF Exclusive, CompleteInv, Inflight, Store!Cached, Complete
<1> QED
  BY <1>3, <1>4, <1>5, <1>6, <1>7

-----------------------------------------------------------------------------
(* Responses from the upstream.                                            *)

(* A stream that the upstream is meant to answer. *)
Primary(s) == role[s] = "Leader" \/ key[s] = NoKey

(* What encodeHeaders() and encodeData() have in common, given the
   invariant: the piece is the next one, and a leader's key is inflight, so
   the leader spools and publishes it. *)
UpstreamPiece(s, items, end) ==
    LET new == resp[s].items \o items IN
    /\ AwaitsUpstream(s)
    /\ Primary(s)
    /\ items \in Seq(Piece)
    /\ new \in Seq(Piece)
    /\ Len(new) \in 1 .. (MaxChunks + 1)
    /\ new = FirstPieces(s, Len(new))
    /\ NoteEnd(s, end)
    /\ Encode(s, items, end)
    /\ IF role[s] = "Leader"
       THEN ActiveLeader(s) /\ Unlocked /\ Inflight(key[s]) /\ Publish(s, new, items, end)
       ELSE UNCHANGED <<store, inflight, run>>
    /\ UNCHANGED <<cancelled, key, role, on, life, queue>>

(* Any other stream that the upstream answers is a follower. *)
LEMMA PrimaryOrFollower ==
    ASSUME CInv, NEW s \in Streams, AwaitsUpstream(s)
    PROVE  Primary(s) <=> role[s] # "Follower"
BY DEF AwaitsUpstream, GoesUpstream, Primary, CInv, StreamInv

(* All that is encoded on a leader's stream comes from the upstream. *)
LEMMA AllReceived ==
    ASSUME CInv, NEW s \in Streams, Primary(s)
    PROVE  Received(s) = Len(resp[s].items)
<1>1. PICK n \in Nat : n = Len(resp[s].items)
  BY DEF CInv, Types, Response
<1>2. resp[s].items = FirstPieces(s, n)
  BY <1>1 DEF CInv, StreamInv, Primary
<1>3. {i \in DOMAIN resp[s].items : resp[s].items[i][1] = s} = 1 .. n
  BY <1>2 DEF FirstPieces
<1>4. Cardinality(1 .. n) = IF 1 > n THEN 0 ELSE n - 1 + 1
  BY FS_Interval
<1>5. Cardinality(1 .. n) = n
  BY <1>4
<1> QED
  BY <1>1, <1>3, <1>5 DEF Received

(* A leader that awaits the upstream owns its inflight entry. *)
LEMMA LeaderReady ==
    ASSUME CInv, NEW s \in Streams, AwaitsUpstream(s), role[s] = "Leader"
    PROVE  /\ ActiveLeader(s) /\ key[s] \in Keys /\ Inflight(key[s])
           /\ inflight[key[s]].spool = resp[s].items
<1>1. ~done[s]
  BY DEF CInv, StreamInv, AwaitsUpstream, Types
<1>2. ActiveLeader(s)
  BY <1>1 DEF ActiveLeader, AwaitsUpstream, Ready
<1> QED
  BY <1>2 DEF CInv, LeaderInv, StreamInv, Types

(* The headers are the first piece. *)
LEMMA HeadersArePiece ==
    ASSUME CInv, NEW s \in Streams, NEW end \in BOOLEAN, EncodeHeaders(s, end),
           Primary(s)
    PROVE  UpstreamPiece(s, <<<<s, 0>>>>, end)
<1>0. resp[s].items = <<>>
  <2>1. Len(resp[s].items) = 0
    BY AllReceived DEF EncodeHeaders
  <2> QED
    BY <2>1 DEF CInv, Types, Response
<1>1. /\ AwaitsUpstream(s) /\ resp[s].items = <<>> /\ NoteEnd(s, end)
      /\ PublishHeaders(s, end) /\ Encode(s, <<<<s, 0>>>>, end)
      /\ UNCHANGED <<cancelled, key, role, on, life, queue>>
  BY <1>0 DEF EncodeHeaders
<1>2. /\ <<s, 0>> \in Piece /\ <<<<s, 0>>>> \in Seq(Piece)
      /\ <<>> \o <<<<s, 0>>>> = <<<<s, 0>>>> /\ Len(<<<<s, 0>>>>) = 1
  BY MaxChunksAssumption DEF Piece
<1>3. <<<<s, 0>>>> = FirstPieces(s, 1)
  BY DEF FirstPieces
<1>4. IF role[s] = "Leader"
      THEN /\ ActiveLeader(s) /\ Unlocked /\ Inflight(key[s])
           /\ Publish(s, <<<<s, 0>>>>, <<<<s, 0>>>>, end)
      ELSE UNCHANGED <<store, inflight, run>>
  <2>1. CASE role[s] # "Leader"
    BY <1>1, <2>1 DEF PublishHeaders
  <2>2. CASE role[s] = "Leader"
    <3>1. ActiveLeader(s) /\ Inflight(key[s]) /\ inflight[key[s]].spool = <<>>
      BY <1>1, <2>2, LeaderReady
    <3>2. Unlocked /\ Publish(s, <<<<s, 0>>>>, <<Head(<<<<s, 0>>>>)>>, end)
      BY <1>1, <2>2, <3>1 DEF PublishHeaders
    <3>3. Head(<<<<s, 0>>>>) = <<s, 0>>
      OBVIOUS
    <3> QED
      BY <2>2, <3>1, <3>2, <3>3
  <2> QED
    BY <2>1, <2>2
<1> QED
  BY <1>1, <1>2, <1>3, <1>4, MaxChunksAssumption DEF UpstreamPiece

(* A chunk is the next piece; the empty data that may end a stream adds
   none. *)
LEMMA DataArePiece ==
    ASSUME CInv, NEW s \in Streams, NEW empty \in BOOLEAN, NEW end \in BOOLEAN,
           EncodeData(s, empty, end), Primary(s)
    PROVE  \E items \in {<<>>, <<<<s, Len(resp[s].items)>>>>} :
              UpstreamPiece(s, items, end)
<1>1. PICK n \in Nat : n = Len(resp[s].items)
  BY DEF CInv, Types, Response
<1>2. PICK items : items = IF empty THEN <<>> ELSE <<<<s, n>>>>
  OBVIOUS
<1>3. /\ AwaitsUpstream(s) /\ n > 0 /\ (~empty => n <= MaxChunks)
      /\ NoteEnd(s, end) /\ PublishData(s, items, end) /\ Encode(s, items, end)
      /\ UNCHANGED <<cancelled, key, role, on, life, queue>>
  <2>1. AwaitsUpstream(s)
    BY DEF EncodeData
  <2>2. Received(s) = n /\ MostChunks(s) = MaxChunks
    BY <1>1, <2>1, AllReceived, PrimaryOrFollower DEF MostChunks
  <2> QED
    BY <1>2, <2>2 DEF EncodeData
<1>4. resp[s].items \in Seq(Piece)
  BY DEF CInv, Types, Response
<1>5. resp[s].items = FirstPieces(s, n) /\ n <= MaxChunks + 1
  BY <1>1 DEF CInv, StreamInv, Primary
<1>6. items \in Seq(Piece)
  <2>1. CASE empty
    BY <1>2, <2>1
  <2>2. CASE ~empty
    <3>1. n \in 0 .. MaxChunks
      BY <1>3, <2>2, MaxChunksAssumption
    <3>2. <<s, n>> \in Piece
      BY <3>1 DEF Piece
    <3>3. items = <<<<s, n>>>>
      BY <1>2, <2>2
    <3> QED
      BY <3>2, <3>3
  <2> QED
    BY <2>1, <2>2
<1>7. /\ resp[s].items \o items \in Seq(Piece)
      /\ Len(resp[s].items \o items) \in 1 .. (MaxChunks + 1)
      /\ resp[s].items \o items = FirstPieces(s, Len(resp[s].items \o items))
  <2>1. CASE empty
    <3>1. resp[s].items \o items = resp[s].items
      BY <1>2, <1>4, <2>1
    <3> QED
      BY <1>1, <1>3, <1>4, <1>5, <3>1, MaxChunksAssumption
  <2>2. CASE ~empty
    <3>1. resp[s].items \o items = FirstPieces(s, n + 1)
      <4>1. items = <<<<s, n>>>>
        BY <1>2, <2>2
      <4>2. FirstPieces(s, n) \in Seq(Piece) /\ Len(FirstPieces(s, n)) = n
        BY <1>1, <1>4, <1>5
      <4>3. FirstPieces(s, n) \o <<<<s, n>>>> = FirstPieces(s, n + 1)
        BY <4>2 DEF FirstPieces
      <4> QED
        BY <1>5, <4>1, <4>3
    <3>2. n + 1 \in 1 .. (MaxChunks + 1)
      BY <1>3, <2>2, MaxChunksAssumption
    <3>3. FirstPieces(s, n + 1) \in Seq(Piece) /\ Len(FirstPieces(s, n + 1)) = n + 1
      BY <3>2, FirstPiecesType
    <3> QED
      BY <3>1, <3>2, <3>3
  <2> QED
    BY <2>1, <2>2
<1>8. IF role[s] = "Leader"
      THEN /\ ActiveLeader(s) /\ Unlocked /\ Inflight(key[s])
           /\ Publish(s, resp[s].items \o items, items, end)
      ELSE UNCHANGED <<store, inflight, run>>
  <2>1. CASE role[s] # "Leader"
    BY <1>3, <2>1 DEF PublishData
  <2>2. CASE role[s] = "Leader"
    <3>1. /\ ActiveLeader(s) /\ Inflight(key[s])
          /\ inflight[key[s]].spool = resp[s].items
      BY <1>3, <2>2, LeaderReady
    <3> QED
      BY <1>3, <2>2, <3>1 DEF PublishData, Spooled
  <2> QED
    BY <2>1, <2>2
<1>9. UpstreamPiece(s, items, end)
  BY <1>3, <1>6, <1>7, <1>8 DEF UpstreamPiece
<1> QED
  BY <1>1, <1>2, <1>9

(* What publishing a piece does to the cache. *)
LEMMA PublishEffect ==
    ASSUME CInv, NEW s \in Streams, NEW items, NEW end \in BOOLEAN,
           UpstreamPiece(s, items, end), role[s] = "Leader",
           NEW new, new = resp[s].items \o items
    PROVE  /\ key[s] \in Keys /\ on[s] \in Workers /\ run[on[s]] = Idle
           /\ items \in Seq(Piece) /\ new \in Responses /\ new \in Seq(Piece)
           /\ ActiveLeader(s) /\ Unlocked /\ Inflight(key[s])
           /\ inflight' \in [Keys -> InflightResponse \cup {NoEntry}]
           /\ inflight'[key[s]] \in InflightResponse
           /\ inflight'[key[s]].spool = resp[s].items \o items
           /\ inflight'[key[s]].waiters = inflight[key[s]].waiters
           /\ \A m \in Keys : m # key[s] => inflight'[m] = inflight[m]
           /\ run' \in [Workers -> {Idle} \cup Hit \cup Busy]
           /\ \A w \in Workers : w # on[s] => run'[w] = run[w]
           /\ run'[on[s]] = IF end
                            THEN [op |-> "finalize", items |-> items, end |-> end,
                                  to |-> inflight[key[s]].waiters]
                            ELSE Posting(items, end, inflight[key[s]].waiters)
           /\ run'[on[s]].op \in {"finalize", "post"} =>
                 run'[on[s]].to = inflight[key[s]].waiters
           /\ run'[on[s]].op = "finalize" => end
           /\ end => Store!BeginFinalize(key[s], new)
           /\ ~end => UNCHANGED store
<1> USE DEF CInv
<1>1. /\ AwaitsUpstream(s) /\ items \in Seq(Piece) /\ new \in Seq(Piece)
      /\ Len(new) \in 1 .. (MaxChunks + 1) /\ new = FirstPieces(s, Len(new))
      /\ ActiveLeader(s) /\ Unlocked /\ Inflight(key[s])
      /\ Publish(s, new, items, end)
  BY DEF UpstreamPiece
<1>2. key[s] \in Keys /\ on[s] \in Workers /\ run[on[s]] = Idle
  BY <1>1 DEF StreamInv, Types, AwaitsUpstream, Ready
<1>3. new \in Responses
  BY <1>1 DEF Responses
<1>4. PICK k \in Keys : k = key[s]
  BY <1>2
<1>5. PICK to \in SUBSET Streams : to = inflight[k].waiters
  BY <1>1, <1>4, InflightFacts
<1>6. /\ inflight' = [inflight EXCEPT ![k].spool = new]
      /\ end => /\ Store!BeginFinalize(k, new)
                /\ run' = [run EXCEPT ![on[s]] =
                      [op |-> "finalize", items |-> items, end |-> end, to |-> to]]
      /\ ~end => /\ run' = [run EXCEPT ![on[s]] = Posting(items, end, to)]
                 /\ UNCHANGED store
  BY <1>1, <1>4, <1>5 DEF Publish, Snapshot
<1>7. /\ inflight' \in [Keys -> InflightResponse \cup {NoEntry}]
      /\ inflight'[k] \in InflightResponse
      /\ inflight'[k].spool = new
      /\ inflight'[k].waiters = inflight[k].waiters
      /\ \A m \in Keys : m # k => inflight'[m] = inflight[m]
  BY <1>1, <1>4, <1>6, SpoolEffect
<1>8. [op |-> "finalize", items |-> items, end |-> end, to |-> to] \in Busy
  BY <1>1 DEF Busy
<1>9. /\ Posting(items, end, to) \in {Idle} \cup Hit \cup Busy
      /\ Posting(items, end, to).op \in {"idle", "post"}
      /\ Posting(items, end, to).op = "post" => Posting(items, end, to).to = to
  BY <1>1, PostingType
<1>10. run \in [Workers -> {Idle} \cup Hit \cup Busy]
  BY DEF Types
<1>11. /\ run' \in [Workers -> {Idle} \cup Hit \cup Busy]
       /\ \A w \in Workers : w # on[s] => run'[w] = run[w]
       /\ run'[on[s]] = IF end
                        THEN [op |-> "finalize", items |-> items, end |-> end, to |-> to]
                        ELSE Posting(items, end, to)
  BY <1>2, <1>6, <1>8, <1>9, <1>10
<1>12. /\ run'[on[s]].op \in {"finalize", "post"} => run'[on[s]].to = to
       /\ run'[on[s]].op = "finalize" => end
  BY <1>9, <1>11
<1> QED
  BY <1>1, <1>2, <1>3, <1>4, <1>5, <1>6, <1>7, <1>11, <1>12

(* A piece of an upstream response arrives. *)
LEMMA UpstreamPieceCInv ==
    ASSUME CInv, NEW s \in Streams, NEW items, NEW end \in BOOLEAN,
           UpstreamPiece(s, items, end)
    PROVE  CInv'
<1> USE DEF CInv
<1>1. PICK new \in Seq(Piece) : new = resp[s].items \o items
  BY DEF UpstreamPiece
<1>2. /\ AwaitsUpstream(s) /\ items \in Seq(Piece)
      /\ Len(new) \in 1 .. (MaxChunks + 1) /\ new = FirstPieces(s, Len(new))
      /\ NoteEnd(s, end) /\ Encode(s, items, end)
      /\ UNCHANGED <<cancelled, key, role, on, life, queue>>
  BY <1>1 DEF UpstreamPiece
<1>3. /\ on[s] \in Workers /\ life[s] = "open" /\ run[on[s]] = Idle
      /\ role[s] = "Leader" \/ key[s] = NoKey
      /\ role[s] \in {"Leader", "Unset"} /\ ~resp[s].ended
  BY <1>2 DEF UpstreamPiece, Primary, AwaitsUpstream, Ready, StreamInv, Types
<1>4. /\ resp' \in [Streams -> Response]
      /\ resp'[s].items = new /\ resp'[s].ended = end
      /\ \A t \in Streams : t # s => resp'[t] = resp[t]
  BY <1>1, <1>2, <1>3, EncodeEffect
<1>5. /\ done' \in [Streams -> BOOLEAN]
      /\ done'[s] = (done[s] \/ end)
      /\ \A t \in Streams : t # s => done'[t] = done[t]
  BY <1>2, NoteEndEffect
<1>6. role[s] = "Leader" => ~done[s] /\ key[s] \in Keys
  BY <1>3 DEF StreamInv, Types
<1>7. CASE role[s] # "Leader"
  <2>1. UNCHANGED <<store, inflight, run>>
    BY <1>7 DEF UpstreamPiece
  <2>2. P!IInv'
    BY <2>1, StoreIInv
  <2>3. Types'
    BY <1>2, <1>4, <1>5, <2>1 DEF Types
  <2>4. StreamInv'
    BY <1>2, <1>3, <1>4, <1>5, <1>7 DEF StreamInv
  <2>5. RecipientInv'
    BY <1>2, <2>1 DEF RecipientInv, Inflight, Publishing
  <2>6. serving[s] # "headers"
    BY <1>3, StoreFacts DEF HitInv
  <2>7. HitInv'
    BY <1>2, <1>4, <1>5, <2>1, <2>6 DEF HitInv, store
  <2>8. \A l \in Streams : /\ role[l] = "Leader" => done'[l] = done[l] /\ resp'[l] = resp[l]
                           /\ ActiveLeader(l)' => ActiveLeader(l)
    BY <1>2, <1>4, <1>5, <1>7 DEF ActiveLeader
  <2>9. LockInv'
    BY <1>2, <2>1, <2>8 DEF LockInv, Unlocked, Inflight, Complete, store
  <2>10. Exclusive'
    BY <2>1 DEF Exclusive, Inflight, Store!Cached, store
  <2>11. LeaderInv'
    BY <1>2, <2>1, <2>8 DEF LeaderInv, Inflight, ActiveLeader
  <2>12. CompleteInv'
    BY <1>2, <1>3, <1>4, <1>5, <2>1, <2>8, CompleteStays DEF store
  <2> QED
    BY <2>2, <2>3, <2>4, <2>5, <2>7, <2>9, <2>10, <2>11, <2>12
<1>8. CASE role[s] = "Leader"
  <2>1. PICK k \in Keys : k = key[s]
    BY <1>6, <1>8
  <2>2. /\ new \in Responses
        /\ ActiveLeader(s) /\ Unlocked /\ Inflight(k)
        /\ inflight' \in [Keys -> InflightResponse \cup {NoEntry}]
        /\ inflight'[k] # NoEntry
        /\ inflight'[k].spool = new
        /\ inflight'[k].waiters = inflight[k].waiters
        /\ \A m \in Keys : m # k => inflight'[m] = inflight[m]
        /\ run' \in [Workers -> {Idle} \cup Hit \cup Busy]
        /\ \A w \in Workers : w # on[s] => run'[w] = run[w]
        /\ run'[on[s]].op \in {"finalize", "post"} => run'[on[s]].to = inflight[k].waiters
        /\ run'[on[s]].op = "finalize" => end
        /\ end => Store!BeginFinalize(k, new)
        /\ ~end => UNCHANGED store
    <3>1. \A r \in InflightResponse : r # NoEntry
      BY <2>1, InflightFacts
    <3> HIDE DEF CInv
    <3>2. /\ new \in Responses
          /\ ActiveLeader(s) /\ Unlocked /\ Inflight(key[s])
      BY <1>1, <1>8, PublishEffect
    <3>3. /\ inflight' \in [Keys -> InflightResponse \cup {NoEntry}]
          /\ inflight'[key[s]] \in InflightResponse
          /\ \A m \in Keys : m # key[s] => inflight'[m] = inflight[m]
      BY <1>1, <1>8, PublishEffect
    <3>4. inflight'[key[s]].spool = resp[s].items \o items
      BY <1>1, <1>8, PublishEffect
    <3>5. inflight'[key[s]].waiters = inflight[key[s]].waiters
      BY <1>1, <1>8, PublishEffect
    <3>6. /\ run' \in [Workers -> {Idle} \cup Hit \cup Busy]
          /\ \A w \in Workers : w # on[s] => run'[w] = run[w]
          /\ run'[on[s]].op \in {"finalize", "post"} =>
                run'[on[s]].to = inflight[key[s]].waiters
          /\ run'[on[s]].op = "finalize" => end
      BY <1>1, <1>8, PublishEffect
    <3>7. /\ end => Store!BeginFinalize(key[s], new)
          /\ ~end => UNCHANGED store
      BY <1>1, <1>8, PublishEffect
    <3> QED
      BY <1>1, <2>1, <3>1, <3>2, <3>3, <3>4, <3>5, <3>6, <3>7
  <2>3. ~Store!Cached(k)
    BY <2>2 DEF Exclusive
  <2>4. /\ Store!Next \/ UNCHANGED store
        /\ slots' = slots /\ cache_map' = cache_map /\ ref' = ref /\ serving' = serving
    BY <2>2, <2>3 DEF Store!Next, Store!BeginFinalize, Store!ring, Store!hits, store
  <2>5. P!IInv'
    BY <2>4, StoreIInv
  <2>6. Types'
    BY <1>2, <1>4, <1>5, <2>2 DEF Types
  <2>7. StreamInv'
    <3>1. key[s] # NoKey
      BY <1>8 DEF StreamInv
    <3>2. resp'[s].items = FirstPieces(s, Len(resp'[s].items))
          /\ Len(resp'[s].items) <= MaxChunks + 1
      BY <1>2, <1>4, MaxChunksAssumption
    <3>3. done'[s] => resp'[s].ended
      BY <1>4, <1>5, <1>6, <1>8
    <3> QED
      BY <1>2, <1>3, <1>4, <1>5, <1>8, <3>1, <3>2, <3>3 DEF StreamInv
  <2>8. RecipientInv'
    <3>1. \A w \in Workers : run'[w].op \in {"finalize", "post"} =>
             \/ Publishing(w) /\ run'[w].to = run[w].to
             \/ run'[w].to = inflight[k].waiters
      BY <2>2 DEF Publishing
    <3>2. \A w \in Workers : run'[w].op \in {"finalize", "post"} =>
             \A f \in run'[w].to : role[f] = "Follower"
      BY <2>2, <3>1 DEF RecipientInv
    <3>3. \A kk \in Keys : inflight'[kk] # NoEntry =>
             \A f \in inflight'[kk].waiters : role[f] = "Follower"
      BY <2>2 DEF RecipientInv, Inflight
    <3> QED
      BY <1>2, <3>2, <3>3 DEF RecipientInv, Inflight, Publishing
  <2>9. serving[s] # "headers"
    BY <1>8, StoreFacts DEF HitInv
  <2>10. HitInv'
    BY <1>2, <1>4, <1>5, <2>4, <2>9, HitsStay
  <2>11. \A l \in Streams : /\ ActiveLeader(l)' => ActiveLeader(l)
                            /\ ActiveLeader(l)' /\ l = s => ~end
                            /\ ActiveLeader(l) /\ key[l] = k => l = s
    BY <1>2, <1>4, <1>5, <2>1, <2>2 DEF ActiveLeader, LeaderInv
  <2>12. \A l \in Streams : role[l] = "Leader" /\ done[l] =>
            l # s /\ done'[l] = done[l] /\ resp'[l] = resp[l]
    BY <1>4, <1>5, <1>6
  <2>13. LockInv'
    <3>1. \A w \in Workers : run'[w].op = "finalize" => w = on[s] /\ end
      BY <2>2 DEF LockInv
    <3>2. CASE ~end
      BY <2>2, <3>1, <3>2 DEF LockInv, Unlocked, store
    <3>3. CASE end
      <4>1. scan' # "unlocked" /\ job' = [key |-> k, val |-> new]
        BY <2>2, <3>3 DEF Store!BeginFinalize
      <4>2. Complete(s, k, new)'
        BY <1>2, <1>4, <1>5, <1>8, <2>1, <3>3 DEF Complete
      <4>3. job'.key = k /\ job'.val = new
        BY <4>1
      <4>4. \A l \in Streams : ActiveLeader(l)' => key'[l] # k
        BY <1>2, <2>11, <3>3
      <4> QED
        BY <2>2, <3>1, <4>1, <4>2, <4>3, <4>4 DEF LockInv, Unlocked, Inflight
    <3> QED
      BY <3>2, <3>3
  <2>14. Exclusive'
    BY <2>2, <2>4 DEF Exclusive, Inflight, Store!Cached
  <2>15. LeaderInv'
    <3>1. ASSUME NEW l \in Streams, ActiveLeader(l)'
          PROVE  inflight'[key[l]] # NoEntry /\ inflight'[key[l]].spool = resp'[l].items
      <4>1. CASE l = s
        BY <1>4, <2>1, <2>2, <4>1
      <4>2. CASE l # s
        <5>1. ActiveLeader(l) /\ key[l] # k /\ key[l] \in Keys
          BY <2>11, <3>1, <4>2 DEF ActiveLeader, StreamInv, Types
        <5> QED
          BY <1>4, <2>2, <4>2, <5>1 DEF LeaderInv, Inflight
      <4> QED
        BY <4>1, <4>2
    <3> QED
      BY <1>2, <2>11, <3>1 DEF LeaderInv, Inflight
  <2>16. CompleteInv'
    BY <1>2, <1>4, <1>5, <1>8, <2>4, <2>12, CompleteStays
  <2> QED
    BY <2>5, <2>6, <2>7, <2>8, <2>10, <2>13, <2>14, <2>15, <2>16
<1> QED
  BY <1>7, <1>8

(* Trailers end a response without anybody noticing. *)
LEMMA EncodeTrailersCInv ==
    ASSUME CInv, NEW s \in Streams, EncodeTrailers(s), Primary(s)
    PROVE  CInv'
<1> USE DEF CInv
<1>1. /\ AwaitsUpstream(s) /\ Encode(s, <<>>, TRUE)
      /\ UNCHANGED <<store, inflight, cancelled, key, role, done, on, life, queue, run>>
  BY DEF EncodeTrailers, filter
<1>2. /\ role[s] = "Leader" \/ key[s] = NoKey
      /\ role[s] \in {"Leader", "Unset"} /\ life[s] = "open" /\ ~resp[s].ended
  BY <1>1 DEF Primary, AwaitsUpstream, Ready, StreamInv, Types
<1>3. /\ resp' \in [Streams -> Response]
      /\ resp'[s].items = resp[s].items \o <<>> /\ resp'[s].ended
      /\ \A t \in Streams : t # s => resp'[t] = resp[t]
  <2>1. <<>> \in Seq(Piece) /\ TRUE \in BOOLEAN
    OBVIOUS
  <2> QED
    BY <1>1, <2>1, EncodeEffect
<1>4. resp'[s].items = resp[s].items
  BY <1>3 DEF Types, Response
<1>5. role[s] = "Leader" => ~done[s]
  BY <1>2 DEF StreamInv, Types
<1>6. P!IInv'
  BY <1>1, StoreIInv
<1>7. Types'
  BY <1>1, <1>3 DEF Types
<1>8. StreamInv'
  BY <1>1, <1>2, <1>3, <1>4 DEF StreamInv
<1>9. RecipientInv'
  BY <1>1 DEF RecipientInv, Inflight, Publishing
<1>10. serving[s] # "headers"
  BY <1>2, StoreFacts DEF HitInv
<1>11. HitInv'
  BY <1>1, <1>3, <1>10 DEF HitInv, store
<1>12. LockInv'
  BY <1>1, <1>3, <1>4 DEF LockInv, Unlocked, Inflight, Complete, ActiveLeader, store
<1>13. Exclusive'
  BY <1>1 DEF Exclusive, Inflight, Store!Cached, store
<1>14. LeaderInv'
  BY <1>1, <1>3, <1>4 DEF LeaderInv, Inflight, ActiveLeader
<1>15. CompleteInv'
  BY <1>1, <1>2, <1>3, <1>5, CompleteStays DEF store
<1> QED
  BY <1>6, <1>7, <1>8, <1>9, <1>11, <1>12, <1>13, <1>14, <1>15

-----------------------------------------------------------------------------
(* Finalization.                                                           *)

(* An iteration of the scan: entries only go away. *)
LEMMA FinalizeStepCInv ==
    ASSUME CInv, NEW w \in Workers, FinalizeStep(w)
    PROVE  CInv'
<1> USE DEF CInv
<1>1. /\ Store!ScanStep \/ Store!RoomFound \/ Store!SlotTaken
      /\ UNCHANGED <<inflight, cancelled, key, role, done, on, life, resp, queue, run>>
  BY DEF FinalizeStep, filter
<1>2. Store!Next
  BY <1>1 DEF Store!Next, Store!Finalizing
<1>3. /\ slots \in [Store!Slots -> Store!Entry \cup {NoEntry}]
      /\ cache_map \in [Keys -> Store!Slots \cup {Store!NoSlot}]
      /\ head \in Store!Slots
  BY StoreFacts DEF Store!TypeOK
<1>4. /\ scan # "unlocked" /\ scan' # "unlocked" /\ job' = job
      /\ ref' = ref /\ serving' = serving
  BY <1>1 DEF Store!ScanStep, Store!RoomFound, Store!SlotTaken, Store!hits
<1>5. /\ \A i \in Store!Slots : slots'[i] # NoEntry => slots'[i] = slots[i]
      /\ \A k \in Keys : cache_map'[k] # Store!NoSlot => Store!Cached(k)
  <2>1. CASE slots' = slots /\ cache_map' = cache_map
    BY <2>1 DEF Store!Cached
  <2>2. CASE Store!EvictHead
    BY <1>3, <2>2 DEF Store!EvictHead, Store!Forget, Store!Cached
  <2> QED
    BY <1>1, <2>1, <2>2
    DEF Store!ScanStep, Store!RoomFound, Store!SlotTaken, Store!ring, Store!hits
<1>6. P!IInv'
  BY <1>2, StoreIInv
<1>7. Types' /\ StreamInv' /\ RecipientInv'
  BY <1>1 DEF Types, StreamInv, RecipientInv, Inflight, Publishing
<1>8. HitInv'
  BY <1>1, <1>2, <1>4, HitsStay
<1>9. LockInv' /\ LeaderInv'
  BY <1>1, <1>4 DEF LockInv, LeaderInv, Unlocked, Inflight, ActiveLeader, Complete
<1>10. Exclusive'
  BY <1>1, <1>5 DEF Exclusive, Inflight, Store!Cached
<1>11. CompleteInv'
  BY <1>1, <1>5, CompleteStays
<1> QED
  BY <1>6, <1>7, <1>8, <1>9, <1>10, <1>11

(* The end of a finalization: the response is cached or dropped, and no
   longer inflight. *)
LEMMA FinalizeEndCInv ==
    ASSUME CInv, NEW w \in Workers, FinalizeEnd(w)
    PROVE  CInv'
<1> USE DEF CInv
<1>1. /\ run[w].op = "finalize"
      /\ Store!InsertEntry \/ Store!Drop
      /\ inflight' = [inflight EXCEPT ![job.key] = NoEntry]
      /\ run' = [run EXCEPT ![w] = Posting(run[w].items, run[w].end, run[w].to)]
      /\ UNCHANGED <<cancelled, key, role, done, on, life, resp, queue>>
  BY DEF FinalizeEnd, EraseInflight, filter
<1>2. Store!Next
  BY <1>1 DEF Store!Next, Store!Finalizing
<1>3. /\ ~Unlocked /\ scan' = "unlocked" /\ ref' = ref /\ serving' = serving
  BY <1>1 DEF Store!InsertEntry, Store!Drop, Store!hits, Unlocked
<1>4. job \in Store!Entry /\ ~Store!Cached(job.key) /\ job # NoEntry
  BY <1>3, StoreFacts, NoEntryAssumption
<1>5. PICK k \in Keys : k = job.key
  BY <1>4 DEF Store!Entry
<1>6. /\ slots \in [Store!Slots -> Store!Entry \cup {NoEntry}]
      /\ cache_map \in [Keys -> Store!Slots \cup {Store!NoSlot}]
      /\ head \in Store!Slots
  BY StoreFacts DEF Store!TypeOK
<1>7. /\ \A i \in Store!Slots : slots'[i] # NoEntry => slots'[i] \in {slots[i], job}
      /\ \A m \in Keys : m # k => cache_map'[m] = cache_map[m]
  BY <1>1, <1>5, <1>6 DEF Store!InsertEntry, Store!Drop, Store!ring
<1>8. /\ inflight' \in [Keys -> InflightResponse \cup {NoEntry}]
      /\ inflight'[k] = NoEntry
      /\ \A m \in Keys : m # k => inflight'[m] = inflight[m]
  BY <1>1, <1>5 DEF Types
<1>9. Publishing(w) /\ run[w] \in Busy
  BY <1>1, RecipientTypes DEF Publishing
<1>10. /\ Posting(run[w].items, run[w].end, run[w].to) \in {Idle} \cup Hit \cup Busy
       /\ Posting(run[w].items, run[w].end, run[w].to).op \in {"idle", "post"}
       /\ Posting(run[w].items, run[w].end, run[w].to).op = "post" =>
             Posting(run[w].items, run[w].end, run[w].to).to = run[w].to
  <2>1. run[w].items \in Seq(Piece) /\ run[w].end \in BOOLEAN /\ run[w].to \in SUBSET Streams
    BY <1>9 DEF Busy
  <2> QED
    BY <2>1, PostingType
<1>11. /\ run' \in [Workers -> {Idle} \cup Hit \cup Busy]
       /\ run'[w].op # "finalize"
       /\ run'[w].op = "post" => run'[w].to = run[w].to
       /\ \A v \in Workers : v # w => run'[v] = run[v]
  BY <1>1, <1>10 DEF Types
<1>12. P!IInv'
  BY <1>2, StoreIInv
<1>13. Types'
  BY <1>1, <1>8, <1>11 DEF Types
<1>14. StreamInv'
  BY <1>1 DEF StreamInv
<1>15. RecipientInv'
  <2>1. \A v \in Workers : run'[v].op \in {"finalize", "post"} =>
           Publishing(v) /\ run'[v].to \subseteq run[v].to
    BY <1>9, <1>11 DEF Publishing
  <2>2. \A m \in Keys : inflight'[m] # NoEntry =>
           Inflight(m) /\ inflight'[m].waiters \subseteq inflight[m].waiters
    BY <1>8 DEF Inflight
  <2> QED
    BY <1>1, <2>1, <2>2, RecipientsStay
<1>16. HitInv'
  BY <1>1, <1>2, <1>3, HitsStay
<1>17. LockInv'
  BY <1>1, <1>3, <1>11 DEF LockInv, Unlocked
<1>18. Exclusive'
  BY <1>7, <1>8 DEF Exclusive, Inflight, Store!Cached
<1>19. LeaderInv'
  <2>1. \A l \in Streams : ActiveLeader(l) => key[l] # k /\ key[l] \in Keys
    BY <1>3, <1>5 DEF LockInv, ActiveLeader, StreamInv, Types
  <2> QED
    BY <1>1, <1>8, <2>1 DEF LeaderInv, Inflight, ActiveLeader
<1>20. CompleteInv'
  <2>1. PICK l \in Streams : Complete(l, job.key, job.val)
    BY <1>3 DEF LockInv
  <2> QED
    BY <1>1, <1>7, <2>1 DEF CompleteInv, Complete
<1> QED
  BY <1>12, <1>13, <1>14, <1>15, <1>16, <1>17, <1>18, <1>19, <1>20

-----------------------------------------------------------------------------
(* Followers.                                                              *)

(* Nothing that happens to a follower's own response disturbs the rest. *)
LEMMA FollowerStep ==
    ASSUME CInv, UNCHANGED <<store, inflight, key, role, life>>,
           \A t \in Streams : role[t] # "Follower" =>
              done'[t] = done[t] /\ resp'[t] = resp[t],
           \A w \in Workers : run'[w].op = "finalize" => run[w].op = "finalize"
    PROVE  /\ P!IInv' /\ StreamInv' /\ HitInv' /\ LockInv' /\ Exclusive'
           /\ LeaderInv' /\ CompleteInv'
<1> USE DEF CInv
<1>1. P!IInv'
  BY StoreIInv
<1>2. StreamInv'
  BY DEF StreamInv
<1>3. HitInv'
  <2>1. \A t \in Streams : serving[t] = "headers" => role[t] = "Cached"
    BY StoreFacts DEF HitInv
  <2> QED
    BY <2>1 DEF HitInv, store
<1>4. LockInv' /\ LeaderInv'
  BY DEF LockInv, LeaderInv, Unlocked, Inflight, ActiveLeader, Complete, store
<1>5. Exclusive' /\ CompleteInv'
  BY DEF Exclusive, CompleteInv, Inflight, Store!Cached, Complete, store
<1> QED
  BY <1>1, <1>2, <1>3, <1>4, <1>5

(* A post to one waiter of the snapshot. *)
LEMMA PostCInv ==
    ASSUME CInv, NEW w \in Workers, Post(w)
    PROVE  CInv'
<1> USE DEF CInv
<1>1. run[w].op = "post" /\ Publishing(w)
  BY DEF Post, Publishing
<1>2. run[w] \in Busy /\ run[w].to \subseteq Streams
  BY <1>1, RecipientTypes
<1>3. PICK f \in run[w].to :
         /\ Posted(on[f], [to |-> f, items |-> run[w].items, end |-> run[w].end])
         /\ run' = [run EXCEPT ![w] = Posting(run[w].items, run[w].end, run[w].to \ {f})]
  BY DEF Post
<1>4. UNCHANGED <<store, inflight, cancelled, key, role, done, on, life, resp>>
  BY DEF Post, filter
<1>5. PICK v \in Workers : v = on[f]
  BY <1>2, <1>3 DEF Types
<1>6. PICK m \in Message : m = [to |-> f, items |-> run[w].items, end |-> run[w].end]
  BY <1>2 DEF Message, Busy
<1>7. m.to = f /\ role[f] = "Follower"
  BY <1>1, <1>3, <1>6 DEF RecipientInv
<1>8. /\ queue' \in [Workers -> Seq(Message)]
      /\ Len(queue'[v]) = Len(queue[v]) + 1
      /\ queue'[v][Len(queue[v]) + 1] = m
      /\ \A i \in 1 .. Len(queue[v]) : queue'[v][i] = queue[v][i]
      /\ \A u \in Workers : u # v => queue'[u] = queue[u]
  BY <1>3, <1>5, <1>6, PostedEffect
<1>9. \A u \in Workers : \A i \in DOMAIN queue'[u] :
         \/ i \in DOMAIN queue[u] /\ queue'[u][i] = queue[u][i]
         \/ queue'[u][i] = m
  <2>1. queue[v] \in Seq(Message) /\ queue'[v] \in Seq(Message)
    BY <1>8 DEF Types
  <2>2. \A i \in DOMAIN queue'[v] :
           \/ i \in DOMAIN queue[v] /\ queue'[v][i] = queue[v][i]
           \/ queue'[v][i] = m
    BY <1>8, <2>1
  <2> QED
    BY <1>8, <2>2
<1>10. PICK rest \in SUBSET Streams : rest = run[w].to \ {f}
  BY <1>2
<1>11. /\ run' \in [Workers -> {Idle} \cup Hit \cup Busy]
       /\ run'[w].op # "finalize"
       /\ run'[w].op = "post" => run'[w].to \subseteq run[w].to
       /\ \A u \in Workers : u # w => run'[u] = run[u]
  <2>1. run[w].items \in Seq(Piece) /\ run[w].end \in BOOLEAN
    BY <1>2 DEF Busy
  <2>2. /\ Posting(run[w].items, run[w].end, rest) \in {Idle} \cup Hit \cup Busy
        /\ Posting(run[w].items, run[w].end, rest).op \in {"idle", "post"}
        /\ Posting(run[w].items, run[w].end, rest).op = "post" =>
              Posting(run[w].items, run[w].end, rest).to = rest
    BY <2>1, PostingType
  <2>3. run' = [run EXCEPT ![w] = Posting(run[w].items, run[w].end, rest)]
    BY <1>3, <1>10
  <2> QED
    BY <1>10, <2>2, <2>3 DEF Types
<1>12. Types'
  BY <1>4, <1>8, <1>11 DEF Types
<1>13. RecipientInv'
  <2>1. \A u \in Workers : \A i \in DOMAIN queue'[u] : role[queue'[u][i].to] = "Follower"
    BY <1>7, <1>9 DEF RecipientInv
  <2>2. \A u \in Workers : run'[u].op \in {"finalize", "post"} =>
           \A g \in run'[u].to : role[g] = "Follower"
    BY <1>1, <1>11 DEF RecipientInv, Publishing
  <2> QED
    BY <1>4, <2>1, <2>2 DEF RecipientInv, Inflight, Publishing
<1>14. /\ P!IInv' /\ StreamInv' /\ HitInv' /\ LockInv' /\ Exclusive'
       /\ LeaderInv' /\ CompleteInv'
  <2>1. \A u \in Workers : run'[u].op = "finalize" => run[u].op = "finalize"
    BY <1>11
  <2> HIDE DEF CInv
  <2> QED
    BY <1>4, <2>1, FollowerStep
<1> QED
  BY <1>12, <1>13, <1>14

(* A posted callback runs. *)
LEMMA RunCallbackCInv ==
    ASSUME CInv, NEW w \in Workers, RunCallback(w)
    PROVE  CInv'
<1> USE DEF CInv
<1>1. /\ queue[w] # <<>>
      /\ queue' = [queue EXCEPT ![w] = Tail(queue[w])]
      /\ UNCHANGED <<store, inflight, cancelled, key, role, on, life, run>>
  BY DEF RunCallback
<1>2. queue \in [Workers -> Seq(Message)] /\ queue[w] \in Seq(Message)
  BY DEF Types
<1>3. PICK m \in Message : m = Head(queue[w])
  BY <1>1, <1>2
<1>4. queue[w][1] = m /\ 1 \in DOMAIN queue[w]
  BY <1>1, <1>2, <1>3
<1>5. PICK f \in Streams : f = m.to
  BY DEF Message
<1>6. role[f] = "Follower"
  BY <1>4, <1>5 DEF RecipientInv
<1>7. /\ queue' \in [Workers -> Seq(Message)]
      /\ \A v \in Workers : \A i \in DOMAIN queue'[v] :
            \E j \in DOMAIN queue[v] : queue'[v][i] = queue[v][j]
  <2>1. Tail(queue[w]) \in Seq(Message)
    BY <1>1, <1>2
  <2>2. \A i \in DOMAIN Tail(queue[w]) :
           i + 1 \in DOMAIN queue[w] /\ Tail(queue[w])[i] = queue[w][i + 1]
    BY <1>1, <1>2
  <2> QED
    BY <1>1, <1>2, <2>1, <2>2
<1>8. /\ resp' \in [Streams -> Response] /\ done' \in [Streams -> BOOLEAN]
      /\ \A t \in Streams : t # f => resp'[t] = resp[t] /\ done'[t] = done[t]
  <2>1. CASE UNCHANGED <<resp, done>>
    BY <2>1 DEF Types
  <2>2. CASE Encode(f, m.items, m.end) /\ NoteEnd(f, m.end)
    <3>1. m.items \in Seq(Piece) /\ m.end \in BOOLEAN
      BY DEF Message
    <3>2. /\ resp' \in [Streams -> Response]
          /\ \A t \in Streams : t # f => resp'[t] = resp[t]
      BY <2>2, <3>1, EncodeEffect
    <3>3. /\ done' \in [Streams -> BOOLEAN]
          /\ \A t \in Streams : t # f => done'[t] = done[t]
      BY <2>2, <3>1, NoteEndEffect
    <3> QED
      BY <3>2, <3>3
  <2> QED
    BY <1>3, <1>5, <2>1, <2>2 DEF RunCallback
<1>9. Types'
  BY <1>1, <1>7, <1>8 DEF Types
<1>10. RecipientInv'
  BY <1>1, <1>7 DEF RecipientInv, Inflight, Publishing
<1>11. /\ P!IInv' /\ StreamInv' /\ HitInv' /\ LockInv' /\ Exclusive'
       /\ LeaderInv' /\ CompleteInv'
  <2> HIDE DEF CInv
  <2> QED
    BY <1>1, <1>6, <1>8, FollowerStep
<1> QED
  BY <1>9, <1>10, <1>11

(* A follower is answered by somebody else than its leader: by Envoy or, if
   its request has a body, by the upstream.  Nothing of it is published. *)
OtherAnswer(s) ==
    /\ Ready(s) /\ role[s] = "Follower" /\ Disturbed(s)'
    /\ \E items \in Seq(Piece), end \in BOOLEAN, noted \in BOOLEAN :
          Encode(s, items, end) /\ NoteEnd(s, noted)
    /\ UNCHANGED <<store, inflight, cancelled, key, role, on, life, queue, run>>

(* What is encoded comes after what has been. *)
LEMMA DisturbedBy ==
    ASSUME CInv, NEW s \in Streams, role'[s] = "Follower",
           NEW items \in Seq(Piece), NEW end \in BOOLEAN, Encode(s, items, end),
           \/ \E i \in DOMAIN resp[s].items : resp[s].items[i][1] = s
           \/ \E i \in DOMAIN items : items[i][1] = s
    PROVE  Disturbed(s)'
<1>1. resp[s].items \in Seq(Piece) /\ resp'[s].items = resp[s].items \o items
  <2>1. Types
    BY DEF CInv
  <2>2. resp[s].items \in Seq(Piece)
    BY <2>1 DEF Types, Response
  <2> QED
    BY <2>1, <2>2, EncodeEffect
<1>2. \E j \in DOMAIN (resp[s].items \o items) : (resp[s].items \o items)[j][1] = s
  <2>1. ASSUME NEW i \in DOMAIN resp[s].items, resp[s].items[i][1] = s
        PROVE  \E j \in DOMAIN (resp[s].items \o items) : (resp[s].items \o items)[j][1] = s
    <3>1. /\ i \in DOMAIN (resp[s].items \o items)
          /\ (resp[s].items \o items)[i] = resp[s].items[i]
      BY <1>1, <2>1
    <3> QED
      BY <2>1, <3>1
  <2>2. ASSUME NEW i \in DOMAIN items, items[i][1] = s
        PROVE  \E j \in DOMAIN (resp[s].items \o items) : (resp[s].items \o items)[j][1] = s
    <3>1. /\ DOMAIN items = 1 .. Len(items) /\ Len(items) \in Nat
          /\ Len(resp[s].items) \in Nat
          /\ DOMAIN (resp[s].items \o items) = 1 .. (Len(resp[s].items) + Len(items))
      BY <1>1
    <3>2. PICK j \in Nat : j = Len(resp[s].items) + i
      BY <2>2, <3>1
    <3>3. j \in DOMAIN (resp[s].items \o items) /\ (resp[s].items \o items)[j] = items[i]
      <4>1. PICK old \in Seq(Piece) : old = resp[s].items
        BY <1>1
      <4>2. i \in 1 .. Len(items) /\ Len(old) \in Nat /\ j = Len(old) + i
        BY <2>2, <3>1, <3>2, <4>1
      <4>3. j \in 1 .. (Len(old) + Len(items)) /\ (old \o items)[j] = items[i]
        BY <4>2
      <4> QED
        BY <3>1, <4>1, <4>3
    <3> QED
      BY <2>2, <3>3
  <2> QED
    BY <2>1, <2>2
<1> QED
  BY <1>1, <1>2 DEF Disturbed

(* Who has received something is disturbed. *)
LEMMA ReceivedSome ==
    ASSUME CInv, NEW s \in Streams, Received(s) # 0
    PROVE  \E i \in DOMAIN resp[s].items : resp[s].items[i][1] = s
<1>1. Cardinality({}) = 0
  BY FS_EmptySet
<1> QED
  BY <1>1 DEF Received

(* It is counted with a natural number. *)
LEMMA ReceivedType ==
    ASSUME CInv, NEW s \in Streams
    PROVE  Received(s) \in Nat
<1>1. PICK n \in Nat : DOMAIN resp[s].items = 1 .. n
  <2>1. resp[s].items \in Seq(Piece)
    BY DEF CInv, Types, Response
  <2>2. Len(resp[s].items) \in Nat /\ DOMAIN resp[s].items = 1 .. Len(resp[s].items)
    BY <2>1
  <2> QED
    BY <2>2, Zenon
<1>2. IsFiniteSet(1 .. n)
  BY FS_Interval
<1>3. {i \in DOMAIN resp[s].items : resp[s].items[i][1] = s} \subseteq 1 .. n
  BY <1>1
<1>4. IsFiniteSet({i \in DOMAIN resp[s].items : resp[s].items[i][1] = s})
  BY <1>2, <1>3, FS_Subset
<1> QED
  BY <1>4, FS_CardinalityType DEF Received

(* A reply of Envoy's own is such an answer. *)
LEMMA LocalReplyIsOther ==
    ASSUME CInv, NEW s \in Streams, LocalReply(s)
    PROVE  OtherAnswer(s)
<1>1. /\ Ready(s) /\ role[s] = "Follower" /\ role' = role
      /\ Encode(s, <<<<s, 0>>>>, TRUE) /\ NoteEnd(s, TRUE)
      /\ UNCHANGED <<store, inflight, cancelled, key, role, on, life, queue, run>>
  BY DEF LocalReply
<1>2. <<<<s, 0>>>> \in Seq(Piece) /\ \E i \in DOMAIN <<<<s, 0>>>> : <<<<s, 0>>>>[i][1] = s
  BY MaxChunksAssumption DEF Piece
<1>3. PICK items \in Seq(Piece) : items = <<<<s, 0>>>>
  BY <1>2, Zenon
<1>4. PICK end \in BOOLEAN : end = TRUE
  OBVIOUS
<1>5. Encode(s, items, end) /\ NoteEnd(s, end) /\ \E i \in DOMAIN items : items[i][1] = s
  BY <1>1, <1>2, <1>3, <1>4
<1>6. Disturbed(s)'
  BY <1>1, <1>5, DisturbedBy
<1> QED
  BY <1>1, <1>5, <1>6 DEF OtherAnswer

(* So is what the upstream answers to a follower. *)
LEMMA UpstreamIsOther ==
    ASSUME CInv, NEW s \in Streams, Upstream(s) \/ EncodeTrailers(s), ~Primary(s)
    PROVE  OtherAnswer(s)
<1>1. AwaitsUpstream(s)
  BY DEF Upstream, EncodeHeaders, EncodeData, EncodeTrailers
<1>2. Ready(s) /\ role[s] = "Follower"
  BY <1>1, PrimaryOrFollower DEF AwaitsUpstream
<1>3. ASSUME NEW items \in Seq(Piece), NEW end \in BOOLEAN, NEW noted \in BOOLEAN,
             Encode(s, items, end), NoteEnd(s, noted),
             UNCHANGED <<store, inflight, cancelled, key, role, on, life, queue, run>>,
             \/ \E i \in DOMAIN resp[s].items : resp[s].items[i][1] = s
             \/ \E i \in DOMAIN items : items[i][1] = s
      PROVE  OtherAnswer(s)
  <2>1. role'[s] = "Follower"
    BY <1>2, <1>3
  <2>2. Disturbed(s)'
    BY <1>3, <2>1, DisturbedBy
  <2> QED
    BY <1>2, <1>3, <2>2 DEF OtherAnswer
<1>4. ASSUME NEW end \in BOOLEAN, EncodeHeaders(s, end)
      PROVE  OtherAnswer(s)
  <2>1. /\ Encode(s, <<<<s, 0>>>>, end) /\ NoteEnd(s, end)
        /\ UNCHANGED <<store, inflight, cancelled, key, role, on, life, queue, run>>
    BY <1>2, <1>4 DEF EncodeHeaders, PublishHeaders
  <2>2. <<<<s, 0>>>> \in Seq(Piece) /\ \E i \in DOMAIN <<<<s, 0>>>> : <<<<s, 0>>>>[i][1] = s
    BY MaxChunksAssumption DEF Piece
  <2>3. PICK items \in Seq(Piece) : items = <<<<s, 0>>>>
    BY <2>2, Zenon
  <2> QED
    BY <1>3, <2>1, <2>2, <2>3
<1>5. ASSUME NEW empty \in BOOLEAN, NEW end \in BOOLEAN, EncodeData(s, empty, end)
      PROVE  OtherAnswer(s)
  <2>1. PICK n \in Nat : n = Received(s)
    BY ReceivedType
  <2>2. PICK items : items = IF empty THEN <<>> ELSE <<<<s, n>>>>
    OBVIOUS
  <2>3. /\ n > 0 /\ (~empty => n <= MaxExtraChunks)
        /\ Encode(s, items, end) /\ NoteEnd(s, end)
        /\ UNCHANGED <<store, inflight, cancelled, key, role, on, life, queue, run>>
    BY <1>2, <1>5, <2>1, <2>2 DEF EncodeData, PublishData, MostChunks
  <2>4. items \in Seq(Piece)
    <3>1. CASE empty
      BY <2>2, <3>1
    <3>2. CASE ~empty
      <4>1. n \in 0 .. MaxChunks
        BY <2>3, <3>2, MaxChunksAssumption
      <4>2. <<s, n>> \in Piece
        BY <4>1 DEF Piece
      <4>3. items = <<<<s, n>>>>
        BY <2>2, <3>2
      <4> QED
        BY <4>2, <4>3
    <3> QED
      BY <3>1, <3>2
  <2>5. \E i \in DOMAIN resp[s].items : resp[s].items[i][1] = s
    BY <2>1, <2>3, ReceivedSome
  <2> QED
    BY <1>3, <2>3, <2>4, <2>5
<1>6. ASSUME EncodeTrailers(s)
      PROVE  OtherAnswer(s)
  <2>1. /\ Received(s) > 0 /\ Encode(s, <<>>, TRUE) /\ done' = done
        /\ UNCHANGED <<store, inflight, cancelled, key, role, on, life, queue, run>>
    BY <1>6 DEF EncodeTrailers, filter
  <2>2. \E i \in DOMAIN resp[s].items : resp[s].items[i][1] = s
    <3>1. Received(s) # 0
      BY <2>1, ReceivedType
    <3> QED
      BY <3>1, ReceivedSome
  <2>3. PICK items \in Seq(Piece) : items = <<>>
    <3>1. <<>> \in Seq(Piece)
      OBVIOUS
    <3> QED
      BY <3>1, Zenon
  <2>4. PICK end \in BOOLEAN : end = TRUE
    OBVIOUS
  <2>5. PICK noted \in BOOLEAN : noted = FALSE
    OBVIOUS
  <2>6. NoteEnd(s, noted)
    BY <2>1, <2>5 DEF NoteEnd, CInv, Types
  <2> QED
    BY <1>3, <2>1, <2>2, <2>3, <2>4, <2>6
<1> QED
  BY <1>4, <1>5, <1>6 DEF Upstream

(* Such an answer disturbs nothing but the follower. *)
LEMMA OtherAnswerCInv ==
    ASSUME CInv, NEW s \in Streams, OtherAnswer(s)
    PROVE  CInv'
<1> USE DEF CInv
<1>1. /\ role[s] = "Follower"
      /\ UNCHANGED <<store, inflight, cancelled, key, role, on, life, queue, run>>
  BY DEF OtherAnswer
<1>2. PICK items \in Seq(Piece), end \in BOOLEAN, noted \in BOOLEAN :
         Encode(s, items, end) /\ NoteEnd(s, noted)
  BY DEF OtherAnswer
<1>3. /\ resp' \in [Streams -> Response] /\ done' \in [Streams -> BOOLEAN]
      /\ \A t \in Streams : t # s => resp'[t] = resp[t] /\ done'[t] = done[t]
  <2>1. /\ resp' \in [Streams -> Response]
        /\ \A t \in Streams : t # s => resp'[t] = resp[t]
    BY <1>2, EncodeEffect
  <2>2. /\ done' \in [Streams -> BOOLEAN]
        /\ \A t \in Streams : t # s => done'[t] = done[t]
    BY <1>2, NoteEndEffect
  <2> QED
    BY <2>1, <2>2
<1>4. Types'
  BY <1>1, <1>3 DEF Types
<1>5. RecipientInv'
  BY <1>1 DEF RecipientInv, Inflight, Publishing
<1>6. /\ P!IInv' /\ StreamInv' /\ HitInv' /\ LockInv' /\ Exclusive'
      /\ LeaderInv' /\ CompleteInv'
  <2> HIDE DEF CInv
  <2> QED
    BY <1>1, <1>3, FollowerStep
<1> QED
  BY <1>4, <1>5, <1>6

(* A stream is torn down. *)
LEMMA DestroyCInv ==
    ASSUME CInv, NEW s \in Streams, Destroy(s)
    PROVE  CInv'
<1> USE DEF CInv
<1>1. /\ life' = [life EXCEPT ![s] = "destroyed"]
      /\ UNCHANGED <<store, key, role, done, on, resp, queue, run>>
  BY DEF Destroy, filter
<1>2. /\ cancelled' \in [Streams -> BOOLEAN]
      /\ inflight' \in [Keys -> InflightResponse \cup {NoEntry}]
      /\ \A k \in Keys :
            /\ (inflight'[k] # NoEntry) <=> Inflight(k)
            /\ Inflight(k) => /\ inflight'[k].spool = inflight[k].spool
                              /\ inflight'[k].waiters \subseteq inflight[k].waiters
  <2>1. CASE UNCHANGED <<inflight, cancelled>>
    BY <2>1 DEF Types, Inflight
  <2>2. CASE role[s] = "Follower" /\ CancelAndRemoveWaiter(s)
    <3>1. PICK k \in Keys : k = key[s]
      BY <2>2 DEF StreamInv, Types
    <3>2. cancelled' \in [Streams -> BOOLEAN]
      BY <2>2 DEF CancelAndRemoveWaiter, Cancel, Types
    <3>3. CASE ~Inflight(k)
      BY <2>2, <3>1, <3>2, <3>3 DEF CancelAndRemoveWaiter, Types, Inflight
    <3>4. CASE Inflight(k)
      <4>1. inflight' = [inflight EXCEPT ![k].waiters = @ \ {s}]
        BY <2>2, <3>1, <3>4 DEF CancelAndRemoveWaiter
      <4>2. /\ inflight' \in [Keys -> InflightResponse \cup {NoEntry}]
            /\ inflight'[k] # NoEntry
            /\ inflight'[k].spool = inflight[k].spool
            /\ inflight'[k].waiters = inflight[k].waiters \ {s}
            /\ \A m \in Keys : m # k => inflight'[m] = inflight[m]
        BY <3>4, <4>1, RemoveWaiterEffect, InflightFacts
      <4> QED
        BY <3>2, <3>4, <4>2 DEF Inflight
    <3> QED
      BY <3>3, <3>4
  <2> QED
    BY <2>1, <2>2 DEF Destroy
<1>3. P!IInv'
  BY <1>1, StoreIInv
<1>4. Types'
  BY <1>1, <1>2 DEF Types
<1>5. StreamInv'
  BY <1>1 DEF StreamInv, Types
<1>6. RecipientInv'
  BY <1>1, <1>2, RecipientsStay DEF Publishing
<1>7. HitInv'
  BY <1>1 DEF HitInv, store
<1>8. \A l \in Streams : ActiveLeader(l)' => ActiveLeader(l)
  BY <1>1 DEF Types, ActiveLeader
<1>9. LockInv'
  <2>1. ~Unlocked => job.key \in Keys
    BY StoreFacts DEF Store!Entry
  <2> QED
    BY <1>1, <1>2, <1>8, <2>1 DEF LockInv, Unlocked, Inflight, Complete, store
<1>10. Exclusive'
  BY <1>1, <1>2 DEF Exclusive, Inflight, Store!Cached, store
<1>11. LeaderInv'
  <2>1. \A l \in Streams : ActiveLeader(l) => key[l] \in Keys
    BY DEF ActiveLeader, StreamInv, Types
  <2> QED
    BY <1>1, <1>2, <1>8, <2>1 DEF LeaderInv, Inflight
<1>12. CompleteInv'
  BY <1>1 DEF CompleteInv, Complete, store
<1> QED
  BY <1>3, <1>4, <1>5, <1>6, <1>7, <1>9, <1>10, <1>11, <1>12

-----------------------------------------------------------------------------
(* The invariant.                                                          *)

(* The invariant holds initially. *)
LEMMA InitCInv == Init => CInv
<1> SUFFICES ASSUME Init PROVE CInv
  OBVIOUS
<1> USE DEF Init
<1>1. P!IInv
  <2>1. P!Init
    BY DEF Store!Init, P!Init, Store!Slots, P!Slots, Store!NoSlot, P!NoSlot
  <2> QED
    BY <2>1, StoreAssumptions, P!InitIInv
<1>2. NoResponse \in Response
  BY DEF NoResponse, Response
<1>3. Types
  BY <1>2 DEF Types, NoResponse
<1>4. StreamInv
  <2>1. \A s \in Streams : NoResponse.items = FirstPieces(s, Len(NoResponse.items))
        /\ Len(NoResponse.items) <= MaxChunks + 1
    BY MaxChunksAssumption DEF NoResponse, FirstPieces
  <2>2. \A s \in Streams : resp[s] = NoResponse
    BY DEF NoResponse
  <2> QED
    BY <2>1, <2>2 DEF StreamInv
<1>5. RecipientInv
  BY DEF RecipientInv, Inflight, Publishing, Idle
<1>6. HitInv
  BY DEF HitInv, Store!Init
<1>7. LockInv
  BY DEF LockInv, Unlocked, Store!Init, Idle
<1>8. Exclusive
  BY DEF Exclusive, Inflight
<1>9. LeaderInv
  BY DEF LeaderInv, ActiveLeader
<1>10. CompleteInv
  BY DEF CompleteInv, Store!Init
<1> QED
  BY <1>1, <1>3, <1>4, <1>5, <1>6, <1>7, <1>8, <1>9, <1>10 DEF CInv

(* Every step preserves it. *)
LEMMA NextCInv ==
    ASSUME CInv, [Next]_vars
    PROVE  CInv'
<1>1. CASE UNCHANGED vars
  <2>1. P!IInv'
    BY <1>1, StoreIInv DEF CInv, vars
  <2> QED
    BY <1>1, <2>1
    DEF CInv, vars, filter, store, Types, StreamInv, RecipientInv, HitInv,
        LockInv, Exclusive, LeaderInv, CompleteInv, Inflight, Publishing,
        Unlocked, ActiveLeader, Complete, Store!Cached
<1>2. ASSUME NEW s \in Streams, Request(s)
      PROVE  CInv'
  BY <1>2, BypassCInv, LookupCachedCInv, LookupLeaderCInv, LookupFollowerCInv
  DEF Request
<1>3. ASSUME NEW s \in Streams, Upstream(s), Primary(s)
      PROVE  CInv'
  <2>1. ASSUME NEW end \in BOOLEAN, EncodeHeaders(s, end)
        PROVE  CInv'
    BY <1>3, <2>1, HeadersArePiece, UpstreamPieceCInv
  <2>2. ASSUME NEW empty \in BOOLEAN, NEW end \in BOOLEAN, EncodeData(s, empty, end)
        PROVE  CInv'
    BY <1>3, <2>2, DataArePiece, UpstreamPieceCInv
  <2> QED
    BY <1>3, <2>1, <2>2 DEF Upstream
<1>4. ASSUME NEW w \in Workers, Work(w)
      PROVE  CInv'
  BY <1>4, FinalizeStepCInv, FinalizeEndCInv, PostCInv, RunCallbackCInv DEF Work
<1> QED
  BY <1>1, <1>2, <1>3, <1>4, ServeCachedCInv, DrainCachedCInv,
     EncodeTrailersCInv, LocalReplyIsOther, UpstreamIsOther, OtherAnswerCInv,
     DestroyCInv
  DEF Next

(* Every reachable state of the extension satisfies the invariant. *)
THEOREM CacheInvariance == SafetySpec => []CInv
<1>1. Init => CInv
  BY InitCInv
<1>2. CInv /\ [Next]_vars => CInv'
  BY NextCInv
<1> QED
  BY <1>1, <1>2, PTL DEF SafetySpec

(* The state of the cache, of the filters and of Envoy is always of the types
   that cache.h and filter.h declare. *)
THEOREM TypeCorrect == SafetySpec => []TypeOK
<1>1. CInv => TypeOK
  <2>1. CInv => Store!TypeOK
    BY StoreFacts DEF CInv
  <2> QED
    BY <2>1 DEF CInv, Types, TypeOK, Response, Busy, Hit
<1> QED
  BY <1>1, CacheInvariance, PTL

(* Until a leader's response has ended, its key is inflight with exactly what
   the leader has got, and it is the key's only leader: publishHeaders() and
   publishData() never find "inflight entry missing". *)
THEOREM LeaderOwns == SafetySpec => []LeaderOwnsInflight
<1>1. CInv => LeaderOwnsInflight
  BY DEF CInv, LeaderInv, LeaderOwnsInflight
<1> QED
  BY <1>1, CacheInvariance, PTL

(* What finalizeLocked() caches and what lookup() serves from the cache is
   always the whole response that a leader got for the same key. *)
THEOREM CompleteCached == SafetySpec => []OnlyCompleteResponsesCached
<1>1. CInv => OnlyCompleteResponsesCached
  <2> SUFFICES ASSUME CInv PROVE OnlyCompleteResponsesCached
    OBVIOUS
  <2>1. ASSUME NEW i \in Store!Slots, slots[i] # NoEntry
        PROVE  \E l \in Streams : key[l] = slots[i].key /\ done[l]
                                     /\ slots[i].val = resp[l].items
    BY <2>1 DEF CInv, CompleteInv, Complete
  <2>2. ASSUME NEW s \in Streams, role[s] = "Cached", done[s]
        PROVE  \E l \in Streams : key[l] = key[s] /\ role[l] = "Leader" /\ done[l]
                                     /\ resp[l] = resp[s]
    <3>1. PICK l \in Streams : Complete(l, key[s], resp[s].items)
      BY <2>2 DEF CInv, CompleteInv
    <3>2. resp[s].ended = TRUE /\ resp[l].ended = TRUE
      BY <2>2, <3>1 DEF CInv, CompleteInv, StreamInv, Complete, Types, Response
    <3>3. resp[s] \in Response /\ resp[l] \in Response /\ resp[l].items = resp[s].items
      BY <3>1 DEF CInv, Types, Complete
    <3>4. resp[l] = resp[s]
      BY <3>2, <3>3 DEF Response
    <3> QED
      BY <3>1, <3>4 DEF Complete
  <2> QED
    BY <2>1, <2>2 DEF OnlyCompleteResponsesCached
<1> QED
  BY <1>1, CacheInvariance, PTL

-----------------------------------------------------------------------------
(* The store is used as RingStore says.                                    *)

(* A step of the extension is a step of the store or leaves it alone. *)
LEMMA StepsOfTheStore ==
    ASSUME CInv, [Next]_vars
    PROVE  Store!Next \/ UNCHANGED store
<1> USE DEF CInv
<1>1. CASE UNCHANGED vars
  BY <1>1 DEF vars
<1>2. ASSUME NEW s \in Streams, Request(s)
      PROVE  Store!Next \/ UNCHANGED store
  <2>1. CASE LookupCached(s)
    <3>1. key[s] \in Keys
      BY <2>1 DEF LookupCached, Types
    <3> QED
      BY <2>1, <3>1 DEF LookupCached, Store!Next
  <2> QED
    BY <1>2, <2>1 DEF Request, Bypass, LookupLeader, LookupFollower
<1>3. ASSUME NEW s \in Streams, NEW items, NEW end \in BOOLEAN,
             UpstreamPiece(s, items, end)
      PROVE  Store!Next \/ UNCHANGED store
  <2>1. CASE role[s] # "Leader"
    BY <1>3, <2>1 DEF UpstreamPiece
  <2>2. CASE role[s] = "Leader"
    <3>1. PICK new : new = resp[s].items \o items
      OBVIOUS
    <3>2. /\ key[s] \in Keys /\ new \in Responses /\ Inflight(key[s])
          /\ end => Store!BeginFinalize(key[s], new)
          /\ ~end => UNCHANGED store
      <4> HIDE DEF CInv
      <4> QED
        BY <1>3, <2>2, <3>1, PublishEffect
    <3>3. ~Store!Cached(key[s])
      BY <3>2 DEF Exclusive
    <3> QED
      BY <3>2, <3>3 DEF Store!Next
  <2> QED
    BY <2>1, <2>2
<1>4. ASSUME NEW s \in Streams, Upstream(s)
      PROVE  Store!Next \/ UNCHANGED store
  <2> HIDE DEF CInv
  <2>0. CASE ~Primary(s)
    BY <1>4, <2>0, UpstreamIsOther DEF OtherAnswer
  <2>1. ASSUME NEW end \in BOOLEAN, EncodeHeaders(s, end), Primary(s)
        PROVE  Store!Next \/ UNCHANGED store
    BY <1>3, <2>1, HeadersArePiece
  <2>2. ASSUME NEW empty \in BOOLEAN, NEW end \in BOOLEAN, EncodeData(s, empty, end),
               Primary(s)
        PROVE  Store!Next \/ UNCHANGED store
    BY <1>3, <2>2, DataArePiece
  <2> QED
    BY <1>4, <2>0, <2>1, <2>2 DEF Upstream
<1>5. ASSUME NEW w \in Workers, Work(w)
      PROVE  Store!Next \/ UNCHANGED store
  BY <1>5 DEF Work, FinalizeStep, FinalizeEnd, Post, RunCallback, Store!Next,
              Store!Finalizing
<1>6. ASSUME NEW s \in Streams, ServeCached(s) \/ DrainCached(s)
      PROVE  Store!Next \/ UNCHANGED store
  BY <1>6 DEF ServeCached, DrainCached, Store!Next
<1>7. ASSUME NEW s \in Streams, EncodeTrailers(s) \/ LocalReply(s) \/ Destroy(s)
      PROVE  Store!Next \/ UNCHANGED store
  BY <1>7 DEF EncodeTrailers, LocalReply, Destroy
<1> QED
  BY <1>1, <1>2, <1>4, <1>5, <1>6, <1>7 DEF Next

(* The coalescing part uses the ring only as RingStore says it may be used: a
   key is finalized only if it is not cached, and only a whole response is.
   So every theorem about RingStore holds of the ring inside the extension. *)
THEOREM UsesRingStore == SafetySpec => ImplementsRingStore
<1>1. Init => Store!Init
  BY DEF Init
<1>2. CInv /\ [Next]_vars => [Store!Next]_(Store!vars)
  BY StepsOfTheStore DEF store, Store!vars
<1> QED
  BY <1>1, <1>2, CacheInvariance, PTL DEF SafetySpec, ImplementsRingStore, Store!SafetySpec

-----------------------------------------------------------------------------
(* Whoever is inflight has a leader.                                       *)

(* A step that leaves the leaders and the mutex alone keeps it so. *)
LEMMA InflightStays ==
    ASSUME InflightInv, UNCHANGED key,
           \A l \in Streams : role[l] = "Leader" =>
              /\ role'[l] = "Leader" /\ done'[l] = done[l] /\ resp'[l] = resp[l]
              /\ ActiveLeader(l) => life'[l] = "open",
           \A l \in Streams : role'[l] = "Leader" => role[l] = "Leader",
           \A k \in Keys : inflight'[k] # NoEntry => Inflight(k),
           ~Unlocked => scan' # "unlocked" /\ job' = job
    PROVE  InflightInv'
BY DEF InflightInv, ActiveLeader, Inflight, Unlocked

(* A callback is for a follower. *)
LEMMA CallbackEffect ==
    ASSUME CInv, NEW w \in Workers, RunCallback(w)
    PROVE  \A t \in Streams : role[t] # "Follower" =>
              done'[t] = done[t] /\ resp'[t] = resp[t]
<1>1. queue[w] \in Seq(Message) /\ queue[w] # <<>>
  BY DEF RunCallback, CInv, Types
<1>2. 1 \in DOMAIN queue[w] /\ Head(queue[w]) = queue[w][1]
  BY <1>1
<1>3. role[Head(queue[w]).to] = "Follower"
  BY <1>2 DEF CInv, RecipientInv
<1> QED
  BY <1>3 DEF RunCallback, Encode, NoteEnd, CInv, Types

(* No step leaves an inflight response without a leader, if leaders are not
   torn down in mid-response and no response ends with trailers. *)
LEMMA NextInflightInv ==
    ASSUME ~LeaderAborts, ~Trailers, CInv, InflightInv, [Next]_vars
    PROVE  InflightInv'
<1> USE DEF CInv
<1>0. ASSUME NEW s \in Streams, OtherAnswer(s)
      PROVE  InflightInv'
  <2>1. PICK items \in Seq(Piece), end \in BOOLEAN, noted \in BOOLEAN :
           Encode(s, items, end) /\ NoteEnd(s, noted)
    BY <1>0 DEF OtherAnswer
  <2>2. \A t \in Streams : role[t] # "Follower" => done'[t] = done[t] /\ resp'[t] = resp[t]
    BY <1>0, <2>1 DEF OtherAnswer, Encode, NoteEnd, Types
  <2> QED
    BY <1>0, <2>2, InflightStays DEF OtherAnswer, store, ActiveLeader, Inflight, Unlocked
<1>1. CASE UNCHANGED vars
  BY <1>1, InflightStays DEF vars, filter, store, ActiveLeader, Inflight, Unlocked
<1>2. ASSUME NEW s \in Streams, Bypass(s)
      PROVE  InflightInv'
  BY <1>2, InflightStays
  DEF Bypass, Arrives, filter, store, ActiveLeader, Inflight, Types, Unlocked
<1>3. ASSUME NEW s \in Streams, LookupCached(s)
      PROVE  InflightInv'
  <2>1. life[s] = "new" /\ role[s] = "Unset"
    BY <1>3 DEF LookupCached, Arrives, StreamInv
  <2>2. scan' = scan /\ job' = job
    BY <1>3 DEF LookupCached, Store!LookupHit
  <2> QED
    BY <1>3, <2>1, <2>2, InflightStays
    DEF LookupCached, Arrives, ActiveLeader, Inflight, Types, Unlocked
<1>4. ASSUME NEW s \in Streams, LookupLeader(s)
      PROVE  InflightInv'
  <2>1. /\ life[s] = "new" /\ role[s] = "Unset" /\ ~done[s] /\ resp[s] = NoResponse
        /\ key[s] \in Keys /\ Unlocked
    BY <1>4 DEF LookupLeader, Arrives, StreamInv, Types
  <2>2. /\ \A k \in Keys : k # key[s] => inflight'[k] = inflight[k]
        /\ role'[s] = "Leader" /\ life'[s] = "open"
        /\ \A t \in Streams : t # s => role'[t] = role[t] /\ life'[t] = life[t]
        /\ UNCHANGED <<store, key, done, resp>>
    BY <1>4 DEF LookupLeader, Arrives, Types
  <2>3. ActiveLeader(s)' /\ \A l \in Streams : ActiveLeader(l) => ActiveLeader(l)'
    BY <2>1, <2>2 DEF ActiveLeader
  <2>4. \A l \in Streams : role'[l] = "Leader" /\ resp'[l].ended => done'[l]
    BY <2>1, <2>2 DEF InflightInv, NoResponse
  <2>5. \A k \in Keys : inflight'[k] # NoEntry =>
           \E l \in Streams : ActiveLeader(l)' /\ key'[l] = k
    BY <2>1, <2>2, <2>3 DEF InflightInv, Inflight
  <2> QED
    BY <2>4, <2>5 DEF InflightInv, Inflight
<1>5. ASSUME NEW s \in Streams, LookupFollower(s)
      PROVE  InflightInv'
  <2>1. life[s] = "new" /\ role[s] = "Unset" /\ key[s] \in Keys
    BY <1>5 DEF LookupFollower, Arrives, StreamInv, Types
  <2>2. \A k \in Keys : inflight'[k] # NoEntry => Inflight(k)
    BY <1>5, <2>1 DEF LookupFollower, Inflight, Types
  <2> QED
    BY <1>5, <2>1, <2>2, InflightStays
    DEF LookupFollower, Arrives, ActiveLeader, store, Types, Unlocked
<1>6. ASSUME NEW s \in Streams, NEW items, NEW end \in BOOLEAN,
             UpstreamPiece(s, items, end)
      PROVE  InflightInv'
  <2>1. /\ items \in Seq(Piece) /\ NoteEnd(s, end) /\ Encode(s, items, end)
        /\ UNCHANGED <<key, role, life>> /\ ~resp[s].ended
    BY <1>6 DEF UpstreamPiece, AwaitsUpstream
  <2>2. resp'[s].ended = end /\ \A t \in Streams : t # s => resp'[t] = resp[t]
    BY <2>1, EncodeEffect
  <2>3. done'[s] = (done[s] \/ end) /\ \A t \in Streams : t # s => done'[t] = done[t]
    BY <2>1, NoteEndEffect
  <2>4. \A l \in Streams : role'[l] = "Leader" /\ resp'[l].ended => done'[l]
    BY <2>1, <2>2, <2>3 DEF InflightInv
  <2>5. CASE role[s] # "Leader"
    <3>1. UNCHANGED <<store, inflight, run>>
      BY <1>6, <2>5 DEF UpstreamPiece
    <3> QED
      BY <2>1, <2>2, <2>3, <2>5, <3>1, InflightStays DEF store, ActiveLeader, Inflight, Unlocked
  <2>6. CASE role[s] = "Leader"
    <3>1. PICK new : new = resp[s].items \o items
      OBVIOUS
    <3>2. /\ key[s] \in Keys /\ ActiveLeader(s) /\ Unlocked
          /\ \A m \in Keys : m # key[s] => inflight'[m] = inflight[m]
          /\ end => Store!BeginFinalize(key[s], new)
      <4> HIDE DEF CInv
      <4> QED
        BY <1>6, <2>6, <3>1, PublishEffect
    <3>3. \A l \in Streams : ActiveLeader(l) /\ (l # s \/ ~end) => ActiveLeader(l)'
      BY <2>1, <2>3, <3>2 DEF ActiveLeader
    <3>4. end => scan' # "unlocked" /\ job'.key = key[s]
      BY <3>2 DEF Store!BeginFinalize
    <3>5. ASSUME NEW k \in Keys, inflight'[k] # NoEntry
          PROVE  \/ \E l \in Streams : ActiveLeader(l)' /\ key'[l] = k
                 \/ scan' # "unlocked" /\ job'.key = k
      <4>1. CASE k = key[s]
        BY <2>1, <3>2, <3>3, <3>4, <4>1
      <4>2. CASE k # key[s]
        <5>1. PICK l \in Streams : ActiveLeader(l) /\ key[l] = k
          BY <3>2, <3>5, <4>2 DEF InflightInv, Inflight
        <5> QED
          BY <2>1, <3>3, <4>2, <5>1
      <4> QED
        BY <4>1, <4>2
    <3> QED
      BY <2>4, <3>5 DEF InflightInv, Inflight, Unlocked
  <2> QED
    BY <2>5, <2>6
<1>7. ASSUME NEW s \in Streams, Upstream(s)
      PROVE  InflightInv'
  <2> HIDE DEF CInv
  <2>0. CASE ~Primary(s)
    BY <1>0, <1>7, <2>0, UpstreamIsOther
  <2>1. ASSUME NEW end \in BOOLEAN, EncodeHeaders(s, end), Primary(s)
        PROVE  InflightInv'
    BY <1>6, <2>1, HeadersArePiece
  <2>2. ASSUME NEW empty \in BOOLEAN, NEW end \in BOOLEAN, EncodeData(s, empty, end),
               Primary(s)
        PROVE  InflightInv'
    BY <1>6, <2>2, DataArePiece
  <2> QED
    BY <1>7, <2>0, <2>1, <2>2 DEF Upstream
<1>8. ASSUME NEW s \in Streams, ServeCached(s)
      PROVE  InflightInv'
  <2>1. role[s] = "Cached"
    BY <1>8, StoreFacts DEF ServeCached, Store!ServeHit, HitInv
  <2>2. scan' = scan /\ job' = job
    BY <1>8 DEF ServeCached, Store!ServeHit
  <2>3. \A t \in Streams : t # s => done'[t] = done[t] /\ resp'[t] = resp[t]
    BY <1>8 DEF ServeCached, Encode, Types
  <2> QED
    BY <1>8, <2>1, <2>2, <2>3, InflightStays DEF ServeCached, ActiveLeader, Inflight, Unlocked
<1>9. ASSUME NEW s \in Streams, DrainCached(s)
      PROVE  InflightInv'
  BY <1>9, InflightStays DEF DrainCached, Store!Drain, filter, ActiveLeader, Inflight, Unlocked
<1>10. ASSUME NEW s \in Streams, LocalReply(s)
       PROVE  InflightInv'
  <2> HIDE DEF CInv
  <2> QED
    BY <1>0, <1>10, LocalReplyIsOther
<1>11. ASSUME NEW s \in Streams, Destroy(s)
       PROVE  InflightInv'
  <2>1. ~ActiveLeader(s)
    BY <1>11 DEF Destroy, ActiveLeader, InflightInv
  <2>2. \A k \in Keys : inflight'[k] # NoEntry => Inflight(k)
    <3>1. role[s] = "Follower" => key[s] \in Keys
      BY DEF StreamInv, Types
    <3> QED
      BY <1>11, <3>1 DEF Destroy, CancelAndRemoveWaiter, Inflight, Types
  <2>3. life'[s] = "destroyed" /\ \A t \in Streams : t # s => life'[t] = life[t]
    BY <1>11 DEF Destroy, Types
  <2> QED
    BY <1>11, <2>1, <2>2, <2>3, InflightStays DEF Destroy, store, filter, ActiveLeader, Unlocked
<1>12. ASSUME NEW w \in Workers, FinalizeStep(w)
       PROVE  InflightInv'
  <2>1. scan' # "unlocked" /\ job' = job
    BY <1>12 DEF FinalizeStep, Store!ScanStep, Store!RoomFound, Store!SlotTaken
  <2> QED
    BY <1>12, <2>1, InflightStays DEF FinalizeStep, filter, ActiveLeader, Inflight, Unlocked
<1>13. ASSUME NEW w \in Workers, FinalizeEnd(w)
       PROVE  InflightInv'
  <2>1. \A k \in Keys : inflight'[k] # NoEntry => Inflight(k) /\ k # job.key
    BY <1>13 DEF FinalizeEnd, EraseInflight, Inflight, Types
  <2>2. UNCHANGED <<key, role, done, life, resp>>
    BY <1>13 DEF FinalizeEnd, filter
  <2> QED
    BY <2>1, <2>2 DEF InflightInv, ActiveLeader, Inflight
<1>14. ASSUME NEW w \in Workers, Post(w)
       PROVE  InflightInv'
  BY <1>14, InflightStays DEF Post, filter, store, ActiveLeader, Inflight, Unlocked
<1>15. ASSUME NEW w \in Workers, RunCallback(w)
       PROVE  InflightInv'
  <2>1. \A t \in Streams : role[t] # "Follower" => done'[t] = done[t] /\ resp'[t] = resp[t]
    <3> HIDE DEF CInv
    <3> QED
      BY <1>15, CallbackEffect
  <2> QED
    BY <1>15, <2>1, InflightStays DEF RunCallback, store, ActiveLeader, Inflight, Unlocked
<1> QED
  BY <1>1, <1>2, <1>3, <1>4, <1>5, <1>7, <1>8, <1>9, <1>10, <1>11, <1>12,
     <1>13, <1>14, <1>15
  DEF Next, Request, Work, EncodeTrailers

(* If no leader is torn down before its response has ended, and no response
   ends with trailers, whatever is inflight has a leader that is still
   answering: inflight_map_ keeps nothing that nobody will finish.  The runs
   cache_leader_abort and cache_trailers show that both conditions are needed. *)
THEOREM InflightLed ==
    ASSUME ~LeaderAborts, ~Trailers
    PROVE  SafetySpec => []InflightHasLeader
<1>1. Init => InflightInv
  BY DEF Init, InflightInv, Inflight
<1>2. CInv /\ InflightInv /\ [Next]_vars => InflightInv'
  BY NextInflightInv
<1>3. InflightInv => InflightHasLeader
  BY DEF InflightInv, InflightHasLeader
<1> QED
  BY <1>1, <1>2, <1>3, CacheInvariance, PTL DEF SafetySpec
=============================================================================
