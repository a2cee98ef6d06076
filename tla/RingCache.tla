----------------------------- MODULE RingCache ------------------------------
(***************************************************************************)
(* The whole extension at work: streams on Envoy worker threads, one       *)
(* RingCacheFilter per stream (ring-cache/filter.h, filter.cc), and the    *)
(* shared RingBufferCache (cache.h, cache.cc), whose coalescing part is    *)
(* modelled here and whose permanent part is an instance of RingStore.     *)
(*                                                                         *)
(* A worker runs one event at a time: a request, a piece of an upstream    *)
(* response, a posted callback, a teardown.  An event interleaves with     *)
(* those of other workers only where the code can be overtaken: at the     *)
(* mutex, between the mutex and each post(), and between a hit's critical  *)
(* section and its unlocked half.  What a filter does to its own stream's  *)
(* fields is seen by its own worker only, so it is part of the step that   *)
(* takes the mutex.                                                        *)
(*                                                                         *)
(* A response is the sequence of its pieces: <<l, 0>> for the headers and  *)
(* <<l, i>> for the i-th body chunk that stream l got from the upstream.   *)
(***************************************************************************)
EXTENDS Integers, FiniteSets, Sequences, SequencesExt

CONSTANTS
    Streams,        \* request streams, each with its filter
    Workers,        \* worker threads, each with its dispatcher
    Keys,           \* keys that buildKey() can make
    NoKey,          \* the request has no host or no path
    MaxChunks,      \* bound on the body chunks of one upstream response
    MaxExtraChunks, \* the same bound if it is a response to a follower
    Capacity, SlotCount, SizeModulus,
    SizeOf(_, _),
    NoEntry,
    LeaderAborts,   \* a leader's stream may be torn down in mid-response
    Trailers,       \* an upstream response may end with trailers
    LocalReplies,   \* Envoy may answer a waiting follower itself (timeout)
    WithBody        \* the streams whose request goes on after its headers,
                    \* with a body or trailers

ASSUME MaxChunksAssumption ==
    MaxChunks \in Nat /\ MaxExtraChunks \in 0 .. MaxChunks
ASSUME RingAssumption ==
    /\ SlotCount \in Nat \ {0} /\ Capacity \in Nat \ {0}
    /\ SizeModulus \in Nat /\ Capacity < SizeModulus
ASSUME SwitchesAssumption ==
    {LeaderAborts, Trailers, LocalReplies} \subseteq BOOLEAN
ASSUME StreamsAssumption ==
    IsFiniteSet(Streams) /\ WithBody \subseteq Streams /\ NoKey \notin Keys

VARIABLES
    \* RingBufferCache, permanent part: see RingStore
    slots, cache_map, used_size, head, pins, ref, serving, scan, job, start,
    \* RingBufferCache, coalescing part
    inflight,       \* inflight_map_: per key, what is spooled and who waits
    cancelled,      \* the cancelled flag of a follower's Waiter
    \* RingCacheFilter, per stream
    key, role, done,
    \* Envoy
    on,             \* the worker a stream lives on
    life,           \* "new", "open" or "destroyed"
    resp,           \* what has been encoded on a stream
    queue,          \* the callbacks posted to each worker's dispatcher
    run             \* what each worker is in the middle of

store == <<slots, cache_map, used_size, head, pins, ref, serving,
           scan, job, start>>
filter == <<key, role, done>>
vars == <<store, inflight, cancelled, filter, on, life, resp, queue, run>>

(* body_length != 0: a complete response has more than its headers. *)
HasBody(v) == Len(v) > 1

Piece == Streams \X (0 .. MaxChunks)

(* The first n pieces of what l gets from the upstream. *)
FirstPieces(l, n) == [i \in 1 .. n |-> <<l, i - 1>>]

Responses == {FirstPieces(l, n) : l \in Streams, n \in 1 .. (MaxChunks + 1)}

Store == INSTANCE RingStore WITH Readers <- Streams, Values <- Responses

(* What is inflight under a key. *)
InflightResponse == [spool : Seq(Piece), waiters : SUBSET Streams]

ASSUME SizeAssumption ==
    \A k \in Keys, v \in Responses : SizeOf(k, v) \in 0 .. (SizeModulus - 1)
ASSUME NoEntryAssumption ==
    NoEntry \notin Store!Entry \cup Responses \cup InflightResponse

Idle == [op |-> "idle"]
Message == [to : Streams, items : Seq(Piece), end : BOOLEAN]

TypeOK ==
    /\ Store!TypeOK
    /\ inflight \in [Keys -> InflightResponse \cup {NoEntry}]
    /\ cancelled \in [Streams -> BOOLEAN]
    /\ key \in [Streams -> Keys \cup {NoKey}]
    /\ role \in [Streams -> {"Unset", "Cached", "Leader", "Follower"}]
    /\ done \in [Streams -> BOOLEAN]
    /\ on \in [Streams -> Workers]
    /\ life \in [Streams -> {"new", "open", "destroyed"}]
    /\ resp \in [Streams -> [items : Seq(Piece), ended : BOOLEAN]]
    /\ queue \in [Workers -> Seq(Message)]
    /\ \A w \in Workers :
          \/ run[w] = Idle
          \/ run[w] \in [op : {"hit"}, stream : Streams]
          \/ run[w] \in [op : {"finalize", "post"}, items : Seq(Piece),
                         end : BOOLEAN, to : SUBSET Streams]

Init ==
    /\ Store!Init
    /\ inflight = [k \in Keys |-> NoEntry]
    /\ cancelled = [s \in Streams |-> FALSE]
    /\ key \in [Streams -> Keys \cup {NoKey}]
    /\ role = [s \in Streams |-> "Unset"]
    /\ done = [s \in Streams |-> FALSE]
    /\ on \in [Streams -> Workers]
    /\ life = [s \in Streams |-> "new"]
    /\ resp = [s \in Streams |-> [items |-> <<>>, ended |-> FALSE]]
    /\ queue = [w \in Workers |-> <<>>]
    /\ run = [w \in Workers |-> Idle]

-----------------------------------------------------------------------------
(* Who can take a step.                                                    *)

Inflight(k) == inflight[k] # NoEntry
Unlocked == scan = "unlocked"

(* Stream s is there and its worker is free to run an event for it. *)
Ready(s) == life[s] = "open" /\ run[on[s]] = Idle

(* What post()ing a piece of a response to a set of waiters leaves to do. *)
Posting(items, end, to) ==
    IF to = {} THEN Idle
    ELSE [op |-> "post", items |-> items, end |-> end, to |-> to]

Posted(w, m) == queue' = [queue EXCEPT ![w] = Append(@, m)]

(* encodeHeaders() and encodeData() on a stream, down its filter chain. *)
Encode(s, items, end) ==
    resp' = [resp EXCEPT ![s] = [items |-> @.items \o items,
                                 ended |-> @.ended \/ end]]

(* The filter's own encodeHeaders() and encodeData() note the end. *)
NoteEnd(s, end) == done' = [done EXCEPT ![s] = @ \/ end]

-----------------------------------------------------------------------------
(* A request: decodeHeaders() and lookup().                                *)

Arrives(s) ==
    /\ life[s] = "new"
    /\ run[on[s]] = Idle
    /\ life' = [life EXCEPT ![s] = "open"]

(* buildKey() fails: the filter stays out of this stream. *)
Bypass(s) ==
    /\ Arrives(s)
    /\ key[s] = NoKey
    /\ UNCHANGED <<store, inflight, cancelled, filter, on, resp, queue, run>>

(* Hit: the critical section pins the entry; the rest is ServeCached. *)
LookupCached(s) ==
    /\ Arrives(s)
    /\ key[s] # NoKey
    /\ Store!LookupHit(s, key[s])
    /\ role' = [role EXCEPT ![s] = "Cached"]
    /\ run' = [run EXCEPT ![on[s]] = [op |-> "hit", stream |-> s]]
    /\ UNCHANGED <<inflight, cancelled, key, done, on, resp, queue>>

(* Mutant: only inflight_map_ is looked at, not cache_map_. *)
AbsentInflight(k) == ~Inflight(k)

Absent(k) == ~Store!Cached(k) /\ ~Inflight(k)

(* Neither cached nor inflight: this request goes to the upstream. *)
LookupLeader(s) ==
    LET k == key[s] IN
    /\ Arrives(s)
    /\ k # NoKey
    /\ Unlocked
    /\ Absent(k)
    /\ inflight' = [inflight EXCEPT ![k] = [spool |-> <<>>, waiters |-> {}]]
    /\ role' = [role EXCEPT ![s] = "Leader"]
    /\ UNCHANGED <<store, cancelled, key, done, on, resp, queue, run>>

(* Mutant: headers are backfilled only if there already is a body. *)
BackfillBodyOnly(s, spool) ==
    IF Len(spool) <= 1 THEN UNCHANGED queue
    ELSE Posted(on[s], [to |-> s, items |-> spool, end |-> FALSE])

(* What has been spooled so far, if the headers are there, is posted in one
   callback; the stream has not ended, or it would not be inflight. *)
Backfill(s, spool) ==
    IF spool = <<>> THEN UNCHANGED queue
    ELSE Posted(on[s], [to |-> s, items |-> spool, end |-> FALSE])

(* Inflight: attachBackfillWaiterLocked() registers the waiter and, still
   under the mutex, posts the backfill. *)
LookupFollower(s) ==
    LET k == key[s] IN
    /\ Arrives(s)
    /\ k # NoKey
    /\ Unlocked
    /\ ~Store!Cached(k)
    /\ Inflight(k)
    /\ inflight' = [inflight EXCEPT ![k].waiters = @ \cup {s}]
    /\ Backfill(s, inflight[k].spool)
    /\ role' = [role EXCEPT ![s] = "Follower"]
    /\ UNCHANGED <<store, cancelled, key, done, on, resp, run>>

(* The unlocked half of a hit, and what the filter encodes from it. *)
ServeCached(s) ==
    /\ run[on[s]] = [op |-> "hit", stream |-> s]
    /\ Encode(s, slots[ref[s]].val, TRUE)
    /\ Store!ServeHit(s)
    /\ done' = [done EXCEPT ![s] = TRUE]
    /\ run' = [run EXCEPT ![on[s]] = Idle]
    /\ UNCHANGED <<inflight, cancelled, key, role, on, life, queue>>

(* The connection has drained, or dropped, the body of a hit. *)
DrainCached(s) ==
    /\ run[on[s]] = Idle
    /\ Store!Drain(s)
    /\ UNCHANGED <<inflight, cancelled, filter, on, life, resp, queue, run>>

-----------------------------------------------------------------------------
(* An upstream response: encodeHeaders(), encodeData(), encodeTrailers(),  *)
(* and publishHeaders(), publishData() for a leader.                       *)

(* Mutant: the snapshot is taken after finalizeLocked(). *)
SnapshotTooLate(k, end) == IF end THEN {} ELSE inflight[k].waiters

(* The snapshot of the waiters, taken under the mutex. *)
Snapshot(k, end) == inflight[k].waiters

(* The critical section that publishHeaders() and publishData() share: spool
   the new piece, take a snapshot of the waiters, finalize at the end of the
   stream.  The posts follow once the mutex is released. *)
Publish(s, spool, items, end) ==
    LET k == key[s]
        w == on[s]
        to == Snapshot(k, end)
    IN  /\ inflight' = [inflight EXCEPT ![k].spool = spool]
        /\ IF end
           THEN /\ Store!BeginFinalize(k, spool)
                /\ run' = [run EXCEPT ![w] =
                       [op |-> "finalize", items |-> items, end |-> end, to |-> to]]
           ELSE /\ run' = [run EXCEPT ![w] = Posting(items, end, to)]
                /\ UNCHANGED store

(* Only a leader publishes, and only if its key is still inflight; headers
   are spooled once. *)
PublishHeaders(s, end) ==
    IF role[s] # "Leader"
    THEN UNCHANGED <<store, inflight, run>>
    ELSE /\ Unlocked
         /\ IF ~Inflight(key[s])
            THEN UNCHANGED <<store, inflight, run>>
            ELSE LET old == inflight[key[s]].spool
                     spool == IF old = <<>> THEN <<<<s, 0>>>> ELSE old
                 IN  Publish(s, spool, <<Head(spool)>>, end)

(* Mutant: the chunk replaces the spooled body. *)
SpoolReplaced(spool, items) == <<Head(spool)>> \o items

(* The chunk goes to the end of body_. *)
Spooled(spool, items) == spool \o items

PublishData(s, items, end) ==
    IF role[s] # "Leader"
    THEN UNCHANGED <<store, inflight, run>>
    ELSE /\ Unlocked
         /\ IF ~Inflight(key[s])
            THEN UNCHANGED <<store, inflight, run>>
            ELSE Publish(s, Spooled(inflight[key[s]].spool, items), items, end)

(* decodeHeaders() lets the request of a leader, or one without a key, go on
   to the upstream and stops a follower's.  decodeData() and decodeTrailers()
   stop nothing and note nothing: a follower whose request goes on after its
   headers is resumed by them, and the upstream answers it as well. *)
GoesUpstream(s) ==
    \/ role[s] = "Leader" \/ key[s] = NoKey
    \/ s \in WithBody /\ role[s] = "Follower"

(* The upstream has more to say to this stream. *)
AwaitsUpstream(s) == Ready(s) /\ GoesUpstream(s) /\ ~resp[s].ended

(* How many pieces the upstream has sent to this stream.  All of a leader's
   response is the upstream's; a follower's may be its leader's too. *)
Received(s) ==
    Cardinality({i \in DOMAIN resp[s].items : resp[s].items[i][1] = s})

MostChunks(s) == IF role[s] = "Follower" THEN MaxExtraChunks ELSE MaxChunks

EncodeHeaders(s, end) ==
    /\ AwaitsUpstream(s)
    /\ Received(s) = 0
    /\ NoteEnd(s, end)
    /\ PublishHeaders(s, end)
    /\ Encode(s, <<<<s, 0>>>>, end)
    /\ UNCHANGED <<cancelled, key, role, on, life, queue>>

(* A chunk, or the empty data that may end a stream. *)
EncodeData(s, empty, end) ==
    LET n == Received(s)
        items == IF empty THEN <<>> ELSE <<<<s, n>>>>
    IN  /\ AwaitsUpstream(s)
        /\ n > 0
        /\ empty => end
        /\ ~empty => n <= MostChunks(s)
        /\ NoteEnd(s, end)
        /\ PublishData(s, items, end)
        /\ Encode(s, items, end)
        /\ UNCHANGED <<cancelled, key, role, on, life, queue>>

(* encodeTrailers() lets the trailers pass: they end the stream, but nothing
   is published and done_ is not set. *)
EncodeTrailers(s) ==
    /\ Trailers
    /\ AwaitsUpstream(s)
    /\ Received(s) > 0
    /\ Encode(s, <<>>, TRUE)
    /\ UNCHANGED <<store, inflight, cancelled, filter, on, life, queue, run>>

(* An iteration of the scan, by the worker that holds the mutex. *)
FinalizeStep(w) ==
    /\ run[w].op = "finalize"
    /\ Store!ScanStep \/ Store!RoomFound \/ Store!SlotTaken
    /\ UNCHANGED <<inflight, cancelled, filter, on, life, resp, queue, run>>

(* Mutant: a dropped response is not erased. *)
EraseIfInserted(k) ==
    IF scan = "drop" THEN UNCHANGED inflight
    ELSE inflight' = [inflight EXCEPT ![k] = NoEntry]

EraseInflight(k) == inflight' = [inflight EXCEPT ![k] = NoEntry]

(* The response is in the cache or dropped; either way it is no longer
   inflight when the mutex is released, and the posts begin. *)
FinalizeEnd(w) ==
    /\ run[w].op = "finalize"
    /\ Store!InsertEntry \/ Store!Drop
    /\ EraseInflight(job.key)
    /\ run' = [run EXCEPT ![w] = Posting(@.items, @.end, @.to)]
    /\ UNCHANGED <<cancelled, filter, on, life, resp, queue>>

(* post() to one waiter of the snapshot, with the mutex released. *)
Post(w) ==
    /\ run[w].op = "post"
    /\ \E f \in run[w].to :
          /\ Posted(on[f], [to |-> f, items |-> run[w].items, end |-> run[w].end])
          /\ run' = [run EXCEPT ![w] = Posting(@.items, @.end, @.to \ {f})]
    /\ UNCHANGED <<store, inflight, cancelled, filter, on, life, resp>>

-----------------------------------------------------------------------------
(* A dispatcher runs a posted callback on the follower's own worker.       *)

RunCallback(w) ==
    /\ run[w] = Idle
    /\ queue[w] # <<>>
    /\ queue' = [queue EXCEPT ![w] = Tail(@)]
    /\ LET m == Head(queue[w]) IN
          IF cancelled[m.to]
          THEN UNCHANGED <<resp, done>>
          ELSE Encode(m.to, m.items, m.end) /\ NoteEnd(m.to, m.end)
    /\ UNCHANGED <<store, inflight, cancelled, key, role, on, life, run>>

(* Envoy answers a follower that is still waiting by itself, as on a
   timeout: the answer runs through the filter's encode callbacks. *)
LocalReply(s) ==
    /\ LocalReplies
    /\ Ready(s)
    /\ role[s] = "Follower"
    /\ resp[s].items = <<>>
    /\ Encode(s, <<<<s, 0>>>>, TRUE)
    /\ NoteEnd(s, TRUE)
    /\ UNCHANGED <<store, inflight, cancelled, key, role, on, life, queue, run>>

-----------------------------------------------------------------------------
(* Teardown: onDestroy() and removeWaiter().                               *)

(* Mutant: the waiter is removed but not cancelled. *)
CancelNothing(s) == UNCHANGED cancelled

Cancel(s) == cancelled' = [cancelled EXCEPT ![s] = TRUE]

(* Cancel, then take the waiter off the list, if its key is inflight. *)
CancelAndRemoveWaiter(s) ==
    /\ Unlocked
    /\ Cancel(s)
    /\ inflight' = IF Inflight(key[s])
                   THEN [inflight EXCEPT ![key[s]].waiters = @ \ {s}]
                   ELSE inflight

(* A stream goes away when its response has ended or when its client does.
   Only an unfinished follower has something to take back. *)
Destroy(s) ==
    /\ Ready(s)
    /\ resp[s].ended \/ role[s] = "Follower" \/ LeaderAborts
    /\ life' = [life EXCEPT ![s] = "destroyed"]
    /\ IF role[s] = "Follower" /\ ~done[s]
       THEN CancelAndRemoveWaiter(s)
       ELSE UNCHANGED <<inflight, cancelled>>
    /\ UNCHANGED <<store, filter, on, resp, queue, run>>

-----------------------------------------------------------------------------
Request(s) ==
    Bypass(s) \/ LookupCached(s) \/ LookupLeader(s) \/ LookupFollower(s)

Upstream(s) ==
    \/ \E end \in BOOLEAN : EncodeHeaders(s, end)
    \/ \E empty, end \in BOOLEAN : EncodeData(s, empty, end)

(* What a worker does by itself once an event has started. *)
Work(w) == FinalizeStep(w) \/ FinalizeEnd(w) \/ Post(w) \/ RunCallback(w)

Next ==
    \/ \E s \in Streams :
          \/ Request(s)
          \/ ServeCached(s)
          \/ DrainCached(s)
          \/ Upstream(s)
          \/ EncodeTrailers(s)
          \/ LocalReply(s)
          \/ Destroy(s)
    \/ \E w \in Workers : Work(w)

SafetySpec == Init /\ [][Next]_vars

(* Dispatcher loops keep running, and the upstream goes on answering those it
   is meant to answer.  No request has to arrive and no stream has to be
   torn down. *)
Fairness ==
    /\ \A w \in Workers : WF_vars(Work(w))
    /\ \A s \in Streams :
          /\ WF_vars(ServeCached(s))
          /\ WF_vars(role[s] # "Follower" /\ Upstream(s))

Spec == SafetySpec /\ Fairness

-----------------------------------------------------------------------------
(* Properties.                                                             *)

ActiveLeader(l) == life[l] = "open" /\ role[l] = "Leader" /\ ~done[l]

(* A key is never both cached and inflight, and what is finalized is always
   a whole response for a key that is not cached yet: the coalescing part
   uses the permanent part only as RingStore says it may be used, so all that
   is proved of RingStore holds here ("lookup() is resolved to exactly 1
   type", cache.h:21). *)
ImplementsRingStore == Store!SafetySpec

(* While a leader is still answering, its key is inflight, nobody else leads
   it, and the spool is exactly what the leader has got from the upstream:
   the "inflight entry missing" returns of publishHeaders and publishData
   are never taken, and no two upstream requests for one key overlap unless
   a leader has been torn down. *)
LeaderOwnsInflight ==
    Unlocked =>
        \A l \in Streams : ActiveLeader(l) =>
            /\ Inflight(key[l])
            /\ inflight[key[l]].spool = resp[l].items
            /\ \A m \in Streams : ActiveLeader(m) /\ key[m] = key[l] => m = l

(* What is on its way to follower f: f's response once every callback that is
   in its dispatcher's queue has run, and what a publisher has still to post
   to it then. *)
OnceQueueHasRun(f) ==
    LET q == queue[on[f]]
        after[i \in 0 .. Len(q)] ==
            IF i = 0 THEN resp[f].items
            ELSE IF q[i].to = f THEN after[i - 1] \o q[i].items
            ELSE after[i - 1]
    IN  after[Len(q)]
ToPost(f) == {w \in Workers : run[w].op \in {"finalize", "post"} /\ f \in run[w].to}
OnceAllHasRun(f) ==
    IF ToPost(f) = {} THEN OnceQueueHasRun(f)
    ELSE OnceQueueHasRun(f) \o run[CHOOSE w \in ToPost(f) : TRUE].items

(* A follower on whose stream something else than its leader's response has
   been encoded: a reply of Envoy's own, or what the upstream answers to a
   request that went on after its headers. *)
Disturbed(s) ==
    role[s] = "Follower" /\ \E i \in DOMAIN resp[s].items : resp[s].items[i][1] = s

(* "waiters are fully backfilled" (cache.h:20): whenever the mutex is free,
   what a waiter that nobody else has answered has been sent, plus what is
   under way to it, is the whole spool, no piece missing and none twice,
   however late it joined. *)
FullyBackfilled ==
    Unlocked =>
        \A k \in Keys : Inflight(k) =>
            \A f \in inflight[k].waiters : ~Disturbed(f) =>
                OnceAllHasRun(f) = inflight[k].spool

(* The response of a follower that nobody else has answered is, at any time,
   a beginning of the response its leader gets from the upstream, for the
   same key; when it has ended it is all of it.  No chunk overtakes, repeats
   or skips another between two threads. *)
CoalescedInOrder ==
    \A f \in Streams :
        role[f] = "Follower" /\ ~Disturbed(f) /\ resp[f].items # <<>> =>
        \E l \in Streams :
            /\ role[l] = "Leader" /\ key[l] = key[f]
            /\ IsPrefix(resp[f].items, resp[l].items)
            /\ resp[f].ended => resp[f] = resp[l]

(* Only the whole of a response that ended is ever cached, under the key it
   was asked for; a hit is such a response.  A response cut off by a
   teardown never becomes a hit. *)
OnlyCompleteResponsesCached ==
    /\ \A i \in Store!Slots : slots[i] # NoEntry =>
          \E l \in Streams : key[l] = slots[i].key /\ done[l]
                                /\ slots[i].val = resp[l].items
    /\ \A s \in Streams : role[s] = "Cached" /\ done[s] =>
          \E l \in Streams : key[l] = key[s] /\ role[l] = "Leader" /\ done[l]
                                /\ resp[l] = resp[s]

(* Nothing is encoded on a stream that has been torn down, or after the end
   of its response, unless it is a follower that has also been answered by
   Envoy itself or, for its request body, by the upstream: a callback that
   was posted before a follower was cancelled does nothing, and the last
   piece is the last. *)
NothingEncodedAfterEnd ==
    [][\A s \in Streams :
          (life[s] = "destroyed" \/ resp[s].ended) /\ ~Disturbed(s)
              => resp'[s] = resp[s]]_vars

(* The README's reason for removeWaiter: the cache never calls into a stream
   that has been torn down ("to avoid the cache calling `encodeData()` on an
   invalidated stream callback instance", README.md:342).  Two things break
   it, and each alone does: a local reply, and an upstream answer to the body
   of a follower's request.  Both run through encodeHeaders() or encodeData(),
   set done_ (filter.cc:88, 96) and so make onDestroy() skip the cancellation
   (filter.cc:11). *)
TornDownStreamsUntouched ==
    [][\A s \in Streams : life[s] = "destroyed" => resp'[s] = resp[s]]_vars

(* A key stays inflight only as long as a leader is there to finish it: the
   "last call has to end the stream" (README.md:348). *)
InflightHasLeader ==
    Unlocked =>
        \A k \in Keys : Inflight(k) =>
            \E l \in Streams : ActiveLeader(l) /\ key[l] = k

(* Every follower gets to the end of its response or is torn down; it does
   not wait for ever. *)
FollowersServed ==
    \A s \in Streams :
        role[s] = "Follower" ~> resp[s].ended \/ life[s] = "destroyed"

(* The eviction scan ends and the mutex is released, however the readers of
   the entries it meets behave: no worker waits for ever at the mutex. *)
MutexReleased == ~Unlocked ~> Unlocked
=============================================================================
