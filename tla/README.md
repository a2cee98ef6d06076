# Verification of the ring cache

TLA+ modules, TLC configurations and TLAPS proofs for the Envoy HTTP filter in
`src/ring-cache`: a response cache in a ring of slots, shared by all worker
threads, that coalesces concurrent requests for one key into one upstream
request.

## The system

| Part | State | Operations | Source |
|---|---|---|---|
| `RingBufferCache`, permanent part | `slots_`, `cache_map_`, `used_size_`, `head_`, `pins_` of each entry | the hit case of `lookup`, the releasor of a hit's body, `finalizeLocked`, `evictTillCapacityLocked`, `evictHeadLocked`, `insertEntryLocked` | cache.h, cache.cc |
| `RingBufferCache`, coalescing part | `inflight_map_` (spooled headers and body, waiters), `cancelled` of each waiter | `lookup`, `attachBackfillWaiterLocked`, `publishHeaders`, `publishData`, `removeWaiter` | cache.h, cache.cc |
| `RingCacheFilter`, one per stream | `key_`, `role_`, `done_`, `waiter_` | `decodeHeaders`, `decodeData`, `decodeTrailers`, `encodeHeaders`, `encodeData`, `encodeTrailers`, `onDestroy`, `buildKey` | filter.h, filter.cc |
| Key building | `key_` | `buildKey` | filter.h, filter.cc |
| `RingCacheFilterConfig` and its factory | capacity, slot count, a shared pointer to the singleton cache | validation, `getTyped`, the factory callback that makes filters | config.h, config.cc, cache.proto |
| Envoy (external) | workers, dispatcher queues, streams, filter chains, listeners, singleton manager, upstream | one event at a time per worker, FIFO `post()`, encode calls, iteration along a chain, teardown, local replies, reconfiguration | not in src |

Filters call the cache on their own worker's thread.  The cache has one mutex.
It answers a follower by posting callbacks to the follower's dispatcher, some
under the mutex (the backfill) and some after it (live pieces, from a snapshot
of the waiters).  Hits are served from the cached entry in place: the entry is
pinned under the mutex and unpinned without it.

What is hard: pins change in the middle of another thread's scan; posts race
with followers that join and leave; a scan can fail half way; a leader, a
follower or a response can end in ways the API contract does not mention;
configurations, filters, the cache and bodies on their way to a client are freed
in any order; two filters of one stream can meet in the cache.
PROJECT.json lists these hazards, each at its line.  What makes the parts
correct:

* permanent part: the bytes are accounted exactly and bounded, the map and the
  slots agree, nothing in use is evicted, the scan ends and does not give up
  early, evictions are in order;
* coalescing part: one leader per key, a key is cached or inflight and not
  both, every follower gets the leader's response whole and in order, only whole
  responses are cached;
* filter: nothing is encoded on a stream that is gone, no follower waits for
  ever, only leaders ask the upstream;
* key: no two requests share one;
* configuration: one cache for all, made once, that outlives every pointer into
  it.

## Modules

* `BoundedCache`: the abstract specification of the permanent part.  A map with
  a bound on its total size, in which an entry in use stays unchanged.
* `RingStore`: the permanent part.  One action per critical section or unlocked
  step, and one per loop iteration of the scan.  `scan = "unlocked"` means that
  no finalization holds the mutex; only then can `LookupHit` and `BeginFinalize`
  happen.  `ServeHit` and `Drain` run without the mutex.  Between testing
  `pins_ == 0` and evicting nothing can happen, since pins are only added under
  the mutex; so an iteration is one step.  `size_t` arithmetic wraps at
  `SizeModulus`.
* `RingStoreHistory`: `RingStore` with history variables (order of insertion,
  slots passed over in this scan, keys cached before it, how far the scan has
  moved the head), for statements about order and about whole scans.
* `RingCache`: the coalescing part, the filters and Envoy's workers, composed
  with an instance of `RingStore` whose readers are the streams.  The waiters are
  a set, since their order (swap and pop) decides only in which order different
  streams are posted to, and `Post` takes them in any order.  A response is a
  sequence of pieces tagged with the stream that got them from the upstream, so
  a lost, repeated, reordered or foreign piece shows.  The upstream answers
  leaders, streams without a key and, since `decodeData` and `decodeTrailers`
  let everything pass, followers whose request goes on after its headers
  (`GoesUpstream`); what it sends to a follower mixes with what the cache does.
* `FilterChain`: how a request gets to the cache.  Configurations are made
  (`CreateFilterFactory`, the factory method with the constructor and
  `getTyped`) and let go (`RemoveFilterFactory`); `CreateFilterChain` makes the
  filters of a stream; `Bypass`, `Hit`, `Lead` and `Follow` are the ways through
  `decodeHeaders`, which either passes the request to the next filter (`at`) or
  stops it; `DecodeBody` is `decodeData` and `decodeTrailers`.  Texts are
  sequences of characters, since the properties depend on how `buildKey` joins
  them.  Shared pointers are modelled by who has one: the cache is there as long
  as a configuration, a filter or the singleton manager shares it.  The cache is
  reduced to which keys are inflight and stored and for whom; a response
  is one step (`Respond`), an eviction another (`Evict`).
* `MC...`: the constants' definitions for TLC.
* `RingStoreProofs`, `RingStoreRefinement`, `RingStoreHistoryProofs`,
  `RingCacheProofs`, `RingCacheDeliveryProofs`, `FilterChainProofs`: the proofs.

An operator whose comment begins with "Mutant" is a faulty variant of the
definition after it; PROJECT.json says which property each one breaks.

## Runs

| Run | Instance | Shows |
|---|---|---|
| store_safety | 4 keys, 3 slots, 2 readers, sizes 1, 2, 3 and 6, capacity 5 | accounting, map, pins, entries in use stay, implements `BoundedCache`; a fitting response is dropped for want of room only behind entries in use, and only there has a dropped response evicted others; a scan moves the head less than two turns; first in, first out until a scan meets an entry in use |
| store_fifo_in_use | 4 keys, 3 slots, 1 reader | **violated**: there is an exception to FIFO that the source's README does not name |
| store_uncached | 3 keys, 3 slots, 1 reader | **violated**: a response that is not cached may evict others |
| cache_safety | 3 streams, 2 workers, 2 keys, up to 2 chunks, 2 slots, capacity 3, all switches on, one request with a body | coalescing, backfill, hits, teardown, trailers, local replies, followers answered by the upstream, composed with the scan |
| cache_successive | 4 streams, 2 workers, 1 key, capacity 1 | one leader after another for a key whose responses may not fit |
| cache_liveness | 3 streams, 2 workers, 2 keys, 1 slot, capacity 2, one request with a body | followers are served, if leaders finish; the mutex is always given back |
| cache_leader_abort | 2 streams | **violated**: a torn-down leader leaves its key inflight |
| cache_trailers | 2 streams | **violated**: followers of a response with trailers wait for ever |
| cache_local_reply | 2 streams | **violated**: a locally answered follower is called back after its teardown |
| config_sharing | 3 streams, 2 configurations in chains of their own, 3 configuration messages (one invalid), 2 hosts, 3 paths, request bodies | one cache, made once, that outlives all pointers into it; one leader per request; responses for the right request |
| chain_request_body | 2 streams | **violated**: a follower with a request body is answered by the upstream |
| chain_two_in_one | 1 stream, both configurations in one chain | **violated**: the stream waits for itself |

Why the bounds are enough to be interesting.  Four keys for three slots make the
second loop of the scan fail with room to spare; sizes 1 to 3 of a capacity of 5
need zero, one or two evictions; size 6 is oversized; two readers can pin one
entry twice or block two slots.  Three streams make a leader, an early and a late
follower, or a leader, a hit that pins its entry and a leader of another key
that wants its room.  Two chunks allow a follower to join before the headers,
between headers and body, and in the middle of the body.  Four streams for one
key make two leaders in succession, each with a follower.  In cache_liveness one
slot and two keys let a leader's scan meet an entry that a third stream has
pinned.  In config_sharing the hosts are `a` and `aa` and the paths empty, `/`
and `////a`, which has the separator in it; two configurations with
different sizes can come and go while three streams lead, follow or hit and a
body is still on its way.  Streams are used
once; the cache is not restarted (nothing is persisted).  `MaxChunks` bounds the
upstream; the queues are bounded by it.  `MaxExtraChunks` bounds what the
upstream sends to a follower: the filter publishes none of it, and only its end
has an effect (`done_`), so headers and an end (0 in cache_safety) or one chunk
between them (1 in cache_liveness) are enough.  To the filter of a follower a
local reply is the same as such an answer; cache_liveness has local replies off,
since the answers from the upstream stand for them.

Symmetry is used in safety runs only.  For liveness, `MCRingCache` starts from
one initial state of each class of states that differ in names only
(`MCInit`): neither `Next` nor the properties depend on names, so a
behaviour from any other initial state is a renaming of one that is checked.
Deadlock is checked for the store; a `RingCache` or `FilterChain` instance may
stop when all its streams have been served.

Fairness.  `RingCache`: a worker goes on with what it has begun and with its
queue, and the upstream goes on answering each leader and each stream without a
key.  It need not answer a follower: those are to be served by their leader.
Requests, teardown, draining and local replies are not fair: nothing forces
them.  Mutex waits need no strong fairness, since the streams of an instance are
finitely many.  `FilterChain`: a worker takes a request along its chain as far
as the filters let it.  `RingStore` has no fairness: that its scan ends is stated as a bound on
its steps (`ScanBounded`), and for the whole system by `MutexReleased`.

The switches `LeaderAborts`, `Trailers` and `LocalReplies` turn behaviours of
Envoy and the upstream on, and `WithBody` is the set of streams whose request
goes on after its headers.  `cache_safety` has all of them on: what it shows
does not depend on the contract "last call has to end the stream"
(README.md:348).  A follower that was answered by Envoy itself or by the
upstream (`Disturbed`) is exempt from what is said about its own response, since
the code does not keep it (cache_local_reply, chain_request_body); what the
others get is not affected.  `cache_liveness` has leader teardown and trailers
off, and only there are followers sure to be served.  In `FilterChain` the
switch `RequestBodies` stands for `WithBody`: any stopped request may go on.
config_sharing has it on.

cache_local_reply shows the shortest way to a call into a destroyed stream.  A
request body is another one: the upstream answers the waiting follower, that
sets `done_`, and `onDestroy` skips the cancellation.  With `LocalReplies = FALSE`
and `WithBody = {s2}` the same instance violates the same property.

A follower with a request body goes to the upstream when decodeData()'s Continue
resumes the stopped iteration.  That, the deferral of stream destruction, weak
entries in the singleton manager and the checks on the host of a request are
facts about Envoy, and marked external.  The last one is `HostsAssumption`: a
host has no '/' in it.  `AnsweredForItsOwnRequest` needs it: without it host `a`
with path `////b` and host `a///` with path `/b` would share a key.

## Proofs

For every set of keys, responses and readers (finitely many), every positive
capacity and slot count, every size function below `SizeModulus`:

* `TypeCorrect`, `MemoryBounded`, `MapConsistent`, `PinsCountReaders`,
  `DropsJustified`: the invariants of store_safety;
* `EntriesInUseStay`: the action property `InUseStays`;
* `Refinement`: `RingStore` implements `BoundedCache`.

All follow from one inductive invariant, `IInv`: the invariants above plus
`RefsLive` (a reader points into an occupied slot exactly while it serves a hit)
and `JobReady` (the key being finalized is not cached; once the first loop is
over, the response fits; the second loop has passed occupied slots only).  They
need each other.  Evicting is safe for readers because a pin count of zero means
that no reader points there; counting is right because nobody points into an
empty slot, so a new entry may start at zero.  The accounting is stated with a
running total over the slots, so that an insertion or an eviction shifts the
total behind its slot and no induction over slots is needed.  That the second
loop stops rightly is the fact that from `start` to `head`, cyclically, all
slots are occupied, and that they are all slots when the head is back.

`RingStoreHistoryProofs`, under the same assumptions:

* `DropsBehindPins`, `FutileEvictions`, `ScansBounded`: the invariants of
  store_safety about whole scans;
* `FirstInFirstOut`: the action property `Fifo`.

Every step of `RingStoreHistory` is one of `RingStore`, so `IInv` carries over.
`ScanInv` adds, for the first loop, that the head has come from `start` to where
it stands, leaving behind only empty slots and entries in use, and that once it
has moved there is room only because a free slot is behind it; so the second loop
has no full turn to make, which is why the bound is two turns less one step and
why an eviction is never in vain but for pins.  `OrderInv` says, as long as no
entry has been spared, that the occupied slots from the oldest entry's slot on
hold the keys in the order of insertion, and that the head is between the
youngest entry and the oldest.  Where an argument would be an induction (a
running total of zeros is zero), the lemma `LeastNatural` takes the least
position where it fails.

`RingCacheProofs`, for any streams (finitely many), workers and keys, any bound
on the chunks, any ring, any setting of the switches and any set of requests with
a body:

* `TypeCorrect`, `LeaderOwns`, `CompleteCached`: invariants of cache_safety;
* `UsesRingStore`: `RingCache` implements `RingStore`, whose theorems carry over;
  the assumptions they rest on are proved for the instance
  (`StoreAssumptions`);
* `InflightLed`: `InflightHasLeader`, assuming `~LeaderAborts` and `~Trailers`,
  the two ways that cache_leader_abort and cache_trailers show to break it.

The inductive invariant, `CInv`, is that of the store with what ties it to the
filters: a stream that points into an entry is a hit for the key of that entry
(`HitInv`); the mutex is held in a finalization by one worker, for the whole
response of a leader that is done and whose key is inflight and led by nobody
else (`LockInv`); a key is cached or inflight and not both (`Exclusive`); only
followers wait or are posted to (`RecipientInv`).  `Exclusive` is what
`BeginFinalize` asks for, and `LockInv` keeps it true when the entry is inserted
steps later.

`RingCacheDeliveryProofs`, about what followers get, for the same constants:

* `WaitersBackfilled`, `FollowersInOrder`: `FullyBackfilled` and
  `CoalescedInOrder`;
* `LastPieceIsLast`: the action property `NothingEncodedAfterEnd`;
* `UntouchedIfOnlyCacheAnswers`: `TornDownStreamsUntouched`, assuming
  `~LocalReplies` and `WithBody = {}`.  Either assumption alone is not enough:
  a follower can be answered behind the cache's back by Envoy or by the upstream.

The invariant, `DInv`, adds three things to `CInv`.  `OwnerInv`: what is inflight
belongs to one leader that is not done, torn down or not, or is being finalized.
`FollowerInv`: a follower is cancelled exactly when it is torn down with `done_`
unset, `done_` tells the end of a response that only the cache has written, and a
callback for a follower is in the queue of its own worker.  `FlowInv`: each
follower that nobody else has answered has a leader such that there is a schedule, a function `g` on the
positions of the follower's queue, with `g[0]` its response now, `g[i]` its
response once `i` callbacks have run, all of them beginnings of what the leader
has got, and `g` at the end of the queue, with what the leader's worker has still
to post to the follower, all of it.  A post makes the schedule one longer, a
callback one shorter, a new piece adds to what is to be posted to those that
wait.  That posts reach a queue in the order of the pieces is the argument that a
worker posts all of a piece before it takes the next (it is not `Idle`), and that
the backfill is posted under the mutex.  A schedule is asked to exist rather than
computed by recursion, so that no induction over the queue is needed;
`QueueRuns` shows, by a least position again, that the recursive function in
`FullyBackfilled` is its last value.  `LastPieceIsLast` needs besides that a
leader that is done has got something (`EndInv`).

`FilterChainProofs`, for any configurations, chains, streams, hosts (without
'/') and paths:

* `KeyInjective`: different requests have different keys;
* `TypeCorrect`, `FragmentsValid`, `OwnResponses`, `OneLeader`: the invariants
  of config_sharing;
* `CacheMadeOnce`: the action property `FirstConfigurationRules`.

The inductive invariant adds to them that there is at most one cache and that the
singleton manager keeps it (`OneCache`), that what is inflight or stored is under
the key of the request it is for (`EntriesKeyed`), that a stream has a request
exactly when it has begun (`RequestsKnown`), that a key is inflight once
(`InflightIsMap`), and that fragments point to stored entries
(`FragmentsStored`).  `OneCache` is what makes equal keys equal entries and keeps
the cache under a fragment; `KeyInjective` turns an entry found under a stream's
key into one fetched for its request.  The key argument is that the first '/' of
a key stands right behind the host, so equal keys have hosts of equal length.
The chains are arbitrary, so these theorems hold for two filters in one chain
too.
`OnlyLeadersWithoutBodies` is `OnlyLeadersAnsweredUpstream` under
`~RequestBodies`: request bodies are all that chain_request_body rests on.  Its
invariant (`StopInv`) is that a request stands at the filter that serves it.

So every invariant and every action property of the passing runs is proved, but
for these, which are model-checked only: the liveness properties `FollowersServed`
and `MutexReleased`, which depend on fairness (`ScansBounded` is what can be
proved of the second: the number of steps for which the mutex is held).  The
properties that a run refutes are proved under the assumption that rules the
counterexample out for `InflightHasLeader`, `TornDownStreamsUntouched` and
`OnlyLeadersAnsweredUpstream`; `FifoUnlessInUse` and `UncachedDoesntEvictOthers`
have their true parts in `FirstInFirstOut` and `FutileEvictions`;
`LeaderAsksUpstream` and, for trailers, `FollowersServed` are about liveness.
All inductive invariants have also been checked by TLC on the instances of the
runs (`FlowInv` with the recursive function in place of its schedule).

## Not modelled

The bytes of headers and bodies; logging, and with it the accessor `capacity()`,
which returns a `uint64_t` as a `uint32_t` and is used in a log line only;
response details strings; HTTP methods and status codes, which neither the key
nor the cache looks at; the memory order of the atomics (pins and flags are
sequentially consistent here: the release on unpin pairs with the acquire in the
scan, and `cancelled` is read and written on one thread); overflow of the 32-bit
pin count; flow control, which the filter does not implement; a limit on inflight
bytes, which does not exist (a spool is as large as its response);
whether Envoy could destroy a stream inside the `encodeHeaders()` of a posted
callback, before the `encodeData()` that follows it (both are one step here);
`encode1xxHeaders` and `encodeMetadata`, which pass everything on, and the
setters of the callbacks; registration of the factory; build files, tests, the
demo server.

## Plan

1. Done: all modules; the proofs about the store, its refinement of
   `BoundedCache`, whole scans and evictions, about the coalescing part, its use
   of the store and what followers get, and about configurations and chains.
2. Left: `UncachedDoesntEvictOthers` and `FifoUnlessInUse` under the assumption
   that nothing is pinned (`Readers` empty), and `RingStore`'s theorems restated for the
   composed system, as far as they add to `UsesRingStore`.
