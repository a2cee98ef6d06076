----------------------- MODULE RingCacheDeliveryProofs -----------------------
(***************************************************************************)
(* Proofs that RingCache delivers a leader's response to its followers:    *)
(* whole, in order, across threads, however late a follower joins, and     *)
(* nothing after the end.                                                  *)
(***************************************************************************)
EXTENDS RingCacheProofs

(* A leader that has not seen the end of its response, torn down or not. *)
Leads(l) == role[l] = "Leader" /\ ~done[l]

(* Whatever is inflight belongs to one such leader, unless it is just being
   finalized, and is what that leader has got from the upstream. *)
OwnerInv ==
    /\ \A l \in Streams : Leads(l) =>
          /\ Inflight(key[l])
          /\ inflight[key[l]].spool = resp[l].items
          /\ ~Unlocked => key[l] # job.key
          /\ \A m \in Streams : Leads(m) /\ key[m] = key[l] => m = l
    /\ \A k \in Keys : Inflight(k) =>
          \/ \E l \in Streams : Leads(l) /\ key[l] = k
          \/ ~Unlocked /\ job.key = k

(* A follower that nobody but its leader answers. *)
Following(f) == role[f] = "Follower" /\ ~Disturbed(f)

(* A follower is registered under its key until it is cancelled, which
   happens when it is torn down before its end; a callback for it sits in the
   queue of its own worker; a hit is under way on an open stream. *)
FollowerInv ==
    /\ \A k \in Keys : Inflight(k) =>
          \A f \in inflight[k].waiters : key[f] = k /\ ~cancelled[f]
    /\ \A w \in Workers : \A i \in DOMAIN queue[w] : on[queue[w][i].to] = w
    /\ \A f \in Streams :
          /\ Following(f) => done[f] = resp[f].ended
          /\ cancelled[f] => life[f] = "destroyed" /\ role[f] = "Follower" /\ ~done[f]
          /\ role[f] = "Follower" /\ life[f] = "destroyed" => done[f] \/ cancelled[f]
          /\ run[on[f]] = [op |-> "hit", stream |-> f] => life[f] = "open"

(* A piece of f's own is among the items. *)
HasPieceOf(f, items) == \E i \in DOMAIN items : items[i][1] = f

(* a is a beginning of b. *)
Begins(a, b) == Len(a) <= Len(b) /\ \A i \in 1 .. Len(a) : a[i] = b[i]

(* A response after a callback has added to it. *)
Then(r, m) == [items |-> r.items \o m.items, ended |-> r.ended \/ m.end]

(* g[i] is the response r to f once the first i callbacks in queue q have run,
   none of them for f after its end. *)
Runs(f, r, q, g) ==
    /\ g \in [0 .. Len(q) -> Response]
    /\ g[0] = r
    /\ \A i \in 1 .. Len(q) :
          IF q[i].to = f THEN ~g[i - 1].ended /\ g[i] = Then(g[i - 1], q[i])
          ELSE g[i] = g[i - 1]

(* h is g with one more callback, m, at the end of the queue. *)
Longer(f, r, q, m, g, h) ==
    /\ Runs(f, r, Append(q, m), h)
    /\ \A i \in 0 .. Len(q) : h[i] = g[i]
    /\ h[Len(q) + 1] = IF m.to = f THEN Then(g[Len(q)], m) ELSE g[Len(q)]

(* h is g once the first callback in the queue has run. *)
Shorter(f, q, g, h) ==
    Runs(f, g[1], Tail(q), h) /\ \A i \in 0 .. (Len(q) - 1) : h[i] = g[i + 1]

(* The callbacks in the queue leave the response as it is. *)
Still(f, r, q, g) == Runs(f, r, q, g) /\ \A i \in 0 .. Len(q) : g[i] = r

(* All of these responses begin what a leader has got, and one that has ended
   is all that a leader got that is done. *)
Within(g, n, items, d) ==
    \A i \in 0 .. n :
        /\ Begins(g[i].items, items)
        /\ g[i].ended => d /\ g[i].items = items

BeingPosted(f, w) == Publishing(w) /\ f \in run[w].to

(* What is in f's queue and what l has still to post to f make f's response
   into what l has got. *)
Delivers(f, l, g) ==
    LET n == Len(queue[on[f]])
        w == on[l]
    IN  /\ Runs(f, resp[f], queue[on[f]], g)
        /\ Within(g, n, resp[l].items, done[l])
        /\ BeingPosted(f, w) =>
              /\ ~g[n].ended
              /\ g[n].items \o run[w].items = resp[l].items
              /\ run[w].end = done[l]
        /\ ~BeingPosted(f, w) =>
              g[n].items = resp[l].items /\ g[n].ended = done[l]

Waiting(f) == Inflight(key[f]) /\ f \in inflight[key[f]].waiters
Finalized(k) == ~Unlocked /\ job.key = k

(* l, and nobody else, publishes to f as long as it leads. *)
Serves(f, l) ==
    /\ \A w \in Workers : BeingPosted(f, w) => w = on[l]
    /\ ~done[l] => Waiting(f)
    /\ Waiting(f) => ~done[l] \/ Finalized(key[f])

(* f follows l. *)
Flow(f, l) ==
    /\ role[l] = "Leader" /\ key[l] = key[f]
    /\ cancelled[f] => Begins(resp[f].items, resp[l].items)
    /\ ~cancelled[f] => Serves(f, l) /\ \E g : Delivers(f, l, g)

FlowInv == \A f \in Streams : Following(f) => \E l \in Streams : Flow(f, l)

(* The inductive invariant. *)
DInv == CInv /\ OwnerInv /\ FollowerInv /\ FlowInv

-----------------------------------------------------------------------------
(* Sequences and schedules.                                                *)

(* Begins is a partial order, and a sequence begins what continues it. *)
LEMMA BeginsFacts ==
    ASSUME NEW a \in Seq(Piece), NEW b \in Seq(Piece), NEW c \in Seq(Piece)
    PROVE  /\ Begins(a, a)
           /\ Begins(a, b) /\ Begins(b, c) => Begins(a, c)
           /\ Begins(a, a \o b)
<1>1. Begins(a, a)
  BY DEF Begins
<1>2. Begins(a, b) /\ Begins(b, c) => Begins(a, c)
  BY DEF Begins
<1>3. Begins(a, a \o b)
  BY ConcatProperties DEF Begins
<1> QED
  BY <1>1, <1>2, <1>3

(* A callback adds to a response. *)
LEMMA ThenType ==
    ASSUME NEW r \in Response, NEW m \in Message
    PROVE  /\ Then(r, m) \in Response
           /\ Then(r, m).items = r.items \o m.items
           /\ Then(r, m).ended = (r.ended \/ m.end)
           /\ r.items \in Seq(Piece) /\ m.items \in Seq(Piece)
<1>1. r.items \in Seq(Piece) /\ m.items \in Seq(Piece) /\ r.ended \in BOOLEAN /\ m.end \in BOOLEAN
  BY DEF Response, Message
<1>2. r.items \o m.items \in Seq(Piece)
  BY <1>1, ConcatProperties
<1> QED
  BY <1>1, <1>2 DEF Then, Response

(* One more callback at the end of the queue. *)
LEMMA RunsAppend ==
    ASSUME NEW f, NEW r, NEW q \in Seq(Message), NEW m \in Message, NEW g,
           Runs(f, r, q, g), m.to = f => ~g[Len(q)].ended
    PROVE  \E h : Longer(f, r, q, m, g, h)
<1>1. PICK n \in Nat : n = Len(q)
  OBVIOUS
<1>2. g \in [0 .. n -> Response] /\ g[n] \in Response
  BY <1>1 DEF Runs
<1>3. PICK last \in Response : last = IF m.to = f THEN Then(g[n], m) ELSE g[n]
  BY <1>2, ThenType
<1> DEFINE h == [i \in 0 .. (n + 1) |-> IF i <= n THEN g[i] ELSE last]
<1>4. /\ Len(Append(q, m)) = n + 1
      /\ Append(q, m)[n + 1] = m
      /\ \A i \in 1 .. n : Append(q, m)[i] = q[i]
  BY <1>1, AppendProperties
<1>5. h \in [0 .. (n + 1) -> Response]
  BY <1>2
<1>6. /\ \A i \in 0 .. n : h[i] = g[i]
      /\ h[n + 1] = last
  OBVIOUS
<1> HIDE DEF h
<1>7. ASSUME NEW i \in 1 .. (n + 1)
      PROVE  IF Append(q, m)[i].to = f
             THEN ~h[i - 1].ended /\ h[i] = Then(h[i - 1], Append(q, m)[i])
             ELSE h[i] = h[i - 1]
  <2>1. CASE i = n + 1
    BY <1>1, <1>3, <1>4, <1>6, <2>1
  <2>2. CASE i # n + 1
    <3>1. i \in 1 .. n /\ i - 1 \in 0 .. n /\ i \in 0 .. n
      BY <2>2
    <3> QED
      BY <1>1, <1>4, <1>6, <3>1 DEF Runs
  <2> QED
    BY <2>1, <2>2
<1>8. h[0] = r
  BY <1>6 DEF Runs
<1>9. Runs(f, r, Append(q, m), h)
  BY <1>4, <1>5, <1>7, <1>8 DEF Runs
<1> QED
  BY <1>1, <1>3, <1>6, <1>9 DEF Longer

(* The first callback in the queue has run. *)
LEMMA RunsTail ==
    ASSUME NEW f, NEW r, NEW q \in Seq(Message), q # <<>>, NEW g, Runs(f, r, q, g)
    PROVE  /\ Len(q) \in Nat /\ Len(Tail(q)) = Len(q) - 1
           /\ \E h : Shorter(f, q, g, h)
<1>1. PICK n \in Nat : n + 1 = Len(q)
  <2>1. Len(q) \in Nat /\ Len(q) # 0
    OBVIOUS
  <2>2. Len(q) - 1 \in Nat /\ (Len(q) - 1) + 1 = Len(q)
    BY <2>1
  <2> QED
    BY <2>2
<1>2. Len(Tail(q)) = n /\ \A i \in 1 .. n : Tail(q)[i] = q[i + 1]
  BY <1>1
<1> DEFINE h == [i \in 0 .. n |-> g[i + 1]]
<1>3. h \in [0 .. n -> Response] /\ h[0] = g[1] /\ \A i \in 0 .. n : h[i] = g[i + 1]
  <2>1. g \in [0 .. (n + 1) -> Response]
    BY <1>1 DEF Runs
  <2>2. \A i \in 0 .. n : i + 1 \in 0 .. (n + 1)
    OBVIOUS
  <2>3. \A i \in 0 .. n : g[i + 1] \in Response
    BY <2>1, <2>2
  <2>4. h[0] = g[0 + 1] /\ 0 + 1 = 1
    OBVIOUS
  <2> QED
    BY <2>3, <2>4
<1> HIDE DEF h
<1>4. ASSUME NEW i \in 1 .. n
      PROVE  IF Tail(q)[i].to = f
             THEN ~h[i - 1].ended /\ h[i] = Then(h[i - 1], Tail(q)[i])
             ELSE h[i] = h[i - 1]
  <2>1. i + 1 \in 1 .. Len(q) /\ (i + 1) - 1 = i /\ (i - 1) + 1 = i
        /\ i - 1 \in 0 .. n /\ i \in 0 .. n
    BY <1>1
  <2>2. h[i - 1] = g[i] /\ h[i] = g[i + 1] /\ Tail(q)[i] = q[i + 1]
    BY <1>2, <1>3, <2>1
  <2>3. IF q[i + 1].to = f
        THEN ~g[(i + 1) - 1].ended /\ g[i + 1] = Then(g[(i + 1) - 1], q[i + 1])
        ELSE g[i + 1] = g[(i + 1) - 1]
    BY <2>1 DEF Runs
  <2> QED
    BY <2>1, <2>2, <2>3
<1>5. Runs(f, g[1], Tail(q), h)
  BY <1>2, <1>3, <1>4 DEF Runs
<1>6. Shorter(f, q, g, h)
  BY <1>1, <1>3, <1>5 DEF Shorter
<1> QED
  BY <1>1, <1>2, <1>6

(* Nothing in the queue is for f. *)
LEMMA RunsNothing ==
    ASSUME NEW f, NEW r \in Response, NEW q \in Seq(Message),
           \A i \in DOMAIN q : q[i].to # f
    PROVE  \E g : Still(f, r, q, g)
<1> DEFINE g == [i \in 0 .. Len(q) |-> r]
<1>1. Runs(f, r, q, g)
  BY DEF Runs
<1>2. \A i \in 0 .. Len(q) : g[i] = r
  OBVIOUS
<1> QED
  BY <1>1, <1>2 DEF Still

-----------------------------------------------------------------------------
(* Steps that do not touch a flow.                                         *)

(* f goes on following l if nothing that matters to it changes. *)
LEMMA FlowKept ==
    ASSUME CInv, NEW f \in Streams, NEW l \in Streams, Flow(f, l),
           UNCHANGED <<key, on>>, role'[l] = role[l], done'[l] = done[l],
           resp'[l].items = resp[l].items,
           cancelled'[f] = cancelled[f], resp'[f] = resp[f],
           \/ queue'[on[f]] = queue[on[f]]
           \/ \E m \in Message : m.to # f /\ queue'[on[f]] = Append(queue[on[f]], m),
           \A w \in Workers : /\ BeingPosted(f, w)' <=> BeingPosted(f, w)
                              /\ BeingPosted(f, w) => /\ run'[w].items = run[w].items
                                                      /\ run'[w].end = run[w].end,
           ~done[l] /\ Waiting(f) => Waiting(f)',
           Waiting(f)' => Waiting(f),
           Waiting(f)' /\ Finalized(key[f]) => Finalized(key[f])'
    PROVE  Flow(f, l)'
<1>1. CASE cancelled[f]
  BY <1>1 DEF Flow
<1>2. CASE ~cancelled[f]
  <2>1. Serves(f, l)'
    BY <1>2 DEF Flow, Serves
  <2>2. PICK g : Delivers(f, l, g)
    BY <1>2 DEF Flow
  <2>3. \E h : Delivers(f, l, h)'
    <3>1. on[l] \in Workers
      BY DEF CInv, Types
    <3>2. CASE queue'[on[f]] = queue[on[f]]
      <4>1. Delivers(f, l, g)'
        BY <2>2, <3>1, <3>2 DEF Delivers
      <4> QED
        BY <4>1
    <3>3. ASSUME NEW m \in Message, m.to # f, queue'[on[f]] = Append(queue[on[f]], m)
          PROVE  \E h : Delivers(f, l, h)'
      <4>1. PICK q \in Seq(Message) : q = queue[on[f]]
        BY DEF CInv, Types
      <4>2. PICK n \in Nat : n = Len(q)
        OBVIOUS
      <4>3. /\ Runs(f, resp[f], q, g) /\ Within(g, n, resp[l].items, done[l])
            /\ BeingPosted(f, on[l]) =>
                  /\ ~g[n].ended
                  /\ g[n].items \o run[on[l]].items = resp[l].items
                  /\ run[on[l]].end = done[l]
            /\ ~BeingPosted(f, on[l]) => g[n].items = resp[l].items /\ g[n].ended = done[l]
        BY <2>2, <4>1, <4>2 DEF Delivers
      <4>4. PICK h : /\ Runs(f, resp[f], Append(q, m), h)
                     /\ \A i \in 0 .. n : h[i] = g[i]
                     /\ h[n + 1] = g[n]
        <5>1. m.to = f => ~g[Len(q)].ended
          BY <3>3
        <5>2. PICK h : Longer(f, resp[f], q, m, g, h)
          BY <4>3, <5>1, RunsAppend
        <5> QED
          BY <3>3, <4>2, <5>2 DEF Longer
      <4>5. Within(h, n + 1, resp[l].items, done[l])
        <5>1. ASSUME NEW i \in 0 .. (n + 1)
              PROVE  \E j \in 0 .. n : h[i] = g[j]
          BY <4>2, <4>4
        <5>2. ASSUME NEW i \in 0 .. (n + 1)
              PROVE  /\ Begins(h[i].items, resp[l].items)
                     /\ h[i].ended => done[l] /\ h[i].items = resp[l].items
          <6>1. PICK j \in 0 .. n : h[i] = g[j]
            BY <5>1
          <6>2. /\ Begins(g[j].items, resp[l].items)
                /\ g[j].ended => done[l] /\ g[j].items = resp[l].items
            BY <4>3 DEF Within
          <6> QED
            BY <6>1, <6>2
        <5> QED
          BY <5>2 DEF Within
      <4>6. Len(Append(q, m)) = n + 1
        BY <4>2
      <4>7. Delivers(f, l, h)'
        BY <3>1, <3>3, <4>1, <4>3, <4>4, <4>5, <4>6 DEF Delivers
      <4> QED
        BY <4>7
    <3> QED
      BY <3>2, <3>3
  <2> QED
    BY <1>2, <2>1, <2>3 DEF Flow
<1> QED
  BY <1>1, <1>2

(* Ownership is kept by steps that leave the leaders alone. *)
LEMMA OwnerKept ==
    ASSUME OwnerInv, UNCHANGED key,
           \A l \in Streams : /\ Leads(l)' <=> Leads(l)
                              /\ Leads(l) => resp'[l].items = resp[l].items /\ key[l] \in Keys,
           \A k \in Keys : /\ (inflight'[k] # NoEntry) <=> Inflight(k)
                           /\ Inflight(k) => inflight'[k].spool = inflight[k].spool,
           Unlocked' <=> Unlocked, ~Unlocked => job' = job
    PROVE  OwnerInv'
BY DEF OwnerInv, Inflight

(* A leader's or a follower's key is one. *)
LEMMA KeyFacts ==
    ASSUME CInv
    PROVE  /\ \A l \in Streams : Leads(l) => key[l] \in Keys
           /\ \A f \in Streams : role[f] \in {"Leader", "Follower"} => key[f] \in Keys
           /\ \A w \in Workers : \A f \in Streams : BeingPosted(f, w) => role[f] = "Follower"
           /\ \A f \in Streams : on[f] \in Workers
<1>1. \A f \in Streams : role[f] \in {"Leader", "Follower"} => key[f] \in Keys
  BY DEF CInv, StreamInv, Types
<1>2. \A w \in Workers : \A f \in Streams : BeingPosted(f, w) => role[f] = "Follower"
  BY DEF CInv, RecipientInv, BeingPosted
<1> QED
  BY <1>1, <1>2 DEF Leads, CInv, Types

(* A step that leaves leaders, followers, queues and publishers alone. *)
LEMMA QuietStep ==
    ASSUME DInv, UNCHANGED <<key, on, queue, cancelled, inflight>>,
           Unlocked' <=> Unlocked, ~Unlocked => job' = job,
           \A t \in Streams :
              \/ role'[t] = role[t]
              \/ role[t] = "Unset" /\ role'[t] = "Cached",
           \A t \in Streams : role[t] = "Leader" =>
              done'[t] = done[t] /\ resp'[t].items = resp[t].items,
           \A t \in Streams : role[t] = "Follower" =>
              done'[t] = done[t] /\ resp'[t] = resp[t] /\ life'[t] = life[t],
           \A w \in Workers : run'[w] = run[w] \/ (~Publishing(w) /\ ~Publishing(w)'),
           \A t \in Streams :
              run'[on[t]] = [op |-> "hit", stream |-> t] => life'[t] = "open"
    PROVE  OwnerInv' /\ FollowerInv' /\ FlowInv'
<1>1. OwnerInv'
  <2>1. \A l \in Streams : /\ Leads(l)' <=> Leads(l)
                           /\ Leads(l) => resp'[l].items = resp[l].items /\ key[l] \in Keys
    BY KeyFacts DEF Leads, DInv
  <2> QED
    BY <2>1, OwnerKept DEF DInv, Inflight
<1>2. FollowerInv'
  <2>1. \A f \in Streams : Following(f)' => Following(f)
    BY DEF Following, Disturbed
  <2> QED
    BY <2>1 DEF DInv, FollowerInv, Following, Inflight
<1>3. ASSUME NEW f \in Streams, Following(f)'
      PROVE  \E l \in Streams : Flow(f, l)'
  <2>1. Following(f) /\ resp'[f] = resp[f]
    BY <1>3 DEF Following, Disturbed
  <2>2. PICK l \in Streams : Flow(f, l)
    BY <2>1 DEF DInv, FlowInv
  <2>3. role'[l] = role[l] /\ done'[l] = done[l] /\ resp'[l].items = resp[l].items
    BY <2>2 DEF Flow
  <2>4. \A w \in Workers : /\ BeingPosted(f, w)' <=> BeingPosted(f, w)
                           /\ BeingPosted(f, w) => /\ run'[w].items = run[w].items
                                                   /\ run'[w].end = run[w].end
    BY DEF BeingPosted, Publishing
  <2>5. (Waiting(f)' <=> Waiting(f)) /\ (Finalized(key[f]) => Finalized(key[f])')
    BY DEF Waiting, Finalized, Inflight
  <2> QED
    BY <2>1, <2>2, <2>3, <2>4, <2>5, FlowKept DEF DInv
<1> QED
  BY <1>1, <1>2, <1>3 DEF FlowInv

(* Requests that go to the cache or past it. *)
LEMMA QuietRequests ==
    ASSUME DInv, NEW s \in Streams, Bypass(s) \/ LookupCached(s)
    PROVE  OwnerInv' /\ FollowerInv' /\ FlowInv'
<1>1. /\ life[s] = "new" /\ role[s] = "Unset" /\ run[on[s]] = Idle /\ on[s] \in Workers
      /\ life' = [life EXCEPT ![s] = "open"]
  BY DEF Bypass, LookupCached, Arrives, DInv, CInv, StreamInv, Types
<1>2. /\ life'[s] = "open"
      /\ \A t \in Streams : t # s => life'[t] = life[t]
  BY <1>1 DEF DInv, CInv, Types
<1>3. /\ UNCHANGED <<key, on, queue, cancelled, inflight, done, resp>>
      /\ scan' = scan /\ job' = job
  BY DEF Bypass, LookupCached, Store!LookupHit, filter, store
<1>4. \A t \in Streams : role'[t] = role[t] \/ (role[t] = "Unset" /\ role'[t] = "Cached")
  BY <1>1 DEF Bypass, LookupCached, filter, DInv, CInv, Types
<1>5. \A w \in Workers :
         \/ run'[w] = run[w]
         \/ w = on[s] /\ run'[w] = [op |-> "hit", stream |-> s]
  BY DEF Bypass, LookupCached, DInv, CInv, Types
<1>6. \A w \in Workers : run'[w] = run[w] \/ (~Publishing(w) /\ ~Publishing(w)')
  BY <1>1, <1>5 DEF Publishing, Idle
<1>7. ASSUME NEW t \in Streams, run'[on[t]] = [op |-> "hit", stream |-> t]
      PROVE  life'[t] = "open"
  <2>1. CASE t = s
    BY <1>2, <2>1
  <2>2. CASE t # s
    <3>1. [op |-> "hit", stream |-> t] # [op |-> "hit", stream |-> s]
      BY <2>2
    <3>2. run'[on[t]] = run[on[t]]
      BY <1>5, <1>7, <3>1, KeyFacts DEF DInv
    <3> QED
      BY <1>2, <1>7, <2>2, <3>2 DEF DInv, FollowerInv
  <2> QED
    BY <2>1, <2>2
<1> QED
  BY <1>1, <1>2, <1>3, <1>4, <1>6, <1>7, QuietStep DEF Unlocked

(* Hits, trailers and the scan. *)
LEMMA QuietSteps ==
    ASSUME DInv,
           \/ UNCHANGED vars
           \/ \E s \in Streams : \/ ServeCached(s) \/ DrainCached(s)
                                 \/ EncodeTrailers(s) /\ Primary(s)
           \/ \E w \in Workers : FinalizeStep(w)
    PROVE  OwnerInv' /\ FollowerInv' /\ FlowInv'
<1>1. UNCHANGED <<key, on, queue, cancelled, inflight, role, life>>
  BY DEF vars, filter, ServeCached, DrainCached, EncodeTrailers, FinalizeStep
<1>2. (Unlocked' <=> Unlocked) /\ (~Unlocked => job' = job)
  BY DEF vars, store, ServeCached, DrainCached, EncodeTrailers, FinalizeStep, Unlocked,
         Store!ServeHit, Store!Drain, Store!ScanStep, Store!RoomFound, Store!SlotTaken
<1>3. \A w \in Workers : run'[w] = run[w] \/ (~Publishing(w) /\ ~Publishing(w)')
  <2>1. CASE UNCHANGED run
    BY <2>1
  <2>2. CASE \E s \in Streams : ServeCached(s)
    BY <2>2 DEF ServeCached, Publishing, Idle, DInv, CInv, Types
  <2> QED
    BY <2>1, <2>2 DEF vars, DrainCached, EncodeTrailers, FinalizeStep
<1>4. \A t \in Streams : run'[on[t]] = [op |-> "hit", stream |-> t] => life'[t] = "open"
  <2>1. CASE UNCHANGED run
    BY <1>1, <2>1 DEF DInv, FollowerInv
  <2>2. ASSUME NEW s \in Streams, ServeCached(s)
        PROVE  \A t \in Streams : run'[on[t]] = [op |-> "hit", stream |-> t] =>
                  life'[t] = "open"
    <3>1. \A w \in Workers : run'[w] = run[w] \/ run'[w] = Idle
      BY <2>2 DEF ServeCached, DInv, CInv, Types
    <3>2. \A t \in Streams : [op |-> "hit", stream |-> t] # Idle
      BY DEF Idle
    <3> QED
      BY <1>1, <3>1, <3>2, KeyFacts DEF DInv, FollowerInv
  <2> QED
    BY <2>1, <2>2 DEF vars, DrainCached, EncodeTrailers, FinalizeStep
<1>5. /\ \A t \in Streams : role[t] = "Leader" =>
            done'[t] = done[t] /\ resp'[t].items = resp[t].items
      /\ \A t \in Streams : role[t] = "Follower" => done'[t] = done[t] /\ resp'[t] = resp[t]
  <2>1. CASE UNCHANGED <<done, resp>>
    BY <2>1
  <2>2. ASSUME NEW s \in Streams, ServeCached(s)
        PROVE  \A t \in Streams : role[t] \in {"Leader", "Follower"} =>
                  done'[t] = done[t] /\ resp'[t] = resp[t]
    <3>1. role[s] = "Cached"
      BY <2>2, StoreFacts DEF ServeCached, Store!ServeHit, HitInv, DInv, CInv
    <3> QED
      BY <2>2, <3>1 DEF ServeCached, Encode, DInv, CInv, Types
  <2>3. ASSUME NEW s \in Streams, EncodeTrailers(s), Primary(s)
        PROVE  /\ done' = done
               /\ \A t \in Streams : /\ role[t] = "Leader" => resp'[t].items = resp[t].items
                                     /\ role[t] = "Follower" => resp'[t] = resp[t]
    <3>1. role[s] # "Follower"
      BY <2>3 DEF Primary, DInv, CInv, StreamInv
    <3>2. <<>> \in Seq(Piece) /\ TRUE \in BOOLEAN /\ Types
      BY DEF DInv, CInv
    <3>3. /\ resp'[s].items = resp[s].items \o <<>>
          /\ \A t \in Streams : t # s => resp'[t] = resp[t]
      BY <2>3, <3>2, EncodeEffect DEF EncodeTrailers
    <3>4. resp[s].items \in Seq(Piece)
      BY <3>2 DEF Types, Response
    <3>5. resp'[s].items = resp[s].items
      BY <3>3, <3>4
    <3> QED
      BY <2>3, <3>1, <3>3, <3>5 DEF EncodeTrailers, filter
  <2> QED
    BY <2>1, <2>2, <2>3 DEF vars, filter, DrainCached, FinalizeStep
<1> QED
  BY <1>1, <1>2, <1>3, <1>4, <1>5, QuietStep

-----------------------------------------------------------------------------
(* Leaders and followers come.                                             *)

(* A new leader owns what it puts in inflight_map_ and has no followers. *)
LEMMA LookupLeaderDInv ==
    ASSUME DInv, NEW s \in Streams, LookupLeader(s)
    PROVE  OwnerInv' /\ FollowerInv' /\ FlowInv'
<1> USE DEF DInv
<1>1. PICK k \in Keys : k = key[s]
  BY DEF LookupLeader, Arrives, CInv, StreamInv, Types
<1>2. /\ life[s] = "new" /\ role[s] = "Unset" /\ ~done[s] /\ resp[s] = NoResponse
      /\ Unlocked /\ inflight[k] = NoEntry
      /\ inflight' = [inflight EXCEPT ![k] = [spool |-> <<>>, waiters |-> {}]]
      /\ UNCHANGED <<store, cancelled, key, done, on, resp, queue, run>>
  BY <1>1 DEF LookupLeader, Arrives, CInv, StreamInv, Absent, Inflight
<1>3. /\ role'[s] = "Leader" /\ \A t \in Streams : t # s => role'[t] = role[t]
      /\ life'[s] = "open" /\ \A t \in Streams : t # s => life'[t] = life[t]
  BY DEF LookupLeader, Arrives, CInv, Types
<1>4. [spool |-> <<>>, waiters |-> {}] # NoEntry
  <2>1. [spool |-> <<>>, waiters |-> {}] \in InflightResponse
    BY DEF InflightResponse
  <2> QED
    BY <2>1, NoEntryAssumption
<1>5. /\ inflight'[k] = [spool |-> <<>>, waiters |-> {}]
      /\ inflight'[k].spool = <<>> /\ inflight'[k].waiters = {} /\ inflight'[k] # NoEntry
      /\ \A m \in Keys : m # k => inflight'[m] = inflight[m]
  BY <1>2, <1>4 DEF CInv, Types
<1>6. \A l \in Streams : /\ Leads(l)' <=> (Leads(l) \/ l = s)
                         /\ Leads(l) => l # s /\ key[l] \in Keys /\ key[l] # k
  BY <1>2, <1>3, KeyFacts DEF Leads, OwnerInv, Inflight
<1>7. OwnerInv'
  <2>1. \A l \in Streams : Leads(l) =>
           /\ inflight'[key[l]] # NoEntry /\ inflight'[key[l]].spool = resp[l].items
           /\ \A m \in Streams : Leads(m) /\ key[m] = key[l] => m = l
    BY <1>5, <1>6 DEF OwnerInv, Inflight
  <2>2. \A m \in Keys : inflight'[m] # NoEntry =>
           m = k \/ \E l \in Streams : Leads(l) /\ key[l] = m
    BY <1>2, <1>5 DEF OwnerInv, Inflight
  <2> QED
    BY <1>1, <1>2, <1>5, <1>6, <2>1, <2>2
    DEF OwnerInv, Inflight, Unlocked, store, NoResponse
<1>8. FollowerInv'
  <2>1. \A f \in Streams : Following(f)' => Following(f)
    BY <1>2, <1>3 DEF Following, Disturbed
  <2> QED
    BY <1>2, <1>3, <1>5, <2>1 DEF FollowerInv, Inflight
<1>9. ASSUME NEW f \in Streams, Following(f)'
      PROVE  \E l \in Streams : Flow(f, l)'
  <2>1. f # s /\ Following(f) /\ key[f] \in Keys
    BY <1>2, <1>3, <1>9, KeyFacts DEF Following, Disturbed
  <2>2. PICK l \in Streams : Flow(f, l)
    BY <2>1 DEF FlowInv
  <2>3. role'[l] = role[l]
    BY <1>2, <1>3, <2>2 DEF Flow
  <2>4. \A w \in Workers : BeingPosted(f, w)' <=> BeingPosted(f, w)
    BY <1>2 DEF BeingPosted, Publishing
  <2>5. Waiting(f)' <=> Waiting(f)
    BY <1>2, <1>5, <2>1 DEF Waiting, Inflight
  <2>6. ~Finalized(key[f])
    BY <1>2 DEF Finalized
  <2> QED
    BY <1>2, <2>2, <2>3, <2>4, <2>5, <2>6, FlowKept
<1> QED
  BY <1>7, <1>8, <1>9 DEF FlowInv

(* A new follower gets a backfill of all that its leader has got so far, and
   is registered with it. *)
LEMMA LookupFollowerDInv ==
    ASSUME DInv, NEW s \in Streams, LookupFollower(s)
    PROVE  OwnerInv' /\ FollowerInv' /\ FlowInv'
<1> USE DEF DInv
<1>1. PICK k \in Keys : k = key[s]
  BY DEF LookupFollower, Arrives, CInv, StreamInv, Types
<1>2. /\ life[s] = "new" /\ role[s] = "Unset" /\ ~done[s] /\ resp[s] = NoResponse
      /\ Unlocked /\ Inflight(k)
      /\ inflight' = [inflight EXCEPT ![k].waiters = @ \cup {s}]
      /\ Backfill(s, inflight[k].spool)
      /\ UNCHANGED <<store, cancelled, key, done, on, resp, run>>
  BY <1>1 DEF LookupFollower, Arrives, CInv, StreamInv
<1>3. /\ role'[s] = "Follower" /\ \A t \in Streams : t # s => role'[t] = role[t]
      /\ life'[s] = "open" /\ \A t \in Streams : t # s => life'[t] = life[t]
  BY DEF LookupFollower, Arrives, CInv, Types
<1>4. /\ inflight'[k] # NoEntry
      /\ inflight'[k].spool = inflight[k].spool
      /\ inflight'[k].waiters = inflight[k].waiters \cup {s}
      /\ \A m \in Keys : m # k => inflight'[m] = inflight[m]
  BY <1>2, AddWaiterEffect, InflightFacts DEF CInv
<1>5. PICK l \in Streams : Leads(l) /\ key[l] = k /\ inflight[k].spool = resp[l].items
  BY <1>2 DEF OwnerInv
<1>6. PICK spool \in Seq(Piece) : spool = resp[l].items
  BY DEF CInv, Types, Response
<1>7. PICK m \in Message : m = [to |-> s, items |-> spool, end |-> FALSE]
  BY DEF Message
<1>8. m.to = s /\ m.items = spool /\ m.end = FALSE
  BY <1>7
<1>9. PICK q \in Seq(Message) : q = queue[on[s]]
  BY DEF CInv, Types
<1>10. on[s] \in Workers
  BY KeyFacts
<1>11. /\ \/ spool = <<>> /\ queue'[on[s]] = q
          \/ spool # <<>> /\ queue'[on[s]] = Append(q, m)
       /\ \A w \in Workers : w # on[s] => queue'[w] = queue[w]
  <2>1. \/ spool = <<>> /\ queue' = queue
        \/ spool # <<>> /\ queue' = [queue EXCEPT ![on[s]] = Append(q, m)]
    BY <1>2, <1>5, <1>6, <1>7, <1>9 DEF Backfill, Posted
  <2> QED
    BY <1>9, <1>10, <2>1 DEF CInv, Types
<1>12. OwnerInv'
  <2>1. \A t \in Streams : Leads(t)' <=> Leads(t)
    BY <1>2, <1>3 DEF Leads
  <2>2. \A kk \in Keys : /\ (inflight'[kk] # NoEntry) <=> Inflight(kk)
                         /\ Inflight(kk) => inflight'[kk].spool = inflight[kk].spool
    BY <1>2, <1>4 DEF Inflight
  <2> QED
    BY <1>2, <2>1, <2>2, KeyFacts, OwnerKept DEF Unlocked, store
<1>13. FollowerInv'
  <2>1. ~cancelled[s]
    BY <1>2 DEF FollowerInv
  <2>2. \A kk \in Keys : inflight'[kk] # NoEntry =>
           \A f \in inflight'[kk].waiters : key[f] = kk /\ ~cancelled[f]
    BY <1>1, <1>2, <1>4, <2>1 DEF FollowerInv, Inflight
  <2>3. \A w \in Workers : \A i \in DOMAIN queue'[w] : on[queue'[w][i].to] = w
    <3>1. \A i \in DOMAIN Append(q, m) :
             (i \in DOMAIN q /\ Append(q, m)[i] = q[i]) \/ Append(q, m)[i] = m
      BY AppendProperties
    <3>2. \A w \in Workers : \A i \in DOMAIN queue[w] : on[queue[w][i].to] = w
      BY DEF FollowerInv
    <3>3. \A i \in DOMAIN queue'[on[s]] : on[queue'[on[s]][i].to] = on[s]
      <4>1. \A i \in DOMAIN q : on[q[i].to] = on[s]
        BY <1>9, <1>10, <3>2
      <4> QED
        BY <1>8, <1>11, <3>1, <4>1
    <3>4. \A w \in Workers : w # on[s] => \A i \in DOMAIN queue'[w] : on[queue'[w][i].to] = w
      BY <1>11, <3>2
    <3> QED
      BY <3>3, <3>4
  <2>4. done[s] = resp[s].ended
    <3>1. done[s] = FALSE
      BY <1>2 DEF CInv, Types
    <3>2. resp[s].ended = FALSE
      BY <1>2 DEF NoResponse
    <3> QED
      BY <3>1, <3>2
  <2>5. \A f \in Streams : Following(f)' => f = s \/ Following(f)
    BY <1>2, <1>3 DEF Following, Disturbed
  <2> QED
    BY <1>2, <1>3, <2>1, <2>2, <2>3, <2>4, <2>5 DEF FollowerInv, Inflight
<1>14. ASSUME NEW f \in Streams, Following(f)', f # s
       PROVE  \E t \in Streams : Flow(f, t)'
  <2>1. Following(f) /\ key[f] \in Keys
    BY <1>2, <1>3, <1>14, KeyFacts DEF Following, Disturbed
  <2>2. PICK t \in Streams : Flow(f, t)
    BY <2>1 DEF FlowInv
  <2>3. role'[t] = role[t]
    BY <1>2, <1>3, <2>2 DEF Flow
  <2>4. \A w \in Workers : BeingPosted(f, w)' <=> BeingPosted(f, w)
    BY <1>2 DEF BeingPosted, Publishing
  <2>5. Waiting(f)' <=> Waiting(f)
    BY <1>2, <1>4, <1>14, <2>1 DEF Waiting, Inflight
  <2>6. ~Finalized(key[f])
    BY <1>2 DEF Finalized
  <2>7. \/ queue'[on[f]] = queue[on[f]]
        \/ m.to # f /\ queue'[on[f]] = Append(queue[on[f]], m)
    BY <1>8, <1>9, <1>11, <1>14, KeyFacts
  <2> QED
    BY <1>2, <2>2, <2>3, <2>4, <2>5, <2>6, <2>7, FlowKept
<1>15. Flow(s, l)'
  <2>1. ~cancelled'[s] /\ role'[l] = "Leader" /\ key'[l] = key'[s] /\ on'[l] \in Workers
    BY <1>1, <1>2, <1>3, <1>5, KeyFacts DEF FollowerInv, Leads
  <2>2. \A w \in Workers : ~BeingPosted(s, w)'
    BY <1>2, KeyFacts DEF BeingPosted, Publishing
  <2>3. Waiting(s)' /\ ~done'[l] /\ done'[l] = FALSE
    BY <1>1, <1>2, <1>4, <1>5 DEF Waiting, Inflight, Leads, CInv, Types
  <2>4. Serves(s, l)'
    BY <2>1, <2>2, <2>3 DEF Serves
  <2>5. PICK r \in Response : r = NoResponse
    <3>1. NoResponse \in Response
      BY DEF NoResponse, Response
    <3> QED
      BY <3>1
  <2>6. r.items = <<>> /\ ~r.ended /\ r.ended = FALSE
    BY <2>5 DEF NoResponse
  <2>7. \A i \in DOMAIN q : q[i].to # s
    BY <1>2, <1>9, <1>10 DEF CInv, RecipientInv
  <2>8. PICK g : Runs(s, r, q, g) /\ \A i \in 0 .. Len(q) : g[i] = r
    <3>1. PICK g : Still(s, r, q, g)
      BY <2>7, RunsNothing
    <3> QED
      BY <3>1 DEF Still
  <2>9. Begins(<<>>, spool)
    BY DEF Begins
  <2>10. \E h : Delivers(s, l, h)'
    <3>1. CASE spool = <<>> /\ queue'[on[s]] = q
      <4>1. Within(g, Len(q), spool, done'[l])
        BY <2>6, <2>8, <2>9 DEF Within
      <4>2. g[Len(q)] = r
        BY <2>8
      <4>3. Delivers(s, l, g)'
        BY <1>2, <1>6, <2>1, <2>2, <2>3, <2>5, <2>6, <2>8, <3>1, <4>1, <4>2 DEF Delivers
      <4> QED
        BY <4>3
    <3>2. CASE spool # <<>> /\ queue'[on[s]] = Append(q, m)
      <4>1. PICK n \in Nat : n = Len(q)
        OBVIOUS
      <4>2. ~g[Len(q)].ended
        BY <2>6, <2>8
      <4>3. PICK h : Longer(s, r, q, m, g, h)
        BY <2>8, <4>2, RunsAppend
      <4>4. /\ Runs(s, r, Append(q, m), h) /\ h[n + 1] = Then(r, m)
            /\ \A i \in 0 .. n : h[i] = r
        BY <1>8, <2>8, <4>1, <4>3 DEF Longer
      <4>5. Then(r, m).items = spool /\ Then(r, m).ended = FALSE
        <5>1. /\ Then(r, m).items = r.items \o m.items
              /\ Then(r, m).ended = (r.ended \/ m.end)
          BY ThenType
        <5>2. <<>> \o spool = spool
          OBVIOUS
        <5> QED
          BY <1>8, <2>6, <5>1, <5>2
      <4>6. Begins(spool, spool)
        BY BeginsFacts
      <4>7. ASSUME NEW i \in 0 .. (n + 1)
            PROVE  /\ Begins(h[i].items, spool)
                   /\ h[i].ended => done'[l] /\ h[i].items = spool
        <5>1. CASE i = n + 1
          BY <4>4, <4>5, <4>6, <5>1
        <5>2. CASE i # n + 1
          BY <2>6, <2>9, <4>4, <5>2
        <5> QED
          BY <5>1, <5>2
      <4>8. Within(h, n + 1, spool, done'[l])
        BY <4>7 DEF Within
      <4>9. Len(Append(q, m)) = n + 1
        BY <4>1
      <4>10. Delivers(s, l, h)'
        BY <1>2, <1>6, <2>1, <2>2, <2>3, <2>5, <3>2, <4>4, <4>5, <4>8, <4>9 DEF Delivers
      <4> QED
        BY <4>10
    <3> QED
      BY <1>11, <3>1, <3>2
  <2> QED
    BY <2>1, <2>4, <2>10 DEF Flow
<1> QED
  BY <1>12, <1>13, <1>14, <1>15 DEF FlowInv

-----------------------------------------------------------------------------
(* The upstream.                                                           *)

(* What a leader gets goes to all that follow it and to nobody else. *)
LEMMA UpstreamPieceDInv ==
    ASSUME DInv, NEW s \in Streams, NEW items, NEW end \in BOOLEAN,
           UpstreamPiece(s, items, end)
    PROVE  OwnerInv' /\ FollowerInv' /\ FlowInv'
<1> USE DEF DInv
<1>1. PICK new \in Seq(Piece) : new = resp[s].items \o items
  BY DEF UpstreamPiece
<1>2. /\ AwaitsUpstream(s) /\ items \in Seq(Piece)
      /\ NoteEnd(s, end) /\ Encode(s, items, end)
      /\ UNCHANGED <<cancelled, key, role, on, life, queue>>
  BY <1>1 DEF UpstreamPiece
<1>3. /\ on[s] \in Workers /\ life[s] = "open" /\ run[on[s]] = Idle
      /\ role[s] \in {"Leader", "Unset"} /\ ~resp[s].ended
      /\ role[s] = "Leader" => ~done[s]
  BY <1>2 DEF UpstreamPiece, Primary, AwaitsUpstream, Ready, CInv, StreamInv, Types
<1>4. /\ resp'[s].items = new /\ resp'[s].ended = end
      /\ \A t \in Streams : t # s => resp'[t] = resp[t]
  BY <1>1, <1>2, <1>3, EncodeEffect DEF CInv
<1>5. /\ done' \in [Streams -> BOOLEAN] /\ done'[s] = (done[s] \/ end)
      /\ \A t \in Streams : t # s => done'[t] = done[t]
  BY <1>2, NoteEndEffect DEF CInv
<1>6. CASE role[s] # "Leader"
  <2>1. UNCHANGED <<store, inflight, run>>
    BY <1>6 DEF UpstreamPiece
  <2>2. \A t \in Streams : run'[on[t]] = [op |-> "hit", stream |-> t] => life'[t] = "open"
    BY <1>2, <2>1 DEF FollowerInv
  <2> HIDE DEF DInv
  <2> QED
    BY <1>2, <1>3, <1>4, <1>5, <1>6, <2>1, <2>2, QuietStep DEF Unlocked, store
<1>7. CASE role[s] = "Leader"
  <2>1. PICK k \in Keys : k = key[s]
    BY <1>7, KeyFacts
  <2>2. PICK to \in SUBSET Streams : to = inflight[k].waiters
    <3>1. Inflight(k)
      BY <1>7, <2>1 DEF UpstreamPiece
    <3> QED
      BY <3>1, InflightFacts DEF CInv
  <2>3. /\ Unlocked /\ Inflight(k)
        /\ inflight'[k] \in InflightResponse
        /\ inflight'[k].spool = resp[s].items \o items
        /\ \A m \in Keys : m # k => inflight'[m] = inflight[m]
    BY <1>1, <1>7, <2>1, PublishEffect
  <2>4. /\ inflight'[k].waiters = to
        /\ \A w \in Workers : w # on[s] => run'[w] = run[w]
        /\ run'[on[s]] = IF end
                         THEN [op |-> "finalize", items |-> items, end |-> end, to |-> to]
                         ELSE Posting(items, end, to)
    <3>1. inflight'[key[s]].waiters = inflight[key[s]].waiters
      BY <1>1, <1>7, PublishEffect
    <3>2. \A w \in Workers : w # on[s] => run'[w] = run[w]
      BY <1>1, <1>7, PublishEffect
    <3>3. run'[on[s]] = IF end
                        THEN [op |-> "finalize", items |-> items, end |-> end,
                              to |-> inflight[key[s]].waiters]
                        ELSE Posting(items, end, inflight[key[s]].waiters)
      BY <1>1, <1>7, PublishEffect
    <3> QED
      BY <2>1, <2>2, <3>1, <3>2, <3>3
  <2>5. /\ end => Store!BeginFinalize(k, new)
        /\ ~end => UNCHANGED store
    BY <1>1, <1>7, <2>1, PublishEffect
  <2>6. inflight'[k] # NoEntry /\ inflight'[k].spool = new
    BY <1>1, <2>3, NoEntryAssumption
  <2>7. /\ end => scan' # "unlocked" /\ job'.key = k
        /\ ~end => scan' = "unlocked"
    BY <2>3, <2>5 DEF Store!BeginFinalize, store, Unlocked
  <2>8. /\ to # {} => /\ run'[on[s]].op \in {"finalize", "post"}
                      /\ run'[on[s]].to = to
                      /\ run'[on[s]].items = items
                      /\ run'[on[s]].end = end
        /\ run'[on[s]].op \in {"finalize", "post"} => run'[on[s]].to = to
        /\ run'[on[s]].op # "hit"
    BY <2>4 DEF Posting, Idle
  <2>9. \A l \in Streams : /\ Leads(l)' <=> (Leads(l) /\ (l # s \/ ~end))
                           /\ Leads(l) /\ key[l] = k => l = s
    BY <1>2, <1>3, <1>5, <1>7, <2>1 DEF Leads, OwnerInv
  <2>10. OwnerInv'
    <3>1. ASSUME NEW l \in Streams, Leads(l)'
          PROVE  /\ inflight'[key[l]] # NoEntry
                 /\ inflight'[key[l]].spool = resp'[l].items
                 /\ scan' # "unlocked" => key[l] # job'.key
      <4>1. CASE l = s
        BY <1>4, <2>1, <2>6, <2>7, <2>9, <3>1, <4>1
      <4>2. CASE l # s
        <5>1. Leads(l) /\ key[l] # k /\ key[l] \in Keys
          BY <2>9, <3>1, <4>2, KeyFacts
        <5> QED
          BY <1>4, <2>3, <2>7, <4>2, <5>1 DEF OwnerInv, Inflight
      <4> QED
        BY <4>1, <4>2
    <3>2. ASSUME NEW m \in Keys, inflight'[m] # NoEntry
          PROVE  \/ \E l \in Streams : Leads(l)' /\ key[l] = m
                 \/ scan' # "unlocked" /\ job'.key = m
      <4>1. CASE m = k
        <5>1. end \/ Leads(s)'
          BY <1>3, <1>7, <2>9 DEF Leads
        <5> QED
          BY <2>1, <2>7, <4>1, <5>1
      <4>2. CASE m # k
        <5>1. PICK l \in Streams : Leads(l) /\ key[l] = m
          BY <2>3, <3>2, <4>2 DEF OwnerInv, Inflight
        <5> QED
          BY <2>1, <2>9, <4>2, <5>1
      <4> QED
        BY <4>1, <4>2
    <3>3. \A l, m \in Streams : Leads(l)' /\ Leads(m)' /\ key[m] = key[l] => m = l
      BY <2>9 DEF OwnerInv
    <3> QED
      BY <1>2, <3>1, <3>2, <3>3 DEF OwnerInv, Inflight, Unlocked
  <2>11. FollowerInv'
    <3>1. \A m \in Keys : inflight'[m] # NoEntry =>
             \A f \in inflight'[m].waiters : key[f] = m /\ ~cancelled[f]
      BY <2>2, <2>3, <2>4 DEF FollowerInv, Inflight
    <3>2. \A t \in Streams : run'[on[t]] = [op |-> "hit", stream |-> t] => life[t] = "open"
      <4>1. \A t \in Streams : run'[on[t]] = [op |-> "hit", stream |-> t] =>
               run'[on[t]] = run[on[t]]
        BY <2>4, <2>8, KeyFacts
      <4> QED
        BY <4>1 DEF FollowerInv
    <3>3. \A f \in Streams : Following(f)' => f # s /\ Following(f)
      BY <1>2, <1>3, <1>4 DEF Following, Disturbed
    <3> QED
      BY <1>2, <1>3, <1>4, <1>5, <3>1, <3>2, <3>3 DEF FollowerInv, Inflight
  <2>12. ASSUME NEW f \in Streams, Following(f)'
         PROVE  \E l \in Streams : Flow(f, l)'
    <3>1. f # s /\ Following(f) /\ key[f] \in Keys /\ resp'[f] = resp[f]
      BY <1>2, <1>4, <1>7, <2>12, KeyFacts DEF Following, Disturbed
    <3>2. PICK l \in Streams : Flow(f, l)
      BY <3>1 DEF FlowInv
    <3>3. Waiting(f)' <=> Waiting(f)
      BY <1>2, <2>2, <2>3, <2>4, <2>6, <3>1 DEF Waiting, Inflight
    <3>4. CASE cancelled[f]
      <4>1. resp[f].items \in Seq(Piece) /\ resp[l].items \in Seq(Piece)
            /\ resp'[l].items \in Seq(Piece) /\ Begins(resp[l].items, resp'[l].items)
        <5>1. resp[f].items \in Seq(Piece) /\ resp[l].items \in Seq(Piece)
              /\ resp[s].items \in Seq(Piece)
          BY DEF CInv, Types, Response
        <5>2. CASE l = s
          BY <1>1, <1>2, <1>4, <5>1, <5>2, BeginsFacts
        <5>3. CASE l # s
          BY <1>4, <5>1, <5>3, BeginsFacts
        <5> QED
          BY <5>1, <5>2, <5>3
      <4>2. Begins(resp[f].items, resp'[l].items)
        BY <3>2, <3>4, <4>1, BeginsFacts DEF Flow
      <4> QED
        BY <1>2, <3>1, <3>2, <3>4, <4>2 DEF Flow
    <3>5. CASE ~cancelled[f] /\ l # s
      <4>1. Serves(f, l) /\ key[l] = key[f] /\ role[l] = "Leader"
        BY <3>2, <3>5 DEF Flow
      <4>2. f \notin to
        <5>1. f \in to => key[f] = k /\ Waiting(f)
          BY <2>2, <2>3 DEF FollowerInv, Waiting
        <5>2. Waiting(f) => ~done[l]
          BY <2>3, <4>1 DEF Serves, Finalized
        <5> QED
          BY <2>9, <3>5, <4>1, <5>1, <5>2 DEF Leads
      <4>3. \A w \in Workers : /\ BeingPosted(f, w)' <=> BeingPosted(f, w)
                               /\ BeingPosted(f, w) => run'[w] = run[w]
        BY <1>3, <2>4, <2>8, <4>2 DEF BeingPosted, Publishing, Idle
      <4>4. ~Finalized(key[f])
        BY <2>3 DEF Finalized
      <4> QED
        BY <1>2, <1>4, <1>5, <3>1, <3>2, <3>3, <3>5, <4>3, <4>4, FlowKept
    <3>6. CASE ~cancelled[f] /\ l = s
      <4>1. PICK g : Delivers(f, s, g)
        BY <3>2, <3>6 DEF Flow
      <4>2. Serves(f, s) /\ key[f] = k
        BY <2>1, <3>2, <3>6 DEF Flow
      <4>3. Waiting(f) /\ f \in to
        BY <1>3, <1>7, <2>2, <4>2 DEF Serves, Waiting
      <4>4. ~BeingPosted(f, on[s])
        BY <1>3 DEF BeingPosted, Publishing, Idle
      <4>5. PICK n \in Nat : n = Len(queue[on[f]])
        BY DEF CInv, Types
      <4>6. /\ Runs(f, resp[f], queue[on[f]], g)
            /\ Within(g, n, resp[s].items, done[s])
            /\ g[n].items = resp[s].items /\ g[n].ended = done[s]
        BY <4>1, <4>4, <4>5 DEF Delivers
      <4>7. /\ BeingPosted(f, on[s])' /\ run'[on[s]].items = items
            /\ run'[on[s]].end = done'[s]
        BY <1>2, <1>3, <1>5, <1>7, <2>8, <4>3 DEF BeingPosted, Publishing
      <4>8. \A w \in Workers : BeingPosted(f, w)' => w = on[s]
        BY <2>4, <4>2 DEF BeingPosted, Publishing, Serves
      <4>9. Serves(f, s)'
        <5>1. ~end => ~done'[s]
          BY <1>3, <1>5, <1>7
        <5>2. end => Finalized(key[f])'
          BY <1>2, <2>7, <4>2 DEF Finalized, Unlocked
        <5> QED
          BY <1>2, <3>3, <4>3, <4>8, <5>1, <5>2 DEF Serves
      <4>10. Within(g, n, new, done'[s])
        <5>1. ASSUME NEW i \in 0 .. n
              PROVE  Begins(g[i].items, new) /\ ~g[i].ended
          <6>1. g[i] \in Response
            BY <4>5, <4>6 DEF Runs
          <6>2. g[i].items \in Seq(Piece) /\ resp[s].items \in Seq(Piece)
            BY <6>1 DEF Response, CInv, Types
          <6>3. Begins(g[i].items, resp[s].items) /\ ~g[i].ended
            BY <1>3, <1>7, <4>6 DEF Within
          <6>4. Begins(resp[s].items, new)
            BY <1>1, <1>2, <6>2, BeginsFacts
          <6> QED
            BY <6>2, <6>3, <6>4, BeginsFacts
        <5> QED
          BY <5>1 DEF Within
      <4>11. Delivers(f, s, g)'
        BY <1>1, <1>2, <1>3, <1>4, <1>7, <3>1, <4>5, <4>6, <4>7, <4>10 DEF Delivers
      <4>12. Flow(f, s)'
        BY <1>2, <3>2, <3>6, <4>9, <4>11 DEF Flow
      <4> QED
        BY <4>12
    <3> QED
      BY <3>4, <3>5, <3>6
  <2> QED
    BY <2>10, <2>11, <2>12 DEF FlowInv
<1> QED
  BY <1>6, <1>7

-----------------------------------------------------------------------------
(* Finalization and posting.                                               *)

(* A response that is no longer inflight is still posted to the snapshot. *)
LEMMA FinalizeEndDInv ==
    ASSUME DInv, NEW w \in Workers, FinalizeEnd(w)
    PROVE  OwnerInv' /\ FollowerInv' /\ FlowInv'
<1> USE DEF DInv
<1>1. /\ run[w].op = "finalize"
      /\ Store!InsertEntry \/ Store!Drop
      /\ inflight' = [inflight EXCEPT ![job.key] = NoEntry]
      /\ run' = [run EXCEPT ![w] = Posting(run[w].items, run[w].end, run[w].to)]
      /\ UNCHANGED <<cancelled, key, role, done, on, life, resp, queue>>
  BY DEF FinalizeEnd, EraseInflight, filter
<1>2. ~Unlocked /\ Unlocked'
  BY <1>1 DEF Store!InsertEntry, Store!Drop, Unlocked
<1>3. PICK k \in Keys : k = job.key
  BY <1>2, StoreFacts DEF CInv, Store!Entry
<1>4. inflight'[k] = NoEntry /\ \A m \in Keys : m # k => inflight'[m] = inflight[m]
  BY <1>1, <1>3 DEF CInv, Types
<1>5. /\ run'[w] = Posting(run[w].items, run[w].end, run[w].to)
      /\ \A v \in Workers : v # w => run'[v] = run[v]
  BY <1>1 DEF CInv, Types
<1>6. /\ run[w].to # {} => /\ run'[w].op = "post" /\ run'[w].to = run[w].to
                           /\ run'[w].items = run[w].items
                           /\ run'[w].end = run[w].end
      /\ run[w].to = {} => run'[w].op = "idle"
  BY <1>5 DEF Posting, Idle
<1>7. OwnerInv'
  <2>1. \A l \in Streams : Leads(l) => key[l] # k /\ key[l] \in Keys
    BY <1>2, <1>3, KeyFacts DEF OwnerInv
  <2> QED
    BY <1>1, <1>2, <1>3, <1>4, <2>1 DEF OwnerInv, Leads, Inflight
<1>8. FollowerInv'
  <2>1. \A t \in Streams : run'[on[t]] = [op |-> "hit", stream |-> t] => life[t] = "open"
    <3>1. \A t \in Streams : run'[on[t]] = [op |-> "hit", stream |-> t] =>
             run'[on[t]] = run[on[t]]
      BY <1>5, <1>6, KeyFacts
    <3> QED
      BY <3>1 DEF FollowerInv
  <2>2. \A f \in Streams : Following(f)' => Following(f)
    BY <1>1 DEF Following, Disturbed
  <2> QED
    BY <1>1, <1>4, <2>1, <2>2 DEF FollowerInv, Inflight
<1>9. ASSUME NEW f \in Streams, Following(f)'
      PROVE  \E l \in Streams : Flow(f, l)'
  <2>1. Following(f) /\ key[f] \in Keys
    BY <1>1, <1>9, KeyFacts DEF Following, Disturbed
  <2>2. PICK l \in Streams : Flow(f, l)
    BY <2>1 DEF FlowInv
  <2>3. \A v \in Workers : /\ BeingPosted(f, v)' <=> BeingPosted(f, v)
                           /\ BeingPosted(f, v) => /\ run'[v].items = run[v].items
                                                   /\ run'[v].end = run[v].end
    BY <1>1, <1>5, <1>6 DEF BeingPosted, Publishing
  <2>4. Waiting(f)' <=> (Waiting(f) /\ key[f] # k)
    BY <1>1, <1>4, <2>1 DEF Waiting, Inflight
  <2>5. ~done[l] => key[f] # k
    BY <1>2, <1>3, <2>2 DEF Flow, OwnerInv, Leads
  <2>6. Finalized(key[f]) => key[f] = k
    BY <1>3 DEF Finalized
  <2> QED
    BY <1>1, <2>2, <2>3, <2>4, <2>5, <2>6, FlowKept
<1> QED
  BY <1>7, <1>8, <1>9 DEF FlowInv

(* A post moves what is left for one follower to the end of its queue. *)
LEMMA PostDInv ==
    ASSUME DInv, NEW w \in Workers, Post(w)
    PROVE  OwnerInv' /\ FollowerInv' /\ FlowInv'
<1> USE DEF DInv
<1>1. run[w].op = "post" /\ Publishing(w)
  BY DEF Post, Publishing
<1>2. run[w] \in Busy /\ run[w].to \subseteq Streams
  BY <1>1, RecipientTypes DEF CInv
<1>3. PICK f \in run[w].to :
         /\ Posted(on[f], [to |-> f, items |-> run[w].items, end |-> run[w].end])
         /\ run' = [run EXCEPT ![w] = Posting(run[w].items, run[w].end, run[w].to \ {f})]
  BY DEF Post
<1>4. UNCHANGED <<store, inflight, cancelled, key, role, done, on, life, resp>>
  BY DEF Post, filter
<1>5. f \in Streams /\ BeingPosted(f, w) /\ on[f] \in Workers
  BY <1>1, <1>2, <1>3, KeyFacts DEF BeingPosted
<1>6. PICK m \in Message : m = [to |-> f, items |-> run[w].items, end |-> run[w].end]
  BY <1>2, <1>5 DEF Message, Busy
<1>7. m.to = f /\ m.items = run[w].items /\ m.end = run[w].end
  BY <1>6
<1>8. PICK q \in Seq(Message) : q = queue[on[f]]
  BY <1>5 DEF CInv, Types
<1>9. /\ queue'[on[f]] = Append(q, m)
      /\ \A v \in Workers : v # on[f] => queue'[v] = queue[v]
  BY <1>3, <1>5, <1>6, <1>8 DEF Posted, CInv, Types
<1>10. /\ run'[w] = Posting(run[w].items, run[w].end, run[w].to \ {f})
       /\ \A v \in Workers : v # w => run'[v] = run[v]
  BY <1>3 DEF CInv, Types
<1>11. /\ run[w].to \ {f} # {} => /\ run'[w].op = "post" /\ run'[w].to = run[w].to \ {f}
                                  /\ run'[w].items = run[w].items
                                  /\ run'[w].end = run[w].end
       /\ run[w].to \ {f} = {} => run'[w].op = "idle"
  BY <1>10 DEF Posting, Idle
<1>12. OwnerInv'
  BY <1>4 DEF OwnerInv, Leads, Inflight, Unlocked, store
<1>13. FollowerInv'
  <2>1. \A t \in Streams : run'[on[t]] = [op |-> "hit", stream |-> t] => life[t] = "open"
    <3>1. \A t \in Streams : run'[on[t]] = [op |-> "hit", stream |-> t] =>
             run'[on[t]] = run[on[t]]
      BY <1>10, <1>11, KeyFacts
    <3> QED
      BY <3>1 DEF FollowerInv
  <2>2. \A v \in Workers : \A i \in DOMAIN queue'[v] : on[queue'[v][i].to] = v
    <3>1. \A i \in DOMAIN Append(q, m) :
             (i \in DOMAIN q /\ Append(q, m)[i] = q[i]) \/ Append(q, m)[i] = m
      BY AppendProperties
    <3>2. \A i \in DOMAIN q : on[q[i].to] = on[f]
      BY <1>5, <1>8 DEF FollowerInv
    <3>3. \A i \in DOMAIN queue'[on[f]] : on[queue'[on[f]][i].to] = on[f]
      BY <1>7, <1>9, <3>1, <3>2
    <3>4. \A v \in Workers : v # on[f] => \A i \in DOMAIN queue'[v] : on[queue'[v][i].to] = v
      BY <1>9 DEF FollowerInv
    <3> QED
      BY <3>3, <3>4
  <2>3. \A g \in Streams : Following(g)' => Following(g)
    BY <1>4 DEF Following, Disturbed
  <2> QED
    BY <1>4, <2>1, <2>2, <2>3 DEF FollowerInv, Inflight
<1>14. \A g \in Streams : (Following(g)' <=> Following(g)) /\ (Waiting(g)' <=> Waiting(g))
          /\ (Finalized(key[g])' <=> Finalized(key[g]))
  BY <1>4 DEF Following, Disturbed, Waiting, Inflight, Finalized, Unlocked, store
<1>15. ASSUME NEW g \in Streams, Following(g)', g # f
       PROVE  \E l \in Streams : Flow(g, l)'
  <2>1. PICK l \in Streams : Flow(g, l)
    BY <1>14, <1>15 DEF FlowInv
  <2>2. \A v \in Workers : /\ BeingPosted(g, v)' <=> BeingPosted(g, v)
                           /\ BeingPosted(g, v) => /\ run'[v].items = run[v].items
                                                   /\ run'[v].end = run[v].end
    BY <1>1, <1>10, <1>11, <1>15 DEF BeingPosted, Publishing
  <2>3. \/ queue'[on[g]] = queue[on[g]]
        \/ m.to # g /\ queue'[on[g]] = Append(queue[on[g]], m)
    BY <1>7, <1>8, <1>9, <1>15, KeyFacts
  <2> QED
    BY <1>4, <1>14, <2>1, <2>2, <2>3, FlowKept
<1>16. ASSUME Following(f)'
       PROVE  \E l \in Streams : Flow(f, l)'
  <2>1. PICK l \in Streams : Flow(f, l)
    BY <1>5, <1>14, <1>16 DEF FlowInv
  <2>2. CASE cancelled[f]
    BY <1>4, <2>1, <2>2 DEF Flow
  <2>3. CASE ~cancelled[f]
    <3>1. PICK g : Delivers(f, l, g)
      BY <2>1, <2>3 DEF Flow
    <3>2. Serves(f, l) /\ w = on[l]
      BY <1>5, <2>1, <2>3 DEF Flow, Serves
    <3>3. \A v \in Workers : ~BeingPosted(f, v)'
      BY <1>10, <1>11, <3>2 DEF BeingPosted, Publishing, Serves
    <3>4. Serves(f, l)'
      BY <1>4, <1>5, <1>14, <3>2, <3>3 DEF Serves
    <3>5. PICK n \in Nat : n = Len(q)
      OBVIOUS
    <3>6. /\ Runs(f, resp[f], q, g) /\ Within(g, n, resp[l].items, done[l])
          /\ ~g[n].ended /\ g[n].items \o m.items = resp[l].items /\ m.end = done[l]
      BY <1>5, <1>7, <1>8, <3>1, <3>2, <3>5 DEF Delivers
    <3>7. PICK h : Longer(f, resp[f], q, m, g, h)
      BY <3>5, <3>6, RunsAppend
    <3>8. /\ Runs(f, resp[f], Append(q, m), h) /\ h[n + 1] = Then(g[n], m)
          /\ \A i \in 0 .. n : h[i] = g[i]
      BY <1>7, <3>5, <3>7 DEF Longer
    <3>9. h[n + 1].items = resp[l].items /\ h[n + 1].ended = done[l]
      <4>1. g[n] \in Response
        BY <3>5, <3>6 DEF Runs
      <4>2. /\ Then(g[n], m).items = g[n].items \o m.items
            /\ Then(g[n], m).ended = (g[n].ended \/ m.end)
        BY <4>1, ThenType
      <4>3. m.end \in BOOLEAN
        BY DEF Message
      <4> QED
        BY <3>6, <3>8, <4>2, <4>3
    <3>10. Begins(resp[l].items, resp[l].items)
      BY DEF Begins, CInv, Types, Response
    <3>11. ASSUME NEW i \in 0 .. (n + 1)
           PROVE  /\ Begins(h[i].items, resp[l].items)
                  /\ h[i].ended => done[l] /\ h[i].items = resp[l].items
      <4>1. CASE i = n + 1
        BY <3>9, <3>10, <4>1
      <4>2. CASE i # n + 1
        <5>1. i \in 0 .. n /\ h[i] = g[i]
          BY <3>8, <4>2
        <5> QED
          BY <3>6, <5>1 DEF Within
      <4> QED
        BY <4>1, <4>2
    <3>12. Within(h, n + 1, resp[l].items, done[l])
      BY <3>11 DEF Within
    <3>13. Len(Append(q, m)) = n + 1
      BY <3>5
    <3>14. Delivers(f, l, h)'
      BY <1>4, <1>9, <3>2, <3>3, <3>8, <3>9, <3>12, <3>13 DEF Delivers
    <3>15. Flow(f, l)'
      BY <1>4, <2>1, <2>3, <3>4, <3>14 DEF Flow
    <3> QED
      BY <3>15
  <2> QED
    BY <2>2, <2>3
<1> QED
  BY <1>12, <1>13, <1>15, <1>16 DEF FlowInv

-----------------------------------------------------------------------------
(* Callbacks, replies and teardowns.                                       *)

(* What a callback changes. *)
LEMMA CallbackFacts ==
    ASSUME DInv, NEW w \in Workers, RunCallback(w), NEW m, m = Head(queue[w])
    PROVE  /\ m \in Message /\ m.to \in Streams /\ role[m.to] = "Follower" /\ on[m.to] = w
           /\ queue[w] \in Seq(Message) /\ queue[w] # <<>>
           /\ m = queue[w][1] /\ 1 \in 1 .. Len(queue[w])
           /\ queue'[w] = Tail(queue[w])
           /\ \A v \in Workers : v # w => queue'[v] = queue[v]
           /\ \A t \in Streams : t # m.to => resp'[t] = resp[t] /\ done'[t] = done[t]
           /\ cancelled[m.to] => resp'[m.to] = resp[m.to] /\ done'[m.to] = done[m.to]
           /\ ~cancelled[m.to] => /\ resp'[m.to] = Then(resp[m.to], m)
                                  /\ done'[m.to] = (done[m.to] \/ m.end)
<1> USE DEF DInv
<1>1. /\ queue[w] # <<>>
      /\ queue' = [queue EXCEPT ![w] = Tail(queue[w])]
  BY DEF RunCallback
<1>2. queue \in [Workers -> Seq(Message)] /\ queue[w] \in Seq(Message)
  BY DEF CInv, Types
<1>3. m = queue[w][1] /\ 1 \in DOMAIN queue[w] /\ 1 \in 1 .. Len(queue[w]) /\ m \in Message
  BY <1>1, <1>2
<1>4. m.to \in Streams /\ role[m.to] = "Follower" /\ on[m.to] = w
  BY <1>3 DEF Message, CInv, RecipientInv, FollowerInv
<1>5. queue'[w] = Tail(queue[w]) /\ \A v \in Workers : v # w => queue'[v] = queue[v]
  BY <1>1, <1>2
<1>6. CASE cancelled[m.to]
  <2>1. UNCHANGED <<resp, done>>
    BY <1>6 DEF RunCallback
  <2> QED
    BY <1>1, <1>2, <1>3, <1>4, <1>5, <1>6, <2>1
<1>7. CASE ~cancelled[m.to]
  <2>1. Encode(m.to, m.items, m.end) /\ NoteEnd(m.to, m.end)
    BY <1>7 DEF RunCallback
  <2>2. m.items \in Seq(Piece) /\ m.end \in BOOLEAN
    BY <1>3 DEF Message
  <2>3. /\ resp'[m.to] = Then(resp[m.to], m)
        /\ \A t \in Streams : t # m.to => resp'[t] = resp[t]
    <3>1. /\ resp'[m.to] = [items |-> resp[m.to].items \o m.items,
                            ended |-> resp[m.to].ended \/ m.end]
          /\ \A t \in Streams : t # m.to => resp'[t] = resp[t]
      <4>1. PICK f \in Streams, items \in Seq(Piece), end \in BOOLEAN :
               f = m.to /\ items = m.items /\ end = m.end
        BY <1>4, <2>2
      <4>2. Types /\ Encode(f, items, end)
        BY <2>1, <4>1 DEF CInv
      <4>3. /\ resp'[f] = [items |-> resp[f].items \o items,
                           ended |-> resp[f].ended \/ end]
            /\ \A t \in Streams : t # f => resp'[t] = resp[t]
        BY <4>2, EncodeEffect
      <4> QED
        BY <4>1, <4>3
    <3> QED
      BY <3>1 DEF Then
  <2>4. /\ done'[m.to] = (done[m.to] \/ m.end)
        /\ \A t \in Streams : t # m.to => done'[t] = done[t]
    BY <1>4, <2>1, <2>2, NoteEndEffect DEF CInv
  <2> QED
    BY <1>1, <1>2, <1>3, <1>4, <1>5, <1>7, <2>3, <2>4
<1> QED
  BY <1>6, <1>7

(* A response that something has been added to is as disturbed as before. *)
LEMMA StaysDisturbed ==
    ASSUME NEW f, NEW r \in Response, NEW m \in Message, HasPieceOf(f, r.items)
    PROVE  HasPieceOf(f, Then(r, m).items)
<1>1. /\ Then(r, m).items = r.items \o m.items
      /\ r.items \in Seq(Piece) /\ m.items \in Seq(Piece)
  BY ThenType
<1>2. PICK a \in Seq(Piece), b \in Seq(Piece) : a = r.items /\ b = m.items
  BY <1>1
<1>3. PICK i \in 1 .. Len(a) : a[i][1] = f
  BY <1>2 DEF HasPieceOf
<1>4. /\ Len(a \o b) = Len(a) + Len(b) /\ a \o b \in Seq(Piece)
      /\ (a \o b)[i] = a[i]
  BY <1>3, ConcatProperties
<1>5. i \in DOMAIN (a \o b)
  BY <1>3, <1>4
<1> QED
  BY <1>1, <1>2, <1>3, <1>4, <1>5 DEF HasPieceOf

(* A callback brings one follower to where its schedule says. *)
LEMMA RunCallbackDInv ==
    ASSUME DInv, NEW w \in Workers, RunCallback(w)
    PROVE  OwnerInv' /\ FollowerInv' /\ FlowInv'
<1> USE DEF DInv
<1>1. PICK m : m = Head(queue[w])
  OBVIOUS
<1>2. /\ m \in Message /\ m.to \in Streams /\ role[m.to] = "Follower" /\ on[m.to] = w
      /\ queue[w] \in Seq(Message) /\ queue[w] # <<>>
      /\ m = queue[w][1] /\ 1 \in 1 .. Len(queue[w])
      /\ queue'[w] = Tail(queue[w])
      /\ \A v \in Workers : v # w => queue'[v] = queue[v]
  BY <1>1, CallbackFacts
<1>3. /\ \A t \in Streams : t # m.to => resp'[t] = resp[t] /\ done'[t] = done[t]
      /\ cancelled[m.to] => resp'[m.to] = resp[m.to] /\ done'[m.to] = done[m.to]
      /\ ~cancelled[m.to] => /\ resp'[m.to] = Then(resp[m.to], m)
                             /\ done'[m.to] = (done[m.to] \/ m.end)
  BY <1>1, CallbackFacts
<1>4. UNCHANGED <<store, inflight, cancelled, key, role, on, life, run>>
  BY DEF RunCallback
<1>5. PICK q \in Seq(Message) : q = queue[w]
  BY <1>2
<1>6. resp[m.to] \in Response
  BY <1>2 DEF CInv, Types
<1>7. OwnerInv'
  <2>1. \A l \in Streams : role[l] = "Leader" => resp'[l] = resp[l] /\ done'[l] = done[l]
    BY <1>2, <1>3
  <2> QED
    BY <1>4, <2>1 DEF OwnerInv, Leads, Inflight, Unlocked, store
<1>8. ASSUME NEW f \in Streams, Following(f)'
      PROVE  Following(f)
  <2>1. role[f] = "Follower"
    BY <1>4, <1>8 DEF Following
  <2>2. CASE f = m.to /\ ~cancelled[f]
    <3>1. resp'[f] = Then(resp[f], m)
      BY <1>3, <2>2
    <3>2. ~HasPieceOf(f, resp'[f].items)
      BY <1>4, <1>8, <2>1 DEF Following, Disturbed, HasPieceOf
    <3>3. ~HasPieceOf(f, resp[f].items)
      BY <1>2, <1>6, <2>2, <3>1, <3>2, StaysDisturbed
    <3> QED
      BY <2>1, <3>3 DEF Following, Disturbed, HasPieceOf
  <2>3. CASE f # m.to \/ cancelled[f]
    BY <1>3, <1>4, <1>8, <2>1, <2>3 DEF Following, Disturbed
  <2> QED
    BY <2>2, <2>3
<1>9. FollowerInv'
  <2>1. \A v \in Workers : \A i \in DOMAIN queue'[v] : on[queue'[v][i].to] = v
    <3>1. \A i \in DOMAIN Tail(q) : i + 1 \in DOMAIN q /\ Tail(q)[i] = q[i + 1]
      BY <1>2, <1>5
    <3>2. \A i \in DOMAIN q : on[q[i].to] = w
      BY <1>5 DEF FollowerInv
    <3>3. \A i \in DOMAIN queue'[w] : on[queue'[w][i].to] = w
      BY <1>2, <1>5, <3>1, <3>2
    <3>4. \A v \in Workers : v # w => \A i \in DOMAIN queue'[v] : on[queue'[v][i].to] = v
      BY <1>2 DEF FollowerInv
    <3> QED
      BY <3>3, <3>4
  <2>2. ASSUME NEW f \in Streams, Following(f)'
        PROVE  done'[f] = resp'[f].ended
    <3>1. Then(resp[m.to], m).ended = (resp[m.to].ended \/ m.end)
      BY <1>2, <1>6, ThenType
    <3>2. done[f] = resp[f].ended
      BY <1>8, <2>2 DEF FollowerInv
    <3>3. CASE f = m.to /\ ~cancelled[f]
      BY <1>3, <3>1, <3>2, <3>3
    <3>4. CASE f # m.to \/ cancelled[f]
      BY <1>3, <3>2, <3>4
    <3> QED
      BY <3>3, <3>4
  <2>3. \A f \in Streams : cancelled[f] => done'[f] = done[f]
    BY <1>3
  <2>4. \A f \in Streams : done[f] => done'[f]
    BY <1>3
  <2> QED
    BY <1>4, <2>1, <2>2, <2>3, <2>4 DEF FollowerInv, Inflight
<1>10. ASSUME NEW f \in Streams, Following(f)'
       PROVE  \E l \in Streams : Flow(f, l)'
  <2>1. Following(f) /\ role[f] = "Follower"
    BY <1>8, <1>10 DEF Following
  <2>2. PICK l \in Streams : Flow(f, l)
    BY <2>1 DEF FlowInv
  <2>3. /\ role[l] = "Leader" /\ l # m.to
        /\ resp'[l] = resp[l] /\ done'[l] = done[l]
    BY <1>2, <1>3, <2>2 DEF Flow
  <2>4. /\ \A v \in Workers : BeingPosted(f, v)' <=> BeingPosted(f, v)
        /\ Waiting(f)' <=> Waiting(f)
        /\ Finalized(key[f])' <=> Finalized(key[f])
    BY <1>4 DEF BeingPosted, Publishing, Waiting, Inflight, Finalized, Unlocked, store
  <2>5. CASE cancelled[f]
    <3>1. resp'[f] = resp[f]
      BY <1>3, <2>5
    <3> QED
      BY <1>4, <2>2, <2>3, <2>5, <3>1 DEF Flow
  <2>6. CASE ~cancelled[f] /\ on[f] # w
    <3>1. f # m.to /\ resp'[f] = resp[f] /\ queue'[on[f]] = queue[on[f]]
      BY <1>2, <1>3, <2>6, KeyFacts
    <3> QED
      BY <1>4, <2>2, <2>3, <2>4, <3>1, FlowKept
  <2>7. CASE ~cancelled[f] /\ on[f] = w
    <3>1. PICK g : Delivers(f, l, g)
      BY <2>2, <2>7 DEF Flow
    <3>2. Serves(f, l)'
      BY <1>4, <2>2, <2>3, <2>4, <2>7 DEF Flow, Serves
    <3>3. on[l] \in Workers
      BY KeyFacts
    <3>4. PICK n \in Nat : n + 1 = Len(q)
      <4>1. Len(q) \in Nat /\ Len(q) # 0
        BY <1>2, <1>5
      <4>2. Len(q) - 1 \in Nat /\ (Len(q) - 1) + 1 = Len(q)
        BY <4>1
      <4> QED
        BY <4>2
    <3>5. /\ Runs(f, resp[f], q, g) /\ Within(g, n + 1, resp[l].items, done[l])
          /\ BeingPosted(f, on[l]) =>
                /\ ~g[n + 1].ended
                /\ g[n + 1].items \o run[on[l]].items = resp[l].items
                /\ run[on[l]].end = done[l]
          /\ ~BeingPosted(f, on[l]) =>
                g[n + 1].items = resp[l].items /\ g[n + 1].ended = done[l]
      BY <1>5, <2>7, <3>1, <3>4 DEF Delivers
    <3>6. PICK h : Shorter(f, q, g, h)
      BY <1>2, <1>5, <3>5, RunsTail
    <3>7. /\ Runs(f, g[1], Tail(q), h) /\ \A i \in 0 .. n : h[i] = g[i + 1]
          /\ Len(Tail(q)) = n
      BY <1>2, <1>5, <3>4, <3>6 DEF Shorter
    <3>8. g[1] = resp'[f]
      <4>1. 1 - 1 = 0 /\ 1 \in 1 .. Len(q) /\ g[0] = resp[f]
        BY <1>2, <1>5, <3>5 DEF Runs
      <4>2. IF q[1].to = f THEN g[1] = Then(g[1 - 1], q[1]) ELSE g[1] = g[1 - 1]
        BY <3>5, <4>1 DEF Runs
      <4> QED
        BY <1>2, <1>3, <1>5, <2>7, <4>1, <4>2
    <3>9. Within(h, n, resp[l].items, done[l])
      <4>1. ASSUME NEW i \in 0 .. n
            PROVE  /\ Begins(h[i].items, resp[l].items)
                   /\ h[i].ended => done[l] /\ h[i].items = resp[l].items
        <5>1. i + 1 \in 0 .. (n + 1) /\ h[i] = g[i + 1]
          BY <3>7
        <5> QED
          BY <3>5, <5>1 DEF Within
      <4> QED
        BY <4>1 DEF Within
    <3>10. h[n] = g[n + 1]
      BY <3>7
    <3>11. Delivers(f, l, h)'
      BY <1>2, <1>4, <1>5, <2>3, <2>4, <2>7, <3>3, <3>5, <3>7, <3>8, <3>9, <3>10
      DEF Delivers
    <3>12. Flow(f, l)'
      BY <1>4, <2>2, <2>3, <2>7, <3>2, <3>11 DEF Flow
    <3> QED
      BY <3>12
  <2> QED
    BY <2>5, <2>6, <2>7
<1> QED
  BY <1>7, <1>9, <1>10 DEF FlowInv

(* A follower that somebody else has answered is not followed any further. *)
LEMMA OtherAnswerDInv ==
    ASSUME DInv, NEW s \in Streams, OtherAnswer(s)
    PROVE  OwnerInv' /\ FollowerInv' /\ FlowInv'
<1> USE DEF DInv
<1>1. /\ role[s] = "Follower" /\ Ready(s) /\ Disturbed(s)'
      /\ UNCHANGED <<store, inflight, cancelled, key, role, on, life, queue, run>>
  BY DEF OtherAnswer
<1>2. PICK items \in Seq(Piece), end \in BOOLEAN, noted \in BOOLEAN :
         Encode(s, items, end) /\ NoteEnd(s, noted)
  BY DEF OtherAnswer
<1>5. \A t \in Streams : t # s => resp'[t] = resp[t]
  BY <1>2, EncodeEffect DEF CInv
<1>6. \A t \in Streams : t # s => done'[t] = done[t]
  BY <1>2, NoteEndEffect DEF CInv
<1>7. OwnerInv'
  <2>1. \A l \in Streams : role[l] = "Leader" => resp'[l] = resp[l] /\ done'[l] = done[l]
    BY <1>1, <1>5, <1>6
  <2> QED
    BY <1>1, <2>1 DEF OwnerInv, Leads, Inflight, Unlocked, store
<1>8. FollowerInv'
  <2>1. life[s] = "open" /\ ~cancelled[s]
    BY <1>1 DEF Ready, FollowerInv
  <2>2. \A f \in Streams : Following(f)' => f # s /\ Following(f)
    BY <1>1, <1>5 DEF Following, Disturbed
  <2> QED
    BY <1>1, <1>5, <1>6, <2>1, <2>2 DEF FollowerInv, Inflight
<1>10. ASSUME NEW f \in Streams, Following(f)'
       PROVE  \E l \in Streams : Flow(f, l)'
  <2>1. f # s
    BY <1>1, <1>10 DEF Following
  <2>2. Following(f) /\ resp'[f] = resp[f]
    BY <1>1, <1>5, <1>10, <2>1 DEF Following, Disturbed
  <2>3. PICK l \in Streams : Flow(f, l)
    BY <2>2 DEF FlowInv
  <2>4. resp'[l] = resp[l] /\ done'[l] = done[l]
    BY <1>1, <1>5, <1>6, <2>3 DEF Flow
  <2>5. /\ \A v \in Workers : BeingPosted(f, v)' <=> BeingPosted(f, v)
        /\ Waiting(f)' <=> Waiting(f)
        /\ Finalized(key[f])' <=> Finalized(key[f])
    BY <1>1 DEF BeingPosted, Publishing, Waiting, Inflight, Finalized, Unlocked, store
  <2> QED
    BY <1>1, <2>2, <2>3, <2>4, <2>5, FlowKept
<1> QED
  BY <1>7, <1>8, <1>10 DEF FlowInv

(* A follower torn down before its end is cancelled; nobody else notices. *)
LEMMA DestroyDInv ==
    ASSUME DInv, NEW s \in Streams, Destroy(s)
    PROVE  OwnerInv' /\ FollowerInv' /\ FlowInv'
<1> USE DEF DInv
<1>1. /\ life'[s] = "destroyed" /\ \A t \in Streams : t # s => life'[t] = life[t]
      /\ Ready(s)
      /\ UNCHANGED <<store, key, role, done, on, resp, queue, run>>
  BY DEF Destroy, filter, CInv, Types
<1>2. \/ role[s] = "Follower" /\ ~done[s] /\ CancelAndRemoveWaiter(s)
      \/ ~(role[s] = "Follower" /\ ~done[s]) /\ UNCHANGED <<inflight, cancelled>>
  BY DEF Destroy
<1>3. /\ \A t \in Streams : t # s => cancelled'[t] = cancelled[t]
      /\ cancelled'[s] <=> cancelled[s] \/ (role[s] = "Follower" /\ ~done[s])
      /\ role[s] = "Follower" /\ ~done[s] => cancelled'[s]
  <2>1. CASE CancelAndRemoveWaiter(s) /\ role[s] = "Follower" /\ ~done[s]
    BY <2>1 DEF CancelAndRemoveWaiter, Cancel, CInv, Types
  <2>2. CASE ~(role[s] = "Follower" /\ ~done[s]) /\ UNCHANGED <<inflight, cancelled>>
    BY <2>2
  <2> QED
    BY <1>2, <2>1, <2>2
<1>4. \A k \in Keys :
         /\ (inflight'[k] # NoEntry) <=> Inflight(k)
         /\ Inflight(k) => /\ inflight'[k].spool = inflight[k].spool
                           /\ \A f \in Streams : f # s =>
                                 (f \in inflight'[k].waiters <=> f \in inflight[k].waiters)
                           /\ inflight'[k].waiters \subseteq inflight[k].waiters
         /\ Inflight(k) /\ cancelled'[s] => s \notin inflight'[k].waiters
  <2>1. CASE ~(role[s] = "Follower" /\ ~done[s]) /\ UNCHANGED <<inflight, cancelled>>
    BY <2>1 DEF Inflight, FollowerInv
  <2>2. CASE role[s] = "Follower" /\ CancelAndRemoveWaiter(s)
    <3>1. PICK k \in Keys : k = key[s]
      BY <2>2, KeyFacts
    <3>2. \A m \in Keys : Inflight(m) /\ s \in inflight[m].waiters => m = k
      BY <3>1 DEF FollowerInv
    <3>3. CASE ~Inflight(k)
      BY <2>2, <3>1, <3>2, <3>3 DEF CancelAndRemoveWaiter, Inflight
    <3>4. CASE Inflight(k)
      <4>1. inflight' = [inflight EXCEPT ![k].waiters = @ \ {s}]
        BY <2>2, <3>1, <3>4 DEF CancelAndRemoveWaiter
      <4>2. /\ inflight'[k] # NoEntry
            /\ inflight'[k].spool = inflight[k].spool
            /\ inflight'[k].waiters = inflight[k].waiters \ {s}
            /\ \A m \in Keys : m # k => inflight'[m] = inflight[m]
        BY <3>4, <4>1, RemoveWaiterEffect, InflightFacts DEF CInv
      <4> QED
        BY <3>2, <3>4, <4>2 DEF Inflight
    <3> QED
      BY <3>3, <3>4
  <2> QED
    BY <1>2, <2>1, <2>2
<1>5. OwnerInv'
  <2>1. \A l \in Streams : Leads(l)' <=> Leads(l)
    BY <1>1 DEF Leads
  <2> QED
    BY <1>1, <1>4, <2>1, KeyFacts, OwnerKept DEF Unlocked, store
<1>6. FollowerInv'
  <2>1. ASSUME NEW k \in Keys, inflight'[k] # NoEntry, NEW f \in inflight'[k].waiters
        PROVE  key[f] = k /\ ~cancelled'[f]
    <3>1. Inflight(k) /\ f \in inflight[k].waiters /\ f \in Streams
      BY <1>4, <2>1, RecipientTypes DEF CInv
    <3> QED
      BY <1>3, <1>4, <2>1, <3>1 DEF FollowerInv
  <2>2. run[on[s]] # [op |-> "hit", stream |-> s]
    BY <1>1 DEF Ready, Idle
  <2>3. ASSUME NEW f \in Streams
        PROVE  /\ Following(f) => done[f] = resp[f].ended
               /\ cancelled'[f] => life'[f] = "destroyed" /\ role[f] = "Follower" /\ ~done[f]
               /\ role[f] = "Follower" /\ life'[f] = "destroyed" => done[f] \/ cancelled'[f]
               /\ run[on[f]] = [op |-> "hit", stream |-> f] => life'[f] = "open"
    <3>1. CASE f = s
      BY <1>1, <1>3, <2>2, <3>1 DEF FollowerInv
    <3>2. CASE f # s
      BY <1>1, <1>3, <3>2 DEF FollowerInv
    <3> QED
      BY <3>1, <3>2
  <2>4. \A w \in Workers : \A i \in DOMAIN queue[w] : on[queue[w][i].to] = w
    BY DEF FollowerInv
  <2> QED
    BY <1>1, <2>1, <2>3, <2>4 DEF FollowerInv, Inflight, Following, Disturbed
<1>7. ASSUME NEW f \in Streams, Following(f)'
      PROVE  \E l \in Streams : Flow(f, l)'
  <2>1. Following(f) /\ key[f] \in Keys /\ role[f] = "Follower"
    BY <1>1, <1>7, KeyFacts DEF Following, Disturbed
  <2>2. PICK l \in Streams : Flow(f, l)
    BY <2>1 DEF FlowInv
  <2>3. \A w \in Workers : BeingPosted(f, w)' <=> BeingPosted(f, w)
    BY <1>1 DEF BeingPosted, Publishing
  <2>4. Finalized(key[f])' <=> Finalized(key[f])
    BY <1>1 DEF Finalized, Unlocked, store
  <2>5. CASE cancelled'[f] = cancelled[f] /\ (f # s \/ UNCHANGED inflight)
    <3>1. Waiting(f)' <=> Waiting(f)
      BY <1>1, <1>4, <2>1, <2>5 DEF Waiting, Inflight
    <3> QED
      BY <1>1, <2>2, <2>3, <2>4, <2>5, <3>1, FlowKept
  <2>6. CASE f = s /\ cancelled'[s]
    <3>1. Begins(resp[f].items, resp[l].items)
      <4>1. CASE cancelled[f]
        BY <2>2, <4>1 DEF Flow
      <4>2. CASE ~cancelled[f]
        <5>1. PICK g : Delivers(f, l, g)
          BY <2>2, <4>2 DEF Flow
        <5>2. PICK n \in Nat : n = Len(queue[on[f]])
          BY DEF CInv, Types
        <5>3. g[0] = resp[f] /\ Within(g, n, resp[l].items, done[l])
          BY <5>1, <5>2 DEF Delivers, Runs
        <5>4. 0 \in 0 .. n
          BY <5>2
        <5> QED
          BY <5>3, <5>4 DEF Within
      <4> QED
        BY <4>1, <4>2
    <3> QED
      BY <1>1, <2>2, <2>6, <3>1 DEF Flow
  <2>7. f = s /\ ~cancelled'[s] => cancelled'[s] = cancelled[s] /\ UNCHANGED inflight
    BY <1>2, <1>3
  <2> QED
    BY <1>3, <2>5, <2>6, <2>7
<1> QED
  BY <1>5, <1>6, <1>7 DEF FlowInv

-----------------------------------------------------------------------------
(* The invariant.                                                          *)

(* The invariant holds initially. *)
LEMMA InitDInv == Init => DInv
<1> SUFFICES ASSUME Init PROVE DInv
  OBVIOUS
<1>1. CInv
  BY InitCInv
<1>2. OwnerInv
  BY DEF Init, OwnerInv, Leads, Inflight
<1>3. FollowerInv
  BY DEF Init, FollowerInv, Following, Inflight, Idle
<1>4. FlowInv
  BY DEF Init, FlowInv, Following
<1> QED
  BY <1>1, <1>2, <1>3, <1>4 DEF DInv

(* Every step preserves it. *)
LEMMA NextDInv ==
    ASSUME DInv, [Next]_vars
    PROVE  DInv'
<1>1. CInv'
  BY NextCInv DEF DInv
<1>2. ASSUME NEW s \in Streams, Upstream(s)
      PROVE  OwnerInv' /\ FollowerInv' /\ FlowInv'
  <2>1. CInv
    BY DEF DInv
  <2>2. ASSUME NEW end \in BOOLEAN, EncodeHeaders(s, end), Primary(s)
        PROVE  OwnerInv' /\ FollowerInv' /\ FlowInv'
    BY <2>1, <2>2, HeadersArePiece, UpstreamPieceDInv
  <2>3. ASSUME NEW empty \in BOOLEAN, NEW end \in BOOLEAN, EncodeData(s, empty, end),
               Primary(s)
        PROVE  OwnerInv' /\ FollowerInv' /\ FlowInv'
    BY <2>1, <2>3, DataArePiece, UpstreamPieceDInv
  <2>4. CASE ~Primary(s)
    BY <1>2, <2>1, <2>4, UpstreamIsOther, OtherAnswerDInv
  <2> QED
    BY <1>2, <2>2, <2>3, <2>4 DEF Upstream
<1>3. ASSUME NEW s \in Streams, EncodeTrailers(s) \/ LocalReply(s)
      PROVE  OwnerInv' /\ FollowerInv' /\ FlowInv'
  <2>1. CInv
    BY DEF DInv
  <2>2. CASE EncodeTrailers(s) /\ Primary(s)
    BY <2>2, QuietSteps
  <2> QED
    BY <1>3, <2>1, <2>2, UpstreamIsOther, LocalReplyIsOther, OtherAnswerDInv
<1>4. OwnerInv' /\ FollowerInv' /\ FlowInv'
  BY <1>2, <1>3, QuietRequests, QuietSteps, LookupLeaderDInv, LookupFollowerDInv,
     FinalizeEndDInv, PostDInv, RunCallbackDInv, DestroyDInv
  DEF Next, Request, Work
<1> QED
  BY <1>1, <1>4 DEF DInv

(* Every reachable state of the extension satisfies the invariant. *)
THEOREM DeliveryInvariance == SafetySpec => []DInv
<1>1. Init => DInv
  BY InitDInv
<1>2. DInv /\ [Next]_vars => DInv'
  BY NextDInv
<1> QED
  BY <1>1, <1>2, PTL DEF SafetySpec

-----------------------------------------------------------------------------
(* What a follower has been sent.                                          *)

(* Begins, as IsPrefix has it. *)
LEMMA BeginsPrefix ==
    ASSUME NEW a \in Seq(Piece), NEW b \in Seq(Piece), Begins(a, b)
    PROVE  IsPrefix(a, b)
<1>1. PICK n \in Nat : n = Len(a) /\ n <= Len(b)
  BY DEF Begins
<1>2. SubSeq(a, 1, n) = [i \in 1 .. n |-> a[i]] /\ SubSeq(b, 1, n) = [i \in 1 .. n |-> b[i]]
  BY <1>1
<1>3. \A i \in 1 .. n : a[i] = b[i]
  BY <1>1 DEF Begins
<1> QED
  BY <1>1, <1>2, <1>3 DEF IsPrefix

(* What the invariant says of the response of a follower. *)
LEMMA FollowerResponse ==
    ASSUME DInv, NEW f \in Streams, Following(f)
    PROVE  \E l \in Streams :
              /\ role[l] = "Leader" /\ key[l] = key[f]
              /\ Begins(resp[f].items, resp[l].items)
              /\ resp[f].ended => done[l] /\ resp[f].items = resp[l].items
<1>1. PICK l \in Streams : Flow(f, l)
  BY DEF DInv, FlowInv
<1>2. CASE cancelled[f]
  <2>1. ~resp[f].ended
    BY <1>2 DEF DInv, FollowerInv
  <2> QED
    BY <1>1, <1>2, <2>1 DEF Flow
<1>3. CASE ~cancelled[f]
  <2>1. PICK g : Delivers(f, l, g)
    BY <1>1, <1>3 DEF Flow
  <2>2. PICK n \in Nat : n = Len(queue[on[f]])
    BY DEF DInv, CInv, Types
  <2>3. g[0] = resp[f] /\ Within(g, n, resp[l].items, done[l])
    BY <2>1, <2>2 DEF Delivers, Runs
  <2>4. 0 \in 0 .. n
    OBVIOUS
  <2> QED
    BY <1>1, <2>3, <2>4 DEF Flow, Within
<1> QED
  BY <1>2, <1>3

(* CoalescedInOrder: a follower's response is always a beginning of its
   leader's, and all of it once it has ended, whatever the threads do. *)
THEOREM FollowersInOrder == SafetySpec => []CoalescedInOrder
<1>1. DInv => CoalescedInOrder
  <2> SUFFICES ASSUME DInv, NEW f \in Streams, role[f] = "Follower", ~Disturbed(f)
               PROVE  \E l \in Streams :
                         /\ role[l] = "Leader" /\ key[l] = key[f]
                         /\ IsPrefix(resp[f].items, resp[l].items)
                         /\ resp[f].ended => resp[f] = resp[l]
    BY DEF CoalescedInOrder
  <2>1. PICK l \in Streams :
            /\ role[l] = "Leader" /\ key[l] = key[f]
            /\ Begins(resp[f].items, resp[l].items)
            /\ resp[f].ended => done[l] /\ resp[f].items = resp[l].items
    BY FollowerResponse DEF Following
  <2>2. resp[f] \in Response /\ resp[l] \in Response /\ (done[l] => resp[l].ended)
    BY <2>1 DEF DInv, CInv, Types, StreamInv
  <2>3. IsPrefix(resp[f].items, resp[l].items)
    BY <2>1, <2>2, BeginsPrefix DEF Response
  <2>4. resp[f].ended => resp[f] = resp[l]
    BY <2>1, <2>2 DEF Response
  <2> QED
    BY <2>1, <2>3, <2>4
<1> QED
  BY <1>1, DeliveryInvariance, PTL

-----------------------------------------------------------------------------
(* Nothing after the end.                                                  *)

(* A leader that is done has got something. *)
EndInv == \A l \in Streams : role[l] = "Leader" /\ done[l] => resp[l].items # <<>>

(* No stream becomes a leader that is done but by a piece from the upstream. *)
LEMMA EndKept ==
    ASSUME EndInv,
           \A l \in Streams : role'[l] = "Leader" /\ done'[l] =>
              role[l] = "Leader" /\ done[l] /\ resp'[l].items = resp[l].items
    PROVE  EndInv'
BY DEF EndInv

(* Every step preserves it. *)
LEMMA NextEndInv ==
    ASSUME DInv, EndInv, [Next]_vars
    PROVE  EndInv'
<1>0. CInv /\ Types /\ StreamInv
  BY DEF DInv, CInv
<1>1. CASE UNCHANGED <<role, done, resp>>
  BY <1>1, EndKept
<1>2. ASSUME NEW s \in Streams, LookupCached(s) \/ LookupLeader(s) \/ LookupFollower(s)
      PROVE  EndInv'
  <2>1. ~done[s] /\ UNCHANGED <<done, resp>> /\ \A t \in Streams : t # s => role'[t] = role[t]
    BY <1>0, <1>2
    DEF LookupCached, LookupLeader, LookupFollower, Arrives, StreamInv, Types
  <2> QED
    BY <2>1, EndKept
<1>3. ASSUME NEW s \in Streams, ServeCached(s)
      PROVE  EndInv'
  <2>1. role[s] = "Cached"
    BY <1>0, <1>3, StoreFacts DEF ServeCached, Store!ServeHit, HitInv, CInv
  <2>2. role' = role /\ \A t \in Streams : t # s => done'[t] = done[t] /\ resp'[t] = resp[t]
    BY <1>0, <1>3 DEF ServeCached, Encode, Types
  <2> QED
    BY <2>1, <2>2, EndKept
<1>4. ASSUME NEW s \in Streams, NEW items, NEW end \in BOOLEAN, UpstreamPiece(s, items, end)
      PROVE  EndInv'
  <2>1. /\ items \in Seq(Piece) /\ NoteEnd(s, end) /\ Encode(s, items, end)
        /\ role' = role /\ Len(resp[s].items \o items) \in 1 .. (MaxChunks + 1)
    BY <1>4 DEF UpstreamPiece
  <2>2. resp'[s].items = resp[s].items \o items /\ \A t \in Streams : t # s => resp'[t] = resp[t]
    BY <1>0, <2>1, EncodeEffect
  <2>3. \A t \in Streams : t # s => done'[t] = done[t]
    BY <1>0, <2>1, NoteEndEffect
  <2>4. resp'[s].items # <<>>
    BY <2>1, <2>2, MaxChunksAssumption
  <2> QED
    BY <2>1, <2>2, <2>3, <2>4 DEF EndInv
<1>9. ASSUME NEW s \in Streams, OtherAnswer(s)
      PROVE  EndInv'
  <2>1. PICK items \in Seq(Piece), end \in BOOLEAN, noted \in BOOLEAN :
           Encode(s, items, end) /\ NoteEnd(s, noted)
    BY <1>9 DEF OtherAnswer
  <2>2. /\ role[s] = "Follower" /\ role' = role
        /\ \A t \in Streams : t # s => done'[t] = done[t] /\ resp'[t] = resp[t]
    BY <1>0, <1>9, <2>1 DEF OtherAnswer, Encode, NoteEnd, Types
  <2> QED
    BY <2>2, EndKept
<1>5. ASSUME NEW s \in Streams, Upstream(s)
      PROVE  EndInv'
  <2>1. CASE Primary(s)
    BY <1>0, <1>4, <1>5, <2>1, HeadersArePiece, DataArePiece DEF Upstream
  <2>2. CASE ~Primary(s)
    BY <1>0, <1>5, <1>9, <2>2, UpstreamIsOther
  <2> QED
    BY <2>1, <2>2
<1>6. ASSUME NEW s \in Streams, EncodeTrailers(s)
      PROVE  EndInv'
  <2>1. <<>> \in Seq(Piece) /\ TRUE \in BOOLEAN /\ resp[s].items \in Seq(Piece)
    BY <1>0 DEF Types, Response
  <2>2. /\ resp'[s].items = resp[s].items \o <<>>
        /\ \A t \in Streams : t # s => resp'[t] = resp[t]
    BY <1>0, <1>6, <2>1, EncodeEffect DEF EncodeTrailers
  <2>3. resp'[s].items = resp[s].items
    BY <2>1, <2>2
  <2> QED
    BY <1>6, <2>2, <2>3, EndKept DEF EncodeTrailers, filter
<1>7. ASSUME NEW w \in Workers, RunCallback(w)
      PROVE  EndInv'
  <2>1. \A t \in Streams : role[t] # "Follower" => done'[t] = done[t] /\ resp'[t] = resp[t]
    BY <1>0, <1>7, CallbackEffect
  <2> QED
    BY <1>7, <2>1, EndKept DEF RunCallback
<1>8. ASSUME NEW s \in Streams, LocalReply(s)
      PROVE  EndInv'
  BY <1>0, <1>8, <1>9, LocalReplyIsOther
<1> QED
  BY <1>1, <1>2, <1>3, <1>5, <1>6, <1>7, <1>8
  DEF Next, vars, filter, Request, Work, Bypass, DrainCached, Destroy, FinalizeStep,
      FinalizeEnd, Post

(* A stream that is torn down, or whose response has ended, and that nobody
   but its leader answers: nothing may be encoded on it any more. *)
Over(s) == (life[s] = "destroyed" \/ resp[s].ended) /\ ~Disturbed(s)

(* A follower that is over takes no callback. *)
LEMMA OverFollower ==
    ASSUME DInv, NEW w \in Workers, RunCallback(w), NEW s \in Streams, Over(s)
    PROVE  resp'[s] = resp[s]
<1>1. PICK m : m = Head(queue[w])
  OBVIOUS
<1>2. /\ role[m.to] = "Follower" /\ on[m.to] = w /\ m.to \in Streams
      /\ m = queue[w][1] /\ 1 \in 1 .. Len(queue[w])
      /\ \A t \in Streams : t # m.to => resp'[t] = resp[t]
      /\ cancelled[m.to] => resp'[m.to] = resp[m.to]
  BY <1>1, CallbackFacts
<1>3. CASE s = m.to /\ ~cancelled[s]
  <2>1. Following(s) /\ done[s] = resp[s].ended
    BY <1>2, <1>3 DEF Over, Following, DInv, FollowerInv
  <2>2. resp[s].ended
    BY <1>2, <1>3, <2>1 DEF Over, DInv, FollowerInv
  <2>3. PICK l \in Streams : Flow(s, l)
    BY <2>1 DEF DInv, FlowInv
  <2>4. PICK g : Delivers(s, l, g)
    BY <1>3, <2>3 DEF Flow
  <2>5. Runs(s, resp[s], queue[w], g)
    BY <1>2, <1>3, <2>4 DEF Delivers
  <2>6. ~g[1 - 1].ended /\ g[0] = resp[s]
    BY <1>2, <1>3, <2>5 DEF Runs
  <2> QED
    BY <2>2, <2>6
<1> QED
  BY <1>2, <1>3

(* No step encodes anything on a stream that is over. *)
LEMMA OverStays ==
    ASSUME DInv, EndInv, [Next]_vars, NEW s \in Streams, Over(s)
    PROVE  resp'[s] = resp[s]
<1>0. CInv /\ Types
  BY DEF DInv, CInv
<1>1. CASE UNCHANGED resp
  BY <1>1
<1>2. ASSUME NEW t \in Streams, ServeCached(t)
      PROVE  resp'[s] = resp[s]
  <2>1. serving[t] = "headers"
    BY <1>2 DEF ServeCached, Store!ServeHit
  <2>2. resp[t] = NoResponse /\ life[t] = "open"
    BY <1>2, <2>1 DEF ServeCached, DInv, CInv, HitInv, FollowerInv
  <2>3. s # t
    BY <2>2 DEF Over, NoResponse
  <2> QED
    BY <1>0, <1>2, <2>3 DEF ServeCached, Encode, Types
<1>3. ASSUME NEW t \in Streams, AwaitsUpstream(t)
      PROVE  t # s
  BY <1>3 DEF AwaitsUpstream, Ready, Over
<1>4. ASSUME NEW t \in Streams, Upstream(t) \/ EncodeTrailers(t)
      PROVE  resp'[s] = resp[s]
  <2>1. AwaitsUpstream(t) /\ \E items, end : Encode(t, items, end)
    BY <1>4 DEF Upstream, EncodeHeaders, EncodeData, EncodeTrailers
  <2> QED
    BY <1>0, <1>3, <2>1 DEF Encode, Types
<1>5. ASSUME NEW t \in Streams, LocalReply(t)
      PROVE  resp'[s] = resp[s]
  <2>1. CASE t # s
    BY <1>0, <1>5, <2>1 DEF LocalReply, Encode, Types
  <2>2. CASE t = s
    <3>1. life[s] = "open" /\ resp[s].items = <<>> /\ Following(s) /\ resp[s].ended
      BY <1>5, <2>2 DEF LocalReply, Ready, Over, Following
    <3>2. PICK l \in Streams : role[l] = "Leader" /\ done[l] /\ resp[l].items = resp[s].items
      BY <3>1, FollowerResponse
    <3> QED
      BY <3>1, <3>2 DEF EndInv
  <2> QED
    BY <2>1, <2>2
<1> QED
  BY <1>1, <1>2, <1>4, <1>5, OverFollower
  DEF Next, vars, filter, Request, Work, Bypass, LookupCached, LookupLeader,
      LookupFollower, DrainCached, Destroy, FinalizeStep, FinalizeEnd, Post

(* NothingEncodedAfterEnd: whatever callbacks are still in the queues, no
   step adds to a response that has ended or whose stream is torn down. *)
THEOREM LastPieceIsLast == SafetySpec => NothingEncodedAfterEnd
<1>1. Init => EndInv
  BY DEF Init, EndInv
<1>2. DInv /\ EndInv /\ [Next]_vars => EndInv'
  BY NextEndInv
<1>3. DInv /\ EndInv /\ [Next]_vars =>
      [\A s \in Streams :
          (life[s] = "destroyed" \/ resp[s].ended) /\ ~Disturbed(s)
              => resp'[s] = resp[s]]_vars
  BY OverStays DEF Over
<1> QED
  BY <1>1, <1>2, <1>3, DeliveryInvariance, PTL DEF SafetySpec, NothingEncodedAfterEnd

-----------------------------------------------------------------------------
(* Nothing missing.                                                        *)

(* OnceQueueHasRun is the end of the schedule: the recursive function has a
   solution, the schedule's, and the least position at which another solution
   differed from it would have a predecessor. *)
LEMMA QueueRuns ==
    ASSUME NEW f, NEW q \in Seq(Message), q = queue[on[f]], NEW g, Runs(f, resp[f], q, g)
    PROVE  OnceQueueHasRun(f) = g[Len(q)].items
<1>1. PICK n \in Nat : n = Len(q)
  OBVIOUS
<1> DEFINE E(h) == h = [i \in 0 .. n |-> IF i = 0 THEN resp[f].items
                                         ELSE IF q[i].to = f THEN h[i - 1] \o q[i].items
                                         ELSE h[i - 1]]
<1> DEFINE after == CHOOSE h : E(h)
<1>2. OnceQueueHasRun(f) = after[n]
  BY <1>1 DEF OnceQueueHasRun
<1>3. \A h : E(h) => E(after)
  OBVIOUS
<1> HIDE DEF after
<1> DEFINE items == [i \in 0 .. n |-> g[i].items]
<1>4. ASSUME NEW i \in 1 .. n
      PROVE  g[i].items = IF q[i].to = f THEN g[i - 1].items \o q[i].items
                          ELSE g[i - 1].items
  <2>1. IF q[i].to = f THEN g[i] = Then(g[i - 1], q[i]) ELSE g[i] = g[i - 1]
    BY <1>1 DEF Runs
  <2>2. Then(g[i - 1], q[i]).items = g[i - 1].items \o q[i].items
    BY DEF Then
  <2> QED
    BY <2>1, <2>2
<1>5. E(items)
  <2>1. ASSUME NEW i \in 0 .. n
        PROVE  items[i] = IF i = 0 THEN resp[f].items
                          ELSE IF q[i].to = f THEN items[i - 1] \o q[i].items
                          ELSE items[i - 1]
    <3>1. CASE i = 0
      BY <3>1 DEF Runs
    <3>2. CASE i # 0
      <4>1. i \in 1 .. n /\ i - 1 \in 0 .. n
        BY <3>2
      <4> QED
        BY <1>4, <3>2, <4>1
    <3> QED
      BY <3>1, <3>2
  <2> QED
    BY <2>1
<1>6. E(after)
  BY <1>3, <1>5
<1>7. /\ after[0] = resp[f].items
      /\ \A i \in 1 .. n : after[i] = IF q[i].to = f THEN after[i - 1] \o q[i].items
                                      ELSE after[i - 1]
  <2>1. \A i \in 0 .. n : after[i] = IF i = 0 THEN resp[f].items
                                     ELSE IF q[i].to = f THEN after[i - 1] \o q[i].items
                                     ELSE after[i - 1]
    BY <1>6
  <2>2. 0 \in 0 .. n /\ \A i \in 1 .. n : i \in 0 .. n /\ i # 0
    OBVIOUS
  <2> QED
    BY <2>1, <2>2
<1> HIDE DEF E, items
<1> DEFINE T == {i \in 0 .. n : after[i] # g[i].items}
<1>8. ASSUME T # {} PROVE FALSE
  <2>1. T \subseteq Nat
    OBVIOUS
  <2>2. PICK x \in T : \A y \in T : x <= y
    BY <1>8, <2>1, StoreAssumptions, P!LeastNatural
  <2>3. x \in 0 .. n /\ after[x] # g[x].items
    OBVIOUS
  <2>4. x # 0
    BY <1>7, <2>3 DEF Runs
  <2>5. x \in 1 .. n /\ x - 1 \in 0 .. n
    BY <2>3, <2>4
  <2>6. x - 1 \notin T
    BY <2>2, <2>5
  <2>7. after[x - 1] = g[x - 1].items
    BY <2>5, <2>6
  <2> HIDE DEF T
  <2> QED
    BY <1>4, <1>7, <2>3, <2>5, <2>7
<1> QED
  BY <1>1, <1>2, <1>8

(* What is under way to a waiter makes its response into what its leader has
   got. *)
LEMMA AllRuns ==
    ASSUME DInv, NEW f \in Streams, NEW l \in Streams, Flow(f, l), ~cancelled[f]
    PROVE  OnceAllHasRun(f) = resp[l].items
<1>1. Serves(f, l) /\ on[l] \in Workers
  BY DEF Flow, DInv, CInv, Types
<1>2. PICK g : Delivers(f, l, g)
  BY DEF Flow
<1>3. PICK q \in Seq(Message) : q = queue[on[f]]
  BY DEF DInv, CInv, Types
<1>4. Runs(f, resp[f], q, g)
  BY <1>2, <1>3 DEF Delivers
<1>5. OnceQueueHasRun(f) = g[Len(q)].items
  BY <1>3, <1>4, QueueRuns
<1>6. ToPost(f) = {w \in Workers : BeingPosted(f, w)}
  BY DEF ToPost, BeingPosted, Publishing
<1>7. CASE BeingPosted(f, on[l])
  <2>1. ToPost(f) = {on[l]}
    BY <1>1, <1>6, <1>7 DEF Serves
  <2>2. (CHOOSE w \in ToPost(f) : TRUE) = on[l] /\ ToPost(f) # {}
    BY <2>1
  <2> QED
    BY <1>2, <1>3, <1>5, <1>7, <2>2 DEF OnceAllHasRun, Delivers
<1>8. CASE ~BeingPosted(f, on[l])
  <2>1. ToPost(f) = {}
    BY <1>1, <1>6, <1>8 DEF Serves
  <2> QED
    BY <1>2, <1>3, <1>5, <1>8, <2>1 DEF OnceAllHasRun, Delivers
<1> QED
  BY <1>7, <1>8

(* FullyBackfilled: whenever the mutex is free, what a waiter has been sent
   and what is under way to it make up the spool exactly. *)
THEOREM WaitersBackfilled == SafetySpec => []FullyBackfilled
<1>1. DInv => FullyBackfilled
  <2> SUFFICES ASSUME DInv, Unlocked, NEW k \in Keys, Inflight(k),
                      NEW f \in inflight[k].waiters, ~Disturbed(f)
               PROVE  OnceAllHasRun(f) = inflight[k].spool
    BY DEF FullyBackfilled
  <2>1. f \in Streams
    BY InflightFacts DEF DInv, CInv
  <2>2. Following(f) /\ key[f] = k /\ ~cancelled[f] /\ Waiting(f)
    BY <2>1 DEF Following, Waiting, DInv, CInv, RecipientInv, FollowerInv
  <2>3. PICK l \in Streams : Flow(f, l)
    BY <2>1, <2>2 DEF DInv, FlowInv
  <2>4. role[l] = "Leader" /\ key[l] = k /\ ~done[l]
    BY <2>2, <2>3 DEF Flow, Serves, Finalized
  <2>5. inflight[k].spool = resp[l].items
    BY <2>4 DEF DInv, OwnerInv, Leads
  <2> QED
    BY <2>1, <2>2, <2>3, <2>5, AllRuns
<1> QED
  BY <1>1, DeliveryInvariance, PTL

-----------------------------------------------------------------------------
(* If only the cache answers followers.                                    *)

(* Nobody answers a follower but its leader. *)
OnlyLeadersAnswer == \A f \in Streams : ~Disturbed(f)

(* A follower's callbacks bring it pieces of its leader's only. *)
LEMMA CallbackKeepsPieces ==
    ASSUME DInv, OnlyLeadersAnswer, NEW w \in Workers, RunCallback(w)
    PROVE  OnlyLeadersAnswer'
<1>0. CInv /\ Types
  BY DEF DInv, CInv
<1>1. PICK m : m = Head(queue[w])
  OBVIOUS
<1>2. /\ m \in Message /\ m.to \in Streams /\ role[m.to] = "Follower" /\ on[m.to] = w
      /\ m = queue[w][1] /\ 1 \in 1 .. Len(queue[w])
      /\ \A t \in Streams : t # m.to => resp'[t] = resp[t]
      /\ cancelled[m.to] => resp'[m.to] = resp[m.to]
      /\ ~cancelled[m.to] => resp'[m.to] = Then(resp[m.to], m)
  BY <1>1, CallbackFacts
<1>3. role' = role
  BY DEF RunCallback
<1>4. ASSUME NEW f \in Streams, f = m.to, ~cancelled[f]
      PROVE  ~Disturbed(f)'
  <2>1. Following(f)
    BY <1>2, <1>4 DEF OnlyLeadersAnswer, Following
  <2>2. PICK l \in Streams : Flow(f, l)
    BY <2>1 DEF DInv, FlowInv
  <2>3. PICK g : Delivers(f, l, g)
    BY <1>4, <2>2 DEF Flow
  <2>4. Runs(f, resp[f], queue[w], g) /\ Within(g, Len(queue[w]), resp[l].items, done[l])
    BY <1>2, <1>4, <2>3 DEF Delivers
  <2>5. g[1] = Then(g[1 - 1], m) /\ g[0] = resp[f]
    BY <1>2, <1>4, <2>4 DEF Runs
  <2>6. g[1] = resp'[f]
    BY <1>2, <1>4, <2>5
  <2>7. 1 \in 0 .. Len(queue[w])
    BY <1>2
  <2>8. Begins(resp'[f].items, resp[l].items)
    BY <2>4, <2>6, <2>7 DEF Within
  <2>9. resp[l].items = FirstPieces(l, Len(resp[l].items)) /\ l # f
        /\ resp[l].items \in Seq(Piece)
    BY <1>0, <1>2, <1>4, <2>2 DEF Flow, CInv, StreamInv, Types, Response
  <2>10. \A i \in 1 .. Len(resp[l].items) : resp[l].items[i][1] = l
    BY <2>9 DEF FirstPieces
  <2>11. resp'[f].items \in Seq(Piece)
    <3>1. g[1] \in Response
      BY <2>4, <2>7 DEF Runs
    <3> QED
      BY <2>6, <3>1 DEF Response
  <2>12. \A i \in DOMAIN resp'[f].items : resp'[f].items[i][1] = l
    BY <2>8, <2>9, <2>10, <2>11 DEF Begins
  <2> QED
    BY <2>9, <2>12 DEF Disturbed
<1>5. ASSUME NEW f \in Streams, resp'[f] = resp[f]
      PROVE  ~Disturbed(f)'
  BY <1>3, <1>5 DEF OnlyLeadersAnswer, Disturbed
<1> QED
  BY <1>2, <1>4, <1>5 DEF OnlyLeadersAnswer

(* Every step preserves it, if Envoy does not reply itself and requests have
   no bodies. *)
LEMMA NextOnlyLeadersAnswer ==
    ASSUME ~LocalReplies, WithBody = {}, DInv, OnlyLeadersAnswer, [Next]_vars
    PROVE  OnlyLeadersAnswer'
<1>0. CInv /\ Types
  BY DEF DInv, CInv
<1>1. ASSUME \A f \in Streams : role'[f] = "Follower" =>
                /\ resp'[f] = resp[f]
                /\ role[f] = "Follower" \/ resp[f] = NoResponse
      PROVE  OnlyLeadersAnswer'
  <2>1. ASSUME NEW f \in Streams, resp'[f] = NoResponse
        PROVE  ~Disturbed(f)'
    BY <2>1 DEF Disturbed, NoResponse
  <2> QED
    BY <1>1, <2>1 DEF OnlyLeadersAnswer, Disturbed
<1>2. CASE UNCHANGED <<role, resp>>
  BY <1>1, <1>2
<1>3. ASSUME NEW s \in Streams, LookupCached(s) \/ LookupLeader(s) \/ LookupFollower(s)
      PROVE  OnlyLeadersAnswer'
  <2>1. /\ resp[s] = NoResponse /\ UNCHANGED resp
        /\ \A t \in Streams : t # s => role'[t] = role[t]
    BY <1>0, <1>3
    DEF CInv, LookupCached, LookupLeader, LookupFollower, Arrives, StreamInv, Types
  <2> QED
    BY <1>1, <2>1
<1>4. ASSUME NEW s \in Streams, role[s] # "Follower", role' = role,
             NEW items, NEW end, Encode(s, items, end)
      PROVE  OnlyLeadersAnswer'
  <2>1. \A t \in Streams : t # s => resp'[t] = resp[t]
    BY <1>0, <1>4 DEF Encode, Types
  <2> QED
    BY <1>1, <1>4, <2>1
<1>5. ASSUME NEW s \in Streams, ServeCached(s)
      PROVE  OnlyLeadersAnswer'
  <2>1. role[s] = "Cached" /\ role' = role
    BY <1>0, <1>5, StoreFacts DEF ServeCached, Store!ServeHit, HitInv, CInv
  <2> QED
    BY <1>4, <1>5, <2>1 DEF ServeCached
<1>6. ASSUME NEW s \in Streams, Upstream(s) \/ EncodeTrailers(s)
      PROVE  OnlyLeadersAnswer'
  <2>1. AwaitsUpstream(s) /\ role' = role /\ \E items, end : Encode(s, items, end)
    BY <1>6 DEF Upstream, EncodeHeaders, EncodeData, EncodeTrailers, filter
  <2>2. role[s] # "Follower"
    BY <1>0, <2>1 DEF AwaitsUpstream, GoesUpstream, CInv, StreamInv
  <2> QED
    BY <1>4, <2>1, <2>2
<1> QED
  BY <1>2, <1>3, <1>5, <1>6, CallbackKeepsPieces
  DEF Next, vars, filter, Request, Work, Bypass, DrainCached, Destroy, FinalizeStep,
      FinalizeEnd, Post, LocalReply

(* TornDownStreamsUntouched, which the run cache_local_reply refutes, holds
   if Envoy never answers a waiting follower itself and no request goes on
   after its headers: the callbacks that the cache posts are then the only
   ones to encode on a follower's stream and so the only ones to set its
   done_, and onDestroy() cancels exactly those followers that have more to
   come.  Each of the two other answers breaks it. *)
THEOREM UntouchedIfOnlyCacheAnswers ==
    ASSUME ~LocalReplies, WithBody = {}
    PROVE  SafetySpec => TornDownStreamsUntouched
<1>1. Init => EndInv /\ OnlyLeadersAnswer
  BY DEF Init, EndInv, OnlyLeadersAnswer, Disturbed
<1>2. DInv /\ EndInv /\ OnlyLeadersAnswer /\ [Next]_vars => (EndInv /\ OnlyLeadersAnswer)'
  BY NextEndInv, NextOnlyLeadersAnswer
<1>3. DInv /\ EndInv /\ OnlyLeadersAnswer /\ [Next]_vars =>
      [\A s \in Streams : life[s] = "destroyed" => resp'[s] = resp[s]]_vars
  BY OverStays DEF Over, OnlyLeadersAnswer
<1> QED
  BY <1>1, <1>2, <1>3, DeliveryInvariance, PTL DEF SafetySpec, TornDownStreamsUntouched
=============================================================================
