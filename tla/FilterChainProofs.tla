------------------------- MODULE FilterChainProofs --------------------------
(***************************************************************************)
(* Proofs about FilterChain, for any configurations, filter chains,        *)
(* streams, hosts and paths.                                               *)
(*                                                                         *)
(* The argument rests on two facts.  There is never more than one cache,   *)
(* and the singleton manager keeps it: then entries with one key are       *)
(* entries of one cache, and nothing can take the cache from under a       *)
(* fragment.  And a key has only one reading as a host and a path, since a *)
(* host has no '/' in it: then what is found under a stream's key was      *)
(* fetched for the stream's own request.                                   *)
(***************************************************************************)
EXTENDS FilterChain, TLAPS, SequenceTheorems

(* One cache at most, kept by the singleton manager. *)
OneCache == Len(caches) <= 1 /\ pinned = DOMAIN caches

(* A stream that has not begun has no request and one with filters has. *)
RequestsKnown ==
    \A s \in Streams :
        /\ at[s] = 0 => request[s] = None
        /\ filters[s] # <<>> => request[s] # None

(* What is inflight or stored is under the key of the request it is for. *)
EntriesKeyed ==
    \A e \in inflight \cup stored : request[e.by] # None /\ e.key = Key(e.by)

(* inflight_map_ has one entry per key. *)
InflightIsMap == \A e, f \in inflight : e.key = f.key => e = f

(* The body of a hit points into an entry that has not been evicted. *)
FragmentsStored == \A s \in Streams : fragment[s] # None => fragment[s] \in stored

(* The inductive invariant. *)
IInv ==
    /\ TypeOK
    /\ OneCache
    /\ RequestsKnown
    /\ EntriesKeyed
    /\ InflightIsMap
    /\ FragmentsStored
    /\ AnsweredForItsOwnRequest

-----------------------------------------------------------------------------
(* Facts about the operators.                                              *)

(* Where the characters of two texts are when one is appended to the other. *)
LEMMA Appended ==
    ASSUME NEW a \in Seq(Char), NEW b \in Seq(Char)
    PROVE  /\ a \o b \in Seq(Char)
           /\ Len(a \o b) = Len(a) + Len(b)
           /\ \A i \in 1 .. Len(a) : (a \o b)[i] = a[i]
           /\ \A i \in 1 .. Len(b) : (a \o b)[Len(a) + i] = b[i]
<1>1. Len(a) \in Nat /\ Len(b) \in Nat
  OBVIOUS
<1>2. /\ a \o b \in Seq(Char)
      /\ Len(a \o b) = Len(a) + Len(b)
      /\ \A i \in 1 .. Len(a) + Len(b) :
            (a \o b)[i] = IF i <= Len(a) THEN a[i] ELSE b[i - Len(a)]
  BY ConcatProperties
<1>3. ASSUME NEW i \in 1 .. Len(a) PROVE (a \o b)[i] = a[i]
  BY <1>1, <1>2
<1>4. ASSUME NEW i \in 1 .. Len(b) PROVE (a \o b)[Len(a) + i] = b[i]
  BY <1>1, <1>2
<1> QED BY <1>2, <1>3, <1>4

(* buildKey() makes a text with the host in front, then the separator, then
   the path. *)
LEMMA KeyParts ==
    ASSUME NEW h \in Hosts, NEW p \in Paths
    PROVE  /\ BuildKey(h, p) \in Seq(Char)
           /\ Len(BuildKey(h, p)) = Len(h) + 3 + Len(p)
           /\ \A i \in 1 .. Len(h) : BuildKey(h, p)[i] = h[i]
           /\ BuildKey(h, p)[Len(h) + 1] = Slash
           /\ \A i \in 1 .. Len(p) : BuildKey(h, p)[Len(h) + 3 + i] = p[i]
<1>1. h \in Seq(Char) /\ p \in Seq(Char)
  BY TextAssumption
<1>2. Separator \in Seq(Char) /\ Len(Separator) = 3 /\ Separator[1] = Slash
  BY TextAssumption DEF Separator
<1>3. PICK front \in Seq(Char) :
         /\ front = h \o Separator
         /\ Len(front) = Len(h) + 3
         /\ \A i \in 1 .. Len(h) : front[i] = h[i]
         /\ front[Len(h) + 1] = Slash
  <2>1. /\ h \o Separator \in Seq(Char)
        /\ Len(h \o Separator) = Len(h) + Len(Separator)
        /\ \A i \in 1 .. Len(h) : (h \o Separator)[i] = h[i]
        /\ \A i \in 1 .. Len(Separator) : (h \o Separator)[Len(h) + i] = Separator[i]
    BY <1>1, <1>2, Appended
  <2>2. (h \o Separator)[Len(h) + 1] = Slash
    BY <2>1, <1>2
  <2> QED BY <2>1, <2>2, <1>2
<1>4. PICK k \in Seq(Char) :
         /\ k = front \o p
         /\ Len(k) = Len(front) + Len(p)
         /\ \A i \in 1 .. Len(front) : k[i] = front[i]
         /\ \A i \in 1 .. Len(p) : k[Len(front) + i] = p[i]
  BY <1>1, Appended
<1>5. Len(h) \in Nat /\ Len(p) \in Nat
  BY <1>1
<1>6. BuildKey(h, p) = k
  BY <1>3, <1>4 DEF BuildKey
<1>7. Len(k) = Len(h) + 3 + Len(p)
  BY <1>3, <1>4, <1>5
<1>8. \A i \in 1 .. Len(h) : k[i] = h[i]
  BY <1>3, <1>4, <1>5
<1>9. k[Len(h) + 1] = Slash
  BY <1>3, <1>4, <1>5
<1>10. \A i \in 1 .. Len(p) : k[Len(h) + 3 + i] = p[i]
  BY <1>3, <1>4, <1>5
<1> QED BY <1>4, <1>6, <1>7, <1>8, <1>9, <1>10

(* The host of a key is as long as that of any equal key: the first '/' of a
   key stands behind the host. *)
LEMMA HostNotLonger ==
    ASSUME NEW h1 \in Hosts, NEW h2 \in Hosts, NEW p1 \in Paths, NEW p2 \in Paths,
           BuildKey(h1, p1) = BuildKey(h2, p2)
    PROVE  Len(h2) <= Len(h1)
<1>1. Len(h1) \in Nat /\ Len(h2) \in Nat
  BY TextAssumption
<1>2. SUFFICES ASSUME Len(h1) < Len(h2) PROVE FALSE
  BY <1>1
<1>3. BuildKey(h2, p2)[Len(h1) + 1] = Slash
  BY KeyParts
<1>4. BuildKey(h2, p2)[Len(h1) + 1] = h2[Len(h1) + 1]
  <2>1. \A i \in 1 .. Len(h2) : BuildKey(h2, p2)[i] = h2[i]
    BY KeyParts
  <2>2. Len(h1) + 1 \in 1 .. Len(h2)
    BY <1>1, <1>2
  <2> QED BY <2>1, <2>2
<1>5. h2[Len(h1) + 1] # Slash
  BY <1>1, <1>2, HostsAssumption, TextAssumption
<1> QED BY <1>3, <1>4, <1>5

(* No two requests share a key: buildKey() is injective on hosts without '/'. *)
THEOREM KeyInjective ==
    ASSUME NEW h1 \in Hosts, NEW h2 \in Hosts, NEW p1 \in Paths, NEW p2 \in Paths,
           BuildKey(h1, p1) = BuildKey(h2, p2)
    PROVE  h1 = h2 /\ p1 = p2
<1>1. /\ h1 \in Seq(Char) /\ h2 \in Seq(Char)
      /\ p1 \in Seq(Char) /\ p2 \in Seq(Char)
  BY TextAssumption
<1>2. Len(h1) = Len(h2)
  <2>1. Len(h1) <= Len(h2) /\ Len(h2) <= Len(h1)
    BY HostNotLonger
  <2> QED BY <2>1, <1>1
<1>3. Len(p1) = Len(p2)
  <2>1. Len(BuildKey(h1, p1)) = Len(h1) + 3 + Len(p1)
    BY KeyParts
  <2>2. Len(BuildKey(h2, p2)) = Len(h2) + 3 + Len(p2)
    BY KeyParts
  <2>3. Len(h1) + 3 + Len(p1) = Len(h2) + 3 + Len(p2)
    BY <2>1, <2>2
  <2> QED BY <2>3, <1>1, <1>2
<1>4. \A i \in 1 .. Len(h1) : h1[i] = h2[i]
  BY <1>2, KeyParts
<1>5. \A i \in 1 .. Len(p1) : p1[i] = p2[i]
  <2>1. \A i \in 1 .. Len(p1) : BuildKey(h1, p1)[Len(h1) + 3 + i] = p1[i]
    BY KeyParts
  <2>2. \A i \in 1 .. Len(p2) : BuildKey(h2, p2)[Len(h2) + 3 + i] = p2[i]
    BY KeyParts
  <2> QED BY <2>1, <2>2, <1>2, <1>3
<1> QED BY <1>1, <1>2, <1>3, <1>4, <1>5, SeqEqual

(* Two streams whose keys are equal have made the same request. *)
LEMMA SameKeySameRequest ==
    ASSUME TypeOK, NEW s \in Streams, NEW t \in Streams,
           request[s] # None, request[t] # None, Key(s) = Key(t)
    PROVE  request[s] = request[t]
<1>1. request[s] \in Request /\ request[t] \in Request
  BY DEF TypeOK
<1>2. /\ request[s].host \in Hosts /\ request[t].host \in Hosts
      /\ request[s].path \in Paths /\ request[t].path \in Paths
  BY <1>1 DEF Request
<1>3. BuildKey(request[s].host, request[s].path)
          = BuildKey(request[t].host, request[t].path)
  BY DEF Key
<1>4. request[s].host = request[t].host /\ request[s].path = request[t].path
  BY <1>2, <1>3, KeyInjective
<1> QED BY <1>1, <1>4 DEF Request

(* The key of a stream with a request is a text. *)
LEMMA KeyType ==
    ASSUME TypeOK, NEW s \in Streams, request[s] # None
    PROVE  Key(s) \in Seq(Char)
<1>1. request[s] \in Request
  BY DEF TypeOK
<1>2. request[s].host \in Hosts /\ request[s].path \in Paths
  BY <1>1 DEF Request
<1> QED BY <1>2, KeyParts DEF Key

(* Setting role_ changes one filter of one stream. *)
LEMMA SetRoleEffect ==
    ASSUME TypeOK, NEW s \in Streams, at[s] \in DOMAIN filters[s],
           NEW role \in {"Cached", "Leader", "Follower"}, NEW by \in Streams,
           SetRole(s, role, by)
    PROVE  /\ filters' \in [Streams -> Seq(FilterOf(caches))]
           /\ \A t \in Streams : filters'[t] # <<>> => filters[t] # <<>>
           /\ \A t \in Streams : \A i \in DOMAIN filters'[t] :
                 /\ i \in DOMAIN filters[t]
                 /\ \/ filters'[t][i].by = filters[t][i].by
                    \/ t = s /\ filters'[t][i].by = by
<1> DEFINE n == at[s]
           old == filters[s]
           new == [old EXCEPT ![n] = [[old[n] EXCEPT !.role = role] EXCEPT !.by = by]]
<1>1. old \in Seq(FilterOf(caches)) /\ n \in 1 .. Len(old)
  BY DEF TypeOK
<1>2. filters' = [filters EXCEPT ![s] = new]
  BY DEF SetRole, TypeOK
<1>3. old[n] \in FilterOf(caches)
  BY <1>1
<1>4. [[old[n] EXCEPT !.role = role] EXCEPT !.by = by] \in FilterOf(caches)
  BY <1>3 DEF FilterOf
<1>5. [[old[n] EXCEPT !.role = role] EXCEPT !.by = by].by = by
  BY <1>3 DEF FilterOf
<1>6. new \in Seq(FilterOf(caches)) /\ Len(new) = Len(old)
  BY <1>1, <1>4
<1>7. new # <<>> /\ old # <<>>
  BY <1>1, <1>6
<1>8. \A i \in 1 .. Len(old) : new[i].by = old[i].by \/ new[i].by = by
  BY <1>1, <1>5
<1>9. filters'[s] = new /\ \A t \in Streams \ {s} : filters'[t] = filters[t]
  BY <1>2 DEF TypeOK
<1>10. filters' \in [Streams -> Seq(FilterOf(caches))]
  BY <1>2, <1>6 DEF TypeOK
<1> HIDE DEF new
<1>11. \A i \in DOMAIN new :
          i \in DOMAIN old /\ (new[i].by = old[i].by \/ new[i].by = by)
  BY <1>1, <1>6, <1>8
<1> QED BY <1>7, <1>9, <1>10, <1>11

(* What is released is gone, and what a factory holds stays. *)
LEMMA ReleasedType ==
    ASSUME TypeOK, NEW h, NEW f
    PROVE  /\ Released(h, f) \in [Configs -> ConfigOf(caches) \cup {None}]
           /\ \A c \in h \cap Configs : Released(h, f)[c] = configs[c]
BY DEF Released, TypeOK

(* There is no cache yet when getTyped() makes one. *)
LEMMA NoCacheYet ==
    ASSUME TypeOK, OneCache, ~Registered
    PROVE  caches = <<>>
<1>1. SUFFICES ASSUME caches # <<>> PROVE FALSE
  OBVIOUS
<1>2. Len(caches) \in DOMAIN caches
  BY <1>1 DEF TypeOK
<1>3. Shared(Len(caches))
  BY <1>2 DEF OneCache, Shared
<1> QED BY <1>1, <1>3 DEF Registered

-----------------------------------------------------------------------------
(* The invariant is inductive: one lemma per action.                       *)

(* The program starts with it: no cache, no configuration, no stream. *)
LEMMA InitHolds == Init => IInv
<1> SUFFICES ASSUME Init PROVE IInv
  OBVIOUS
<1>1. TypeOK
  BY DEF Init, TypeOK
<1>2. OneCache
  BY DEF Init, OneCache
<1> QED
  BY <1>1, <1>2 DEF Init, IInv, RequestsKnown, EntriesKeyed, InflightIsMap,
                    FragmentsStored, AnsweredForItsOwnRequest

(* Steps that leave requests, filters and entries alone disturb only the type
   and the cache. *)
LEMMA SetupOnly ==
    ASSUME IInv, TypeOK', OneCache',
           UNCHANGED <<inflight, stored, request, filters, at, fragment>>
    PROVE  IInv'
BY DEF IInv, RequestsKnown, EntriesKeyed, InflightIsMap, FragmentsStored,
       AnsweredForItsOwnRequest, Key

(* A configuration shares the cache there is, or makes the first and keeps it. *)
LEMMA CreateFilterFactoryPreserves ==
    ASSUME IInv, NEW c \in Configs, NEW p \in Protos, CreateFilterFactory(c, p)
    PROVE  IInv'
<1> USE DEF IInv
<1>1. p \in [capacity : Nat \ {0}, slot_count : Nat \ {0}]
  BY ProtosAssumption DEF CreateFilterFactory, Valid
<1>2. /\ caches' \in Seq([capacity : Nat \ {0}, slot_count : Nat \ {0}])
      /\ DOMAIN caches \subseteq DOMAIN caches'
      /\ GetTyped \in DOMAIN caches'
      /\ OneCache'
      /\ pinned' \subseteq DOMAIN caches'
  <2>1. CASE Registered
    <3>1. caches' = caches /\ pinned' = pinned
      BY <2>1 DEF CreateFilterFactory
    <3>2. Len(caches) \in DOMAIN caches
      BY <2>1 DEF Registered, TypeOK
    <3> QED BY <2>1, <3>1, <3>2 DEF GetTyped, OneCache, TypeOK
  <2>2. CASE ~Registered
    <3>1. caches = <<>>
      BY <2>2, NoCacheYet
    <3>2. caches' = <<p>> /\ pinned' = pinned \cup {1}
      BY <2>2, <3>1 DEF CreateFilterFactory, Keep
    <3>3. DOMAIN caches' = {1} /\ Len(caches') = 1 /\ DOMAIN caches = {}
      BY <3>1, <3>2
    <3>4. pinned = {}
      BY <3>3 DEF OneCache
    <3>5. GetTyped = 1
      BY <2>2, <3>1 DEF GetTyped
    <3> QED BY <1>1, <3>2, <3>3, <3>4, <3>5 DEF OneCache
  <2> QED BY <2>1, <2>2
<1>3. /\ configs' \in [Configs -> ConfigOf(caches') \cup {None}]
      /\ held' \subseteq {d \in Configs : configs'[d] # None}
  <2>1. [proto |-> p, cache |-> GetTyped] \in ConfigOf(caches')
    BY <1>2 DEF ConfigOf
  <2>2. [proto |-> p, cache |-> GetTyped] # None
    <3>1. DOMAIN caches' \subseteq Nat
      BY <1>2
    <3> QED BY <2>1, <3>1, NoneAssumption DEF ConfigOf
  <2>3. configs \in [Configs -> ConfigOf(caches') \cup {None}]
    BY <1>2 DEF TypeOK, ConfigOf
  <2>4. /\ configs' = [configs EXCEPT ![c] = [proto |-> p, cache |-> GetTyped]]
        /\ held' = held \cup {c}
    BY DEF CreateFilterFactory
  <2> QED BY <2>1, <2>2, <2>3, <2>4 DEF TypeOK
<1>4. /\ EntryOf(caches) \subseteq EntryOf(caches')
      /\ FilterOf(caches) \subseteq FilterOf(caches')
  BY <1>2 DEF EntryOf, FilterOf
<1>5. filters' \in [Streams -> Seq(FilterOf(caches'))]
  <2>1. Seq(FilterOf(caches)) \subseteq Seq(FilterOf(caches'))
    BY <1>4
  <2>2. filters' = filters /\ filters \in [Streams -> Seq(FilterOf(caches))]
    BY DEF CreateFilterFactory, TypeOK
  <2> QED BY <2>1, <2>2
<1>6. TypeOK'
  BY <1>2, <1>3, <1>4, <1>5 DEF CreateFilterFactory, TypeOK
<1> QED BY <1>2, <1>6, SetupOnly DEF CreateFilterFactory

(* The end of a listener may take configurations with it, never the cache. *)
LEMMA RemoveFilterFactoryPreserves ==
    ASSUME IInv, NEW c \in Configs, RemoveFilterFactory(c)
    PROVE  IInv'
<1> USE DEF IInv
<1>1. TypeOK'
  <2>1. /\ configs' \in [Configs -> ConfigOf(caches) \cup {None}]
        /\ \A d \in held' \cap Configs : configs'[d] = configs[d]
    BY ReleasedType DEF RemoveFilterFactory
  <2> QED BY <2>1 DEF RemoveFilterFactory, TypeOK
<1>2. OneCache'
  BY DEF RemoveFilterFactory, OneCache
<1> QED BY <1>1, <1>2, SetupOnly DEF RemoveFilterFactory

(* A stream that begins is in no entry and in no other stream's filters yet. *)
LEMMA CreateFilterChainPreserves ==
    ASSUME IInv, NEW s \in Streams, NEW chain \in Chains, NEW host \in Hosts,
           NEW path \in Paths, CreateFilterChain(s, chain, host, path)
    PROVE  IInv'
<1> USE DEF IInv
<1> DEFINE req == [host |-> host, path |-> path]
           Made(i) == [config |-> chain[i], cache |-> configs[chain[i]].cache,
                       role |-> "Unset", by |-> None]
           made == [i \in DOMAIN chain |-> Made(i)]
<1>1. req \in Request /\ req # None
  BY NoneAssumption DEF Request
<1>2. made \in Seq(FilterOf(caches)) /\ \A i \in DOMAIN made : made[i].by = None
  <2>1. chain \in Seq(Configs) /\ \A i \in DOMAIN chain : chain[i] \in held
    BY ChainsAssumption DEF CreateFilterChain
  <2>2. \A c \in held : c \in Configs /\ configs[c].cache \in DOMAIN caches
    BY DEF TypeOK, ConfigOf
  <2>3. \A i \in DOMAIN chain : Made(i) \in FilterOf(caches)
    BY <2>1, <2>2 DEF FilterOf
  <2>4. DOMAIN chain = 1 .. Len(chain) /\ Len(chain) \in Nat
    BY <2>1
  <2> HIDE DEF Made
  <2>5. made \in Seq(FilterOf(caches))
    BY <2>3, <2>4
  <2> USE DEF Made
  <2> QED BY <2>5
<1>3. /\ request' = [request EXCEPT ![s] = req]
      /\ filters' = [filters EXCEPT ![s] = made]
      /\ at' = [at EXCEPT ![s] = 1]
      /\ UNCHANGED <<setup, inflight, stored, answered, fragment>>
  BY DEF CreateFilterChain
<1> HIDE DEF req, made
<1>4. /\ request'[s] = req /\ filters'[s] = made /\ at'[s] = 1
      /\ \A t \in Streams \ {s} : /\ request'[t] = request[t]
                                 /\ filters'[t] = filters[t]
                                 /\ at'[t] = at[t]
  BY <1>3 DEF TypeOK
<1>5. request[s] = None
  BY DEF CreateFilterChain, RequestsKnown
<1>6. TypeOK'
  BY <1>1, <1>2, <1>3 DEF TypeOK, setup
<1>7. OneCache'
  BY <1>3 DEF OneCache, setup
<1>8. RequestsKnown'
  BY <1>1, <1>4 DEF RequestsKnown
<1>9. EntriesKeyed'
  <2>1. ASSUME NEW e \in inflight \cup stored
        PROVE  request'[e.by] # None /\ e.key = Key(e.by)'
    <3>1. e.by \in Streams \ {s}
      BY <1>5 DEF EntriesKeyed, TypeOK, EntryOf
    <3> QED BY <3>1, <1>4 DEF EntriesKeyed, Key
  <2> QED BY <2>1, <1>3 DEF EntriesKeyed
<1>10. InflightIsMap' /\ FragmentsStored'
  BY <1>3 DEF InflightIsMap, FragmentsStored
<1>11. AnsweredForItsOwnRequest'
  <2>1. ASSUME NEW t \in Streams, NEW i \in DOMAIN filters'[t],
               filters'[t][i].by # None
        PROVE  request'[filters'[t][i].by] = request'[t]
    <3>1. t # s
      BY <2>1, <1>2, <1>4
    <3>2. filters'[t] = filters[t] /\ request'[t] = request[t] /\ filters[t] # <<>>
      BY <3>1, <1>4
    <3>3. request[filters[t][i].by] = request[t] /\ request[t] # None
      BY <2>1, <3>2 DEF AnsweredForItsOwnRequest, RequestsKnown
    <3>4. filters[t][i].by \in Streams
      <4>1. filters[t] \in Seq(FilterOf(caches)) /\ i \in DOMAIN filters[t]
        BY <2>1, <3>2 DEF TypeOK
      <4>2. filters[t][i] \in FilterOf(caches)
        BY <4>1
      <4> QED BY <2>1, <3>2, <4>2 DEF FilterOf
    <3> QED BY <3>2, <3>3, <3>4, <1>4, <1>5
  <2> QED BY <2>1 DEF AnsweredForItsOwnRequest
<1> QED BY <1>6, <1>7, <1>8, <1>9, <1>10, <1>11

(* A request that goes on along its chain, and nothing else. *)
LEMMA ContinuePreserves ==
    ASSUME IInv, NEW s \in Streams, at[s] \in DOMAIN filters[s], Continue(s),
           UNCHANGED <<setup, inflight, stored, request, filters, answered, fragment>>
    PROVE  IInv'
<1> USE DEF IInv
<1>1. at[s] \in Nat /\ at[s] # 0
  BY DEF TypeOK
<1>2. at' \in [Streams -> Nat] /\ \A t \in Streams : at'[t] = 0 => at[t] = 0
  BY <1>1 DEF Continue, TypeOK
<1>3. TypeOK'
  BY <1>2 DEF TypeOK, setup
<1>4. RequestsKnown'
  BY <1>2 DEF RequestsKnown
<1> QED
  BY <1>3, <1>4 DEF OneCache, setup, EntriesKeyed, InflightIsMap,
                    FragmentsStored, AnsweredForItsOwnRequest, Key

(* What is found under a stream's key was fetched for the stream's request. *)
LEMMA FoundIsOwn ==
    ASSUME IInv, NEW s \in Streams, Reached(s),
           NEW e \in inflight \cup stored, e.key = Key(s)
    PROVE  e.by \in Streams /\ request[e.by] = request[s]
<1> USE DEF IInv
<1>1. e.by \in Streams /\ request[e.by] # None /\ Key(e.by) = Key(s)
  BY DEF TypeOK, EntryOf, EntriesKeyed
<1>2. request[s] # None
  BY DEF Reached, RequestsKnown
<1> QED BY <1>1, <1>2, SameKeySameRequest

(* A filter that is given its role and a response for its own request. *)
LEMMA RolePreserves ==
    ASSUME IInv, NEW s \in Streams, Reached(s),
           NEW role \in {"Cached", "Leader", "Follower"}, NEW by \in Streams,
           SetRole(s, role, by), request[by] = request[s], UNCHANGED request,
           \A t \in Streams : at'[t] = 0 => at[t] = 0
    PROVE  /\ filters' \in [Streams -> Seq(FilterOf(caches))]
           /\ RequestsKnown'
           /\ AnsweredForItsOwnRequest'
<1> USE DEF IInv
<1>1. /\ filters' \in [Streams -> Seq(FilterOf(caches))]
      /\ \A t \in Streams : filters'[t] # <<>> => filters[t] # <<>>
      /\ \A t \in Streams : \A i \in DOMAIN filters'[t] :
            /\ i \in DOMAIN filters[t]
            /\ \/ filters'[t][i].by = filters[t][i].by
               \/ t = s /\ filters'[t][i].by = by
  BY SetRoleEffect DEF Reached
<1>2. RequestsKnown'
  BY <1>1 DEF RequestsKnown
<1>3. AnsweredForItsOwnRequest'
  BY <1>1 DEF AnsweredForItsOwnRequest
<1> QED BY <1>1, <1>2, <1>3

(* A hit points into an entry that was fetched for its own request. *)
LEMMA HitPreserves ==
    ASSUME IInv, NEW s \in Streams, Hit(s)
    PROVE  IInv'
<1> USE DEF IInv
<1>1. PICK e \in Under(s, stored) :
         SetRole(s, "Cached", e.by) /\ fragment' = [fragment EXCEPT ![s] = e]
  BY DEF Hit
<1>2. Reached(s) /\ UNCHANGED <<at, setup, inflight, stored, request, answered>>
  BY DEF Hit, StopIteration
<1>3. e \in stored /\ e \in EntryOf(caches) /\ e.key = Key(s)
  BY <1>1 DEF Under, TypeOK
<1>4. e.by \in Streams /\ request[e.by] = request[s]
  BY <1>2, <1>3, FoundIsOwn
<1>5. /\ filters' \in [Streams -> Seq(FilterOf(caches))]
      /\ RequestsKnown'
      /\ AnsweredForItsOwnRequest'
  BY <1>1, <1>2, <1>4, RolePreserves
<1>6. TypeOK'
  BY <1>1, <1>2, <1>3, <1>5 DEF TypeOK, setup
<1>7. FragmentsStored'
  BY <1>1, <1>2, <1>3 DEF FragmentsStored, TypeOK
<1> QED
  BY <1>2, <1>5, <1>6, <1>7 DEF OneCache, setup, EntriesKeyed, InflightIsMap, Key

(* A follower waits for a response to its own request. *)
LEMMA FollowPreserves ==
    ASSUME IInv, NEW s \in Streams, Follow(s)
    PROVE  IInv'
<1> USE DEF IInv
<1>1. PICK e \in Under(s, inflight) : SetRole(s, "Follower", e.by)
  BY DEF Follow
<1>2. Reached(s) /\ UNCHANGED <<at, setup, inflight, stored, request, answered, fragment>>
  BY DEF Follow, StopIteration
<1>3. e \in inflight /\ e.key = Key(s)
  BY <1>1 DEF Under
<1>4. e.by \in Streams /\ request[e.by] = request[s]
  BY <1>2, <1>3, FoundIsOwn
<1>5. /\ filters' \in [Streams -> Seq(FilterOf(caches))]
      /\ RequestsKnown'
      /\ AnsweredForItsOwnRequest'
  BY <1>1, <1>2, <1>4, RolePreserves
<1>6. TypeOK'
  BY <1>2, <1>5 DEF TypeOK, setup
<1> QED
  BY <1>2, <1>5, <1>6 DEF OneCache, setup, EntriesKeyed, InflightIsMap,
                          FragmentsStored, Key

(* A leader's key was not inflight, in the one cache there is. *)
LEMMA LeadPreserves ==
    ASSUME IInv, NEW s \in Streams, Lead(s)
    PROVE  IInv'
<1> USE DEF IInv
<1>1. /\ Reached(s) /\ SetRole(s, "Leader", s) /\ Under(s, inflight) = {}
      /\ inflight' = inflight \cup {Entry(s)}
      /\ at' = [at EXCEPT ![s] = @ + 1]
      /\ UNCHANGED <<setup, stored, request, answered, fragment>>
  BY DEF Lead, Continue
<1>2. at' \in [Streams -> Nat] /\ \A t \in Streams : at'[t] = 0 => at[t] = 0
  BY <1>1 DEF TypeOK
<1>3. /\ filters' \in [Streams -> Seq(FilterOf(caches))]
      /\ RequestsKnown'
      /\ AnsweredForItsOwnRequest'
  BY <1>1, <1>2, RolePreserves
<1>4. request[s] # None
  BY <1>1 DEF Reached, RequestsKnown
<1>5. Entry(s) \in EntryOf(caches)
  <2>1. filters[s] \in Seq(FilterOf(caches)) /\ at[s] \in DOMAIN filters[s]
    BY <1>1 DEF TypeOK, Reached
  <2>2. Filter(s) \in FilterOf(caches)
    BY <2>1 DEF Filter
  <2>3. Key(s) \in Seq(Char)
    BY <1>4, KeyType
  <2> QED BY <2>2, <2>3 DEF Entry, EntryOf, FilterOf
<1>6. TypeOK'
  BY <1>1, <1>2, <1>3, <1>5 DEF TypeOK, setup
<1>7. EntriesKeyed'
  <2>1. \A e \in inflight \cup stored : request'[e.by] # None /\ e.key = Key(e.by)'
    BY <1>1 DEF EntriesKeyed, Key
  <2>2. request'[s] # None /\ Entry(s).by = s /\ Entry(s).key = Key(s)'
    BY <1>1, <1>4 DEF Entry, Key
  <2>3. inflight' \cup stored' = (inflight \cup stored) \cup {Entry(s)}
    BY <1>1
  <2> QED BY <2>1, <2>2, <2>3 DEF EntriesKeyed
<1>8. InflightIsMap'
  <2>1. ASSUME NEW e \in inflight PROVE e.key # Entry(s).key
    <3>1. \A i, j \in DOMAIN caches : i = j
      BY DEF OneCache, TypeOK
    <3>2. e.cache \in DOMAIN caches /\ Entry(s).cache \in DOMAIN caches
      BY <1>5 DEF TypeOK, EntryOf
    <3>3. e.cache = Filter(s).cache
      BY <3>1, <3>2 DEF Entry
    <3> QED BY <3>3, <1>1 DEF Under, Entry
  <2> QED BY <2>1, <1>1 DEF InflightIsMap
<1> QED
  BY <1>1, <1>3, <1>6, <1>7, <1>8 DEF OneCache, setup, FragmentsStored

(* The end of a response moves its entry, or drops it. *)
LEMMA RespondPreserves ==
    ASSUME IInv, NEW s \in Streams, Respond(s)
    PROVE  IInv'
<1> USE DEF IInv
<1>1. /\ inflight' \subseteq inflight
      /\ stored \subseteq stored' /\ stored' \subseteq stored \cup inflight
      /\ answered' \subseteq Streams
      /\ UNCHANGED <<setup, request, filters, at, fragment>>
  BY DEF Respond, TypeOK
<1>2. TypeOK'
  BY <1>1 DEF TypeOK, setup
<1>3. EntriesKeyed'
  BY <1>1 DEF EntriesKeyed, Key
<1> QED
  BY <1>1, <1>2, <1>3 DEF OneCache, setup, RequestsKnown, InflightIsMap,
                          FragmentsStored, AnsweredForItsOwnRequest

(* An eviction takes no entry that a fragment points into. *)
LEMMA EvictPreserves ==
    ASSUME IInv, NEW e \in stored, Evict(e)
    PROVE  IInv'
<1> USE DEF IInv
<1>1. /\ stored' = stored \ {e}
      /\ UNCHANGED <<setup, inflight, request, filters, at, answered, fragment>>
  BY DEF Evict
<1>2. TypeOK'
  BY <1>1 DEF TypeOK, setup
<1>3. FragmentsStored'
  BY <1>1 DEF Evict, InUse, FragmentsStored
<1>4. EntriesKeyed'
  BY <1>1 DEF EntriesKeyed, Key
<1> QED
  BY <1>1, <1>2, <1>3, <1>4 DEF OneCache, setup, RequestsKnown, InflightIsMap,
                                AnsweredForItsOwnRequest

(* The end of a stream takes its filters, and maybe their configurations. *)
LEMMA DestroyPreserves ==
    ASSUME IInv, NEW s \in Streams, Destroy(s)
    PROVE  IInv'
<1> USE DEF IInv
<1>1. /\ filters' = [filters EXCEPT ![s] = <<>>]
      /\ UNCHANGED <<held, caches, pinned, inflight, stored, request, at,
                     answered, fragment>>
  BY DEF Destroy
<1>2. /\ filters' \in [Streams -> Seq(FilterOf(caches))]
      /\ filters'[s] = <<>>
      /\ \A t \in Streams \ {s} : filters'[t] = filters[t]
  BY <1>1 DEF TypeOK
<1>3. /\ configs' \in [Configs -> ConfigOf(caches) \cup {None}]
      /\ \A d \in held \cap Configs : configs'[d] = configs[d]
  BY ReleasedType DEF Destroy
<1>4. TypeOK'
  BY <1>1, <1>2, <1>3 DEF TypeOK
<1>5. RequestsKnown' /\ AnsweredForItsOwnRequest'
  BY <1>1, <1>2 DEF RequestsKnown, AnsweredForItsOwnRequest
<1> QED
  BY <1>1, <1>4, <1>5 DEF OneCache, EntriesKeyed, InflightIsMap, FragmentsStored, Key

(* The releasor gives up one fragment. *)
LEMMA ReleaseFragmentPreserves ==
    ASSUME IInv, NEW s \in Streams, ReleaseFragment(s)
    PROVE  IInv'
<1> USE DEF IInv
<1>1. /\ fragment' = [fragment EXCEPT ![s] = None]
      /\ UNCHANGED <<setup, inflight, stored, request, filters, at, answered>>
  BY DEF ReleaseFragment
<1>2. TypeOK' /\ FragmentsStored'
  BY <1>1 DEF TypeOK, setup, FragmentsStored
<1> QED
  BY <1>1, <1>2 DEF OneCache, setup, RequestsKnown, EntriesKeyed, InflightIsMap,
                    AnsweredForItsOwnRequest, Key

(* Every step preserves the invariant. *)
LEMMA NextPreserves == IInv /\ [Next]_vars => IInv'
<1> SUFFICES ASSUME IInv, [Next]_vars PROVE IInv'
  OBVIOUS
<1>1. CASE \E c \in Configs :
              (\E p \in Protos : CreateFilterFactory(c, p)) \/ RemoveFilterFactory(c)
  BY <1>1, CreateFilterFactoryPreserves, RemoveFilterFactoryPreserves
<1>2. CASE \E s \in Streams, chain \in Chains, host \in Hosts, path \in Paths :
              CreateFilterChain(s, chain, host, path)
  BY <1>2, CreateFilterChainPreserves
<1>3. CASE \E s \in Streams : DecodeHeaders(s) \/ DecodeBody(s)
  <2>1. PICK s \in Streams : DecodeHeaders(s) \/ DecodeBody(s)
    BY <1>3
  <2>2. CASE Bypass(s)
    BY <2>2, ContinuePreserves DEF Bypass, Reached
  <2>3. CASE DecodeBody(s)
    BY <2>3, ContinuePreserves DEF DecodeBody
  <2> QED BY <2>1, <2>2, <2>3, HitPreserves, LeadPreserves, FollowPreserves
          DEF DecodeHeaders
<1>4. CASE \E s \in Streams : Respond(s) \/ Destroy(s) \/ ReleaseFragment(s)
  BY <1>4, RespondPreserves, DestroyPreserves, ReleaseFragmentPreserves
<1>5. CASE \E e \in stored : Evict(e)
  BY <1>5, EvictPreserves
<1>6. CASE UNCHANGED vars
  <2>1. /\ UNCHANGED <<inflight, stored, request, filters, at, fragment>>
        /\ UNCHANGED <<configs, held, caches, pinned, answered>>
    BY <1>6 DEF vars
  <2>2. TypeOK' /\ OneCache'
    BY <2>1 DEF IInv, TypeOK, OneCache
  <2> QED BY <2>1, <2>2, SetupOnly
<1> QED BY <1>1, <1>2, <1>3, <1>4, <1>5, <1>6 DEF Next

(* The invariant holds in every reachable state. *)
THEOREM Invariance == SafetySpec => []IInv
BY InitHolds, NextPreserves, PTL DEF SafetySpec

-----------------------------------------------------------------------------
(* What follows from it.                                                   *)

(* Every reachable state is well typed; both sizes of the cache that
   getTyped() made are positive, as RingStore assumes. *)
THEOREM TypeCorrect == SafetySpec => []TypeOK
<1>1. IInv => TypeOK
  BY DEF IInv
<1> QED BY <1>1, Invariance, PTL

(* The releasor of a hit's body, and the connection that sends it, never meet
   a freed entry or a freed cache, in whatever order streams, filters,
   configurations and bodies go away. *)
THEOREM FragmentsValid == SafetySpec => []FragmentsPointIntoTheCache
<1>1. IInv => FragmentsPointIntoTheCache
  <2> SUFFICES ASSUME IInv, NEW s \in Streams, fragment[s] # None
               PROVE  fragment[s] \in stored /\ Shared(fragment[s].cache)
    BY DEF FragmentsPointIntoTheCache
  <2>1. fragment[s] \in stored
    BY DEF IInv, FragmentsStored
  <2>2. fragment[s].cache \in DOMAIN caches
    BY <2>1 DEF IInv, TypeOK, EntryOf
  <2> QED BY <2>1, <2>2 DEF IInv, OneCache, Shared
<1> QED BY <1>1, Invariance, PTL

(* No follower and no hit is given the response to another host or path. *)
THEOREM OwnResponses == SafetySpec => []AnsweredForItsOwnRequest
<1>1. IInv => AnsweredForItsOwnRequest
  BY DEF IInv
<1> QED BY <1>1, Invariance, PTL

(* Requests are coalesced across configurations: one leader per request. *)
THEOREM OneLeader == SafetySpec => []OneLeaderPerRequest
<1>1. IInv => OneLeaderPerRequest
  BY DEF IInv, EntriesKeyed, InflightIsMap, Key, OneLeaderPerRequest
<1> QED BY <1>1, Invariance, PTL

(* The first configuration decides the sizes of the cache for good. *)
THEOREM CacheMadeOnce == SafetySpec => FirstConfigurationRules
<1>1. IInv /\ [Next]_vars => [caches # <<>> => caches' = caches]_vars
  <2> SUFFICES ASSUME IInv, Next, caches # <<>> PROVE caches' = caches
    OBVIOUS
  <2>1. ASSUME NEW c \in Configs, NEW p \in Protos, CreateFilterFactory(c, p)
        PROVE  caches' = caches
    <3>1. Registered
      BY NoCacheYet DEF IInv
    <3> QED BY <2>1, <3>1 DEF CreateFilterFactory
  <2> QED
    BY <2>1 DEF Next, RemoveFilterFactory, CreateFilterChain, DecodeHeaders,
                Bypass, Hit, Lead, Follow, DecodeBody, Respond, Evict, Destroy,
                ReleaseFragment, setup
<1> QED BY <1>1, Invariance, PTL DEF SafetySpec, FirstConfigurationRules

-----------------------------------------------------------------------------
(* Without request bodies.                                                 *)

Served == {"Cached", "Follower"}

(* A request has stopped at the filter that serves it, and is past all its
   filters when the upstream has answered it. *)
StopInv ==
    \A s \in Streams :
        /\ \A i \in DOMAIN filters[s] : filters[s][i].role \in Served => at[s] = i
        /\ s \in answered => at[s] # 0 /\ (filters[s] = <<>> \/ at[s] > Len(filters[s]))

(* Setting role_ changes the role of one filter. *)
LEMMA SetRoleRoles ==
    ASSUME TypeOK, NEW s \in Streams, at[s] \in DOMAIN filters[s],
           NEW role, NEW by, SetRole(s, role, by)
    PROVE  /\ \A t \in Streams : t # s => filters'[t] = filters[t]
           /\ DOMAIN filters'[s] = DOMAIN filters[s]
           /\ filters'[s][at[s]].role = role
           /\ \A i \in DOMAIN filters[s] : i # at[s] => filters'[s][i] = filters[s][i]
<1> DEFINE n == at[s]
           old == filters[s]
           new == [old EXCEPT ![n] = [[old[n] EXCEPT !.role = role] EXCEPT !.by = by]]
<1>1. old \in Seq(FilterOf(caches)) /\ n \in DOMAIN old
  BY DEF TypeOK
<1>2. filters'[s] = new /\ \A t \in Streams : t # s => filters'[t] = filters[t]
  BY DEF SetRole, TypeOK
<1>3. old[n] \in FilterOf(caches)
  BY <1>1
<1>4. [[old[n] EXCEPT !.role = role] EXCEPT !.by = by].role = role
  BY <1>3 DEF FilterOf
<1>5. /\ DOMAIN new = DOMAIN old /\ new[n].role = role
      /\ \A i \in DOMAIN old : i # n => new[i] = old[i]
  BY <1>1, <1>4
<1> QED
  BY <1>2, <1>5

(* Every step preserves it, if no request has a body. *)
LEMMA NextStopInv ==
    ASSUME ~RequestBodies, IInv, StopInv, [Next]_vars
    PROVE  StopInv'
<1>0. TypeOK /\ \A s \in Streams : at[s] \in Nat /\ Len(filters[s]) \in Nat
  BY DEF IInv, TypeOK
<1>1. CASE UNCHANGED <<filters, at, answered>>
  BY <1>1 DEF StopInv
<1>2. ASSUME NEW s \in Streams, NEW chain \in Chains, NEW host, NEW path,
             CreateFilterChain(s, chain, host, path)
      PROVE  StopInv'
  <2>1. /\ at[s] = 0 /\ answered' = answered
        /\ \A i \in DOMAIN filters'[s] : filters'[s][i].role = "Unset"
        /\ \A t \in Streams : t # s => filters'[t] = filters[t] /\ at'[t] = at[t]
    BY <1>0, <1>2 DEF CreateFilterChain, TypeOK
  <2>2. s \notin answered
    BY <2>1 DEF StopInv
  <2> QED
    BY <2>1, <2>2 DEF StopInv, Served
<1>3. ASSUME NEW s \in Streams, Reached(s)
      PROVE  s \notin answered /\ at[s] \in DOMAIN filters[s]
             /\ \A i \in DOMAIN filters[s] : filters[s][i].role \notin Served
  <2>1. at[s] \in DOMAIN filters[s] /\ filters[s][at[s]].role = "Unset"
    BY <1>3 DEF Reached, Filter
  <2>2. at[s] \in 1 .. Len(filters[s]) /\ filters[s] # <<>>
    BY <1>0, <2>1 DEF TypeOK
  <2>3. s \notin answered
    BY <1>0, <2>2 DEF StopInv
  <2> QED
    BY <2>1, <2>3 DEF StopInv, Served
<1>4. ASSUME NEW s \in Streams, Bypass(s)
      PROVE  StopInv'
  <2>1. /\ Reached(s) /\ UNCHANGED <<filters, answered>>
        /\ \A t \in Streams : t # s => at'[t] = at[t]
    BY <1>0, <1>4 DEF Bypass, Continue, TypeOK
  <2> QED
    BY <1>3, <2>1 DEF StopInv
<1>5. ASSUME NEW s \in Streams, Hit(s) \/ Follow(s)
      PROVE  StopInv'
  <2>1. Reached(s) /\ UNCHANGED <<at, answered>>
    BY <1>5 DEF Hit, Follow, StopIteration
  <2>2. PICK role, by : SetRole(s, role, by)
    BY <1>5 DEF Hit, Follow
  <2>3. /\ \A t \in Streams : t # s => filters'[t] = filters[t]
        /\ DOMAIN filters'[s] = DOMAIN filters[s]
        /\ \A i \in DOMAIN filters[s] : i # at[s] => filters'[s][i] = filters[s][i]
    BY <1>0, <1>3, <2>1, <2>2, SetRoleRoles
  <2> QED
    BY <1>3, <2>1, <2>3 DEF StopInv
<1>6. ASSUME NEW s \in Streams, Lead(s)
      PROVE  StopInv'
  <2>1. /\ Reached(s) /\ answered' = answered /\ SetRole(s, "Leader", s)
        /\ \A t \in Streams : t # s => at'[t] = at[t]
    BY <1>0, <1>6 DEF Lead, Continue, TypeOK
  <2>2. /\ \A t \in Streams : t # s => filters'[t] = filters[t]
        /\ DOMAIN filters'[s] = DOMAIN filters[s]
        /\ filters'[s][at[s]].role = "Leader"
        /\ \A i \in DOMAIN filters[s] : i # at[s] => filters'[s][i] = filters[s][i]
    BY <1>0, <1>3, <2>1, SetRoleRoles
  <2>3. \A i \in DOMAIN filters'[s] : filters'[s][i].role \notin Served
    BY <1>3, <2>1, <2>2 DEF Served
  <2> QED
    BY <1>3, <2>1, <2>2, <2>3 DEF StopInv
<1>7. ASSUME NEW s \in Streams, Respond(s)
      PROVE  StopInv'
  <2>1. at[s] = Len(filters[s]) + 1 /\ answered' = answered \cup {s} /\ UNCHANGED <<filters, at>>
    BY <1>7 DEF Respond
  <2> QED
    BY <1>0, <2>1 DEF StopInv
<1>8. ASSUME NEW s \in Streams, Destroy(s)
      PROVE  StopInv'
  <2>1. /\ filters'[s] = <<>> /\ UNCHANGED <<at, answered>>
        /\ \A t \in Streams : t # s => filters'[t] = filters[t]
    BY <1>0, <1>8 DEF Destroy, TypeOK
  <2> QED
    BY <2>1 DEF StopInv
<1> QED
  BY <1>1, <1>2, <1>4, <1>5, <1>6, <1>7, <1>8
  DEF Next, vars, DecodeHeaders, DecodeBody, CreateFilterFactory, RemoveFilterFactory,
      ReleaseFragment, Evict

(* OnlyLeadersAnsweredUpstream, which the run chain_request_body refutes, holds
   if no request has a body or trailers, with any number of cache filters in
   a chain. *)
THEOREM OnlyLeadersWithoutBodies ==
    ASSUME ~RequestBodies
    PROVE  SafetySpec => []OnlyLeadersAnsweredUpstream
<1>1. Init => StopInv
  BY DEF Init, StopInv
<1>2. IInv /\ StopInv /\ [Next]_vars => StopInv'
  BY NextStopInv
<1>3. IInv /\ StopInv => OnlyLeadersAnsweredUpstream
  <2> SUFFICES ASSUME IInv, StopInv, NEW s \in answered, NEW i \in DOMAIN filters[s],
                      filters[s][i].role \in Served
               PROVE  FALSE
    BY DEF OnlyLeadersAnsweredUpstream, Served
  <2>1. s \in Streams /\ i \in 1 .. Len(filters[s]) /\ filters[s] # <<>>
    BY DEF IInv, TypeOK
  <2>2. at[s] = i /\ at[s] > Len(filters[s])
    BY <2>1 DEF StopInv
  <2> QED
    BY <2>1, <2>2 DEF IInv, TypeOK
<1> QED
  BY <1>1, <1>2, <1>3, Invariance, PTL DEF SafetySpec
=============================================================================
