----------------------------- MODULE FilterChain ----------------------------
(***************************************************************************)
(* How a request gets to the cache: the filter configurations and the one  *)
(* cache they share (ring-cache/config.h, config.cc, cache.proto), the     *)
(* filters made for a stream, the key a filter builds, and how far along   *)
(* its filter chain the request goes (decode side of filter.h, filter.cc). *)
(*                                                                         *)
(* Objects live as long as somebody has a shared pointer to them.  A       *)
(* configuration is shared by its filter factory and its filters, a cache  *)
(* by its configurations, their filters and the singleton manager.  The    *)
(* body of a hit points into the cache without owning anything, and it may *)
(* outlive the filter and the stream that asked for it.                    *)
(*                                                                         *)
(* Of the cache itself only what lookup() decides is kept: which keys are  *)
(* inflight or stored, and the stream that leads, or led, them.  RingCache *)
(* has the rest.  Here a cached response always has a body.                *)
(***************************************************************************)
EXTENDS Integers, Sequences

CONSTANTS
    Configs,        \* RingCacheFilterConfig objects
    Protos,         \* configuration messages: [capacity, slot_count]
    Chains,         \* the ring_cache filters of each filter chain, in order
    Streams,
    Char, Slash,    \* characters, and the one that is '/'
    Hosts, Paths,   \* of requests: sequences of characters, maybe empty
    None,
    RequestBodies   \* requests may have a body or trailers

ASSUME ProtosAssumption == Protos \subseteq [capacity : Nat, slot_count : Nat]
ASSUME ChainsAssumption == Chains \subseteq Seq(Configs)
ASSUME TextAssumption ==
    Slash \in Char /\ Hosts \subseteq Seq(Char) /\ Paths \subseteq Seq(Char)

(* Envoy turns requests away whose host is not the authority part of a URI. *)
ASSUME HostsAssumption == \A h \in Hosts : \A i \in DOMAIN h : h[i] # Slash
ASSUME NoneAssumption ==
    /\ None \notin Streams
    /\ None \notin [host : Hosts, path : Paths]
    /\ None \notin [proto : Protos, cache : Nat]
    /\ None \notin [cache : Nat, key : Seq(Char), by : Streams]
ASSUME RequestBodiesAssumption == RequestBodies \in BOOLEAN

VARIABLES
    configs,        \* per configuration: its proto and its cache_, or None
    held,           \* the configurations whose filter factory is in use
    caches,         \* the sizes of the caches made so far; a cache's index
                    \* in it stands for a pointer to the cache
    pinned,         \* the caches that the singleton manager keeps
    inflight,       \* keys in inflight_map_, with the stream that leads
    stored,         \* entries in cache_map_, with the stream that led
    request,        \* the host and path of each stream, None before it comes
    filters,        \* the filters of each stream, in the order of its chain
    at,             \* the filter that a stream's request has come to; one
                    \* more than there are when it has gone to the upstream
    answered,       \* the streams that the upstream has answered
    fragment        \* the entry that the body of a stream's hit points into

vars == <<configs, held, caches, pinned, inflight, stored,
          request, filters, at, answered, fragment>>
setup == <<configs, held, caches, pinned>>

Init ==
    /\ configs = [c \in Configs |-> None]
    /\ held = {}
    /\ caches = <<>>
    /\ pinned = {}
    /\ inflight = {}
    /\ stored = {}
    /\ request = [s \in Streams |-> None]
    /\ filters = [s \in Streams |-> <<>>]
    /\ at = [s \in Streams |-> 0]
    /\ answered = {}
    /\ fragment = [s \in Streams |-> None]

-----------------------------------------------------------------------------
(* Configurations and the singleton.                                       *)

(* Mutant: the rules of cache.proto are not applied. *)
AnyProto(p) == TRUE

(* downcastAndValidate(): both sizes are to be greater than zero. *)
Valid(p) == p.capacity > 0 /\ p.slot_count > 0

(* A shared pointer to cache n is left somewhere. *)
Shared(n) ==
    \/ n \in pinned
    \/ \E c \in Configs : configs[c] # None /\ configs[c].cache = n
    \/ \E s \in Streams : \E i \in DOMAIN filters[s] : filters[s][i].cache = n

(* Mutant: each configuration makes a cache of its own. *)
NeverRegistered == FALSE

(* The singleton manager has the cache under its name, by a weak pointer. *)
Registered == caches # <<>> /\ Shared(Len(caches))

(* Mutant: getTyped() without its last argument. *)
KeepWhileShared(n) == UNCHANGED pinned

Keep(n) == pinned' = pinned \cup {n}

(* The cache that getTyped() returns: the one there is, or a new one with
   this configuration's sizes. *)
GetTyped == IF Registered THEN Len(caches) ELSE Len(caches) + 1

(* createFilterFactoryFromProto() and RingCacheFilterConfig(), on the main
   thread.  What is not valid is refused with an exception. *)
CreateFilterFactory(c, p) ==
    /\ configs[c] = None
    /\ Valid(p)
    /\ configs' = [configs EXCEPT ![c] = [proto |-> p, cache |-> GetTyped]]
    /\ held' = held \cup {c}
    /\ IF Registered
       THEN UNCHANGED <<caches, pinned>>
       ELSE caches' = Append(caches, p) /\ Keep(Len(caches) + 1)
    /\ UNCHANGED <<inflight, stored, request, filters, at, answered, fragment>>

(* The configurations that are left when factories and filters let go. *)
Released(h, f) ==
    [c \in Configs |->
        IF c \in h \/ \E s \in Streams : \E i \in DOMAIN f[s] : f[s][i].config = c
        THEN configs[c] ELSE None]

(* The listener has been removed, or replaced, and has drained. *)
RemoveFilterFactory(c) ==
    /\ c \in held
    /\ held' = held \ {c}
    /\ configs' = Released(held', filters)
    /\ UNCHANGED <<caches, pinned, inflight, stored, request, filters, at,
                   answered, fragment>>

(* A request comes: each factory of the chain adds its filter to the stream,
   which takes its configuration and, from it, the cache. *)
CreateFilterChain(s, chain, host, path) ==
    /\ at[s] = 0
    /\ \A i \in DOMAIN chain : chain[i] \in held
    /\ request' = [request EXCEPT ![s] = [host |-> host, path |-> path]]
    /\ filters' = [filters EXCEPT ![s] =
           [i \in DOMAIN chain |->
               [config |-> chain[i], cache |-> configs[chain[i]].cache,
                role |-> "Unset", by |-> None]]]
    /\ at' = [at EXCEPT ![s] = 1]
    /\ UNCHANGED <<setup, inflight, stored, answered, fragment>>

-----------------------------------------------------------------------------
(* decodeHeaders() of the filter that a request has come to.               *)

Separator == <<Slash, Slash, Slash>>

(* Mutant: the host is left out. *)
PathOnly(host, path) == path

BuildKey(host, path) == host \o Separator \o path

Key(s) == BuildKey(request[s].host, request[s].path)
HasKey(s) == request[s].host # <<>> /\ request[s].path # <<>>

Filter(s) == filters[s][at[s]]

Reached(s) == at[s] \in DOMAIN filters[s] /\ Filter(s).role = "Unset"

Under(s, entries) == {e \in entries : e.cache = Filter(s).cache /\ e.key = Key(s)}

Entry(s) == [cache |-> Filter(s).cache, key |-> Key(s), by |-> s]

(* role_, and the stream whose response this one is given. *)
SetRole(s, role, by) ==
    filters' = [filters EXCEPT ![s][at[s]].role = role, ![s][at[s]].by = by]

(* What decodeHeaders() returns. *)
Continue(s) == at' = [at EXCEPT ![s] = @ + 1]
StopIteration == UNCHANGED at

Bypass(s) ==
    /\ Reached(s)
    /\ ~HasKey(s)
    /\ Continue(s)
    /\ UNCHANGED <<setup, inflight, stored, request, filters, answered, fragment>>

(* The body of the response is a fragment that points into the entry. *)
Hit(s) ==
    /\ Reached(s)
    /\ HasKey(s)
    /\ \E e \in Under(s, stored) :
          /\ SetRole(s, "Cached", e.by)
          /\ fragment' = [fragment EXCEPT ![s] = e]
    /\ StopIteration
    /\ UNCHANGED <<setup, inflight, stored, request, answered>>

Lead(s) ==
    /\ Reached(s)
    /\ HasKey(s)
    /\ Under(s, stored) = {}
    /\ Under(s, inflight) = {}
    /\ inflight' = inflight \cup {Entry(s)}
    /\ SetRole(s, "Leader", s)
    /\ Continue(s)
    /\ UNCHANGED <<setup, stored, request, answered, fragment>>

Follow(s) ==
    /\ Reached(s)
    /\ HasKey(s)
    /\ Under(s, stored) = {}
    /\ \E e \in Under(s, inflight) : SetRole(s, "Follower", e.by)
    /\ StopIteration
    /\ UNCHANGED <<setup, inflight, stored, request, answered, fragment>>

DecodeHeaders(s) == Bypass(s) \/ Hit(s) \/ Lead(s) \/ Follow(s)

(* decodeData() and decodeTrailers() return Continue whatever the role is.
   For Envoy that resumes an iteration which decodeHeaders() has stopped, as
   long as the stream is there.  A follower's stream may outlive its key in
   inflight_map_, while the callbacks with its response are still queued, and
   can then be resumed as well. *)
DecodeBody(s) ==
    /\ RequestBodies
    /\ at[s] \in DOMAIN filters[s]
    /\ Filter(s).role = "Follower"
    /\ Continue(s)
    /\ UNCHANGED <<setup, inflight, stored, request, filters, answered, fragment>>

-----------------------------------------------------------------------------
(* What becomes of the response.                                           *)

(* The upstream answers; if this stream leads a key, its response is complete
   and is cached, or dropped for want of room. *)
Respond(s) ==
    LET led == {e \in inflight : e.by = s} IN
    /\ filters[s] # <<>>
    /\ at[s] = Len(filters[s]) + 1
    /\ s \notin answered
    /\ answered' = answered \cup {s}
    /\ inflight' = inflight \ led
    /\ \E kept \in {led, {}} : stored' = stored \cup kept
    /\ UNCHANGED <<setup, request, filters, at, fragment>>

(* Mutant: the pins are not looked at. *)
InUseIgnored(e) == FALSE

(* pins_ is not zero. *)
InUse(e) == \E s \in Streams : fragment[s] = e

(* Another response takes the room of an entry. *)
Evict(e) ==
    /\ ~InUse(e)
    /\ stored' = stored \ {e}
    /\ UNCHANGED <<setup, inflight, request, filters, at, answered, fragment>>

(* The stream and its filters are destroyed: at its end, or when the client
   is gone. *)
Destroy(s) ==
    /\ filters[s] # <<>>
    /\ filters' = [filters EXCEPT ![s] = <<>>]
    /\ configs' = Released(held, filters')
    /\ UNCHANGED <<held, caches, pinned, inflight, stored, request, at,
                   answered, fragment>>

(* The connection has sent, or dropped, the body of a hit: the releasor takes
   the pin off the entry. *)
ReleaseFragment(s) ==
    /\ fragment[s] # None
    /\ fragment' = [fragment EXCEPT ![s] = None]
    /\ UNCHANGED <<setup, inflight, stored, request, filters, at, answered>>

-----------------------------------------------------------------------------
Next ==
    \/ \E c \in Configs :
          (\E p \in Protos : CreateFilterFactory(c, p)) \/ RemoveFilterFactory(c)
    \/ \E s \in Streams :
          \/ \E chain \in Chains, host \in Hosts, path \in Paths :
                CreateFilterChain(s, chain, host, path)
          \/ DecodeHeaders(s)
          \/ DecodeBody(s)
          \/ Respond(s)
          \/ Destroy(s)
          \/ ReleaseFragment(s)
    \/ \E e \in stored : Evict(e)

SafetySpec == Init /\ [][Next]_vars

(* A worker takes a request as far along its chain as it goes. *)
Fairness == \A s \in Streams : WF_vars(DecodeHeaders(s))

Spec == SafetySpec /\ Fairness

-----------------------------------------------------------------------------
(* Properties.                                                             *)

Request == [host : Hosts, path : Paths]
ConfigOf(cs) == [proto : Protos, cache : DOMAIN cs]
EntryOf(cs) == [cache : DOMAIN cs, key : Seq(Char), by : Streams]
FilterOf(cs) ==
    [config : Configs, cache : DOMAIN cs,
     role : {"Unset", "Cached", "Leader", "Follower"}, by : Streams \cup {None}]

(* The types, and what RingStore assumes of the sizes of a cache. *)
TypeOK ==
    /\ caches \in Seq([capacity : Nat \ {0}, slot_count : Nat \ {0}])
    /\ configs \in [Configs -> ConfigOf(caches) \cup {None}]
    /\ held \subseteq {c \in Configs : configs[c] # None}
    /\ pinned \subseteq DOMAIN caches
    /\ inflight \subseteq EntryOf(caches)
    /\ stored \subseteq EntryOf(caches)
    /\ request \in [Streams -> Request \cup {None}]
    /\ filters \in [Streams -> Seq(FilterOf(caches))]
    /\ at \in [Streams -> Nat]
    /\ answered \subseteq Streams
    /\ fragment \in [Streams -> EntryOf(caches) \cup {None}]

(* The body of a hit points into an entry that is there, in a cache that is
   there, even when its stream, all filters and all configurations have been
   destroyed while the connection was still sending it. *)
FragmentsPointIntoTheCache ==
    \A s \in Streams : fragment[s] # None =>
        fragment[s] \in stored /\ Shared(fragment[s].cache)

(* A follower or a hit is given the response to a request for the same host
   and the same path, whichever listener and configuration it came through:
   the key that buildKey() makes tells all requests apart. *)
AnsweredForItsOwnRequest ==
    \A s \in Streams : \A i \in DOMAIN filters[s] :
        filters[s][i].by # None => request[filters[s][i].by] = request[s]

(* "a single, shared global instance" (README.md:166): no two streams lead the
   same host and path at a time, whatever configurations they came through
   and whatever has been reconfigured in between. *)
OneLeaderPerRequest ==
    \A e, f \in inflight : request[e.by] = request[f.by] => e = f

(* The cache is made once, with the sizes of the first configuration that is
   accepted.  Neither the end of that configuration nor one with other sizes
   replaces it or empties it. *)
FirstConfigurationRules == [][caches # <<>> => caches' = caches]_vars

(* "Other filter roles are not meant to receive a response directly from the
   upstream" (README.md:138). *)
OnlyLeadersAnsweredUpstream ==
    \A s \in answered : \A i \in DOMAIN filters[s] :
        filters[s][i].role \notin {"Cached", "Follower"}

(* "Leader (when a response is not cached and not inflight -> an upstream
   request has to be made)" (README.md:126): a leader's request gets to the
   upstream, unless its stream is destroyed. *)
LeaderAsksUpstream ==
    \A s \in Streams :
        (\E i \in DOMAIN filters[s] : filters[s][i].role = "Leader")
            ~> at[s] > Len(filters[s])
=============================================================================
