--------------------------- MODULE MCFilterChain ----------------------------
(***************************************************************************)
(* FilterChain on small instances: two configurations, each alone in the   *)
(* chain of a listener or both in one chain; hosts that are parts of one   *)
(* another, and a path that has the separator of keys in it.               *)
(***************************************************************************)
EXTENDS FilterChain, TLC

CONSTANTS c1, c2

MCProtos ==
    {[capacity |-> 2, slot_count |-> 1], [capacity |-> 1, slot_count |-> 2],
     [capacity |-> 0, slot_count |-> 1]}
OneInEach == {<<c1>>, <<c2>>}
TwoInOne == {<<c1, c2>>}
MCHosts == {<<"a">>, <<"a", "a">>}
MCPaths == {<<>>, <<"/">>, <<"/", "/", "/", "/", "a">>}

Symmetry == Permutations(Streams)
=============================================================================
