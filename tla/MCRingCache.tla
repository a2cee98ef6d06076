---------------------------- MODULE MCRingCache -----------------------------
(***************************************************************************)
(* RingCache on a small instance.  Every piece of a response accounts for  *)
(* one unit and a key for none.                                            *)
(***************************************************************************)
EXTENDS RingCache, TLC

MCSizeOf(k, v) == Len(v)

(* Streams whose requests have a body are not like the others. *)
StreamPermutations ==
    {p \in Permutations(Streams) : \A s \in WithBody : p[s] \in WithBody}

Symmetry ==
    StreamPermutations \cup Permutations(Workers) \cup Permutations(Keys)

(* Liveness cannot be checked under SYMMETRY.  Starting from one initial state
   of each class of states that differ in names only is sound for it, since
   neither the next-state relation nor a property depends on the names. *)
Renamed(p, q, r) ==
    <<[s \in Streams |-> IF key[p[s]] = NoKey THEN NoKey ELSE q[key[p[s]]]],
      [s \in Streams |-> r[on[p[s]]]]>>

Renamings ==
    {Renamed(p, q, r) : p \in StreamPermutations, q \in Permutations(Keys),
                        r \in Permutations(Workers)}

Representative == <<key, on>> = CHOOSE x \in Renamings : TRUE

MCInit == Init /\ Representative

MCSpec == MCInit /\ [][Next]_vars /\ Fairness
=============================================================================
