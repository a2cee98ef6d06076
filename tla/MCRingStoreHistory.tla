------------------------- MODULE MCRingStoreHistory -------------------------
(***************************************************************************)
(* RingStoreHistory on a small instance.                                   *)
(***************************************************************************)
EXTENDS RingStoreHistory, TLC

MCSizeOf(k, v) == 1 + v
MCHasBody(v) == v > 0

Symmetry == Permutations(Keys) \cup Permutations(Readers)
=============================================================================
