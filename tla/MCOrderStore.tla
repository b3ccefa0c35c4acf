---------------------------- MODULE MCOrderStore ----------------------------
(* A small instance of OrderStore for TLC.                                 *)
EXTENDS OrderStore, TLC

\* Ids of one kind are drawn freshly and never compared but for equality.
Symmetry ==
    Permutations(Intents) \cup Permutations(Orders) \cup Permutations(Fills)
=============================================================================
