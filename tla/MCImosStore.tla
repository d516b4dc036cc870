---------------------------- MODULE MCImosStore ----------------------------
(* Small instances of the artifact store for model checking.               *)
EXTENDS ImosStore, TLC

CONSTANTS k1, k2, d1

(* Both plans share one download.                                          *)
MCItems == [k \in Plan |-> {d1}]

Symmetry == Permutations(Proc) \cup Permutations(Ino)

=============================================================================
