------------------------------ MODULE MCLru32 -------------------------------
(* Lru32 for TLC: one key has a bucket of its own, all others share one.   *)
(* Nothing depends on which of these, or which value, is which.            *)
EXTENDS Lru32, TLC

CONSTANT Alone

ASSUME AloneAssumption == Alone \in Key

TwoBuckets == [k \in Key |-> IF k = Alone THEN MaxSize + 1 ELSE MaxSize]

Symmetry == Permutations(Key \ {Alone}) \cup Permutations(Value)
=============================================================================
