----------------------------- MODULE MCCollection -----------------------------
(* Small instances of a collection: ids and vectors are interchangeable.   *)
EXTENDS Collection, TLC

Symmetry == Permutations(Ids) \cup Permutations(Vectors)
===============================================================================
