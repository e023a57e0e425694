------------------------------ MODULE DurableMap ------------------------------
(***************************************************************************)
(* What a vector index owes the collection that owns it, whatever it is    *)
(* built from: a map from integer keys to vectors that adds overwrite and  *)
(* removals erase, and that a save makes safe against the death of the     *)
(* process.                                                                *)
(*                                                                         *)
(* The index holds its newest writes in memory only, so a reopen may hand  *)
(* back less than was there.  How much less is the contract: a key that    *)
(* has held a vector ever since the last save comes back holding one of    *)
(* the vectors it held since then.                                         *)
(***************************************************************************)
CONSTANTS
  Keys,      \* the collection's integer ids
  Vectors,   \* the vectors a key may hold
  None       \* no vector

VARIABLES
  map,       \* what contains(), get() and search() answer from
  since      \* for each key, everything it has held since the last save

vars == <<map, since>>

Nothing == [k \in Keys |-> None]

Init ==
  /\ map = Nothing
  /\ since = [k \in Keys |-> {None}]

(* Each key of S takes the vector f gives it.                              *)
Put(S, f) ==
  /\ map' = [k \in Keys |-> IF k \in S THEN f[k] ELSE map[k]]
  /\ since' = [k \in Keys |-> IF k \in S THEN since[k] \cup {f[k]} ELSE since[k]]

Drop(key) ==
  /\ map' = [map EXCEPT ![key] = None]
  /\ since' = [since EXCEPT ![key] = @ \cup {None}]

Save ==
  /\ map' = map
  /\ since' = [k \in Keys |-> {map[k]}]

(* The process dies and the index is opened again.                         *)
Reopen ==
  /\ map' \in [Keys -> Vectors \cup {None}]
  /\ \A k \in Keys : None \notin since[k] => map'[k] \in since[k]
  /\ since' = [k \in Keys |-> since[k] \cup {map'[k]}]

Next ==
  \/ \E S \in SUBSET Keys : \E f \in [S -> Vectors] : Put(S, f)
  \/ \E k \in Keys : Drop(k)
  \/ Save
  \/ Reopen

Spec == Init /\ [][Next]_vars
===============================================================================
