----------------------------- MODULE VectorShards -----------------------------
(***************************************************************************)
(* A shard of core/sharded_index.py: the vectors an HNSW index file holds. *)
(* ShardedIndex puts shards together into one index, and ShardCompaction   *)
(* writes them anew.                                                       *)
(***************************************************************************)
EXTENDS Integers, FiniteSets

CONSTANTS
  Keys,        \* the collection's integer ids
  Vectors,     \* the vectors a key may hold
  None,        \* nothing: no vector, no file
  ShardSize    \* shard_size: what a shard holds at most

ASSUME KeysFinite == IsFiniteSet(Keys)
ASSUME NoneIsNoVector == None \notin Vectors
ASSUME ShardSizeAssumption == ShardSize \in Nat \ {0}

(* A shard maps each key to the vector it holds for it, if any.            *)
Shard == [Keys -> Vectors \cup {None}]

EmptyShard == [k \in Keys |-> None]

Held(shard) == {k \in Keys : shard[k] # None}

Size(shard) == Cardinality(Held(shard))

(* `shard' without the keys of S.                                          *)
Without(shard, S) == [k \in Keys |-> IF k \in S THEN None ELSE shard[k]]

(* A shard that holds no more than shard_size vectors.                     *)
BoundedShard == {s \in Shard : Size(s) <= ShardSize}
===============================================================================
