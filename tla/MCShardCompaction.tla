--------------------------- MODULE MCShardCompaction ---------------------------
(***************************************************************************)
(* Small instances of compaction: vectors are interchangeable; keys, which *)
(* are staged in order, are not.                                           *)
(***************************************************************************)
EXTENDS ShardCompaction, TLC

Symmetry == Permutations(Vectors)

ShardsThere ==
  {given, read, current.head, headFile} \cup {current.sealed[n] : n \in DOMAIN current.sealed}
    \cup {files[n] : n \in {m \in Numbers : files[m] # None}}

(* Vectors differ while there are two rows; with three, which row has one  *)
(* is what can go wrong.                                                   *)
FewVectors ==
  next < MaxKey \/
  Cardinality(UNION {{s[k] : k \in Held(s)} : s \in ShardsThere}) <= 1
===============================================================================
