----------------------------- MODULE ShardedIndex -----------------------------
(***************************************************************************)
(* core/sharded_index.py: one mutable head shard and a list of sealed,     *)
(* read-only ones.                                                         *)
(*                                                                         *)
(* Every method runs under the collection's lock, so a call is atomic to   *)
(* its callers; what can interrupt one is the death of the process.  add() *)
(* is therefore the one method split into its loop iterations, because a   *)
(* seal in the middle of a batch reaches the disk and the rest of the      *)
(* batch does not.                                                         *)
(*                                                                         *)
(* A sealed shard is its file, memory-mapped and never changed, so         *)
(* `sealed' is both the mapping and what a reopen finds on disk.  The head *)
(* on disk is whatever Collection.save() last wrote there.  Compaction,    *)
(* which rewrites the sealed files, is module ShardCompaction.             *)
(***************************************************************************)
EXTENDS VectorShards, Sequences

CONSTANT MaxSealed   \* bound: how many shards are sealed

ASSUME MaxSealedAssumption == MaxSealed \in Nat

VARIABLES
  head,      \* the shard open for writing
  sealed,    \* the sealed shards, oldest first
  removed,   \* keys removed after their shard was sealed; memory only
  pending,   \* what is left of the batch add() is working on
  saved      \* the head file

vars == <<head, sealed, removed, pending, saved>>

-------------------------------------------------------------------------------
(* Reading                                                                 *)

(* The numbers of the sealed shards that hold a copy of `key'.             *)
Copies(key) == {n \in 1..Len(sealed) : sealed[n][key] # None}

(* The copy in the newest sealed shard that has one.                       *)
NewestSealed(key) ==
  IF Copies(key) = {}
  THEN None
  ELSE sealed[CHOOSE n \in Copies(key) : \A m \in Copies(key) : m <= n][key]

(* `front' read ahead of the sealed shards: the newest shard wins.         *)
ReadBehind(front, key) ==
  IF front[key] # None THEN front[key] ELSE NewestSealed(key)

(* get(key)                                                                *)
Get(key) == IF key \in removed THEN None ELSE ReadBehind(head, key)

(* contains(key)                                                           *)
Contains(key) ==
  /\ key \notin removed
  /\ head[key] # None \/ Copies(key) # {}

(* Wrong: one too many. (TypeOK)                                           *)
RoomOffByOne == ShardSize + 1 - Size(head)

Room == ShardSize - Size(head)

Adding == pending # EmptyShard

-------------------------------------------------------------------------------
Init ==
  /\ head = EmptyShard
  /\ sealed = <<>>
  /\ removed = {}
  /\ pending = EmptyShard
  /\ saved = EmptyShard

(* add(keys, vectors) is called.                                           *)
BeginAdd(batch) ==
  /\ ~Adding
  /\ batch # EmptyShard
  /\ pending' = batch
  /\ UNCHANGED <<head, sealed, removed, saved>>

(* The loop finds no room left: the head becomes the newest sealed shard   *)
(* and an empty one takes over.  The saved head file is left as it was.    *)
Seal ==
  /\ Adding
  /\ Room <= 0
  /\ Len(sealed) < MaxSealed
  /\ sealed' = Append(sealed, head)
  /\ head' = EmptyShard
  /\ UNCHANGED <<removed, pending, saved>>

(* Wrong: a re-added key stays on the removed list. (RemovedAreSealed)     *)
AddChunkStillRemoved(chunk) ==
  /\ Adding
  /\ Room > 0
  /\ chunk \subseteq Held(pending)
  /\ Cardinality(chunk) = IF Room < Size(pending) THEN Room ELSE Size(pending)
  /\ head' = [k \in Keys |-> IF k \in chunk THEN pending[k] ELSE head[k]]
  /\ pending' = Without(pending, chunk)
  /\ UNCHANGED <<sealed, removed, saved>>

(* One chunk of the batch goes into the head: as much of it as there is    *)
(* room for, each key replacing its copy there.                            *)
AddChunk(chunk) ==
  /\ Adding
  /\ Room > 0
  /\ chunk \subseteq Held(pending)
  /\ LET waiting == Size(pending) IN
       Cardinality(chunk) = IF Room < waiting THEN Room ELSE waiting
  /\ head' = [k \in Keys |-> IF k \in chunk THEN pending[k] ELSE head[k]]
  /\ removed' = removed \ chunk
  /\ pending' = Without(pending, chunk)
  /\ UNCHANGED <<sealed, saved>>

(* Wrong: return as soon as the head had it, which brings the sealed copy  *)
(* back; the code's comment tells of having done so. (ImplementsDurableMap) *)
RemoveFromHeadFirst(key) ==
  /\ ~Adding
  /\ head' = Without(head, {key})
  /\ removed' = IF head[key] = None /\ Copies(key) # {} THEN removed \cup {key} ELSE removed
  /\ UNCHANGED <<sealed, pending, saved>>

(* remove(key): erased from the head, remembered if a sealed shard has it. *)
Remove(key) ==
  /\ ~Adding
  /\ head' = Without(head, {key})
  /\ removed' = IF Copies(key) # {} THEN removed \cup {key} ELSE removed
  /\ UNCHANGED <<sealed, pending, saved>>

(* Wrong: an empty head is not worth writing. (NothingOlderThanTheSave)    *)
SaveUnlessEmpty ==
  /\ ~Adding
  /\ saved' = IF head = EmptyShard THEN saved ELSE head
  /\ UNCHANGED <<head, sealed, removed, pending>>

(* save(path), under Collection.save: the head file, written beside and    *)
(* renamed over.                                                           *)
Save ==
  /\ ~Adding
  /\ saved' = head
  /\ UNCHANGED <<head, sealed, removed, pending>>

(* The process ends, orderly or not, at any point; the next one maps the   *)
(* sealed files and loads the head file.                                   *)
Reopen ==
  /\ head' = saved
  /\ removed' = {}
  /\ pending' = EmptyShard
  /\ UNCHANGED <<sealed, saved>>

Next ==
  \/ \E batch \in Shard : BeginAdd(batch)
  \/ Seal
  \/ \E chunk \in SUBSET Keys : AddChunk(chunk)
  \/ \E k \in Keys : Remove(k)
  \/ Save
  \/ Reopen

Spec == Init /\ [][Next]_vars

-------------------------------------------------------------------------------
(* Properties                                                              *)

(* Every variable has its type, and no shard, in memory or on disk, ever   *)
(* exceeds shard_size however batches and seals fall (the rule add()       *)
(* splits its batch for).                                                  *)
TypeOK ==
  /\ head \in BoundedShard
  /\ sealed \in Seq(BoundedShard)
  /\ Len(sealed) <= MaxSealed
  /\ removed \in SUBSET Keys
  /\ pending \in Shard
  /\ saved \in BoundedShard

(* A key is on the removed list only while every copy of it lies in a      *)
(* sealed shard: remove() erases the head's copy and add() takes the key   *)
(* off the list, so a removal can never hide a later write.                *)
RemovedAreSealed ==
  \A k \in removed : head[k] = None /\ Copies(k) # {}
===============================================================================
