--------------------------- MODULE ShardedDurability ---------------------------
(***************************************************************************)
(* The sharded index as an implementation of DurableMap.                   *)
(*                                                                         *)
(* `since' is an auxiliary variable: it records what each key has held     *)
(* since the last save and constrains nothing.                             *)
(***************************************************************************)
EXTENDS ShardedIndex

VARIABLE since

hvars == <<head, sealed, removed, pending, saved, since>>

(* What a reopen would find for `key' if the process died now.             *)
OnDisk(key) == ReadBehind(saved, key)

HInit == Init /\ since = [k \in Keys |-> {None}]

HBeginAdd(batch) == BeginAdd(batch) /\ UNCHANGED since

HSeal == Seal /\ UNCHANGED since

HAddChunk(chunk) ==
  /\ AddChunk(chunk)
  /\ since' = [k \in Keys |->
                 IF k \in chunk THEN since[k] \cup {pending[k]} ELSE since[k]]

HRemove(key) == Remove(key) /\ since' = [since EXCEPT ![key] = @ \cup {None}]

HSave == Save /\ since' = [k \in Keys |-> {Get(k)}]

HReopen == Reopen /\ since' = [k \in Keys |-> since[k] \cup {OnDisk(k)}]

HNext ==
  \/ \E batch \in Shard : HBeginAdd(batch)
  \/ HSeal
  \/ \E chunk \in SUBSET Keys : HAddChunk(chunk)
  \/ \E k \in Keys : HRemove(k)
  \/ HSave
  \/ HReopen

HSpec == HInit /\ [][HNext]_hvars

-------------------------------------------------------------------------------
(* Properties                                                              *)

(* If the process died now, every key that has been present since the last *)
(* save would come back with a vector it has held since then: an old head  *)
(* file shadowing a newer sealed shard, or a sealed shard newer than the   *)
(* head file, never takes a key further back than that save.               *)
NothingOlderThanTheSave ==
  \A k \in Keys : None \notin since[k] => OnDisk(k) \in since[k]

(* The sharded index implements DurableMap: merging shards newest first,   *)
(* with removals remembered, answers every read as one map would, through  *)
(* seals in mid-batch, saves and the death of the process.                 *)
Map == INSTANCE DurableMap WITH map <- [k \in Keys |-> Get(k)]

ImplementsDurableMap == Map!Spec
===============================================================================
