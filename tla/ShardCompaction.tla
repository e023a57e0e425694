---------------------------- MODULE ShardCompaction ----------------------------
(***************************************************************************)
(* Collection.rebuild_index() over a sharded index: ShardedIndex.rebuilt() *)
(* packs the live vectors into fresh shards under staging names, drops the *)
(* old index's mappings, deletes its files, and renames the fresh ones to  *)
(* the names the old ones had; the collection then swaps and saves.        *)
(*                                                                         *)
(* All of it but the two ends runs without the collection's lock, so adds, *)
(* deletes and saves go on, against the old index, between any two steps,  *)
(* and may seal its head.  Once it has released its shards the old index   *)
(* numbers new ones from 0, and the two write and map files of one name:   *)
(* an add may come between a rename and its mapping, and an unlink or a    *)
(* rename between a seal and its mapping.  The process may die between any *)
(* two steps as well.                                                      *)
(*                                                                         *)
(* The reads that come first are one step here: how they race with adds is *)
(* module Collection.  So is remove-then-add, atomic to everyone but a     *)
(* reader, since what a crash leaves of it is on disk either way.          *)
(***************************************************************************)
EXTENDS VectorShards, Sequences

CONSTANTS
  MaxKey,     \* bound: how many row numbers are handed out
  MaxShards   \* bound: how many shard files a name can have

(* A key is the row's number: _next_idx counts them from 0.                *)
ASSUME KeysAreRowNumbers == MaxKey \in Nat /\ Keys = 0..(MaxKey - 1)
ASSUME MaxShardsAssumption == MaxShards \in Nat
ASSUME NoneIsNoShard == None \notin Shard

Numbers == 0..(MaxShards - 1)

VARIABLES
  given,    \* the rows: the vector each live row number was last given
  next,     \* _next_idx
  current,  \* the collection's _index
  fresh,    \* the index a rebuild is filling
  files,    \* <stem>.s<n>.usearch, by number
  staged,   \* <stem>.rebuild.s<n>.usearch, by number
  headFile, \* <stem>.usearch, the head file
  step,     \* where rebuild_index() is
  read,     \* the vectors it read
  left,     \* the keys it has not staged yet
  doomed,   \* the old files it has not deleted yet
  mapped,   \* how many of the fresh shards it has mapped by their new names
  touched,  \* _rebuild_touched
  deleted,  \* _rebuild_deleted
  promised, \* auxiliary: see RebuildStart
  struck    \* auxiliary: keys of the fresh shards whose file an add's seal
            \* replaced after the rename and before the mapping

rows == <<given, next>>
disk == <<files, staged, headFile>>
rebuild == <<step, read, left, doomed, mapped>>
tracks == <<touched, deleted>>
aux == <<promised, struck>>

cvars == <<rows, current, fresh, disk, rebuild, tracks, aux>>

(* An index's head, sealed shards, their file numbers, and removed keys,   *)
(* read by the methods of ShardedIndex.                                    *)
Of(ix) == INSTANCE ShardedIndex WITH
  MaxSealed <- MaxShards, head <- ix.head, sealed <- ix.sealed,
  removed <- ix.removed, pending <- None, saved <- None

NoFiles == [n \in Numbers |-> None]

Live == Held(given)

(* The numbers of the files there are, in order: the i-th is the one that  *)
(* i - 1 are below.                                                        *)
NumbersOf(f) ==
  LET there == {n \in Numbers : f[n] # None}
  IN [i \in 1..Cardinality(there) |->
        CHOOSE n \in there : Cardinality({m \in there : m < n}) = i - 1]

(* An index as __init__ opens it: the shard files in order of their        *)
(* numbers, the head file, and nothing removed.                            *)
Opened(f, front) ==
  [head |-> front,
   sealed |-> [n \in DOMAIN NumbersOf(f) |-> f[NumbersOf(f)[n]]],
   numbers |-> NumbersOf(f),
   removed |-> {}]

(* remove(key), of each key of S.                                          *)
Removed(ix, S) ==
  [ix EXCEPT
     !.head = Without(@, S),
     !.removed = @ \cup {k \in S : Of(ix)!Copies(k) # {}}]

(* Wrong: one too many. (CompactionTypeOK)                                 *)
FullOffByOne(ix) == Size(ix.head) > ShardSize

(* add() seals the head when it has no room: the shard is numbered after   *)
(* how many are sealed.                                                    *)
Full(ix) == Size(ix.head) >= ShardSize

Sealed(ix) ==
  IF Full(ix)
  THEN [ix EXCEPT !.head = EmptyShard,
                  !.sealed = Append(@, ix.head),
                  !.numbers = Append(@, Len(ix.sealed))]
  ELSE ix

(* The head has room for the key.                                          *)
Put(ix, key, vector) == [ix EXCEPT !.head[key] = vector, !.removed = @ \ {key}]

(* remove(key), where it is contained, and add([key], [vector]).           *)
Added(ix, key, vector) == Put(Sealed(Removed(ix, {key})), key, vector)

(* The files after `ix' has become `to', having sealed at most one shard.  *)
Written(f, ix, to) ==
  IF Len(to.sealed) > Len(ix.sealed)
  THEN [f EXCEPT ![Len(ix.sealed)] = to.sealed[Len(to.sealed)]]
  ELSE f

HasRoom(ix) == Len(ix.sealed) < MaxShards

(* What the collection's index answers, and what it would if the process   *)
(* died now.                                                               *)
IndexGet(key) == Of(current)!Get(key)
IndexContains(key) == Of(current)!Contains(key)
IndexOnDisk(key) == Of(Opened(files, headFile))!Get(key)

-------------------------------------------------------------------------------
NoRebuild ==
  /\ step' = "idle" /\ read' = EmptyShard /\ left' = {} /\ doomed' = {} /\ mapped' = 0
  /\ touched' = {} /\ deleted' = {} /\ promised' = {} /\ struck' = {}
  /\ fresh' = Opened(NoFiles, EmptyShard)

CInit ==
  /\ given = EmptyShard /\ next = 0
  /\ current = Opened(NoFiles, EmptyShard) /\ fresh = Opened(NoFiles, EmptyShard)
  /\ files = NoFiles /\ staged = NoFiles /\ headFile = EmptyShard
  /\ step = "idle" /\ read = EmptyShard /\ left = {} /\ doomed = {} /\ mapped = 0
  /\ touched = {} /\ deleted = {} /\ promised = {} /\ struck = {}

Rebuilding == step # "idle"

-------------------------------------------------------------------------------
(* The collection's other calls                                            *)

(* A live point's new vector, or a new point.                              *)
Give(key, vector) ==
  /\ key \in Live \/ key = next
  /\ HasRoom(current)
  /\ given' = [given EXCEPT ![key] = vector]
  /\ next' = IF key = next THEN next + 1 ELSE next
  /\ touched' = IF Rebuilding THEN touched \cup {key} ELSE touched
  /\ promised' = promised \ {key}

(* A seal now would replace the file that is about to be mapped.           *)
Strikes(after) ==
  /\ step = "view"
  /\ Len(current.sealed) = mapped
  /\ Len(after.sealed) > Len(current.sealed)

(* add()                                                                   *)
Add(key, vector) ==
  LET after == Added(current, key, vector) IN
  /\ Give(key, vector)
  /\ current' = after
  /\ files' = Written(files, current, after)
  /\ struck' = IF Strikes(after) THEN struck \cup Held(fresh.sealed[mapped + 1]) ELSE struck
  /\ UNCHANGED <<fresh, staged, headFile, rebuild, deleted>>

(* delete(): the row goes, the vector stays.                               *)
Delete(key) ==
  /\ key \in Live
  /\ given' = [given EXCEPT ![key] = None]
  /\ deleted' = IF Rebuilding THEN deleted \cup {key} ELSE deleted
  /\ promised' = promised \ {key}
  /\ UNCHANGED <<next, current, fresh, disk, rebuild, touched, struck>>

SaveIndex ==
  /\ headFile' = current.head
  /\ UNCHANGED <<rows, current, fresh, files, staged, rebuild, tracks, aux>>

-------------------------------------------------------------------------------
(* rebuild_index()                                                         *)

(* Wrong: they are left, and opened. (CompactionIsExact)                   *)
ClearedNot == staged

(* The staging files a rebuild that died left behind are deleted.          *)
Cleared == NoFiles

(* The shard files are those of the index, numbered from 0.  A seal that   *)
(* falls between a release and its swap leaves files the index does not    *)
(* know, and an interrupted deletion leaves a gap.                         *)
FilesAreTheIndex ==
  /\ Opened(files, headFile).sealed = current.sealed
  /\ \A n \in DOMAIN current.numbers : current.numbers[n] = n - 1

(* The keys are taken, their vectors read, and an index opened under the   *)
(* staging name.  If the files are in order, `promised' records the points *)
(* whose vector is the one they were given both in the index and on disk.  *)
RebuildStart ==
  /\ ~Rebuilding
  /\ step' = "stage"
  /\ read' = [k \in Keys |-> IF k \in Live THEN IndexGet(k) ELSE None]
  /\ left' = Held(read')
  /\ staged' = Cleared
  /\ fresh' = Opened(staged', EmptyShard)
  /\ touched' = {}
  /\ deleted' = {}
  /\ promised' = {k \in Live : /\ FilesAreTheIndex
                               /\ IndexGet(k) = given[k] /\ IndexOnDisk(k) = given[k]}
  /\ UNCHANGED <<rows, current, files, headFile, doomed, mapped, struck>>

(* Wrong: the fresh shards are written under the live names.               *)
(* (StagingIsHarmless)                                                     *)
RebuildStageInPlace(key) ==
  LET after == Added(fresh, key, read[key]) IN
  /\ step = "stage"
  /\ key \in left
  /\ \A k \in left : key <= k
  /\ HasRoom(fresh)
  /\ fresh' = after
  /\ files' = Written(files, fresh, after)
  /\ left' = left \ {key}
  /\ UNCHANGED <<rows, current, staged, headFile, step, read, doomed, mapped, tracks, aux>>

(* fresh.add(keys, vectors), key by key in order.                          *)
RebuildStage(key) ==
  LET after == Added(fresh, key, read[key]) IN
  /\ step = "stage"
  /\ key \in left
  /\ \A k \in left : key <= k
  /\ HasRoom(fresh)
  /\ fresh' = after
  /\ staged' = Written(staged, fresh, after)
  /\ left' = left \ {key}
  /\ UNCHANGED <<rows, current, files, headFile, step, read, doomed, mapped, tracks, aux>>

(* The old index's files are listed,                                       *)
RebuildList ==
  /\ step = "stage"
  /\ left = {}
  /\ step' = "listed"
  /\ doomed' = {current.numbers[n] : n \in DOMAIN current.numbers}
  /\ UNCHANGED <<rows, current, fresh, disk, read, left, mapped, tracks, aux>>

(* it releases its mappings, from here on its head alone,                  *)
RebuildRelease ==
  /\ step = "listed"
  /\ step' = "move"
  /\ current' = [current EXCEPT !.sealed = <<>>, !.numbers = <<>>]
  /\ UNCHANGED <<rows, fresh, disk, read, left, doomed, mapped, tracks, aux>>

Unlinks(n) == step = "move" /\ n \in doomed /\ \A m \in doomed : n <= m

(* and the files listed are deleted.                                       *)
RebuildUnlink(n) ==
  /\ Unlinks(n)
  /\ files' = [files EXCEPT ![n] = None]
  /\ doomed' = doomed \ {n}
  /\ UNCHANGED <<rows, current, fresh, staged, headFile, step, read, left, mapped, tracks, aux>>

Renames(n) == step = "move" /\ doomed = {} /\ n = mapped /\ n < Len(fresh.sealed)

(* A file of the fresh index takes its new name, over whatever has it,     *)
RebuildRename(n) ==
  /\ Renames(n)
  /\ step' = "view"
  /\ files' = [files EXCEPT ![n] = staged[n]]
  /\ staged' = [staged EXCEPT ![n] = None]
  /\ UNCHANGED <<rows, current, fresh, headFile, read, left, doomed, mapped, tracks, aux>>

(* and what has the name by then is mapped.  The fresh index had released  *)
(* the shard; nothing reads it in between.                                 *)
RebuildView ==
  /\ step = "view"
  /\ step' = "move"
  /\ mapped' = mapped + 1
  /\ fresh' = [fresh EXCEPT !.sealed[mapped + 1] = files[mapped]]
  /\ UNCHANGED <<rows, current, disk, read, left, doomed, tracks, aux>>

(* An add seals the old index's head under a name that an unlink, or a     *)
(* rename, takes before the seal maps it: there is nothing to map and the  *)
(* head's vectors are gone, or the old index maps a shard of the fresh.    *)
AddCaught(key, vector) ==
  LET emptied == [Removed(current, {key}) EXCEPT !.head = EmptyShard]
      n == Len(current.sealed)
  IN
  /\ Give(key, vector)
  /\ Full(Removed(current, {key}))
  /\ \/ /\ Unlinks(n)
        /\ current' = Put(emptied, key, vector)
        /\ files' = [files EXCEPT ![n] = None]
        /\ doomed' = doomed \ {n}
        /\ UNCHANGED <<staged, step>>
     \/ /\ Renames(n)
        /\ step' = "view"
        /\ files' = [files EXCEPT ![n] = staged[n]]
        /\ staged' = [staged EXCEPT ![n] = None]
        /\ current' = Put([emptied EXCEPT !.sealed = Append(@, staged[n]),
                                          !.numbers = Append(@, n)], key, vector)
        /\ UNCHANGED doomed
  /\ UNCHANGED <<fresh, headFile, read, left, mapped, deleted, struck>>

(* The fresh index without the keys deleted meanwhile.                     *)
WithoutDeleted == Removed(fresh, {k \in deleted \ Live : Of(fresh)!Contains(k)})

(* A key written meanwhile, carried over with what the old index answers   *)
(* for it, if it answers.                                                  *)
Carry(key, ix) ==
  IF key \in touched \cap Live /\ IndexGet(key) # None THEN Added(ix, key, IndexGet(key)) ELSE ix

(* The keys are carried over in order; here, those below n.                *)
CarriedBelow[n \in 0..MaxKey] ==
  IF n = 0 THEN WithoutDeleted ELSE Carry(n - 1, CarriedBelow[n - 1])

Carried == CarriedBelow[MaxKey]

(* The swap and the save, under the lock.  Carrying may seal shards.       *)
RebuildSwap ==
  /\ step = "move"
  /\ doomed = {}
  /\ mapped = Len(fresh.sealed)
  /\ Len(Carried.sealed) <= MaxShards
  /\ current' = Carried
  /\ files' = [n \in Numbers |->
                 IF n \in Len(fresh.sealed)..(Len(Carried.sealed) - 1)
                 THEN Carried.sealed[n + 1] ELSE files[n]]
  /\ headFile' = Carried.head
  /\ NoRebuild
  /\ UNCHANGED <<rows, staged>>

-------------------------------------------------------------------------------
(* The process dies or is closed, and another opens the collection.        *)
OpenAgain ==
  /\ current' = Opened(files, headFile)
  /\ next' = CHOOSE n \in 0..MaxKey :
               (\A k \in Live : k < n) /\ (n = 0 \/ n - 1 \in Live)
  /\ NoRebuild
  /\ UNCHANGED <<given, disk>>

CNext ==
  \/ \E k \in Keys, v \in Vectors : Add(k, v) \/ AddCaught(k, v)
  \/ \E k \in Keys : Delete(k)
  \/ SaveIndex
  \/ RebuildStart
  \/ \E k \in Keys : RebuildStage(k)
  \/ RebuildList
  \/ RebuildRelease
  \/ \E n \in Numbers : RebuildUnlink(n)
  \/ \E n \in Numbers : RebuildRename(n)
  \/ RebuildView
  \/ RebuildSwap
  \/ OpenAgain

CSpec == CInit /\ [][CNext]_cvars

-------------------------------------------------------------------------------
(* Properties                                                              *)

ShardFiles == [Numbers -> BoundedShard \cup {None}]

WellFormed(ix) ==
  /\ ix \in [head : BoundedShard, sealed : Seq(BoundedShard), numbers : Seq(Numbers),
            removed : SUBSET Keys]
  /\ Len(ix.sealed) <= MaxShards /\ Len(ix.numbers) = Len(ix.sealed)

(* Every variable has its type, and no shard, live, fresh or on disk, ever *)
(* exceeds shard_size.                                                     *)
CompactionTypeOK ==
  /\ given \in Shard /\ next \in 0..MaxKey /\ \A k \in Live : k < next
  /\ WellFormed(current) /\ WellFormed(fresh)
  /\ files \in ShardFiles /\ staged \in ShardFiles /\ headFile \in BoundedShard
  /\ step \in {"idle", "stage", "listed", "move", "view"}
  /\ read \in Shard /\ left \in SUBSET Held(read) /\ doomed \in SUBSET Numbers
  /\ mapped \in 0..Len(fresh.sealed) /\ (step = "view" => mapped < Len(fresh.sealed))
  /\ touched \in SUBSET Keys /\ deleted \in SUBSET Keys /\ promised \in SUBSET Live
  /\ struck \in SUBSET Keys

CopiesOf(key) ==
  Cardinality(Of(current)!Copies(key)) + (IF current.head[key] # None THEN 1 ELSE 0)

(* What comes out of a compaction: every live point not written meanwhile  *)
(* answers with the vector that was read for it, nothing deleted, before   *)
(* or meanwhile, is contained, and if nothing was written meanwhile no key *)
(* has two copies.  What a rebuild that died left in its staging files     *)
(* never comes back.  An add that seals a shard under the name of one that *)
(* has been renamed and is not yet mapped takes that shard's keys with it, *)
(* and no others, and may bring deleted ones back.                         *)
CompactionIsExact ==
  [][RebuildSwap =>
       /\ \A k \in Live \ (touched \cup struck) : IndexGet(k)' = read[k]
       /\ struck = {} => \A k \in Keys \ Live : ~IndexContains(k)'
       /\ touched = {} => \A k \in Keys : CopiesOf(k)' <= 1]_cvars

(* "A run that dies part way leaves the old shards intact": every point    *)
(* that was on disk when a rebuild started, and has not been written or    *)
(* deleted since, is on disk at every step of it.  It is not so once an    *)
(* old shard's file has gone.                                              *)
OldShardsIntact == \A k \in promised : IndexOnDisk(k) = given[k]

(* The part of that which holds: it is so until the first old file goes,   *)
(* however adds seal shards and saves write the head beside it.            *)
StagingIsHarmless == step \in {"stage", "listed"} => OldShardsIntact

(* "Vectors written meanwhile go to the old index and are carried over at  *)
(* the swap."                                                              *)
WrittenAreCarried ==
  [][RebuildSwap =>
       \A k \in touched \cap Live : IndexGet(k)' = given[k]]_cvars

(* "Searches keep running against the old one until the swap": a point     *)
(* that the index held when the rebuild started is there to be found.  No  *)
(* run checks it: it is not so from the release of the old shards on.      *)
SearchesKeepRunning ==
  Rebuilding => \A k \in promised : IndexContains(k)
===============================================================================
