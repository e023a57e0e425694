------------------------------ MODULE Collection ------------------------------
(***************************************************************************)
(* core/collection.py: one collection, its three copies of every point,    *)
(* and the calls that keep them in step.                                   *)
(*                                                                         *)
(* A point is a row of the `points' table, which carries its id and text;  *)
(* a document in the storage backend, which carries its vector too; and a  *)
(* key of the vector index, which is memory, and a file when saved.  A     *)
(* text is represented by the vector it embeds to.                         *)
(*                                                                         *)
(* add() runs under the collection's lock but is three steps, since the    *)
(* process can die, or the store refuse, between them.  delete() reaches   *)
(* the store before it asks for the lock.  rebuild_index() takes the lock  *)
(* at its two ends and reads key by key in between, without it.  Here a    *)
(* collection runs one of each at a time: adds exclude one another by the  *)
(* lock and rebuilds by a lock of their own.                               *)
(***************************************************************************)
EXTENDS Integers, FiniteSets, Functions

CONSTANTS
  Ids,       \* the ids a caller may use
  Vectors,   \* the vectors (and the texts that embed to them)
  None,      \* nothing
  MaxIdx     \* bound: how many row numbers are handed out

ASSUME IdsAssumption == IsFiniteSet(Ids) /\ None \notin Ids
ASSUME VectorsAssumption == None \notin Vectors
ASSUME MaxIdxAssumption == MaxIdx \in Nat
ASSUME NoneIsNoNumber == None \notin Nat

Idxs == 0..(MaxIdx - 1)

VARIABLES
  row,         \* points and the two id mappings: which id has a row number
  text,        \* points.text_content, by id
  next,        \* _next_idx
  stored,      \* the storage backend's document of an id
  index,       \* the vector index; a deleted point's vector stays in it
  saved,       \* the index file
  dirty,       \* _dirty
  add,         \* the add() holding the lock: where it is, and its batch
  deleting,    \* the ids of a delete() that has done its half in the store
  rebuilding,  \* a rebuild_index() is running
  keys,        \* the row numbers it started from
  left,        \* those it has not read yet
  asked,       \* the one it is asking the store about
  fresh,       \* the vectors it has read
  tracking,    \* _rebuild_touched and _rebuild_deleted are sets, not None
  touched,     \* _rebuild_touched
  deleted,     \* _rebuild_deleted
  settled,     \* auxiliary: ids whose latest add() returned
  durable      \* auxiliary: ids whose latest add() was followed by a save()

points == <<row, text, next>>
disk == <<saved, dirty>>
rebuild == <<rebuilding, keys, left, asked, fresh>>
tracks == <<tracking, touched, deleted>>
promises == <<settled, durable>>

vars == <<points, stored, index, disk, add, deleting, rebuild, tracks, promises>>

Empty(S) == [x \in S |-> None]

Given(f) == {x \in DOMAIN f : f[x] # None}

(* f, with the values g gives.                                             *)
Over(f, g) == [x \in DOMAIN f |-> IF g[x] # None THEN g[x] ELSE f[x]]

Without(f, S) == [x \in DOMAIN f |-> IF x \in S THEN None ELSE f[x]]

Live == {i \in Idxs : row[i] # None}

(* The row numbers of the ids in S, as _id_to_idx maps them.               *)
RowsOf(S) == {i \in Live : row[i] \in S}

Idle == [at |-> "idle", batch |-> Empty(Ids)]

LockFree == add.at = "idle"

(* The batch by row number.                                                *)
BatchByRow == [i \in Idxs |-> IF i \in Live THEN add.batch[row[i]] ELSE None]

-------------------------------------------------------------------------------
Init ==
  /\ row = Empty(Idxs)
  /\ text = Empty(Ids)
  /\ next = 0
  /\ stored = Empty(Ids)
  /\ index = Empty(Idxs)
  /\ saved = Empty(Idxs)
  /\ dirty = FALSE
  /\ add = Idle
  /\ deleting = {}
  /\ rebuilding = FALSE
  /\ keys = {} /\ left = {} /\ asked = None /\ fresh = Empty(Idxs)
  /\ tracking = FALSE /\ touched = {} /\ deleted = {}
  /\ settled = {} /\ durable = {}

-------------------------------------------------------------------------------
(* add(), under the lock                                                   *)

(* The rows are written and committed: a known id is updated in place, a   *)
(* new one takes the next row number.  A batch maps ids to vectors: of an  *)
(* id given twice the last one stands, here as in every copy.              *)
AddRows(batch) ==
  LET new == Given(batch) \ {row[i] : i \in Live}
      taken == next..(next + Cardinality(new) - 1)
  IN
  /\ LockFree
  /\ Given(batch) # {}
  /\ taken \subseteq Idxs
  /\ \E place \in Bijection(taken, new) :
       row' = [i \in Idxs |-> IF i \in taken THEN place[i] ELSE row[i]]
  /\ next' = next + Cardinality(new)
  /\ text' = Over(text, batch)
  /\ add' = [at |-> "store", batch |-> batch]
  /\ settled' = settled \ Given(batch)
  /\ durable' = durable \ Given(batch)
  /\ UNCHANGED <<stored, index, disk, deleting, rebuild, tracks>>

(* insert_batch: one transaction of the store's own.                       *)
AddStore ==
  /\ add.at = "store"
  /\ stored' = Over(stored, add.batch)
  /\ add' = [add EXCEPT !.at = "replace"]
  /\ UNCHANGED <<points, index, disk, deleting, rebuild, tracks, promises>>

(* The store refuses and add() raises: the rows stay committed.            *)
AddRefused ==
  /\ add.at = "store"
  /\ add' = Idle
  /\ UNCHANGED <<points, stored, index, disk, deleting, rebuild, tracks, promises>>

(* A key the index holds already is removed first.                         *)
AddReplace ==
  /\ add.at = "replace"
  /\ index' = Without(index, Given(BatchByRow))
  /\ add' = [add EXCEPT !.at = "index"]
  /\ UNCHANGED <<points, stored, disk, deleting, rebuild, tracks, promises>>

(* Wrong: the index is not marked as changed. (SettledPointsAgree)         *)
AddIndexUnmarked ==
  /\ add.at = "index"
  /\ index' = Over(index, BatchByRow)
  /\ touched' = IF tracking THEN touched \cup Given(BatchByRow) ELSE touched
  /\ add' = Idle
  /\ settled' = settled \cup Given(add.batch)
  /\ UNCHANGED <<points, stored, disk, deleting, rebuild, tracking, deleted, durable>>

AddIndex ==
  /\ add.at = "index"
  /\ index' = Over(index, BatchByRow)
  /\ touched' = IF tracking THEN touched \cup Given(BatchByRow) ELSE touched
  /\ dirty' = TRUE
  /\ add' = Idle
  /\ settled' = settled \cup Given(add.batch)
  /\ UNCHANGED <<points, stored, saved, deleting, rebuild, tracking, deleted, durable>>

-------------------------------------------------------------------------------
(* delete()                                                                *)

(* delete_batch, in the store, before the lock is asked for.               *)
DeleteStore(ids) ==
  /\ deleting = {}
  /\ ids # {}
  /\ stored' = Without(stored, ids)
  /\ deleting' = ids
  /\ UNCHANGED <<points, index, disk, add, rebuild, tracks, promises>>

(* The rows and the mappings, under the lock.  The vectors stay.           *)
DeleteRows ==
  /\ LockFree
  /\ deleting # {}
  /\ row' = Without(row, RowsOf(deleting))
  /\ text' = Without(text, deleting)
  /\ deleted' = IF tracking THEN deleted \cup RowsOf(deleting) ELSE deleted
  /\ deleting' = {}
  /\ settled' = settled \ deleting
  /\ durable' = durable \ deleting
  /\ UNCHANGED <<next, stored, index, disk, add, rebuild, tracking, touched>>

-------------------------------------------------------------------------------
(* save(): nothing unless the index changed since the last one.            *)
Save ==
  /\ LockFree
  /\ saved' = IF dirty THEN index ELSE saved
  /\ dirty' = FALSE
  /\ durable' = settled
  /\ UNCHANGED <<points, stored, index, add, deleting, rebuild, tracks, settled>>

-------------------------------------------------------------------------------
(* rebuild_index()                                                         *)

RebuildStart ==
  /\ LockFree
  /\ ~rebuilding
  /\ rebuilding' = TRUE
  /\ keys' = Live
  /\ left' = Live
  /\ asked' = None
  /\ fresh' = Empty(Idxs)
  /\ tracking' = TRUE
  /\ touched' = {}
  /\ deleted' = {}
  /\ UNCHANGED <<points, stored, index, disk, add, deleting, promises>>

(* The keys are read in order: a key's vector from the index if it is      *)
(* there, and otherwise the store is asked.                                *)
RebuildReadIndex(k) ==
  /\ rebuilding
  /\ asked = None
  /\ k \in left
  /\ \A j \in left : k <= j
  /\ left' = left \ {k}
  /\ fresh' = [fresh EXCEPT ![k] = index[k]]
  /\ asked' = IF index[k] = None THEN k ELSE None
  /\ UNCHANGED <<points, stored, index, disk, add, deleting, rebuilding, keys, tracks, promises>>

RebuildReadStore ==
  /\ asked # None
  /\ row[asked] # None
  /\ fresh' = [fresh EXCEPT ![asked] = stored[row[asked]]]
  /\ asked' = None
  /\ UNCHANGED <<points, stored, index, disk, add, deleting, rebuilding, keys, left, tracks, promises>>

(* The key has been deleted since: _idx_to_id has no entry, the KeyError   *)
(* ends the rebuild, and what was tracked is left as it stands.            *)
RebuildFails ==
  /\ asked # None
  /\ row[asked] = None
  /\ rebuilding' = FALSE
  /\ keys' = {} /\ left' = {} /\ asked' = None /\ fresh' = Empty(Idxs)
  /\ UNCHANGED <<points, stored, index, disk, add, deleting, tracks, promises>>

(* Wrong: what was written meanwhile goes with the old index, as it did    *)
(* until the touched keys were tracked. (RebuildIsExact)                   *)
RebuiltUncarried == Without(fresh, deleted \ Live)

(* What the swap installs: what was read, less the keys deleted meanwhile, *)
(* and with those written meanwhile carried over from the old index.       *)
Rebuilt ==
  LET kept == Without(fresh, deleted \ Live)
      carried == [i \in Idxs |-> IF i \in touched \cap Live THEN index[i] ELSE None]
  IN Over(kept, carried)

(* Every key has been read.                                                *)
AllRead == rebuilding /\ left = {} /\ asked = None

(* The swap, and the save that follows it under the same lock.             *)
SwapIn(new) ==
  /\ LockFree
  /\ AllRead
  /\ index' = new
  /\ saved' = new
  /\ dirty' = FALSE
  /\ rebuilding' = FALSE
  /\ keys' = {} /\ left' = {} /\ asked' = None /\ fresh' = Empty(Idxs)
  /\ tracking' = FALSE /\ touched' = {} /\ deleted' = {}
  /\ UNCHANGED <<points, stored, add, deleting>>

RebuildSwap == SwapIn(Rebuilt) /\ durable' = settled /\ UNCHANGED settled

-------------------------------------------------------------------------------
(* Wrong: numbering goes on from how many rows there are. (TypeOK)         *)
CountsRows(n) == n = Cardinality(Live)

(* n is one more than the highest row number, or 0.                        *)
FollowsRows(n) ==
  /\ \A i \in Live : i < n
  /\ n = 0 \/ n - 1 \in Live

(* The process dies, or is closed, and another opens the collection: rows  *)
(* and documents are as they were committed, and numbering goes on after   *)
(* the highest row.                                                        *)
Restart ==
  /\ \E n \in 0..MaxIdx : FollowsRows(n) /\ next' = n
  /\ dirty' = FALSE
  /\ add' = Idle
  /\ deleting' = {}
  /\ rebuilding' = FALSE
  /\ keys' = {} /\ left' = {} /\ asked' = None /\ fresh' = Empty(Idxs)
  /\ tracking' = FALSE /\ touched' = {} /\ deleted' = {}
  /\ UNCHANGED <<row, text, stored, saved>>

(* What was saved, and is not being deleted, is promised still.            *)
KeepPromises ==
  /\ settled' = durable \ deleting
  /\ durable' = durable \ deleting

(* The index is its file.                                                  *)
Reopen == Restart /\ KeepPromises /\ index' = saved

Batches == [Ids -> Vectors \cup {None}]

Next ==
  \/ \E batch \in Batches : AddRows(batch)
  \/ AddStore
  \/ AddRefused
  \/ AddReplace
  \/ AddIndex
  \/ \E ids \in SUBSET Ids : DeleteStore(ids)
  \/ DeleteRows
  \/ Save
  \/ RebuildStart
  \/ \E k \in Idxs : RebuildReadIndex(k)
  \/ RebuildReadStore
  \/ RebuildFails
  \/ RebuildSwap
  \/ Reopen

Spec == Init /\ [][Next]_vars

-------------------------------------------------------------------------------
(* Properties                                                              *)

ByRow == [Idxs -> Vectors \cup {None}]

(* Every variable has its type, an id has at most one row, and no row is   *)
(* numbered at or beyond the next number, whatever deletes and reopens     *)
(* have done to the numbering.                                             *)
TypeOK ==
  /\ row \in [Idxs -> Ids \cup {None}]
  /\ \A i, j \in Live : row[i] = row[j] => i = j
  /\ next \in 0..MaxIdx /\ \A i \in Live : i < next
  /\ text \in Batches /\ stored \in Batches
  /\ index \in ByRow /\ saved \in ByRow /\ fresh \in ByRow
  /\ dirty \in BOOLEAN /\ rebuilding \in BOOLEAN /\ tracking \in BOOLEAN
  /\ add \in [at : {"idle", "store", "replace", "index"}, batch : Batches]
  /\ deleting \in SUBSET Ids /\ settled \in SUBSET Ids /\ durable \in SUBSET Ids
  /\ keys \in SUBSET Idxs /\ left \in SUBSET keys /\ asked \in keys \cup {None}
  /\ touched \in SUBSET Idxs /\ deleted \in SUBSET Idxs

(* A point whose add() returned is searchable by the vector it was given,  *)
(* in the index and in the store, and one that was saved after that is so  *)
(* in the index file too: through updates in place, deletes of other       *)
(* points, row numbers reused after a reopen over an index that still      *)
(* holds their old vectors, rebuilds under way, refusals by the store and  *)
(* the death of the process at any step.                                   *)
SettledPointsAgree ==
  \A i \in Live :
    /\ row[i] \in settled => index[i] = text[row[i]]
    /\ row[i] \in settled \ deleting => stored[row[i]] = text[row[i]]
    /\ row[i] \in durable => saved[i] = text[row[i]]

(* The swap of a rebuild changes no answer.  Every point that was there    *)
(* when it started, or whose add() has returned since, keeps the vector    *)
(* the old index had for it, whether the rebuild read the key before the   *)
(* add(), after it, or between its two steps in the index; a point the old *)
(* index had none for gets the store's; and nothing that was deleted,      *)
(* before the rebuild or during it, is carried over.                       *)
RebuildIsExact ==
  [][RebuildSwap =>
       \A i \in Idxs :
         /\ i \notin Live => index'[i] = None
         /\ i \in Live /\ index[i] # None /\ (i \in keys \/ row[i] \in settled)
              => index'[i] = index[i]
         /\ i \in Live \cap keys /\ index[i] = None /\ stored[row[i]] # None
              => index'[i] = stored[row[i]]]_vars

(* "The rebuild reconciles anything the kill left behind"                  *)
(* (tests/unit/test_crash_durability.py): a point that was there when the  *)
(* rebuild started, and whose row and document agree on its vector, comes  *)
(* out of the rebuild with that vector.  No run checks it: it is not so of *)
(* a point that a kill left with an older vector in the index's file.      *)
RebuildReconciles ==
  [][RebuildSwap =>
       \A i \in Live \cap keys :
         stored[row[i]] = text[row[i]] => index'[i] = text[row[i]]]_vars

(* "A point that is deleted here and not there is not deleted": with no    *)
(* call under way, the store holds no document without a row.  No run      *)
(* checks it: it is not so when an add() came between a delete()'s halves. *)
DeletedEverywhere ==
  LockFree /\ deleting = {} =>
    \A id \in Given(stored) : \E i \in Live : row[i] = id
===============================================================================
