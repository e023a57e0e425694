-------------------------- MODULE ShardedIndexProofs --------------------------
(***************************************************************************)
(* What holds of the sharded index for every number of keys, vectors and   *)
(* shards and every shard size.                                            *)
(*                                                                         *)
(*   1. lemmas about shards and the newest-first read;                     *)
(*   2. type correctness, which includes the bound on a shard's size;      *)
(*   3. the durability invariant, which needs to know besides that the     *)
(*      present value of every key is among those it held since the save;  *)
(*   4. the refinement of DurableMap, from the same invariant;             *)
(*   5. the removed list;                                                  *)
(*   6. the search: the matches search() keeps are one for each key the    *)
(*      index contains, at the distance of what get() reads; and no match  *)
(*      that should be among the answers has as many before it, in any     *)
(*      shard, as the window asks for.  It needs the types, and of the     *)
(*      collection that it never counts more points than it has rows;      *)
(*   7. compaction (module ShardCompaction): the operations on an index as *)
(*      an index that answers, the files an index opens from, the types,   *)
(*      what the swap puts in place, and what is on disk while the fresh   *)
(*      shards are staged.  Only this part uses that keys are row numbers. *)
(***************************************************************************)
EXTENDS ShardedSearch, ShardCompaction,
        FiniteSetTheorems, WellFoundedInduction, TLAPS

USE DEF Shard, EmptyShard, Held, Size, Without

-------------------------------------------------------------------------------
(* A non-empty set of numbers up to n has a largest one.                   *)
LEMMA LargestExists ==
  ASSUME NEW n \in Nat, NEW S, S \subseteq 1..n, S # {}
  PROVE  \E x \in S : \A y \in S : y <= x
<1> DEFINE T == {m \in Nat : \E s \in S : m = n - s}
<1>1. T # {}
  <2>1. PICK s \in S : TRUE
    OBVIOUS
  <2>2. n - s \in Nat
    BY <2>1
  <2> QED
    BY <2>1, <2>2
<1>2. PICK x \in T : \A y \in T : ~ (<<y, x>> \in OpToRel(<, Nat))
  <2>1. T \subseteq Nat
    OBVIOUS
  <2> QED
    BY <1>1, <2>1, WFMin, NatLessThanWellFounded
<1>3. PICK s \in S : x = n - s
  OBVIOUS
<1>4. ASSUME NEW y \in S
      PROVE  y <= s
  <2>1. n - y \in T
    OBVIOUS
  <2>2. ~ (n - y < x)
    BY <1>2, <2>1 DEF OpToRel
  <2> QED
    BY <1>3, <2>2
<1> QED
  BY <1>4

(* A non-empty set of numbers up to n has a least one.                     *)
LEMMA LeastExists ==
  ASSUME NEW n \in Nat, NEW S, S \subseteq 0..n, S # {}
  PROVE  \E x \in S : \A y \in S : x <= y
<1>1. PICK x \in S : \A y \in S : ~ (<<y, x>> \in OpToRel(<, Nat))
  <2>1. S \subseteq Nat
    OBVIOUS
  <2> QED
    BY <2>1, WFMin, NatLessThanWellFounded
<1>2. ASSUME NEW y \in S
      PROVE  x <= y
  <2>1. x \in Nat /\ y \in Nat
    OBVIOUS
  <2>2. ~ (y < x)
    BY <1>1, <2>1 DEF OpToRel
  <2> QED
    BY <2>1, <2>2
<1> QED
  BY <1>2

(* The read through the sealed shards finds a copy exactly when there is   *)
(* one, and what it finds is a vector.                                     *)
LEMMA NewestSealedType ==
  ASSUME sealed \in Seq(Shard), NEW k \in Keys
  PROVE  /\ NewestSealed(k) \in Vectors \cup {None}
         /\ NewestSealed(k) = None <=> Copies(k) = {}
<1>1. CASE Copies(k) = {}
  BY <1>1 DEF NewestSealed
<1>2. CASE Copies(k) # {}
  <2> DEFINE Largest(n) == \A m \in Copies(k) : m <= n
             newest == CHOOSE n \in Copies(k) : Largest(n)
  <2>1. Copies(k) \subseteq 1..Len(sealed) /\ Len(sealed) \in Nat
    BY DEF Copies
  <2>2. \E n \in Copies(k) : Largest(n)
    BY <1>2, <2>1, LargestExists
  <2>3. newest \in Copies(k)
    BY <2>2
  <2>4. NewestSealed(k) = sealed[newest][k]
    BY <1>2 DEF NewestSealed
  <2> HIDE DEF newest
  <2>5. newest \in 1..Len(sealed) /\ sealed[newest][k] # None
    BY <2>3 DEF Copies
  <2>6. sealed[newest] \in Shard
    BY <2>5
  <2> QED
    BY <1>2, <2>4, <2>5, <2>6
<1> QED
  BY <1>1, <1>2

LEMMA ReadBehindType ==
  ASSUME sealed \in Seq(Shard), NEW front \in Shard, NEW k \in Keys
  PROVE  ReadBehind(front, k) \in Vectors \cup {None}
BY NewestSealedType DEF ReadBehind

(* Sealing the head puts it ahead of the shards sealed before it, so what  *)
(* was read from the head and the sealed shards is now read from the       *)
(* sealed shards alone.                                                    *)
LEMMA SealMovesTheRead ==
  ASSUME sealed \in Seq(Shard), head \in Shard, sealed' = Append(sealed, head),
         NEW k \in Keys
  PROVE  NewestSealed(k)' = ReadBehind(head, k)
<1> DEFINE last == Len(sealed) + 1
<1>1. /\ Len(sealed) \in Nat
      /\ Len(sealed') = last
      /\ sealed'[last] = head
      /\ \A n \in 1..Len(sealed) : sealed'[n] = sealed[n]
  OBVIOUS
<1>2. CASE head[k] # None
  <2>1. last \in Copies(k)' /\ \A m \in Copies(k)' : m \in 1..last
    BY <1>1, <1>2 DEF Copies
  <2>2. (CHOOSE n \in Copies(k)' : \A m \in Copies(k)' : m <= n) = last
    <3> DEFINE Largest(n) == n \in Copies(k)' /\ \A m \in Copies(k)' : m <= n
    <3>1. Largest(last)
      BY <1>1, <2>1
    <3>2. ASSUME NEW n, Largest(n)
          PROVE  n = last
      BY <1>1, <2>1, <3>2
    <3> QED
      BY <3>1, <3>2
  <2>3. NewestSealed(k)' = sealed'[last][k]
    BY <2>1, <2>2 DEF NewestSealed
  <2> QED
    BY <1>1, <1>2, <2>3 DEF ReadBehind
<1>3. CASE head[k] = None
  <2>1. Copies(k)' = Copies(k)
    <3>1. ASSUME NEW n \in 1..last
          PROVE  n \in Copies(k)' <=> n \in Copies(k)
      <4>1. CASE n = last
        BY <1>1, <1>3, <4>1 DEF Copies
      <4>2. CASE n # last
        BY <1>1, <4>2 DEF Copies
      <4> QED
        BY <4>1, <4>2
    <3>2. Copies(k)' \subseteq 1..last /\ Copies(k) \subseteq 1..last
      BY <1>1 DEF Copies
    <3> QED
      BY <3>1, <3>2
  <2>2. CASE Copies(k) = {}
    BY <1>3, <2>1, <2>2 DEF NewestSealed, ReadBehind
  <2>3. CASE Copies(k) # {}
    <3> DEFINE newest == CHOOSE n \in Copies(k) : \A m \in Copies(k) : m <= n
    <3>1. Copies(k) \subseteq 1..Len(sealed)
      BY DEF Copies
    <3>2. newest \in Copies(k)
      BY <1>1, <2>3, <3>1, LargestExists
    <3>3. NewestSealed(k)' = sealed'[newest][k]
      BY <2>1, <2>3 DEF NewestSealed
    <3>4. NewestSealed(k) = sealed[newest][k]
      BY <2>3 DEF NewestSealed
    <3> QED
      BY <1>1, <1>3, <3>1, <3>2, <3>3, <3>4 DEF ReadBehind
  <2> QED
    BY <2>2, <2>3
<1> QED
  BY <1>2, <1>3

(* An empty front hides nothing.                                           *)
LEMMA EmptyFront ==
  ASSUME NEW k \in Keys
  PROVE  ReadBehind(EmptyShard, k) = NewestSealed(k)
BY DEF ReadBehind

-------------------------------------------------------------------------------
(* Type correctness.                                                       *)

(* Putting a chunk that fits into the head leaves a shard within bounds.   *)
LEMMA ChunkFits ==
  ASSUME head \in BoundedShard, pending \in Shard,
         NEW chunk, chunk \subseteq Held(pending), Cardinality(chunk) <= Room,
         NEW shard,
         shard = [k \in Keys |-> IF k \in chunk THEN pending[k] ELSE head[k]]
  PROVE  shard \in BoundedShard
<1>1. shard \in Shard
  BY DEF BoundedShard
<1>2. Held(shard) = Held(head) \cup chunk
  BY DEF BoundedShard
<1>3. /\ IsFiniteSet(Held(head)) /\ IsFiniteSet(chunk)
      /\ IsFiniteSet(Held(head) \cap chunk)
  <2>1. Held(head) \in SUBSET Keys /\ chunk \in SUBSET Keys
    OBVIOUS
  <2> HIDE DEF Held
  <2> QED
    BY <2>1, KeysFinite, FS_Subset, FS_Intersection
<1> DEFINE h == Held(head)
<1>4. Cardinality(h \cup chunk)
        = Cardinality(h) + Cardinality(chunk) - Cardinality(h \cap chunk)
  <2> HIDE DEF h
  <2> QED
    BY <1>3, FS_Union DEF h
<1>5. /\ Cardinality(h) \in Nat /\ Cardinality(chunk) \in Nat
      /\ Cardinality(h \cap chunk) \in Nat
  BY <1>3, FS_CardinalityType
<1>6. Cardinality(chunk) <= ShardSize - Cardinality(h)
  BY DEF Room
<1>7. Size(shard) = Cardinality(h \cup chunk)
  BY <1>2
<1>8. Size(shard) <= ShardSize
  <2> HIDE DEF h, Size
  <2> QED
    BY <1>4, <1>5, <1>6, <1>7, ShardSizeAssumption
<1> QED
  BY <1>1, <1>8 DEF BoundedShard

(* Taking keys out of a shard leaves it within bounds.                     *)
LEMMA WithoutFits ==
  ASSUME NEW shard \in BoundedShard, NEW S
  PROVE  Without(shard, S) \in BoundedShard
<1>1. Without(shard, S) \in Shard
  BY DEF BoundedShard
<1>2. Held(Without(shard, S)) \subseteq Held(shard)
  OBVIOUS
<1>3. Held(shard) \subseteq Keys
  OBVIOUS
<1> DEFINE smaller == Without(shard, S)
<1> HIDE DEF Held, smaller
<1>4. IsFiniteSet(Held(shard))
  BY <1>3, KeysFinite, FS_Subset
<1>5. Cardinality(Held(smaller)) <= Cardinality(Held(shard))
  BY <1>2, <1>4, FS_Subset DEF smaller
<1>6. /\ Cardinality(Held(shard)) \in Nat
      /\ Cardinality(Held(smaller)) \in Nat
  BY <1>2, <1>4, FS_Subset, FS_CardinalityType DEF smaller
<1>7. Cardinality(Held(smaller)) <= ShardSize
  BY <1>5, <1>6, ShardSizeAssumption DEF BoundedShard
<1> QED
  BY <1>1, <1>7 DEF BoundedShard, smaller

LEMMA EmptyFits == EmptyShard \in BoundedShard
<1>1. EmptyShard \in Shard
  OBVIOUS
<1>2. Held(EmptyShard) = {}
  OBVIOUS
<1>3. Size(EmptyShard) = 0
  BY <1>2, FS_EmptySet
<1> QED
  BY <1>1, <1>3, ShardSizeAssumption DEF BoundedShard

(* Every step keeps the types, and every shard within shard_size.          *)
LEMMA TypeStep == TypeOK /\ [Next]_vars => TypeOK'
<1> SUFFICES ASSUME TypeOK, [Next]_vars
             PROVE  TypeOK'
  OBVIOUS
<1> USE MaxSealedAssumption DEF TypeOK
<1>0. head \in Shard /\ saved \in Shard
  BY DEF BoundedShard
<1>1. ASSUME NEW batch \in Shard, BeginAdd(batch)
      PROVE  TypeOK'
  BY <1>1 DEF BeginAdd, BoundedShard
<1>2. CASE Seal
  <2>1. head' \in BoundedShard
    BY <1>2, EmptyFits DEF Seal
  <2>2. sealed' \in Seq(BoundedShard) /\ Len(sealed') <= MaxSealed
    <3> HIDE DEF Shard, Held, Size
    <3>1. sealed' = Append(sealed, head) /\ Len(sealed) < MaxSealed
      BY <1>2 DEF Seal
    <3>2. Len(sealed) \in Nat /\ Len(sealed') = Len(sealed) + 1
      BY <3>1
    <3> QED
      BY <3>1, <3>2
  <2>3. UNCHANGED <<removed, pending, saved>>
    BY <1>2 DEF Seal
  <2> QED
    BY <2>1, <2>2, <2>3 DEF BoundedShard
<1>3. ASSUME NEW chunk \in SUBSET Keys, AddChunk(chunk)
      PROVE  TypeOK'
  <2>1. Cardinality(chunk) <= Room
    <3>1. IsFiniteSet(Held(head)) /\ IsFiniteSet(Held(pending))
      BY KeysFinite, FS_Subset
    <3>2. Room \in Int /\ Size(pending) \in Int
      BY <3>1, FS_CardinalityType, ShardSizeAssumption DEF Room
    <3> QED
      BY <1>3, <3>2 DEF AddChunk
  <2>2. head' \in BoundedShard
    <3> HIDE DEF Shard, Held, Size
    <3> QED
      BY <1>3, <2>1, ChunkFits DEF AddChunk
  <2>3. pending' \in Shard /\ removed' \in SUBSET Keys
    BY <1>3 DEF AddChunk
  <2>4. UNCHANGED <<sealed, saved>>
    BY <1>3 DEF AddChunk
  <2> QED
    BY <2>2, <2>3, <2>4
<1>4. ASSUME NEW k \in Keys, Remove(k)
      PROVE  TypeOK'
  <2>1. head' \in BoundedShard
    <3> HIDE DEF Shard, Held, Size, Without
    <3> QED
      BY <1>4, WithoutFits DEF Remove
  <2> QED
    BY <1>4, <2>1 DEF Remove
<1>5. CASE Save
  BY <1>5 DEF Save
<1>6. CASE Reopen
  BY <1>6, <1>0 DEF Reopen
<1>7. CASE UNCHANGED vars
  BY <1>7 DEF vars, BoundedShard
<1> QED
  BY <1>1, <1>2, <1>3, <1>4, <1>5, <1>6, <1>7 DEF Next

(* Type correctness: no sequence of batches, removals, seals, saves and    *)
(* reopens makes a shard larger than shard_size.                           *)
THEOREM TypeCorrect == Spec => []TypeOK
<1>1. Init => TypeOK
  BY EmptyFits, MaxSealedAssumption DEF Init, TypeOK, BoundedShard
<1> QED
  BY <1>1, TypeStep, PTL DEF Spec

-------------------------------------------------------------------------------
(* Durability.                                                             *)

(* What every step keeps: beside what has to be shown, the present value   *)
(* of a key is one it has held since the save.  Without that part a seal,  *)
(* which puts the head's copies on disk, could not be shown to put there   *)
(* a value the key has held.                                               *)
Durable ==
  /\ TypeOK
  /\ since \in [Keys -> SUBSET (Vectors \cup {None})]
  /\ \A k \in Keys : Get(k) \in since[k]
  /\ NothingOlderThanTheSave

(* The types as the lemmas about reading want them.                        *)
LEMMA ShardsTyped ==
  ASSUME TypeOK
  PROVE  sealed \in Seq(Shard) /\ head \in Shard /\ saved \in Shard
<1>1. BoundedShard \subseteq Shard
  BY DEF BoundedShard
<1> HIDE DEF Shard
<1> QED
  BY <1>1 DEF TypeOK

LEMMA GetType ==
  ASSUME TypeOK, NEW k \in Keys
  PROVE  Get(k) \in Vectors \cup {None}
BY ShardsTyped, ReadBehindType DEF Get

(* A step that leaves the sealed shards alone leaves the read through them *)
(* alone.                                                                  *)
LEMMA SealedUnchanged ==
  ASSUME UNCHANGED sealed, NEW k \in Keys
  PROVE  NewestSealed(k)' = NewestSealed(k) /\ Copies(k)' = Copies(k)
BY DEF NewestSealed, Copies

(* What each step does to a read.                                          *)
LEMMA SealReads ==
  ASSUME TypeOK, Seal, NEW k \in Keys
  PROVE  Get(k)' = Get(k)
<1>1. NewestSealed(k)' = ReadBehind(head, k)
  BY ShardsTyped, SealMovesTheRead DEF Seal
<1>2. ReadBehind(head, k)' = NewestSealed(k)'
  BY DEF Seal, ReadBehind
<1> QED
  BY <1>1, <1>2 DEF Get, Seal

LEMMA AddChunkReads ==
  ASSUME TypeOK, NEW chunk \in SUBSET Keys, AddChunk(chunk), NEW k \in Keys
  PROVE  /\ Get(k)' = IF k \in chunk THEN pending[k] ELSE Get(k)
         /\ k \in chunk => pending[k] \in Vectors
<1>1. NewestSealed(k)' = NewestSealed(k)
  BY SealedUnchanged DEF AddChunk
<1>2. k \in chunk => pending[k] \in Vectors /\ pending[k] # None
  BY DEF AddChunk, TypeOK
<1>3. head'[k] = IF k \in chunk THEN pending[k] ELSE head[k]
  BY DEF AddChunk
<1>4. k \in removed' <=> k \in removed /\ k \notin chunk
  BY DEF AddChunk
<1> QED
  BY <1>1, <1>2, <1>3, <1>4 DEF Get, ReadBehind

LEMMA RemoveReads ==
  ASSUME TypeOK, NEW key \in Keys, Remove(key), NEW k \in Keys
  PROVE  Get(k)' = IF k = key THEN None ELSE Get(k)
<1>1. /\ NewestSealed(k)' = NewestSealed(k)
      /\ head'[k] = IF k = key THEN None ELSE head[k]
  BY SealedUnchanged DEF Remove
<1>2. CASE k = key
  <2>1. CASE Copies(key) = {}
    BY <1>1, <1>2, <2>1, ShardsTyped, NewestSealedType DEF Get, ReadBehind
  <2>2. CASE Copies(key) # {}
    BY <1>2, <2>2 DEF Get, Remove
  <2> QED
    BY <2>1, <2>2
<1>3. CASE k # key
  <2>1. k \in removed' <=> k \in removed
    BY <1>3 DEF Remove
  <2> QED
    BY <1>1, <1>3, <2>1 DEF Get, ReadBehind
<1> QED
  BY <1>2, <1>3

LEMMA ReopenReads ==
  ASSUME Reopen, NEW k \in Keys
  PROVE  Get(k)' = OnDisk(k)
<1>1. NewestSealed(k)' = NewestSealed(k)
  BY SealedUnchanged DEF Reopen
<1> QED
  BY <1>1 DEF Reopen, Get, OnDisk, ReadBehind

LEMMA DurableStep == Durable /\ [HNext]_hvars => Durable'
<1> SUFFICES ASSUME Durable, [HNext]_hvars
             PROVE  Durable'
  OBVIOUS
<1> USE DEF Durable
<1>1. TypeOK'
  BY TypeStep DEF HNext, hvars, Next, vars, HBeginAdd, HSeal, HAddChunk, HRemove,
                  HSave, HReopen
<1> DEFINE Kept ==
      /\ since' \in [Keys -> SUBSET (Vectors \cup {None})]
      /\ \A k \in Keys : Get(k)' \in since'[k]
      /\ \A k \in Keys : None \notin since'[k] => OnDisk(k)' \in since'[k]
<1>2. Kept => Durable'
  BY <1>1 DEF NothingOlderThanTheSave
<1> HIDE DEF Kept
<1>3. ASSUME UNCHANGED <<head, sealed, removed, saved, since>>
      PROVE  Kept
  <2>1. ASSUME NEW k \in Keys
        PROVE  Get(k)' = Get(k) /\ OnDisk(k)' = OnDisk(k)
    BY <1>3, SealedUnchanged DEF Get, OnDisk, ReadBehind
  <2> QED
    BY <1>3, <2>1 DEF Kept, NothingOlderThanTheSave
<1>4. ASSUME NEW batch \in Shard, HBeginAdd(batch)
      PROVE  Kept
  BY <1>3, <1>4 DEF HBeginAdd, BeginAdd
<1>5. ASSUME HSeal
      PROVE  Kept
  <2>1. ASSUME NEW k \in Keys
        PROVE  Get(k)' = Get(k)
    BY <1>5, <2>1, SealReads DEF HSeal
  <2>2. ASSUME NEW k \in Keys, None \notin since[k]
        PROVE  OnDisk(k)' \in since[k]
    <3>1. NewestSealed(k)' = ReadBehind(head, k)
      BY <1>5, ShardsTyped, SealMovesTheRead DEF HSeal, Seal
    <3>2. saved' = saved
      BY <1>5 DEF HSeal, Seal
    <3>3. CASE saved[k] # None
      BY <2>2, <3>2, <3>3 DEF OnDisk, ReadBehind, NothingOlderThanTheSave
    <3>4. CASE saved[k] = None
      <4>1. OnDisk(k)' = ReadBehind(head, k)
        BY <3>1, <3>2, <3>4 DEF OnDisk, ReadBehind
      <4>2. Get(k) # None
        BY <2>2
      <4>3. Get(k) = ReadBehind(head, k)
        BY <4>2 DEF Get
      <4> QED
        BY <4>1, <4>3
    <3> QED
      BY <3>3, <3>4
  <2> QED
    BY <1>5, <2>1, <2>2 DEF Kept, HSeal
<1>6. ASSUME NEW chunk \in SUBSET Keys, HAddChunk(chunk)
      PROVE  Kept
  <2>1. ASSUME NEW k \in Keys
        PROVE  /\ Get(k)' = IF k \in chunk THEN pending[k] ELSE Get(k)
               /\ k \in chunk => pending[k] \in Vectors
    BY <1>6, <2>1, AddChunkReads DEF HAddChunk
  <2>2. ASSUME NEW k \in Keys
        PROVE  OnDisk(k)' = OnDisk(k)
    BY <1>6, SealedUnchanged DEF HAddChunk, AddChunk, OnDisk, ReadBehind
  <2>3. \A k \in Keys :
          since'[k] = IF k \in chunk THEN since[k] \cup {pending[k]} ELSE since[k]
    BY <1>6 DEF HAddChunk
  <2>4. since' \in [Keys -> SUBSET (Vectors \cup {None})]
    BY <1>6, <2>1 DEF HAddChunk
  <2> QED
    BY <2>1, <2>2, <2>3, <2>4 DEF Kept, NothingOlderThanTheSave
<1>7. ASSUME NEW key \in Keys, HRemove(key)
      PROVE  Kept
  <2>1. ASSUME NEW k \in Keys
        PROVE  Get(k)' = IF k = key THEN None ELSE Get(k)
    BY <1>7, <2>1, RemoveReads DEF HRemove
  <2>2. ASSUME NEW k \in Keys
        PROVE  OnDisk(k)' = OnDisk(k)
    BY <1>7, SealedUnchanged DEF HRemove, Remove, OnDisk, ReadBehind
  <2>3. \A k \in Keys : since'[k] = IF k = key THEN since[k] \cup {None} ELSE since[k]
    BY <1>7 DEF HRemove
  <2>4. since' \in [Keys -> SUBSET (Vectors \cup {None})]
    BY <1>7 DEF HRemove
  <2> QED
    BY <2>1, <2>2, <2>3, <2>4 DEF Kept, NothingOlderThanTheSave
<1>8. ASSUME HSave
      PROVE  Kept
  <2>1. ASSUME NEW k \in Keys
        PROVE  /\ Get(k)' = Get(k)
               /\ OnDisk(k)' = ReadBehind(head, k)
               /\ since'[k] = {Get(k)}
               /\ Get(k) \in Vectors \cup {None}
    BY <1>8, <2>1, SealedUnchanged, GetType
    DEF HSave, Save, Get, OnDisk, ReadBehind
  <2>2. since' \in [Keys -> SUBSET (Vectors \cup {None})]
    BY <1>8, <2>1 DEF HSave
  <2>3. ASSUME NEW k \in Keys, None \notin since'[k]
        PROVE  OnDisk(k)' \in since'[k]
    BY <2>1, <2>3 DEF Get
  <2> QED
    BY <2>1, <2>2, <2>3 DEF Kept
<1>9. ASSUME HReopen
      PROVE  Kept
  <2>1. ASSUME NEW k \in Keys
        PROVE  /\ Get(k)' = OnDisk(k)
               /\ OnDisk(k)' = OnDisk(k)
               /\ since'[k] = since[k] \cup {OnDisk(k)}
               /\ OnDisk(k) \in Vectors \cup {None}
    <3>1. Get(k)' = OnDisk(k)
      BY <1>9, ReopenReads DEF HReopen
    <3>2. OnDisk(k)' = OnDisk(k)
      BY <1>9, SealedUnchanged DEF HReopen, Reopen, OnDisk, ReadBehind
    <3>3. OnDisk(k) \in Vectors \cup {None}
      BY ShardsTyped, ReadBehindType DEF OnDisk
    <3> QED
      BY <1>9, <3>1, <3>2, <3>3 DEF HReopen
  <2>2. since' \in [Keys -> SUBSET (Vectors \cup {None})]
    BY <1>9, <2>1 DEF HReopen
  <2> QED
    BY <2>1, <2>2 DEF Kept, NothingOlderThanTheSave
<1>10. ASSUME UNCHANGED hvars
       PROVE  Kept
  BY <1>3, <1>10 DEF hvars
<1> QED
  BY <1>2, <1>4, <1>5, <1>6, <1>7, <1>8, <1>9, <1>10 DEF HNext

LEMMA InitDurable == HInit => Durable
<1> SUFFICES ASSUME HInit
             PROVE  Durable
  OBVIOUS
<1>1. TypeOK
  BY EmptyFits, MaxSealedAssumption DEF HInit, Init, TypeOK, BoundedShard
<1>2. ASSUME NEW k \in Keys
      PROVE  Get(k) = None /\ OnDisk(k) = None
  BY DEF HInit, Init, Get, OnDisk, ReadBehind, NewestSealed, Copies
<1> QED
  BY <1>1, <1>2 DEF HInit, Durable, NothingOlderThanTheSave

LEMMA AlwaysDurable == HSpec => []Durable
BY InitDurable, DurableStep, PTL DEF HSpec

(* A process that dies at any moment, between any two chunks of any batch, *)
(* leaves on disk, for every key present since the last save, a vector the *)
(* key has held since that save.                                           *)
THEOREM DiskIsNeverOlder == HSpec => []NothingOlderThanTheSave
<1>1. Durable => NothingOlderThanTheSave
  BY DEF Durable
<1> QED
  BY <1>1, AlwaysDurable, PTL

(* A key that was there at the last save and that nothing has written or   *)
(* removed since answers with what was saved, and would if the process     *)
(* died now: whatever adds of other keys have sealed meanwhile, and        *)
(* however often the index has been opened again.                          *)
THEOREM UntouchedKeysStay ==
  HSpec => [](\A k \in Keys, v \in Vectors :
                since[k] = {v} => Get(k) = v /\ OnDisk(k) = v)
<1>1. Durable => \A k \in Keys, v \in Vectors :
                   since[k] = {v} => Get(k) = v /\ OnDisk(k) = v
  <2>1. \A v \in Vectors : v # None
    BY NoneIsNoVector
  <2> QED
    BY <2>1 DEF Durable, NothingOlderThanTheSave
<1> QED
  BY <1>1, AlwaysDurable, PTL

-------------------------------------------------------------------------------
(* Refinement.                                                             *)

(* Every step of the index is a step of the map, or leaves the map alone.  *)
LEMMA MapStep ==
  Durable /\ [HNext]_hvars => [Map!Next]_(Map!vars)
<1> SUFFICES ASSUME Durable, [HNext]_hvars
             PROVE  [Map!Next]_(Map!vars)
  OBVIOUS
<1> USE DEF Durable
<1>1. ASSUME UNCHANGED since, \A k \in Keys : Get(k)' = Get(k)
      PROVE  UNCHANGED Map!vars
  BY <1>1 DEF Map!vars
<1>2. ASSUME NEW batch \in Shard, HBeginAdd(batch)
      PROVE  UNCHANGED Map!vars
  <2>1. ASSUME NEW k \in Keys
        PROVE  Get(k)' = Get(k)
    BY <1>2, SealedUnchanged DEF HBeginAdd, BeginAdd, Get, ReadBehind
  <2> QED
    BY <1>1, <1>2, <2>1 DEF HBeginAdd
<1>3. ASSUME HSeal
      PROVE  UNCHANGED Map!vars
  <2>1. ASSUME NEW k \in Keys
        PROVE  Get(k)' = Get(k)
    BY <1>3, <2>1, SealReads DEF HSeal
  <2> QED
    BY <1>1, <1>3, <2>1 DEF HSeal
<1>4. ASSUME NEW chunk \in SUBSET Keys, HAddChunk(chunk)
      PROVE  Map!Next
  <2> DEFINE f == [k \in chunk |-> pending[k]]
  <2>1. ASSUME NEW k \in Keys
        PROVE  /\ Get(k)' = IF k \in chunk THEN pending[k] ELSE Get(k)
               /\ k \in chunk => pending[k] \in Vectors
    BY <1>4, <2>1, AddChunkReads DEF HAddChunk
  <2>2. f \in [chunk -> Vectors]
    BY <2>1
  <2>3. since' = [k \in Keys |->
                    IF k \in chunk THEN since[k] \cup {f[k]} ELSE since[k]]
    BY <1>4 DEF HAddChunk
  <2>4. Map!Put(chunk, f)
    BY <2>1, <2>3 DEF Map!Put
  <2> QED
    BY <2>2, <2>4 DEF Map!Next
<1>5. ASSUME NEW key \in Keys, HRemove(key)
      PROVE  Map!Next
  <2>1. ASSUME NEW k \in Keys
        PROVE  Get(k)' = IF k = key THEN None ELSE Get(k)
    BY <1>5, <2>1, RemoveReads DEF HRemove
  <2>2. Map!Drop(key)
    BY <1>5, <2>1 DEF HRemove, Map!Drop
  <2> QED
    BY <2>2 DEF Map!Next
<1>6. ASSUME HSave
      PROVE  Map!Next
  <2>1. ASSUME NEW k \in Keys
        PROVE  Get(k)' = Get(k)
    BY <1>6, SealedUnchanged DEF HSave, Save, Get, ReadBehind
  <2>2. since' = [k \in Keys |-> {Get(k)}]
    BY <1>6 DEF HSave
  <2>3. Map!Save
    BY <2>1, <2>2 DEF Map!Save
  <2> QED
    BY <2>3 DEF Map!Next
<1>7. ASSUME HReopen
      PROVE  Map!Next
  <2>1. ASSUME NEW k \in Keys
        PROVE  /\ Get(k)' = OnDisk(k)
               /\ Get(k)' \in Vectors \cup {None}
               /\ None \notin since[k] => Get(k)' \in since[k]
               /\ since'[k] = since[k] \cup {Get(k)'}
    <3>1. Get(k)' = OnDisk(k)
      BY <1>7, ReopenReads DEF HReopen
    <3>2. OnDisk(k) \in Vectors \cup {None}
      BY ShardsTyped, ReadBehindType DEF OnDisk
    <3> QED
      BY <1>7, <3>1, <3>2 DEF HReopen, NothingOlderThanTheSave
  <2>2. since' = [k \in Keys |-> since[k] \cup {Get(k)'}]
    BY <1>7, <2>1 DEF HReopen
  <2>3. Map!Reopen
    BY <2>1, <2>2 DEF Map!Reopen
  <2> QED
    BY <2>3 DEF Map!Next
<1>8. ASSUME UNCHANGED hvars
      PROVE  UNCHANGED Map!vars
  <2>1. ASSUME NEW k \in Keys
        PROVE  Get(k)' = Get(k)
    BY <1>8, SealedUnchanged DEF hvars, Get, ReadBehind
  <2> QED
    BY <1>1, <1>8, <2>1 DEF hvars
<1> QED
  BY <1>2, <1>3, <1>4, <1>5, <1>6, <1>7, <1>8 DEF HNext

LEMMA MapInit == HInit => Map!Init
<1> SUFFICES ASSUME HInit
             PROVE  Map!Init
  OBVIOUS
<1>1. ASSUME NEW k \in Keys
      PROVE  Get(k) = None
  BY DEF HInit, Init, Get, ReadBehind, NewestSealed, Copies
<1> QED
  BY <1>1 DEF HInit, Map!Init, Map!Nothing

(* Through batches, seals, removals, saves and reopens, a caller of the    *)
(* sharded index cannot tell it from one map with the durability DurableMap *)
(* states.                                                                 *)
THEOREM Refinement == HSpec => ImplementsDurableMap
<1>1. HInit => Map!Init
  BY MapInit
<1>2. Durable /\ [HNext]_hvars => [Map!Next]_(Map!vars)
  BY MapStep
<1> QED
  BY <1>1, <1>2, AlwaysDurable, PTL DEF HSpec, ImplementsDurableMap, Map!Spec

-------------------------------------------------------------------------------
(* Removals.                                                               *)

LEMMA RemovedStep ==
  TypeOK /\ RemovedAreSealed /\ [Next]_vars => RemovedAreSealed'
<1> SUFFICES ASSUME TypeOK, RemovedAreSealed, [Next]_vars
             PROVE  RemovedAreSealed'
  OBVIOUS
<1> USE DEF RemovedAreSealed
<1>0. removed \subseteq Keys
  BY DEF TypeOK
<1>1. ASSUME NEW batch \in Shard, BeginAdd(batch)
      PROVE  RemovedAreSealed'
  BY <1>0, <1>1, SealedUnchanged DEF BeginAdd
<1>2. CASE Seal
  <2>1. ASSUME NEW k \in Keys, Copies(k) # {}
        PROVE  Copies(k)' # {}
    <3>1. PICK n \in 1..Len(sealed) : sealed[n][k] # None
      BY <2>1 DEF Copies
    <3>2. sealed' = Append(sealed, head) /\ sealed \in Seq(Shard)
      BY <1>2, ShardsTyped DEF Seal
    <3> HIDE DEF Shard
    <3>3. n \in 1..Len(sealed') /\ sealed'[n] = sealed[n]
      BY <3>2
    <3> QED
      BY <3>1, <3>3 DEF Copies
  <2>2. removed' = removed /\ head' = EmptyShard
    BY <1>2 DEF Seal
  <2> QED
    BY <1>0, <2>1, <2>2
<1>3. ASSUME NEW chunk \in SUBSET Keys, AddChunk(chunk)
      PROVE  RemovedAreSealed'
  <2>1. ASSUME NEW k \in removed'
        PROVE  k \in removed /\ head'[k] = head[k] /\ Copies(k)' = Copies(k)
    BY <1>0, <1>3, SealedUnchanged DEF AddChunk
  <2> QED
    BY <2>1
<1>4. ASSUME NEW key \in Keys, Remove(key)
      PROVE  RemovedAreSealed'
  <2>1. ASSUME NEW k \in removed'
        PROVE  head'[k] = None /\ Copies(k)' # {}
    <3>1. k \in Keys /\ Copies(k)' = Copies(k)
      BY <1>0, <1>4, SealedUnchanged DEF Remove
    <3>2. head'[k] = IF k = key THEN None ELSE head[k]
      BY <1>4, <3>1 DEF Remove
    <3>3. k \in removed \/ (k = key /\ Copies(key) # {})
      BY <1>4 DEF Remove
    <3> QED
      BY <3>1, <3>2, <3>3
  <2> QED
    BY <2>1
<1>5. CASE Save
  BY <1>0, <1>5, SealedUnchanged DEF Save
<1>6. CASE Reopen
  BY <1>6 DEF Reopen
<1>7. CASE UNCHANGED vars
  BY <1>0, <1>7, SealedUnchanged DEF vars
<1> QED
  BY <1>1, <1>2, <1>3, <1>4, <1>5, <1>6, <1>7 DEF Next

(* A key on the removed list never has a copy in the head: a removal       *)
(* hides sealed copies and cannot hide a write made after it.              *)
THEOREM RemovalsHideOnlySealed == Spec => []RemovedAreSealed
<1>1. Init => RemovedAreSealed
  BY DEF Init, RemovedAreSealed
<1> QED
  BY <1>1, RemovedStep, TypeCorrect, PTL DEF Spec

-------------------------------------------------------------------------------
(* The search                                                              *)

(* What Before compares.                                                   *)
Match == [order : Nat, key : Nat, distance : Int]

LEMMA BeforeOrders ==
  /\ \A a \in Match : ~Before(a, a)
  /\ \A a, b \in Match : a # b => Before(a, b) \/ Before(b, a)
  /\ \A a, b, c \in Match : Before(a, b) /\ Before(b, c) => Before(a, c)
  BY DEF Before, Match

Preceding(S, m) == {o \in S : Before(o, m)}

LEMMA PrecedingCount ==
  ASSUME NEW S, S \subseteq Match, IsFiniteSet(S), NEW m \in S
  PROVE  /\ IsFiniteSet(Preceding(S, m)) /\ Cardinality(Preceding(S, m)) \in Nat
         /\ Cardinality(S) \in Nat /\ Cardinality(Preceding(S, m)) < Cardinality(S)
         /\ \A o \in S : Before(o, m) =>
              Cardinality(Preceding(S, o)) < Cardinality(Preceding(S, m))
<1>1. ASSUME NEW T, NEW U, T \subseteq U, U \subseteq S, T # U
      PROVE  /\ IsFiniteSet(T) /\ Cardinality(T) \in Nat /\ Cardinality(U) \in Nat
             /\ Cardinality(T) < Cardinality(U)
  <2>1. IsFiniteSet(U)
    BY <1>1, FS_Subset
  <2>2. IsFiniteSet(T) /\ Cardinality(T) <= Cardinality(U) /\ Cardinality(T) # Cardinality(U)
    BY <1>1, <2>1, FS_Subset
  <2> QED
    BY <2>1, <2>2, FS_CardinalityType
<1>2. Preceding(S, m) \subseteq S /\ m \notin Preceding(S, m)
  BY BeforeOrders DEF Preceding
<1>3. ASSUME NEW o \in S, Before(o, m)
      PROVE  Preceding(S, o) \subseteq Preceding(S, m) /\ Preceding(S, o) # Preceding(S, m)
  <2>1. Preceding(S, o) \subseteq Preceding(S, m)
    BY <1>3, BeforeOrders DEF Preceding
  <2>2. o \in Preceding(S, m) /\ o \notin Preceding(S, o)
    BY <1>3, BeforeOrders DEF Preceding
  <2> QED
    BY <2>1, <2>2
<1> QED
  BY <1>1, <1>2, <1>3

(* A match that is among the nearest is before one that is not.            *)
LEMMA NearestComeFirst ==
  ASSUME NEW S, S \subseteq Match, IsFiniteSet(S), NEW wanted \in Nat,
         NEW m \in Nearest(S, wanted), NEW o \in S \ Nearest(S, wanted)
  PROVE  Before(m, o)
<1>1. m \in S /\ Cardinality(Preceding(S, m)) < wanted /\ ~(Cardinality(Preceding(S, o)) < wanted)
  BY DEF Nearest, Preceding
<1>2. ~Before(o, m)
  <2>1. SUFFICES ASSUME Before(o, m) PROVE FALSE
    OBVIOUS
  <2>2. Cardinality(Preceding(S, o)) < Cardinality(Preceding(S, m))
    BY <1>1, <2>1, PrecedingCount
  <2>3. Cardinality(Preceding(S, o)) \in Nat /\ Cardinality(Preceding(S, m)) \in Nat
    BY <1>1, PrecedingCount
  <2> QED
    BY <1>1, <2>2, <2>3
<1> QED
  BY <1>1, <1>2, BeforeOrders

(* They are as many as were asked for, or all there are: how many precede  *)
(* a match numbers the matches from 0.                                     *)
LEMMA NearestCount ==
  ASSUME NEW S, S \subseteq Match, IsFiniteSet(S), NEW wanted \in Nat
  PROVE  /\ IsFiniteSet(Nearest(S, wanted))
         /\ Cardinality(Nearest(S, wanted)) = IF Cardinality(S) < wanted THEN Cardinality(S) ELSE wanted
<1> DEFINE size == Cardinality(S)
           rank == [m \in S |-> Cardinality(Preceding(S, m))]
           few == IF size < wanted THEN size ELSE wanted
           near == [m \in Nearest(S, wanted) |-> Cardinality(Preceding(S, m))]
<1>1. size \in Nat
  BY FS_CardinalityType
<1>2. \A m \in S : Cardinality(Preceding(S, m)) \in 0..(size - 1)
  BY <1>1, PrecedingCount
<1>3. \A m, o \in S : m # o => Cardinality(Preceding(S, m)) # Cardinality(Preceding(S, o))
  <2>1. ASSUME NEW m \in S, NEW o \in S, Before(m, o)
        PROVE  Cardinality(Preceding(S, m)) # Cardinality(Preceding(S, o))
    <3>1. Cardinality(Preceding(S, m)) < Cardinality(Preceding(S, o))
      BY <2>1, PrecedingCount
    <3>2. Cardinality(Preceding(S, m)) \in Int /\ Cardinality(Preceding(S, o)) \in Int
      BY <1>2
    <3> QED
      BY <3>1, <3>2
  <2> QED
    BY <2>1, BeforeOrders
<1>4. rank \in Injection(S, 0..(size - 1))
  <2>1. rank \in [S -> 0..(size - 1)]
    BY <1>2
  <2>2. IsInjective(rank)
    BY <1>3 DEF IsInjective
  <2> QED
    BY <2>1, <2>2 DEF Injection
<1>5. IsFiniteSet(0..(size - 1)) /\ Cardinality(0..(size - 1)) = size
  BY <1>1, FS_Interval
<1>6. rank \in Surjection(S, 0..(size - 1))
  BY <1>4, <1>5, FS_Injection
<1>7. Nearest(S, wanted) \subseteq S
  BY DEF Nearest
<1>8. few \in Nat /\ few <= size /\ few <= wanted
  BY <1>1
<1>9. \A m \in Nearest(S, wanted) : Cardinality(Preceding(S, m)) \in 0..(few - 1)
  BY <1>1, <1>2, <1>8 DEF Nearest, Preceding
<1>10. ASSUME NEW n \in 0..(few - 1)
       PROVE  \E m \in Nearest(S, wanted) : Cardinality(Preceding(S, m)) = n
  <2>1. n \in 0..(size - 1) /\ n < wanted
    BY <1>1, <1>8
  <2>2. PICK m \in S : rank[m] = n
    BY <1>6, <2>1 DEF Surjection
  <2> QED
    BY <2>1, <2>2 DEF Nearest, Preceding
<1>11. near \in Bijection(Nearest(S, wanted), 0..(few - 1))
  <2>1. near \in [Nearest(S, wanted) -> 0..(few - 1)]
    BY <1>9
  <2>2. near \in Injection(Nearest(S, wanted), 0..(few - 1))
    <3>1. IsInjective(near)
      BY <1>3, <1>7 DEF IsInjective
    <3> QED
      BY <2>1, <3>1 DEF Injection
  <2>3. near \in Surjection(Nearest(S, wanted), 0..(few - 1))
    BY <2>1, <1>10 DEF Surjection
  <2> QED
    BY <2>2, <2>3 DEF Bijection
<1>12. IsFiniteSet(Nearest(S, wanted))
  BY <1>7, FS_Subset
<1>13. Cardinality(0..(few - 1)) = few
  <2> HIDE DEF few
  <2>1. few - 1 \in Int /\ 0 \in Int /\ (IF 0 > few - 1 THEN 0 ELSE few - 1 - 0 + 1) = few
    BY <1>8
  <2> QED
    BY <2>1, FS_Interval
<1>14. Cardinality(0..(few - 1)) = Cardinality(Nearest(S, wanted))
  BY <1>11, <1>12, FS_Bijection DEF ExistsBijection
<1> QED
  BY <1>12, <1>13, <1>14

(* The nearest of the set are the nearest of a part that has them.         *)
LEMMA NearestOfPart ==
  ASSUME NEW S, S \subseteq Match, IsFiniteSet(S), NEW wanted \in Nat,
         NEW A, A \subseteq S, Nearest(S, wanted) \subseteq A
  PROVE  Nearest(A, wanted) = Nearest(S, wanted)
<1>1. IsFiniteSet(A) /\ A \subseteq Match
  BY FS_Subset
<1>2. ASSUME NEW m \in A
      PROVE  /\ IsFiniteSet(Preceding(S, m)) /\ Preceding(A, m) \subseteq Preceding(S, m)
             /\ Cardinality(Preceding(A, m)) <= Cardinality(Preceding(S, m))
             /\ Cardinality(Preceding(A, m)) \in Nat /\ Cardinality(Preceding(S, m)) \in Nat
  <2>1. IsFiniteSet(Preceding(S, m)) /\ Cardinality(Preceding(S, m)) \in Nat
    BY PrecedingCount
  <2>2. Preceding(A, m) \subseteq Preceding(S, m)
    BY DEF Preceding
  <2> QED
    BY <1>1, <2>1, <2>2, FS_Subset, PrecedingCount
<1>3. ASSUME NEW m \in Nearest(S, wanted) PROVE m \in Nearest(A, wanted)
  <2>1. m \in A /\ Cardinality(Preceding(S, m)) < wanted
    BY <1>3 DEF Nearest, Preceding
  <2>2. Cardinality(Preceding(A, m)) < wanted
    BY <1>2, <2>1
  <2> QED
    BY <2>1, <2>2 DEF Nearest, Preceding
<1>4. ASSUME NEW m \in Nearest(A, wanted), m \notin Nearest(S, wanted) PROVE FALSE
  <2>1. m \in A /\ Cardinality(Preceding(A, m)) < wanted
    BY <1>4 DEF Nearest, Preceding
  <2>2. ~(Cardinality(Preceding(S, m)) < wanted) /\ Cardinality(S) \in Nat
        /\ Cardinality(Preceding(S, m)) < Cardinality(S)
    BY <1>4, <2>1, PrecedingCount DEF Nearest, Preceding
  <2>3. Cardinality(Nearest(S, wanted)) = wanted
    BY <1>2, <2>1, <2>2, NearestCount
  <2>4. Nearest(S, wanted) \subseteq Preceding(A, m)
    BY <1>4, <2>1, NearestComeFirst DEF Preceding
  <2>5. IsFiniteSet(Preceding(A, m)) /\ Cardinality(Preceding(A, m)) \in Nat
    BY <1>1, <2>1, PrecedingCount
  <2>6. Cardinality(Nearest(S, wanted)) <= Cardinality(Preceding(A, m))
    BY <2>4, <2>5, FS_Subset
  <2> QED
    BY <2>1, <2>3, <2>5, <2>6
<1> QED
  BY <1>3, <1>4


-------------------------------------------------------------------------------
(* Max and Min of two numbers.                                             *)
LEMMA MinOfTwo ==
  ASSUME NEW a \in Int, NEW b \in Int
  PROVE  Min({a, b}) = IF a <= b THEN a ELSE b
<1> DEFINE least == IF a <= b THEN a ELSE b
<1>1. least \in {a, b} /\ \A y \in {a, b} : least <= y
  OBVIOUS
<1>2. \A x \in {a, b} : (\A y \in {a, b} : x <= y) => x = least
  OBVIOUS
<1> HIDE DEF least
<1>3. Min({a, b}) = least
  BY <1>1, <1>2 DEF Min
<1> QED
  BY <1>3 DEF least

LEMMA MaxOfTwo ==
  ASSUME NEW a \in Int, NEW b \in Int
  PROVE  Max({a, b}) = IF a <= b THEN b ELSE a
<1> DEFINE most == IF a <= b THEN b ELSE a
<1>1. most \in {a, b} /\ \A y \in {a, b} : most >= y
  OBVIOUS
<1>2. \A x \in {a, b} : (\A y \in {a, b} : x >= y) => x = most
  OBVIOUS
<1> HIDE DEF most
<1>3. Max({a, b}) = most
  BY <1>1, <1>2 DEF Max
<1> QED
  BY <1>3 DEF most

(* Every window is at least what was asked for, or the whole shard, and    *)
(* the whole shard is one of them.                                         *)
LEMMA WindowsReachTheShard ==
  ASSUME NEW size \in Nat, NEW wanted \in Nat \ {0}
  PROVE  /\ size \in Windows(size, wanted)
         /\ \A a \in Windows(size, wanted) :
              a \in 0..size /\ (a >= wanted \/ a >= size)
<1> DEFINE Doubles(W) == Min({wanted, size}) \in W /\ \A a \in W : Min({size, 2 * a}) \in W
<1>1. Windows(size, wanted) = {a \in 0..size : \A W \in SUBSET (0..size) : Doubles(W) => a \in W}
  BY DEF Windows
<1>2. /\ Min({wanted, size}) = IF wanted <= size THEN wanted ELSE size
      /\ \A a \in 0..size : Min({size, 2 * a}) = IF size <= 2 * a THEN size ELSE 2 * a
  BY MinOfTwo
<1>3. ASSUME NEW W \in SUBSET (0..size), Doubles(W)
      PROVE  size \in W
  <2> DEFINE U == {a + 1 : a \in W}
  <2>1. U \subseteq 1..(size + 1)
    OBVIOUS
  <2>2. PICK x \in U : \A y \in U : y <= x
    <3>1. U # {}
      BY <1>3
    <3>2. size + 1 \in Nat
      OBVIOUS
    <3> HIDE DEF U
    <3> QED
      BY <2>1, <3>1, <3>2, LargestExists
  <2>3. PICK a \in W : x = a + 1
    OBVIOUS
  <2>4. \A w \in W : w <= a
    BY <2>2, <2>3
  <2>5. Min({size, 2 * a}) \in W /\ Min({wanted, size}) \in W
    BY <1>3
  <2>6. (IF size <= 2 * a THEN size ELSE 2 * a) \in W /\ (IF wanted <= size THEN wanted ELSE size) \in W
    BY <1>2, <2>5
  <2> QED
    BY <2>4, <2>6
<1>4. Doubles({a \in 0..size : a >= wanted \/ a >= size})
  BY <1>2
<1> QED
  BY <1>1, <1>3, <1>4

-------------------------------------------------------------------------------
(* Every copy in every shard, as a match; and the ones search() keeps.     *)
AllMatches(query) == UNION {MatchesOf(n, query) : n \in 1..Len(Shards)}

LiveMatches(query) == {m \in AllMatches(query) : ~Skipped(m)}

(* The keys the index contains.                                            *)
Contained == {k \in Keys : Contains(k)}

(* What the shards are: the head, then the sealed ones from the last.      *)
LEMMA ShardsAre ==
  ASSUME TypeOK
  PROVE  /\ Len(sealed) \in Nat /\ Len(Shards) = Len(sealed) + 1
         /\ \A n \in 1..Len(Shards) : Shards[n] \in Shard
         /\ Shards[1] = head
         /\ \A n \in 2..Len(Shards) : Shards[n] = sealed[Len(sealed) + 2 - n]
<1>1. sealed \in Seq(Shard) /\ head \in Shard
  BY ShardsTyped
<1> DEFINE back == Seqs!Reverse(sealed)
<1>2. /\ Len(sealed) \in Nat
      /\ back = [i \in 1..Len(sealed) |-> sealed[Len(sealed) - i + 1]]
  BY <1>1 DEF Seqs!Reverse
<1>3. \A i \in 1..Len(sealed) : sealed[Len(sealed) - i + 1] \in Shard
  BY <1>1
<1>4. back \in Seq(Shard) /\ Len(back) = Len(sealed)
  BY <1>2, <1>3
<1> HIDE DEF back
<1>5. Shards = <<head>> \o back
  BY DEF Shards, back
<1>6. /\ Len(Shards) = Len(sealed) + 1 /\ Shards[1] = head
      /\ \A n \in 2..Len(Shards) : Shards[n] = back[n - 1]
  BY <1>1, <1>4, <1>5
<1>7. \A n \in 2..Len(Shards) : Shards[n] = sealed[Len(sealed) + 2 - n]
  BY <1>2, <1>6
<1>8. \A n \in 1..Len(Shards) : Shards[n] \in Shard
  BY <1>1, <1>2, <1>4, <1>6
<1> QED
  BY <1>2, <1>6, <1>7, <1>8

(* What a match of a shard is.                                             *)
LEMMA MatchesAre ==
  ASSUME TypeOK, NEW q \in Queries, NEW n \in 1..Len(Shards)
  PROVE  /\ MatchesOf(n, q) \subseteq Match
         /\ \A m \in MatchesOf(n, q) :
              /\ m.order = n /\ m.key \in Keys /\ Shards[n][m.key] # None
              /\ m.distance = Distance(Shards[n][m.key], q)
              /\ m = [order |-> n, key |-> m.key, distance |-> Distance(Shards[n][m.key], q)]
         /\ \A k \in Keys : Shards[n][k] # None =>
              [order |-> n, key |-> k, distance |-> Distance(Shards[n][k], q)] \in MatchesOf(n, q)
<1>1. Shards[n] \in Shard /\ n \in Nat
  BY ShardsAre
<1>2. \A k \in Keys : Shards[n][k] # None => Distance(Shards[n][k], q) \in Int
  <2>1. \A k \in Keys : Shards[n][k] # None => Shards[n][k] \in Int
    BY <1>1, VectorsAreNumbers
  <2>2. \A v \in Int : Distance(v, q) \in Int
    BY VectorsAreNumbers DEF Queries, Distance
  <2> QED
    BY <2>1, <2>2
<1> QED
  BY <1>1, <1>2, KeysAreNumbers DEF MatchesOf, Match

(* The newest copy of a key is the one search() does not skip: it is what  *)
(* get() reads, no other match of the key is kept, and the matches kept    *)
(* are of the keys the index contains.                                     *)
LEMMA LiveMatchesAreRead ==
  ASSUME TypeOK, NEW q \in Queries, NEW m \in LiveMatches(q)
  PROVE  /\ m.key \in Contained
         /\ m.distance = Distance(Get(m.key), q)
<1> DEFINE n == m.order
           k == m.key
<1>1. n \in 1..Len(Shards) /\ m \in MatchesOf(n, q) /\ ~Skipped(m)
  <2>1. PICK i \in 1..Len(Shards) : m \in MatchesOf(i, q)
    BY DEF LiveMatches, AllMatches
  <2>2. i = n
    BY <2>1, MatchesAre
  <2> QED
    BY <2>1, <2>2 DEF LiveMatches
<1>2. k \in Keys /\ Shards[n][k] # None /\ m.distance = Distance(Shards[n][k], q)
  BY <1>1, MatchesAre
<1>3. k \notin removed /\ \A i \in 1..(n - 1) : Shards[i][k] = None
  BY <1>1 DEF Skipped, Shadowed
<1>4. Contains(k) /\ ReadBehind(head, k) = Shards[n][k]
  <2>1. CASE n = 1
    BY <1>2, <1>3, <2>1, ShardsAre DEF Contains, ReadBehind
  <2>2. CASE n # 1
    <3> DEFINE i == Len(sealed) + 2 - n
               Newest(j) == j \in Copies(k) /\ \A l \in Copies(k) : l <= j
    <3>1. /\ Len(sealed) \in Nat /\ n \in 2..(Len(sealed) + 1) /\ i \in 1..Len(sealed)
          /\ Shards[n] = sealed[i] /\ Shards[1] = head
      BY <1>1, <2>2, ShardsAre
    <3>2. head[k] = None
      BY <1>3, <3>1
    <3>3. i \in Copies(k)
      BY <1>2, <3>1 DEF Copies
    <3>4. \A l \in Copies(k) : l <= i
      <4>1. SUFFICES ASSUME NEW l \in Copies(k), l > i PROVE FALSE
        BY <3>1 DEF Copies
      <4>2. l \in 1..Len(sealed) /\ sealed[l][k] # None
        BY DEF Copies
      <4>3. Len(sealed) + 2 - l \in 2..(n - 1) /\ Len(sealed) + 2 - l \in 2..Len(Shards)
            /\ Len(sealed) + 2 - (Len(sealed) + 2 - l) = l
        BY <3>1, <4>1, <4>2, ShardsAre
      <4>4. Shards[Len(sealed) + 2 - l] = sealed[l]
        BY <4>3, ShardsAre
      <4> QED
        BY <1>3, <4>2, <4>3, <4>4
    <3>5. \A j : Newest(j) <=> j = i
      BY <3>1, <3>3, <3>4 DEF Copies
    <3>6. (CHOOSE j \in Copies(k) : \A l \in Copies(k) : l <= j) = i
      BY <3>5
    <3>7. NewestSealed(k) = sealed[i][k]
      BY <3>3, <3>6 DEF NewestSealed
    <3> QED
      BY <1>3, <3>1, <3>2, <3>3, <3>7 DEF Contains, ReadBehind
  <2> QED
    BY <2>1, <2>2
<1> QED
  BY <1>2, <1>3, <1>4 DEF Contained, Get

LEMMA OneLiveMatch ==
  ASSUME TypeOK, NEW q \in Queries
  PROVE  /\ \A m, o \in LiveMatches(q) : m.key = o.key => m = o
         /\ \A k \in Contained : \E m \in LiveMatches(q) : m.key = k
<1>1. ASSUME NEW m \in LiveMatches(q)
      PROVE  m.order \in 1..Len(Shards) /\ m \in MatchesOf(m.order, q) /\ ~Skipped(m)
  <2>1. PICK i \in 1..Len(Shards) : m \in MatchesOf(i, q)
    BY DEF LiveMatches, AllMatches
  <2>2. i = m.order
    BY <2>1, MatchesAre
  <2> QED
    BY <2>1, <2>2 DEF LiveMatches
<1>2. ASSUME NEW m \in LiveMatches(q), NEW o \in LiveMatches(q), m.key = o.key
      PROVE  ~(m.order < o.order)
  <2>1. Shards[m.order][o.key] # None /\ m.order \in 1..Len(Shards) /\ o.order \in 1..Len(Shards)
    BY <1>1, <1>2, MatchesAre
  <2>2. \A n \in 1..(o.order - 1) : Shards[n][o.key] = None
    BY <1>1 DEF Skipped, Shadowed
  <2> QED
    BY <2>1, <2>2, ShardsAre
<1>3. ASSUME NEW m \in LiveMatches(q), NEW o \in LiveMatches(q), m.key = o.key
      PROVE  m = o
  <2>1. m.order \in 1..Len(Shards) /\ o.order \in 1..Len(Shards)
    BY <1>1
  <2>2. m.order = o.order
    BY <1>2, <1>3, <2>1, ShardsAre
  <2> QED
    BY <1>1, <1>3, <2>1, <2>2, MatchesAre
<1>4. ASSUME NEW k \in Contained
      PROVE  \E m \in LiveMatches(q) : m.key = k
  <2>1. k \in Keys /\ k \notin removed /\ (head[k] # None \/ Copies(k) # {})
    BY DEF Contained, Contains
  <2>2. PICK n \in 1..Len(Shards) : Shards[n][k] # None /\ \A i \in 1..(n - 1) : Shards[i][k] = None
    <3>1. CASE head[k] # None
      BY <3>1, ShardsAre
    <3>2. CASE head[k] = None
      <4>1. Copies(k) \subseteq 1..Len(sealed) /\ Len(sealed) \in Nat
        BY ShardsAre DEF Copies
      <4>2. PICK i \in Copies(k) : \A l \in Copies(k) : l <= i
        BY <2>1, <3>2, <4>1, LargestExists
      <4> DEFINE n == Len(sealed) + 2 - i
      <4>3. i \in 1..Len(sealed) /\ sealed[i][k] # None
        BY DEF Copies
      <4>4. n \in 2..Len(Shards) /\ Len(sealed) + 2 - n = i /\ n \in 1..Len(Shards)
        BY <4>1, <4>3, ShardsAre
      <4>5. Shards[n][k] # None
        BY <4>3, <4>4, ShardsAre
      <4>6. ASSUME NEW j \in 1..(n - 1) PROVE Shards[j][k] = None
        <5>1. CASE j = 1
          BY <3>2, <5>1, ShardsAre
        <5>2. CASE j # 1
          <6>1. j \in 2..Len(Shards) /\ Len(sealed) + 2 - j \in 1..Len(sealed)
                /\ Len(sealed) + 2 - j > i
            BY <4>1, <4>4, <5>2, ShardsAre
          <6>2. Len(sealed) + 2 - j \notin Copies(k)
            BY <4>1, <4>2, <4>3, <6>1
          <6>3. Shards[j] = sealed[Len(sealed) + 2 - j]
            BY <6>1, ShardsAre
          <6> QED
            BY <6>1, <6>2, <6>3 DEF Copies
        <5> QED
          BY <5>1, <5>2
      <4> QED
        BY <4>4, <4>5, <4>6
    <3> QED
      BY <3>1, <3>2
  <2> DEFINE m == [order |-> n, key |-> k, distance |-> Distance(Shards[n][k], q)]
  <2>3. m \in AllMatches(q)
    BY <2>1, <2>2, MatchesAre DEF AllMatches
  <2>4. ~Skipped(m)
    BY <2>1, <2>2 DEF Skipped, Shadowed
  <2> QED
    BY <2>3, <2>4 DEF LiveMatches
<1> QED
  BY <1>3, <1>4

(* However it is asked, search() answers with live matches only.           *)
LEMMA SearchKeepsTheLive ==
  ASSUME NEW q, NEW wanted
  PROVE  Search(q, wanted) \subseteq LiveMatches(q)
<1>1. \A S : Nearest(S, wanted) \subseteq S
  BY DEF Nearest
<1>2. {m \in UNION {Nearest(MatchesOf(n, q), wanted) : n \in 1..Len(Shards)} :
         ~Shadowed(m) /\ m.key \notin removed} \subseteq LiveMatches(q)
  BY <1>1 DEF LiveMatches, AllMatches, Skipped
<1>3. ASSUME NEW n \in 1..Len(Shards)
      PROVE  FoundIn(n, q, wanted) \subseteq LiveMatches(q)
  <2>1. \A asked : {m \in Nearest(MatchesOf(n, q), asked) : ~Skipped(m)} \subseteq LiveMatches(q)
    BY DEF Nearest, LiveMatches, AllMatches
  <2> QED
    BY <2>1 DEF FoundIn
<1>4. SearchPastShadows(q, wanted) \subseteq LiveMatches(q)
  BY <1>1, <1>3 DEF SearchPastShadows
<1> QED
  BY <1>1, <1>2, <1>4 DEF Search

LEMMA AnswersAreRead == TypeOK => NoStaleMatch
<1>1. SUFFICES ASSUME TypeOK, NEW q \in Queries, NEW wanted \in 1..Cardinality(Keys)
               PROVE  /\ \A m \in Search(q, wanted) :
                           Contains(m.key) /\ m.distance = Distance(Get(m.key), q)
                      /\ \A m, o \in Search(q, wanted) : m.key = o.key => m = o
  BY DEF NoStaleMatch
<1> QED
  BY <1>1, SearchKeepsTheLive, LiveMatchesAreRead, OneLiveMatch DEF Contained

-------------------------------------------------------------------------------
(* How many the matches are: all of them, as many as the copies in the     *)
(* index; those kept, as many as the keys it contains; those of a shard,   *)
(* as many as it holds.                                                    *)
LEMMA MatchesCounted ==
  ASSUME TypeOK, NEW q \in Queries
  PROVE  /\ IsFiniteSet(AllMatches(q)) /\ AllMatches(q) \subseteq Match
         /\ Cardinality(AllMatches(q)) = IndexSize
<1> DEFINE copies == {c \in (1..Len(Shards)) \X Keys : Shards[c[1]][c[2]] # None}
           place == [m \in AllMatches(q) |-> <<m.order, m.key>>]
<1>1. IsFiniteSet(copies)
  <2>1. IsFiniteSet((1..Len(Shards)) \X Keys)
    <3>1. 1 \in Int /\ Len(Shards) \in Int
      BY ShardsAre
    <3>2. IsFiniteSet(1..Len(Shards))
      BY <3>1, FS_Interval
    <3> QED
      BY <3>2, KeysFinite, FS_Product
  <2> QED
    BY <2>1, FS_Subset
<1>2. \A m \in AllMatches(q) : m.order \in 1..Len(Shards) /\ m \in MatchesOf(m.order, q)
  <2>1. ASSUME NEW i \in 1..Len(Shards), NEW m \in MatchesOf(i, q)
        PROVE  m.order = i
    BY MatchesAre
  <2> QED
    BY <2>1 DEF AllMatches
<1>3. place \in [AllMatches(q) -> copies]
  <2>1. \A m \in AllMatches(q) : m.key \in Keys /\ Shards[m.order][m.key] # None
    BY <1>2, MatchesAre
  <2> QED
    BY <1>2, <2>1
<1>4. IsInjective(place)
  <2>1. ASSUME NEW m \in AllMatches(q), NEW o \in AllMatches(q), m.order = o.order, m.key = o.key
        PROVE  m = o
    BY <1>2, <2>1, MatchesAre
  <2>2. \A m, o \in AllMatches(q) : place[m] = place[o] => m.order = o.order /\ m.key = o.key
    OBVIOUS
  <2> QED
    BY <2>1, <2>2 DEF IsInjective
<1>5. ASSUME NEW c \in copies
      PROVE  \E m \in AllMatches(q) : place[m] = c
  <2> DEFINE m == [order |-> c[1], key |-> c[2], distance |-> Distance(Shards[c[1]][c[2]], q)]
  <2>1. c[1] \in 1..Len(Shards) /\ c[2] \in Keys /\ Shards[c[1]][c[2]] # None /\ c = <<c[1], c[2]>>
    OBVIOUS
  <2>2. m \in MatchesOf(c[1], q)
    BY <2>1, MatchesAre
  <2>3. m \in AllMatches(q)
    BY <2>1, <2>2 DEF AllMatches
  <2>4. m.order = c[1] /\ m.key = c[2]
    OBVIOUS
  <2> HIDE DEF m
  <2>5. place[m] = <<c[1], c[2]>>
    BY <2>3, <2>4
  <2> QED
    BY <2>1, <2>3, <2>5
<1> HIDE DEF place, copies
<1>6. place \in Injection(AllMatches(q), copies) /\ place \in Surjection(AllMatches(q), copies)
  BY <1>3, <1>4, <1>5 DEF Injection, Surjection
<1>7. IsFiniteSet(AllMatches(q)) /\ Cardinality(AllMatches(q)) = Cardinality(copies)
  BY <1>1, <1>6, FS_Injection
<1>8. AllMatches(q) \subseteq Match
  BY MatchesAre DEF AllMatches
<1> QED
  BY <1>7, <1>8 DEF IndexSize, copies

(* Those of them that have a row, and how many they are.                   *)
RowMatches(query) == {m \in LiveMatches(query) : m.key \in points}

LEMMA RowsCounted ==
  ASSUME TypeOK, points \subseteq Keys, NEW q \in Queries
  PROVE  Cardinality(RowMatches(q)) = Cardinality(LiveKeys) /\ IsFiniteSet(LiveKeys)
<1> DEFINE keyOf == [m \in RowMatches(q) |-> m.key]
<1>1. IsFiniteSet(LiveKeys) /\ LiveKeys = Contained \cap points
  BY KeysFinite, FS_Subset DEF LiveKeys, Contained
<1>2. keyOf \in [RowMatches(q) -> LiveKeys]
  BY <1>1, LiveMatchesAreRead DEF RowMatches
<1>3. keyOf \in Injection(RowMatches(q), LiveKeys)
  <2>1. IsInjective(keyOf)
    BY OneLiveMatch DEF IsInjective, RowMatches
  <2> QED
    BY <1>2, <2>1 DEF Injection
<1>4. keyOf \in Surjection(RowMatches(q), LiveKeys)
  BY <1>1, <1>2, OneLiveMatch DEF Surjection, RowMatches
<1> HIDE DEF keyOf
<1> QED
  BY <1>1, <1>3, <1>4, FS_Injection

LEMMA ShardCounted ==
  ASSUME TypeOK, NEW q \in Queries, NEW n \in 1..Len(Shards)
  PROVE  /\ IsFiniteSet(MatchesOf(n, q)) /\ Cardinality(MatchesOf(n, q)) = Size(Shards[n])
         /\ Size(Shards[n]) \in Nat
<1> DEFINE keyOf == [m \in MatchesOf(n, q) |-> m.key]
           keys == {k \in Keys : Shards[n][k] # None}
<1>1. IsFiniteSet(keys) /\ Size(Shards[n]) = Cardinality(keys) /\ Cardinality(keys) \in Nat
  BY KeysFinite, FS_Subset, FS_CardinalityType
<1>2. keyOf \in [MatchesOf(n, q) -> keys]
  BY MatchesAre
<1>3. keyOf \in Injection(MatchesOf(n, q), keys)
  <2>1. \A m, o \in MatchesOf(n, q) : m.key = o.key => m = o
    BY MatchesAre
  <2>2. IsInjective(keyOf)
    BY <2>1 DEF IsInjective
  <2> QED
    BY <1>2, <2>2 DEF Injection
<1>4. keyOf \in Surjection(MatchesOf(n, q), keys)
  <2>1. \A k \in keys : \E m \in MatchesOf(n, q) : m.key = k
    <3>1. ASSUME NEW k \in keys
          PROVE  \E m \in MatchesOf(n, q) : m.key = k
      <4>1. [order |-> n, key |-> k, distance |-> Distance(Shards[n][k], q)] \in MatchesOf(n, q)
        BY MatchesAre
      <4> QED
        BY <4>1
    <3> QED
      BY <3>1
  <2> QED
    BY <1>2, <2>1 DEF Surjection
<1> HIDE DEF keyOf, keys
<1> QED
  BY <1>1, <1>3, <1>4, FS_Injection

-------------------------------------------------------------------------------
-------------------------------------------------------------------------------
(* What the collection knows of its rows.                                  *)
CountIsBehind ==
  /\ points \subseteq Keys
  /\ count \in Nat
  /\ count <= Cardinality(points)

(* The window Collection.search() asks with is wide enough but for the     *)
(* rows without a vector: what is among the nearest of the matches with a  *)
(* row, as many as the limit less those rows, has fewer matches of any     *)
(* kind before it than the window.  The index holds at least that many     *)
(* copies beyond the count, since the count is at most the rows.           *)
LEMMA WindowIsWideEnough ==
  ASSUME TypeOK, CountIsBehind, NEW q \in Queries, NEW limit \in Nat \ {0},
         NEW few \in Nat, few <= limit - Cardinality(Missing),
         NEW m \in Nearest(RowMatches(q), few)
  PROVE  /\ Reachable(limit) \in Nat \ {0}
         /\ Cardinality(Preceding(AllMatches(q), m)) < Reachable(limit)
<1> DEFINE all == AllMatches(q)
           live == RowMatches(q)
           rest == all \ live
           before == Preceding(all, m)
           liveBefore == Preceding(live, m)
           copies == Cardinality(all)
           found == Cardinality(live)
<1>1. live \subseteq all /\ m \in live /\ Cardinality(liveBefore) < few
  BY DEF RowMatches, LiveMatches, Nearest, Preceding
<1>2. /\ IsFiniteSet(all) /\ IsFiniteSet(live) /\ IsFiniteSet(rest)
      /\ all \subseteq Match
      /\ copies \in Nat /\ found \in Nat /\ found <= copies /\ Cardinality(rest) \in Nat
  BY <1>1, MatchesCounted, FS_Subset, FS_CardinalityType
<1>3. Cardinality(rest) = copies - found
  <2>1. Cardinality(rest) = Cardinality(all) - Cardinality(all \cap live)
    BY <1>2, FS_Difference
  <2>2. all \cap live = live
    BY <1>1
  <2> QED
    BY <2>1, <2>2
<1>4. /\ IsFiniteSet(before) /\ Cardinality(before) \in Nat /\ Cardinality(before) < copies
      /\ IsFiniteSet(liveBefore) /\ Cardinality(liveBefore) \in Nat
  BY <1>1, <1>2, PrecedingCount
<1>5. Cardinality(before) <= Cardinality(liveBefore) + Cardinality(rest)
  <2>1. before \subseteq liveBefore \cup rest
    BY DEF Preceding
  <2>2. /\ IsFiniteSet(liveBefore \cup rest)
        /\ Cardinality(liveBefore \cup rest)
             = Cardinality(liveBefore) + Cardinality(rest) - Cardinality(liveBefore \cap rest)
    BY <1>2, <1>4, FS_Union
  <2>3. Cardinality(liveBefore \cap rest) \in Nat
    BY <1>2, FS_Subset, FS_CardinalityType
  <2>4. Cardinality(before) <= Cardinality(liveBefore \cup rest)
    BY <2>1, <2>2, FS_Subset
  <2> HIDE DEF before, liveBefore, rest, all, live
  <2> QED
    BY <1>2, <1>4, <2>2, <2>3, <2>4
<1>6. /\ IndexSize = copies /\ count \in Nat /\ Cardinality(Missing) \in Nat
      /\ count <= found + Cardinality(Missing)
  <2>1. points \subseteq Keys /\ count \in Nat /\ count <= Cardinality(points)
    BY DEF CountIsBehind
  <2>2. IsFiniteSet(points) /\ IsFiniteSet(Missing) /\ LiveKeys \subseteq points
    BY <2>1, KeysFinite, FS_Subset DEF Missing, LiveKeys
  <2>3. Cardinality(Missing) = Cardinality(points) - Cardinality(points \cap LiveKeys)
    BY <2>2, FS_Difference DEF Missing
  <2>4. points \cap LiveKeys = LiveKeys
    BY <2>2
  <2>5. /\ Cardinality(Missing) \in Nat /\ Cardinality(points) \in Nat
        /\ Cardinality(LiveKeys) = found
    BY <2>1, <2>2, RowsCounted, FS_CardinalityType
  <2>6. IndexSize = copies
    BY MatchesCounted
  <2>7. Cardinality(Missing) = Cardinality(points) - Cardinality(LiveKeys)
    BY <2>3, <2>4
  <2>8. Cardinality(LiveKeys) \in Nat
    BY <1>2, <2>5
  <2> HIDE DEF found, copies
  <2> QED
    BY <2>1, <2>5, <2>6, <2>7, <2>8
<1> HIDE DEF all, live, rest, before, liveBefore, copies, found
<1> DEFINE held == IF count <= copies THEN copies ELSE count
           extra == limit + (held - count)
           least == Min({held, extra})
<1>7. held \in Nat /\ held >= copies /\ held >= count /\ extra \in Nat
  BY <1>2, <1>6 DEF copies
<1>8. Reachable(limit) = Max({1, least})
  <2>1. copies \in Int /\ count \in Int /\ IndexSize = copies
    BY <1>2, <1>6 DEF copies
  <2>2. Max({count, copies}) = held
    BY <2>1, MaxOfTwo
  <2> HIDE DEF held
  <2> QED
    BY <2>1, <2>2 DEF Reachable
<1> HIDE DEF held, extra
<1>9. /\ Reachable(limit) \in Nat \ {0}
      /\ Reachable(limit) >= held \/ Reachable(limit) >= extra
  <2>1. least = IF held <= extra THEN held ELSE extra
    BY <1>7, MinOfTwo
  <2> HIDE DEF least
  <2>2. Reachable(limit) = IF 1 <= least THEN least ELSE 1
    BY <1>7, <1>8, <2>1, MaxOfTwo
  <2> QED
    BY <1>7, <2>1, <2>2
<1>10. Cardinality(before) < extra
  <2>1. extra = limit + (held - count)
    BY DEF extra
  <2>2. Cardinality(before) < few + (copies - found)
    BY <1>1, <1>2, <1>3, <1>4, <1>5 DEF copies, found
  <2> QED
    BY <1>2, <1>4, <1>6, <1>7, <2>1, <2>2 DEF copies, found
<1>11. Cardinality(before) < Reachable(limit)
  BY <1>2, <1>4, <1>7, <1>9, <1>10 DEF copies
<1> QED
  BY <1>9, <1>11 DEF before, all

(* A match with fewer than `wanted' of all the matches before it is in the  *)
(* answer, if it is live: no shard's own answer leaves it out, and neither *)
(* does the merge.                                                         *)
LEMMA NearLiveIsFound ==
  ASSUME TypeOK, NEW q \in Queries, NEW wanted \in Nat \ {0},
         NEW m \in LiveMatches(q), Cardinality(Preceding(AllMatches(q), m)) < wanted
  PROVE  m \in Search(q, wanted)
<1> DEFINE n == m.order
           size == Size(Shards[n])
<1>1. n \in 1..Len(Shards) /\ m \in MatchesOf(n, q) /\ m \in AllMatches(q) /\ ~Skipped(m)
  <2>1. PICK i \in 1..Len(Shards) : m \in MatchesOf(i, q)
    BY DEF LiveMatches, AllMatches
  <2>2. i = n
    BY <2>1, MatchesAre
  <2> QED
    BY <2>1, <2>2 DEF LiveMatches
<1>2. ASSUME NEW S \in SUBSET AllMatches(q)
      PROVE  /\ Cardinality(Preceding(S, m)) \in Nat
             /\ Cardinality(Preceding(S, m)) < wanted
  <2>1. Preceding(S, m) \subseteq Preceding(AllMatches(q), m)
    BY DEF Preceding
  <2>2. /\ IsFiniteSet(Preceding(AllMatches(q), m))
        /\ Cardinality(Preceding(AllMatches(q), m)) \in Nat
    BY <1>1, MatchesCounted, PrecedingCount
  <2>3. IsFiniteSet(Preceding(S, m))
        /\ Cardinality(Preceding(S, m)) <= Cardinality(Preceding(AllMatches(q), m))
    BY <2>1, <2>2, FS_Subset
  <2> QED
    BY <2>2, <2>3, FS_CardinalityType
<1>3. ASSUME NEW S \in SUBSET AllMatches(q), m \in S
      PROVE  m \in Nearest(S, wanted)
  BY <1>2, <1>3 DEF Nearest, Preceding
<1>4. MatchesOf(n, q) \subseteq AllMatches(q) /\ LiveMatches(q) \subseteq AllMatches(q)
  BY <1>1 DEF AllMatches, LiveMatches
<1> DEFINE candidates == UNION {Nearest(MatchesOf(i, q), wanted) : i \in 1..Len(Shards)}
           kept == {o \in candidates : ~Shadowed(o) /\ o.key \notin removed}
<1>5. m \in Nearest(kept, wanted)
  <2>1. candidates \subseteq AllMatches(q)
    BY DEF Nearest, AllMatches
  <2>2. m \in Nearest(MatchesOf(n, q), wanted)
    BY <1>1, <1>3, <1>4
  <2>3. m \in candidates
    BY <1>1, <2>2
  <2> HIDE DEF candidates
  <2>4. m \in kept /\ kept \subseteq AllMatches(q)
    BY <1>1, <2>1, <2>3 DEF Skipped
  <2> QED
    BY <1>3, <2>4
<1>6. m \in FoundIn(n, q, wanted)
  <2> DEFINE Seen(asked) == Nearest(MatchesOf(n, q), asked)
             Found(asked) == {o \in Seen(asked) : ~Skipped(o)}
             Enough(asked) == \/ Found(asked) = Seen(asked)
                              \/ Cardinality(Found(asked)) >= wanted
                              \/ asked >= size
             wide == {a \in Windows(size, wanted) : Enough(a)}
  <2>1. size \in Nat /\ IsFiniteSet(MatchesOf(n, q)) /\ Cardinality(MatchesOf(n, q)) = size
    BY <1>1, ShardCounted
  <2>2. wide \subseteq 0..size /\ size \in wide
        /\ \A a \in wide : a >= wanted \/ a >= size
    <3>1. size >= size
      BY <2>1
    <3> HIDE DEF size
    <3> QED
      BY <2>1, <3>1, WindowsReachTheShard
  <2> HIDE DEF wide, size
  <2>3. Min(wide) \in wide
    BY <2>1, <2>2, LeastExists DEF Min
  <2>4. Cardinality(Preceding(MatchesOf(n, q), m)) < Min(wide)
    <3>1. /\ Cardinality(Preceding(MatchesOf(n, q), m)) \in Nat
          /\ Cardinality(Preceding(MatchesOf(n, q), m)) < wanted
      BY <1>2, <1>4
    <3>2. Cardinality(Preceding(MatchesOf(n, q), m)) < size
      BY <1>1, <2>1, MatchesAre, PrecedingCount
    <3>3. Min(wide) \in 0..size /\ (Min(wide) >= wanted \/ Min(wide) >= size)
      BY <2>2, <2>3
    <3> QED
      BY <2>1, <3>1, <3>2, <3>3
  <2>5. m \in Found(Min(wide))
    BY <1>1, <2>4 DEF Nearest, Preceding
  <2>6. FoundIn(n, q, wanted) = Found(Min(wide))
    BY DEF FoundIn, wide, size
  <2> QED
    BY <2>5, <2>6
<1>7. m \in SearchPastShadows(q, wanted)
  <2> DEFINE found == UNION {FoundIn(i, q, wanted) : i \in 1..Len(Shards)}
  <2>1. \A i \in 1..Len(Shards) : FoundIn(i, q, wanted) \subseteq AllMatches(q)
    BY DEF FoundIn, Nearest, AllMatches
  <2>2. m \in found /\ found \subseteq AllMatches(q)
    BY <1>1, <1>6, <2>1
  <2> HIDE DEF found
  <2>3. m \in Nearest(found, wanted)
    BY <1>3, <2>2
  <2> QED
    BY <2>3 DEF SearchPastShadows, found
<1> QED
  BY <1>5, <1>7 DEF Search

(* So those nearest are in the answer.                                     *)
LEMMA NearestAreAnswered ==
  ASSUME TypeOK, CountIsBehind, NEW q \in Queries, NEW limit \in Nat \ {0},
         NEW few \in Nat, few <= limit - Cardinality(Missing), few <= limit
  PROVE  /\ CollectionSearch(q, limit) \subseteq RowMatches(q)
         /\ Nearest(RowMatches(q), few) \subseteq CollectionSearch(q, limit)
<1> DEFINE found == {m \in Search(q, Reachable(limit)) : m.key \in points}
           top == Nearest(RowMatches(q), few)
<1>1. found \subseteq RowMatches(q)
  BY SearchKeepsTheLive DEF RowMatches
<1>2. top \subseteq found
  <2>1. SUFFICES ASSUME NEW m \in top PROVE m \in found
    OBVIOUS
  <2>2. m \in LiveMatches(q) /\ m.key \in points
    BY DEF Nearest, RowMatches
  <2>3. Reachable(limit) \in Nat \ {0}
        /\ Cardinality(Preceding(AllMatches(q), m)) < Reachable(limit)
    BY WindowIsWideEnough
  <2> QED
    BY <2>2, <2>3, NearLiveIsFound
<1>3. IsFiniteSet(RowMatches(q)) /\ RowMatches(q) \subseteq Match
  BY MatchesCounted, FS_Subset DEF LiveMatches, RowMatches
<1>4. Nearest(found, few) = top
  BY <1>1, <1>2, <1>3, NearestOfPart
<1>5. CollectionSearch(q, limit) = Nearest(found, limit)
  BY DEF CollectionSearch
<1>6. IsFiniteSet(found) /\ found \subseteq Match
  BY <1>1, <1>3, FS_Subset
<1> HIDE DEF found
<1>7. Nearest(found, few) \subseteq Nearest(found, limit)
  <2>1. \A m \in found : Cardinality(Preceding(found, m)) \in Nat
    BY <1>6, PrecedingCount
  <2> QED
    BY <2>1 DEF Nearest, Preceding
<1> QED
  BY <1>1, <1>4, <1>5, <1>7 DEF Nearest

LEMMA AnswersAreExact == TypeOK /\ CountIsBehind => SearchIsExact
<1>1. SUFFICES ASSUME TypeOK, CountIsBehind, NEW q \in Queries, NEW limit \in 1..Cardinality(Keys)
               PROVE  LET answer == CollectionSearch(q, limit)
                          keys == {m.key : m \in answer}
                          AsNear(k) == {m \in answer : m.distance <= Distance(Get(k), q)}
                      IN /\ keys \subseteq LiveKeys
                         /\ Cardinality(answer) <= limit
                         /\ \A k \in LiveKeys \ keys :
                              Cardinality(AsNear(k)) >= limit - Cardinality(Missing)
  BY DEF SearchIsExact
<1> DEFINE live == RowMatches(q)
           answer == CollectionSearch(q, limit)
           gone == Cardinality(Missing)
           few == IF gone < limit THEN limit - gone ELSE 0
           top == Nearest(live, few)
<1>2. /\ limit \in Nat \ {0} /\ points \subseteq Keys
      /\ IsFiniteSet(Missing) /\ gone \in Nat
  <2>1. points \subseteq Keys /\ Missing \subseteq points
    BY <1>1 DEF Missing, CountIsBehind
  <2>2. IsFiniteSet(Missing) /\ IsFiniteSet(Keys)
    BY <2>1, KeysFinite, FS_Subset
  <2>3. gone \in Nat /\ Cardinality(Keys) \in Nat
    BY <2>2, FS_CardinalityType
  <2> QED
    BY <2>1, <2>2, <2>3
<1>3. few \in Nat /\ few <= limit
  BY <1>2
<1>4. answer \subseteq live /\ top \subseteq answer
  <2>1. CASE gone <= limit
    <3>1. few <= limit - gone
      BY <1>2, <2>1
    <3> HIDE DEF few
    <3> QED
      BY <1>1, <1>2, <1>3, <3>1, NearestAreAnswered
  <2>2. CASE ~(gone <= limit)
    <3>1. top = {}
      <4>1. few = 0
        BY <1>2, <2>2
      <4>2. \A m \in live : Cardinality(Preceding(live, m)) \in Nat
        BY <1>1, MatchesCounted, FS_Subset, PrecedingCount DEF RowMatches, LiveMatches
      <4> QED
        BY <4>1, <4>2 DEF Nearest, Preceding
    <3>2. answer \subseteq live
      BY SearchKeepsTheLive DEF CollectionSearch, Nearest, RowMatches
    <3> QED
      BY <3>1, <3>2
  <2> QED
    BY <1>2, <2>1, <2>2
<1>5. IsFiniteSet(live) /\ live \subseteq Match /\ IsFiniteSet(answer)
  BY <1>1, <1>4, MatchesCounted, FS_Subset DEF LiveMatches, RowMatches
<1>6. Cardinality(answer) <= limit
  <2> DEFINE found == {m \in Search(q, Reachable(limit)) : m.key \in points}
  <2>1. found \subseteq live /\ answer = Nearest(found, limit)
    BY SearchKeepsTheLive DEF RowMatches, CollectionSearch
  <2>2. found \subseteq Match /\ IsFiniteSet(found) /\ Cardinality(found) \in Nat
    BY <1>5, <2>1, FS_Subset, FS_CardinalityType
  <2> HIDE DEF found, answer, live
  <2>3. Cardinality(answer) = IF Cardinality(found) < limit THEN Cardinality(found) ELSE limit
    BY <1>2, <2>1, <2>2, NearestCount
  <2> QED
    BY <1>2, <2>2, <2>3
<1>7. {m.key : m \in answer} \subseteq LiveKeys
  BY <1>1, <1>4, LiveMatchesAreRead DEF RowMatches, LiveKeys, Contained
<1>8. ASSUME NEW k \in LiveKeys \ {m.key : m \in answer}
      PROVE  Cardinality({m \in answer : m.distance <= Distance(Get(k), q)}) >= limit - gone
  <2> DEFINE near == {m \in answer : m.distance <= Distance(Get(k), q)}
  <2>1. k \in Contained /\ k \in points
    BY <1>2 DEF LiveKeys, Contained
  <2>2. PICK o \in live : o.key = k
    BY <1>1, <2>1, OneLiveMatch DEF RowMatches
  <2>3. o \notin top /\ o.distance = Distance(Get(k), q)
    BY <1>1, <1>4, <2>2, LiveMatchesAreRead DEF RowMatches
  <2>4. ASSUME NEW m \in top PROVE m \in near
    <3>1. m \in live /\ m \in answer
      BY <1>4
    <3> HIDE DEF live, few
    <3>2. Before(m, o)
      BY <1>3, <1>5, <2>2, <2>3, <2>4, NearestComeFirst
    <3>3. m.distance \in Int /\ o.distance \in Int
      BY <1>5, <2>2, <3>1 DEF Match
    <3> QED
      BY <2>3, <3>1, <3>2, <3>3 DEF Before
  <2>5. Cardinality(top) = few
    <3>1. ~(Cardinality(Preceding(live, o)) < few)
      BY <2>2, <2>3 DEF Nearest, Preceding
    <3>2. /\ Cardinality(Preceding(live, o)) \in Nat /\ Cardinality(live) \in Nat
          /\ Cardinality(Preceding(live, o)) < Cardinality(live)
      BY <1>5, <2>2, PrecedingCount
    <3> HIDE DEF live, few
    <3>3. Cardinality(top) = IF Cardinality(live) < few THEN Cardinality(live) ELSE few
      BY <1>3, <1>5, NearestCount
    <3> QED
      BY <1>3, <3>1, <3>2, <3>3
  <2>6. IsFiniteSet(near) /\ Cardinality(near) \in Nat
    BY <1>5, FS_Subset, FS_CardinalityType
  <2> HIDE DEF top, near
  <2>7. top \subseteq near
    BY <2>4
  <2>8. Cardinality(top) <= Cardinality(near)
    BY <2>6, <2>7, FS_Subset
  <2>9. few >= limit - gone
    BY <1>2
  <2> HIDE DEF few, gone
  <2>10. Cardinality(near) >= limit - gone
    BY <1>2, <1>3, <2>5, <2>6, <2>8, <2>9
  <2> QED
    BY <2>10 DEF near, gone
<1> QED
  BY <1>6, <1>7, <1>8

(* Whatever count search() is asked for, it answers with keys the index    *)
(* contains, each once and at the distance of the vector it holds now,     *)
(* never with a removed key or the stale copy of one that was re-added.    *)
THEOREM AnswersNeverStale == Spec => []NoStaleMatch
  BY AnswersAreRead, TypeCorrect, PTL

-------------------------------------------------------------------------------
(* The collection over the index does to it only what the index allows.    *)
THEOREM CollectionUsesTheIndex == (SSpec => HSpec) /\ (HSpec => Spec)
<1>1. SInit => HInit
  BY DEF SInit
<1>2. [SNext]_svars => [HNext]_hvars
  <2>1. SNext => HNext \/ UNCHANGED hvars
    BY DEF SNext, HNext, AddPoints, RefusedAdd, AddPointsChunk, DeletePoint, SReopen
  <2>2. UNCHANGED svars => UNCHANGED hvars
    BY DEF svars, hvars
  <2> QED
    BY <2>1, <2>2
<1>3. HInit => Init
  BY DEF HInit
<1>4. [HNext]_hvars => [Next]_vars
  <2>1. HNext => Next
    BY DEF HNext, Next, HBeginAdd, HSeal, HAddChunk, HRemove, HSave, HReopen
  <2>2. UNCHANGED hvars => UNCHANGED vars
    BY DEF hvars, vars
  <2> QED
    BY <2>1, <2>2
<1> QED
  BY <1>1, <1>2, <1>3, <1>4, PTL DEF SSpec, HSpec, Spec

(* The collection's count is never more than its rows: what it has not     *)
(* counted yet only widens the window.                                     *)
LEMMA CountStaysBehind == SSpec => []CountIsBehind
<1>1. SInit => CountIsBehind
  BY FS_EmptySet DEF SInit, CountIsBehind
<1>2. CountIsBehind /\ [SNext]_svars => CountIsBehind'
  <2> SUFFICES ASSUME CountIsBehind, [SNext]_svars PROVE CountIsBehind'
    OBVIOUS
  <2>1. \A S \in SUBSET Keys : IsFiniteSet(S) /\ Cardinality(S) \in Nat
    BY KeysFinite, FS_Subset, FS_CardinalityType
  <2>2. points \in SUBSET Keys /\ count \in Nat /\ count <= Cardinality(points)
    BY DEF CountIsBehind
  <2>3. ASSUME points' \in SUBSET Keys, count' = Cardinality(points')
        PROVE  CountIsBehind'
    <3>1. Cardinality(points') \in Nat
      BY <2>1, <2>3
    <3> QED
      BY <2>3, <3>1 DEF CountIsBehind
  <2>4. ASSUME NEW batch \in Shard, points' = points \cup Held(batch), count' = count
        PROVE  CountIsBehind'
    <3>1. points' \in SUBSET Keys /\ points \subseteq points'
      BY <2>2, <2>4
    <3>2. Cardinality(points) <= Cardinality(points') /\ Cardinality(points') \in Nat
          /\ Cardinality(points) \in Nat
      BY <2>1, <2>2, <3>1, FS_Subset
    <3> QED
      BY <2>2, <2>4, <3>1, <3>2 DEF CountIsBehind
  <2>5. ASSUME points' = points, count' = count PROVE CountIsBehind'
    BY <2>5 DEF CountIsBehind
  <2>6. ASSUME NEW batch \in Shard, AddPoints(batch) \/ RefusedAdd(batch) PROVE CountIsBehind'
    BY <2>4, <2>6 DEF AddPoints, RefusedAdd
  <2>7. ASSUME NEW chunk, AddPointsChunk(chunk) PROVE CountIsBehind'
    BY <2>2, <2>3, <2>5, <2>7 DEF AddPointsChunk
  <2>8. ASSUME NEW k \in Keys, DeletePoint(k) PROVE CountIsBehind'
    BY <2>2, <2>3, <2>8 DEF DeletePoint
  <2>9. CASE SReopen
    BY <2>2, <2>3, <2>9 DEF SReopen
  <2>10. CASE UNCHANGED svars
    BY <2>5, <2>10 DEF svars
  <2> QED
    BY <2>5, <2>6, <2>7, <2>8, <2>9, <2>10 DEF SNext
<1> QED
  BY <1>1, <1>2, PTL DEF SSpec

(* A collection's search over shards misses nothing nearer than what it    *)
(* answers with, for any number of shards, sizes, deleted points and       *)
(* stale copies, but for the rows that have no vector, each of which may   *)
(* cost it one place.                                                      *)
THEOREM SearchAlwaysExact == SSpec => []SearchIsExact
  BY AnswersAreExact, CountStaysBehind, CollectionUsesTheIndex, TypeCorrect, PTL

-------------------------------------------------------------------------------
(* Compaction                                                              *)

HIDE DEF Shard, EmptyShard, Held

-------------------------------------------------------------------------------
(* Indexes                                                                 *)

(* What the reads of ShardedIndex find in a head and sealed shards.        *)
CopiesIn(s, k) == {n \in 1..Len(s) : s[n][k] # None}

NewestIn(s, k) ==
  IF CopiesIn(s, k) = {}
  THEN None
  ELSE s[CHOOSE n \in CopiesIn(s, k) : \A m \in CopiesIn(s, k) : m <= n][k]

ReadIn(front, s, k) == IF front[k] # None THEN front[k] ELSE NewestIn(s, k)

LEMMA OfReads ==
  ASSUME NEW ix, NEW k
  PROVE  /\ Of(ix)!Copies(k) = CopiesIn(ix.sealed, k)
         /\ Of(ix)!Get(k) = IF k \in ix.removed THEN None ELSE ReadIn(ix.head, ix.sealed, k)
         /\ Of(ix)!Contains(k) =
              (k \notin ix.removed /\ (ix.head[k] # None \/ CopiesIn(ix.sealed, k) # {}))
<1>1. Of(ix)!Copies(k) = CopiesIn(ix.sealed, k)
  BY DEF Of!Copies, CopiesIn
<1>2. Of(ix)!NewestSealed(k) = NewestIn(ix.sealed, k)
  BY <1>1 DEF Of!NewestSealed, NewestIn
<1>3. Of(ix)!ReadBehind(ix.head, k) = ReadIn(ix.head, ix.sealed, k)
  BY <1>2 DEF Of!ReadBehind, ReadIn
<1> QED
  BY <1>1, <1>3 DEF Of!Get, Of!Contains

LEMMA NewestInType ==
  ASSUME NEW s \in Seq(Shard), NEW k \in Keys
  PROVE  /\ NewestIn(s, k) \in Vectors \cup {None}
         /\ NewestIn(s, k) = None <=> CopiesIn(s, k) = {}
<1>1. CASE CopiesIn(s, k) = {}
  BY <1>1 DEF NewestIn
<1>2. CASE CopiesIn(s, k) # {}
  <2> DEFINE Largest(n) == \A m \in CopiesIn(s, k) : m <= n
             newest == CHOOSE n \in CopiesIn(s, k) : Largest(n)
  <2>1. CopiesIn(s, k) \subseteq 1..Len(s) /\ Len(s) \in Nat
    BY DEF CopiesIn
  <2>2. newest \in CopiesIn(s, k)
    BY <1>2, <2>1, LargestExists
  <2>3. NewestIn(s, k) = s[newest][k]
    BY <1>2 DEF NewestIn
  <2> HIDE DEF newest
  <2>4. newest \in 1..Len(s) /\ s[newest][k] # None
    BY <2>2 DEF CopiesIn
  <2>5. s[newest] \in Shard
    BY <2>4
  <2> QED
    BY <1>2, <2>3, <2>4, <2>5 DEF Shard
<1> QED
  BY <1>1, <1>2

(* One more sealed shard is read before the others.                        *)
LEMMA NewestInAppend ==
  ASSUME NEW s \in Seq(Shard), NEW h \in Shard, NEW k \in Keys
  PROVE  /\ CopiesIn(Append(s, h), k)
              = CopiesIn(s, k) \cup (IF h[k] # None THEN {Len(s) + 1} ELSE {})
         /\ NewestIn(Append(s, h), k) = ReadIn(h, s, k)
<1> DEFINE t == Append(s, h)
           last == Len(s) + 1
<1>1. /\ Len(s) \in Nat /\ Len(t) = last /\ t[last] = h
      /\ \A n \in 1..Len(s) : t[n] = s[n]
  OBVIOUS
<1> HIDE DEF t
<1>2. CopiesIn(t, k) = CopiesIn(s, k) \cup (IF h[k] # None THEN {last} ELSE {})
  <2>1. ASSUME NEW n \in 1..last
        PROVE  n \in CopiesIn(t, k) <=> n \in CopiesIn(s, k) \/ (n = last /\ h[k] # None)
    <3>1. CASE n = last
      BY <1>1, <3>1 DEF CopiesIn
    <3>2. CASE n # last
      BY <1>1, <3>2 DEF CopiesIn
    <3> QED
      BY <3>1, <3>2
  <2>2. CopiesIn(t, k) \subseteq 1..last /\ CopiesIn(s, k) \subseteq 1..last /\ last \in 1..last
    BY <1>1 DEF CopiesIn
  <2> QED
    BY <2>1, <2>2
<1>3. NewestIn(t, k) = ReadIn(h, s, k)
  <2>1. CASE h[k] # None
    <3>1. last \in CopiesIn(t, k) /\ \A m \in CopiesIn(t, k) : m \in 1..last
      BY <1>1, <1>2, <2>1 DEF CopiesIn
    <3>2. (CHOOSE n \in CopiesIn(t, k) : \A m \in CopiesIn(t, k) : m <= n) = last
      <4> DEFINE Largest(n) == n \in CopiesIn(t, k) /\ \A m \in CopiesIn(t, k) : m <= n
      <4>1. Largest(last)
        BY <1>1, <3>1
      <4>2. ASSUME NEW n, Largest(n)
            PROVE  n = last
        BY <1>1, <3>1, <4>2
      <4> QED
        BY <4>1, <4>2
    <3>3. NewestIn(t, k) = t[last][k]
      BY <3>1, <3>2 DEF NewestIn
    <3> QED
      BY <1>1, <2>1, <3>3 DEF ReadIn
  <2>2. CASE h[k] = None
    <3>1. CopiesIn(t, k) = CopiesIn(s, k)
      BY <1>2, <2>2
    <3>2. CASE CopiesIn(s, k) = {}
      BY <2>2, <3>1, <3>2 DEF NewestIn, ReadIn
    <3>3. CASE CopiesIn(s, k) # {}
      <4> DEFINE newest == CHOOSE n \in CopiesIn(s, k) : \A m \in CopiesIn(s, k) : m <= n
      <4>1. CopiesIn(s, k) \subseteq 1..Len(s)
        BY DEF CopiesIn
      <4>2. newest \in CopiesIn(s, k)
        BY <1>1, <3>3, <4>1, LargestExists
      <4>3. NewestIn(t, k) = t[newest][k] /\ NewestIn(s, k) = s[newest][k]
        BY <3>1, <3>3 DEF NewestIn
      <4> HIDE DEF newest
      <4> QED
        BY <1>1, <2>2, <4>1, <4>2, <4>3 DEF ReadIn
    <3> QED
      BY <3>2, <3>3
  <2> QED
    BY <2>1, <2>2
<1> QED
  BY <1>2, <1>3 DEF t

(* An index: sealed shards as many as their numbers.                       *)
Index ==
  {ix \in [head : BoundedShard, sealed : Seq(BoundedShard), numbers : Seq(Nat),
           removed : SUBSET Keys] :
     Len(ix.numbers) = Len(ix.sealed)}

(* What a shard holds is counted, and the head is full by that count.      *)
LEMMA CountedAlike ==
  /\ \A s : s \in BoundedShard <=> s \in Shard /\ Cardinality(Held(s)) <= ShardSize
  /\ \A ix : Full(ix) <=> Cardinality(Held(ix.head)) >= ShardSize
  BY DEF BoundedShard, Full

LEMMA KeysAreFew ==
  /\ IsFiniteSet(Keys) /\ Keys \subseteq Nat
  /\ \A s : IsFiniteSet(Held(s)) /\ Cardinality(Held(s)) \in Nat
  /\ BoundedShard \subseteq Shard
<1>1. MaxKey \in Nat /\ 0 \in Int /\ MaxKey - 1 \in Int
  BY KeysAreRowNumbers, MaxShardsAssumption
<1>2. IsFiniteSet(Keys) /\ Keys \subseteq Nat
  BY <1>1, FS_Interval, KeysAreRowNumbers
<1>3. \A s : IsFiniteSet(Held(s)) /\ Cardinality(Held(s)) \in Nat
  BY <1>2, FS_Subset, FS_CardinalityType DEF Held
<1> QED
  BY <1>2, <1>3, CountedAlike

LEMMA EmptyIsBounded ==
  EmptyShard \in BoundedShard /\ \A k \in Keys : EmptyShard[k] = None
<1>1. Held(EmptyShard) = {}
  BY DEF Held, EmptyShard
<1>2. Cardinality(Held(EmptyShard)) = 0
  BY <1>1, FS_EmptySet
<1>3. EmptyShard \in Shard
  BY DEF EmptyShard, Shard
<1>4. \A k \in Keys : EmptyShard[k] = None
  BY DEF EmptyShard
<1> QED
  BY <1>2, <1>3, <1>4, ShardSizeAssumption, CountedAlike

LEMMA RemovedIs ==
  ASSUME NEW ix \in Index, NEW S \in SUBSET Keys
  PROVE  LET r == Removed(ix, S) IN
         /\ r \in Index
         /\ r.head = [k \in Keys |-> IF k \in S THEN None ELSE ix.head[k]]
         /\ r.sealed = ix.sealed /\ r.numbers = ix.numbers
         /\ r.removed = ix.removed \cup {k \in S : CopiesIn(ix.sealed, k) # {}}
<1> DEFINE r == Removed(ix, S)
           bare == [k \in Keys |-> IF k \in S THEN None ELSE ix.head[k]]
           hidden == ix.removed \cup {k \in S : CopiesIn(ix.sealed, k) # {}}
<1>1. /\ ix = [head |-> ix.head, sealed |-> ix.sealed, numbers |-> ix.numbers,
              removed |-> ix.removed]
      /\ ix.head \in BoundedShard /\ ix.sealed \in Seq(BoundedShard)
      /\ ix.numbers \in Seq(Nat) /\ ix.removed \in SUBSET Keys
      /\ Len(ix.numbers) = Len(ix.sealed)
  BY DEF Index
<1>2. \A k : Of(ix)!Copies(k) = CopiesIn(ix.sealed, k)
  BY OfReads
<1>3. r = [ix EXCEPT !.head = bare, !.removed = hidden]
  <2>1. {k \in S : Of(ix)!Copies(k) # {}} = {k \in S : CopiesIn(ix.sealed, k) # {}}
    BY <1>2
  <2>2. r = [ix EXCEPT !.head = [k \in Keys |-> IF k \in S THEN None ELSE @[k]],
                       !.removed = @ \cup {k \in S : Of(ix)!Copies(k) # {}}]
    BY DEF Removed
  <2> HIDE DEF r
  <2> QED
    BY <1>1, <2>1, <2>2
<1>4. r = [head |-> bare, sealed |-> ix.sealed, numbers |-> ix.numbers, removed |-> hidden]
  <2> HIDE DEF bare, hidden, r
  <2> QED
    BY <1>1, <1>3
<1>5. bare \in BoundedShard
  <2>1. bare \in Shard
    <3>1. ix.head \in Shard
      BY <1>1, CountedAlike
    <3> QED
      BY <3>1 DEF Shard
  <2>2. Held(bare) \subseteq Held(ix.head)
    BY DEF Held
  <2>3. Cardinality(Held(bare)) <= Cardinality(Held(ix.head))
    BY <2>2, KeysAreFew, FS_Subset
  <2>4. Cardinality(Held(bare)) \in Nat /\ Cardinality(Held(ix.head)) \in Nat
    BY KeysAreFew
  <2>5. Cardinality(Held(ix.head)) <= ShardSize
    BY <1>1, CountedAlike
  <2> HIDE DEF bare
  <2> QED
    BY <2>1, <2>3, <2>4, <2>5, ShardSizeAssumption, CountedAlike
<1>6. hidden \in SUBSET Keys
  BY <1>1
<1> HIDE DEF bare, hidden, r
<1>7. r \in Index
  BY <1>1, <1>4, <1>5, <1>6 DEF Index
<1> QED
  BY <1>4, <1>7 DEF r, bare, hidden

(* What a remove and an add of a key leave.                                *)
LEMMA AddedIs ==
  ASSUME NEW ix \in Index, NEW key \in Keys, NEW v \in Vectors
  PROVE  LET r == Removed(ix, {key})
             full == Full(r)
             after == Added(ix, key, v)
         IN /\ after \in Index
            /\ after.head = [k \in Keys |->
                 IF k = key THEN v ELSE IF full THEN None ELSE ix.head[k]]
            /\ after.sealed = IF full THEN Append(ix.sealed, r.head) ELSE ix.sealed
            /\ after.numbers = IF full THEN Append(ix.numbers, Len(ix.sealed)) ELSE ix.numbers
            /\ after.removed = ix.removed \ {key}
            /\ r.head \in BoundedShard
<1> DEFINE r == Removed(ix, {key})
           full == Full(r)
           open == Sealed(r)
           after == Added(ix, key, v)
           top == IF full THEN EmptyShard ELSE r.head
           below == IF full THEN Append(ix.sealed, r.head) ELSE ix.sealed
           names == IF full THEN Append(ix.numbers, Len(ix.sealed)) ELSE ix.numbers
           filled == [k \in Keys |-> IF k = key THEN v ELSE IF full THEN None ELSE ix.head[k]]
<1>1. /\ r \in Index
      /\ r.head = [k \in Keys |-> IF k \in {key} THEN None ELSE ix.head[k]]
      /\ r.sealed = ix.sealed /\ r.numbers = ix.numbers
      /\ r.removed = ix.removed \cup {k \in {key} : CopiesIn(ix.sealed, k) # {}}
  <2>1. {key} \in SUBSET Keys
    OBVIOUS
  <2> QED
    BY <2>1, RemovedIs
<1>2. /\ r = [head |-> r.head, sealed |-> r.sealed, numbers |-> r.numbers, removed |-> r.removed]
      /\ r.head \in BoundedShard /\ r.sealed \in Seq(BoundedShard)
      /\ r.numbers \in Seq(Nat) /\ r.removed \in SUBSET Keys
      /\ Len(r.numbers) = Len(r.sealed)
  BY <1>1 DEF Index
<1>3. open = [head |-> top, sealed |-> below, numbers |-> names, removed |-> r.removed]
  <2> HIDE DEF r
  <2>1. CASE full
    BY <1>1, <1>2, <2>1 DEF Sealed
  <2>2. CASE ~full
    BY <1>1, <1>2, <2>2 DEF Sealed
  <2> QED
    BY <2>1, <2>2
<1>4. /\ top \in BoundedShard /\ top[key] = None
      /\ Cardinality(Held(top)) < ShardSize
      /\ \A k \in Keys : top[k] = IF k = key \/ full THEN None ELSE ix.head[k]
  <2>1. CASE full
    <3>1. Cardinality(Held(EmptyShard)) = 0
      <4>1. Held(EmptyShard) = {}
        BY DEF Held, EmptyShard
      <4> QED
        BY <4>1, FS_EmptySet
    <3> QED
      BY <2>1, <3>1, EmptyIsBounded, ShardSizeAssumption
  <2>2. CASE ~full
    <3>1. top = r.head
      BY <2>2
    <3>2. Cardinality(Held(r.head)) \in Nat /\ ~(Cardinality(Held(r.head)) >= ShardSize)
      BY <2>2, KeysAreFew, CountedAlike
    <3> HIDE DEF r
    <3> QED
      BY <1>1, <1>2, <2>2, <3>1, <3>2, ShardSizeAssumption
  <2> QED
    BY <2>1, <2>2
<1>5. filled = [top EXCEPT ![key] = v]
  <2>1. top \in Shard
    BY <1>4, KeysAreFew
  <2>2. top = [k \in Keys |-> top[k]]
    BY <2>1 DEF Shard
  <2> HIDE DEF top, full
  <2> QED
    BY <1>4, <2>2
<1>6. after = [head |-> filled, sealed |-> below, numbers |-> names,
              removed |-> r.removed \ {key}]
  <2>1. after = [open EXCEPT !.head[key] = v, !.removed = @ \ {key}]
    BY DEF Added, Put
  <2> HIDE DEF open, top, below, names, filled, after
  <2> QED
    BY <1>3, <1>5, <2>1
<1>7. r.removed \ {key} = ix.removed \ {key}
  BY <1>1
<1>8. filled \in BoundedShard
  <2>1. filled \in Shard
    BY <1>2, <1>4, KeysAreFew, Zenon DEF Shard
  <2>2. Held(filled) \subseteq Held(top) \cup {key}
    BY <1>4 DEF Held
  <2>3. /\ IsFiniteSet(Held(top)) /\ Cardinality(Held(top)) \in Nat
        /\ Cardinality(Held(filled)) \in Nat
    BY KeysAreFew
  <2> HIDE DEF top, filled
  <2>4. /\ IsFiniteSet(Held(top) \cup {key})
        /\ Cardinality(Held(top) \cup {key}) <= Cardinality(Held(top)) + 1
    <3>1. /\ IsFiniteSet(Held(top) \cup {key})
          /\ Cardinality(Held(top) \cup {key}) =
               IF key \in Held(top) THEN Cardinality(Held(top)) ELSE Cardinality(Held(top)) + 1
      BY <2>3, FS_AddElement
    <3> QED
      BY <2>3, <3>1
  <2>5. Cardinality(Held(filled)) <= Cardinality(Held(top) \cup {key})
    BY <2>2, <2>4, FS_Subset
  <2>6. Cardinality(Held(top) \cup {key}) \in Nat
    BY <2>4, FS_CardinalityType
  <2> QED
    BY <1>4, <2>1, <2>3, <2>4, <2>5, <2>6, ShardSizeAssumption, CountedAlike
<1>9. /\ below \in Seq(BoundedShard) /\ names \in Seq(Nat) /\ Len(names) = Len(below)
      /\ r.removed \ {key} \in SUBSET Keys
  <2> HIDE DEF r, full
  <2> QED
    BY <1>1, <1>2
<1> HIDE DEF top, below, names, filled, after, r
<1>10. after \in Index
  BY <1>6, <1>8, <1>9 DEF Index
<1>11. /\ after.head = filled /\ after.sealed = below /\ after.numbers = names
       /\ after.removed = ix.removed \ {key}
  BY <1>6, <1>7
<1> QED
  BY <1>2, <1>10, <1>11 DEF below, names, filled, after, r

(* Under the operations an index is a map: what it contains is what it     *)
(* answers for, a remove takes keys out and an add puts one in.            *)
LEMMA GetIs ==
  ASSUME NEW ix \in Index, NEW k \in Keys
  PROVE  /\ Of(ix)!Get(k) \in Vectors \cup {None}
         /\ Of(ix)!Contains(k) <=> Of(ix)!Get(k) # None
<1>1. ix.head \in Shard /\ ix.sealed \in Seq(Shard)
  <2>1. ix.head \in BoundedShard /\ ix.sealed \in Seq(BoundedShard) /\ BoundedShard \subseteq Shard
    BY KeysAreFew DEF Index
  <2> QED
    BY <2>1
<1>2. ix.head[k] \in Vectors \cup {None}
  BY <1>1 DEF Shard
<1> QED
  BY <1>1, <1>2, OfReads, NewestInType DEF ReadIn

LEMMA RemovedGet ==
  ASSUME NEW ix \in Index, NEW S \in SUBSET Keys, NEW k \in Keys
  PROVE  Of(Removed(ix, S))!Get(k) = IF k \in S THEN None ELSE Of(ix)!Get(k)
<1> DEFINE r == Removed(ix, S)
<1>1. /\ r.head[k] = IF k \in S THEN None ELSE ix.head[k]
      /\ r.sealed = ix.sealed
      /\ k \in r.removed <=> k \in ix.removed \/ (k \in S /\ CopiesIn(ix.sealed, k) # {})
  <2>1. /\ r.head = [j \in Keys |-> IF j \in S THEN None ELSE ix.head[j]]
        /\ r.sealed = ix.sealed
        /\ r.removed = ix.removed \cup {j \in S : CopiesIn(ix.sealed, j) # {}}
    BY RemovedIs
  <2> HIDE DEF r
  <2> QED
    BY <2>1
<1> HIDE DEF r
<1>2. Of(r)!Get(k) = IF k \in S THEN None ELSE Of(ix)!Get(k)
  <2>1. CopiesIn(ix.sealed, k) = {} => NewestIn(ix.sealed, k) = None
    BY DEF NewestIn
  <2> QED
    BY <1>1, <2>1, OfReads DEF ReadIn
<1> QED
  BY <1>2 DEF r

LEMMA AddedGet ==
  ASSUME NEW ix \in Index, NEW key \in Keys, NEW v \in Vectors, NEW k \in Keys
  PROVE  Of(Added(ix, key, v))!Get(k) = IF k = key THEN v ELSE Of(ix)!Get(k)
<1> DEFINE r == Removed(ix, {key})
           full == Full(r)
           after == Added(ix, key, v)
<1>1. /\ after.head[k] = IF k = key THEN v ELSE IF full THEN None ELSE ix.head[k]
      /\ after.sealed = IF full THEN Append(ix.sealed, r.head) ELSE ix.sealed
      /\ after.removed = ix.removed \ {key}
      /\ r.head \in BoundedShard
  <2>1. /\ after.head = [j \in Keys |->
             IF j = key THEN v ELSE IF full THEN None ELSE ix.head[j]]
        /\ after.sealed = IF full THEN Append(ix.sealed, r.head) ELSE ix.sealed
        /\ after.removed = ix.removed \ {key}
        /\ r.head \in BoundedShard
    BY AddedIs
  <2> HIDE DEF after, full, r
  <2> QED
    BY <2>1
<1>2. r.head[k] = IF k = key THEN None ELSE ix.head[k]
  <2>1. {key} \in SUBSET Keys
    OBVIOUS
  <2>2. r.head = [j \in Keys |-> IF j \in {key} THEN None ELSE ix.head[j]]
    BY <2>1, RemovedIs
  <2> HIDE DEF r
  <2> QED
    BY <2>2
<1>3. ix.sealed \in Seq(Shard) /\ r.head \in Shard
  <2>1. ix.sealed \in Seq(BoundedShard) /\ BoundedShard \subseteq Shard
    BY KeysAreFew DEF Index
  <2> QED
    BY <1>1, <2>1
<1>4. NewestIn(Append(ix.sealed, r.head), k) = ReadIn(r.head, ix.sealed, k)
  BY <1>3, NewestInAppend
<1> HIDE DEF after, r, full
<1>5. CASE k = key
  <2>1. after.head[k] = v /\ v # None /\ k \notin after.removed
    BY <1>1, <1>5, NoneIsNoVector
  <2>2. Of(after)!Get(k) = v
    BY <2>1, OfReads DEF ReadIn
  <2> QED
    BY <1>5, <2>2 DEF after
<1>6. CASE k # key
  <2>1. ReadIn(after.head, after.sealed, k) = ReadIn(ix.head, ix.sealed, k)
    BY <1>1, <1>2, <1>4, <1>6 DEF ReadIn
  <2>2. Of(after)!Get(k) = Of(ix)!Get(k)
    BY <1>1, <1>6, <2>1, OfReads
  <2> QED
    BY <1>6, <2>2 DEF after
<1> QED
  BY <1>5, <1>6

(* What the add writes.                                                    *)
LEMMA WrittenIs ==
  ASSUME NEW ix \in Index, NEW key \in Keys, NEW v \in Vectors, NEW f
  PROVE  LET r == Removed(ix, {key}) IN
         Written(f, ix, Added(ix, key, v)) =
           IF Full(r) THEN [f EXCEPT ![Len(ix.sealed)] = r.head] ELSE f
<1> DEFINE r == Removed(ix, {key})
           after == Added(ix, key, v)
<1>1. /\ after.sealed = IF Full(r) THEN Append(ix.sealed, r.head) ELSE ix.sealed
      /\ ix.sealed \in Seq(BoundedShard)
  BY AddedIs DEF Index
<1> HIDE DEF r, after
<1>2. CASE Full(r)
  <2>1. Len(after.sealed) = Len(ix.sealed) + 1 /\ after.sealed[Len(ix.sealed) + 1] = r.head
        /\ Len(ix.sealed) \in Nat
    BY <1>1, <1>2
  <2>2. Len(after.sealed) > Len(ix.sealed)
    BY <2>1
  <2> QED
    BY <1>2, <2>1, <2>2 DEF Written, r, after
<1>3. CASE ~Full(r)
  <2>1. ~(Len(after.sealed) > Len(ix.sealed))
    BY <1>1, <1>3
  <2> QED
    BY <1>3, <2>1 DEF Written, r, after
<1> QED
  BY <1>2, <1>3

-------------------------------------------------------------------------------
(* Files                                                                   *)

(* The files of a name, and what an index opened from them has.            *)
There(f) == {n \in Numbers : f[n] # None}

Below(S, n) == {m \in S : m < n}

(* How many are below numbers them from 0.                                 *)
LEMMA BelowNumbers ==
  ASSUME NEW S, S \subseteq Nat, IsFiniteSet(S)
  PROVE  /\ Cardinality(S) \in Nat
         /\ \A i \in 1..Cardinality(S) : \E n \in S : Cardinality(Below(S, n)) = i - 1
<1> DEFINE size == Cardinality(S)
           rank == [n \in S |-> Cardinality(Below(S, n))]
<1>1. size \in Nat
  BY FS_CardinalityType
<1>2. ASSUME NEW n \in S
      PROVE  Cardinality(Below(S, n)) \in 0..(size - 1)
  <2>1. Below(S, n) \subseteq S /\ n \notin Below(S, n)
    BY DEF Below
  <2>2. IsFiniteSet(Below(S, n)) /\ Cardinality(Below(S, n)) <= size /\ Cardinality(Below(S, n)) # size
    BY <2>1, FS_Subset
  <2> QED
    BY <1>1, <2>2, FS_CardinalityType
<1>3. ASSUME NEW n \in S, NEW m \in S, n < m
      PROVE  Cardinality(Below(S, n)) # Cardinality(Below(S, m))
  <2>1. Below(S, n) \subseteq Below(S, m) /\ n \in Below(S, m) /\ n \notin Below(S, n)
    <3>1. n \in Nat /\ m \in Nat /\ ~(n < n)
      OBVIOUS
    <3>2. ASSUME NEW l \in S, l < n PROVE l < m
      <4>1. l \in Nat
        OBVIOUS
      <4> QED
        BY <1>3, <3>1, <3>2, <4>1
    <3> QED
      BY <1>3, <3>1, <3>2 DEF Below
  <2>2. Below(S, m) \subseteq S
    BY DEF Below
  <2>3. IsFiniteSet(Below(S, m))
    BY <2>2, FS_Subset
  <2> QED
    BY <2>1, <2>3, FS_Subset
<1>4. rank \in Injection(S, 0..(size - 1))
  <2>1. rank \in [S -> 0..(size - 1)]
    BY <1>2
  <2>2. \A n, m \in S : n # m => n < m \/ m < n
    OBVIOUS
  <2>3. IsInjective(rank)
    BY <1>3, <2>2 DEF IsInjective
  <2> QED
    BY <2>1, <2>3 DEF Injection
<1>5. IsFiniteSet(0..(size - 1)) /\ Cardinality(0..(size - 1)) = size
  <2> HIDE DEF size
  <2>1. 0 \in Int /\ size - 1 \in Int
        /\ (IF 0 > size - 1 THEN 0 ELSE size - 1 - 0 + 1) = size
    BY <1>1
  <2> QED
    BY <2>1, FS_Interval
<1>6. rank \in Surjection(S, 0..(size - 1))
  BY <1>4, <1>5, FS_Injection
<1>7. ASSUME NEW i \in 1..size
      PROVE  \E n \in S : Cardinality(Below(S, n)) = i - 1
  <2>1. i - 1 \in 0..(size - 1)
    BY <1>1
  <2>2. PICK n \in S : rank[n] = i - 1
    BY <1>6, <2>1 DEF Surjection
  <2> QED
    BY <2>2
<1> QED
  BY <1>1, <1>7

LEMMA OpenedIs ==
  ASSUME NEW f \in ShardFiles, NEW h \in BoundedShard
  PROVE  LET names == NumbersOf(f)
             ix == Opened(f, h)
         IN /\ There(f) \subseteq Numbers /\ IsFiniteSet(There(f))
            /\ names \in Seq(There(f)) /\ Len(names) = Cardinality(There(f))
            /\ Len(names) <= MaxShards
            /\ \A i \in 1..Len(names) : Cardinality(Below(There(f), names[i])) = i - 1
            /\ ix \in Index /\ ix.head = h /\ ix.removed = {} /\ ix.numbers = names
            /\ Len(ix.sealed) = Len(names)
            /\ \A i \in 1..Len(names) : ix.sealed[i] = f[names[i]]
<1> DEFINE there == There(f)
           size == Cardinality(there)
           names == NumbersOf(f)
           ix == Opened(f, h)
           shards == [n \in DOMAIN names |-> f[names[n]]]
<1>1. MaxShards \in Nat /\ 0 \in Int /\ MaxShards - 1 \in Int
  BY KeysAreRowNumbers, MaxShardsAssumption
<1>2. /\ IsFiniteSet(Numbers) /\ Cardinality(Numbers) <= MaxShards
      /\ Cardinality(Numbers) \in Nat /\ Numbers \subseteq Nat
  <2>1. IsFiniteSet(0..(MaxShards - 1))
        /\ Cardinality(0..(MaxShards - 1)) = IF 0 > MaxShards - 1 THEN 0 ELSE MaxShards - 1 - 0 + 1
    BY <1>1, FS_Interval
  <2>2. Cardinality(0..(MaxShards - 1)) = MaxShards
    BY <1>1, <2>1
  <2> QED
    BY <1>1, <2>1, <2>2 DEF Numbers
<1>3. there \subseteq Numbers /\ IsFiniteSet(there) /\ size <= MaxShards /\ size \in Nat
      /\ there \subseteq Nat
  <2>1. there \subseteq Numbers
    BY DEF There
  <2>2. IsFiniteSet(there) /\ size <= Cardinality(Numbers) /\ size \in Nat
    BY <1>2, <2>1, FS_Subset, FS_CardinalityType
  <2> HIDE DEF there
  <2> QED
    BY <1>1, <1>2, <2>1, <2>2
<1>4. names = [i \in 1..size |-> CHOOSE n \in there : Cardinality(Below(there, n)) = i - 1]
  <2>1. \A s : Cardinality(s) = Cardinality(s)
    BY DEF Cardinality, Cardinality
  <2>2. names = [i \in 1..Cardinality(there) |->
                   CHOOSE n \in there : Cardinality(Below(there, n)) = i - 1]
    BY DEF NumbersOf, There, Below
  <2> HIDE DEF names, there
  <2> QED
    BY <2>1, <2>2
<1> HIDE DEF there, names
<1>5. \A i \in 1..size : \E n \in there : Cardinality(Below(there, n)) = i - 1
  BY <1>3, BelowNumbers
<1>6. \A i \in 1..size : names[i] \in there /\ Cardinality(Below(there, names[i])) = i - 1
  BY <1>4, <1>5
<1>7. names \in Seq(there) /\ Len(names) = size /\ DOMAIN names = 1..size
  BY <1>3, <1>4, <1>6
<1>8. ix = [head |-> h, sealed |-> shards, numbers |-> names, removed |-> {}]
  BY DEF Opened, names
<1>9. \A i \in 1..size : f[names[i]] \in BoundedShard
  <2>1. \A n \in there : f[n] \in BoundedShard
    BY DEF ShardFiles, there, There
  <2> QED
    BY <1>6, <2>1
<1>10. shards \in Seq(BoundedShard) /\ Len(shards) = size
  BY <1>3, <1>7, <1>9
<1> HIDE DEF shards, ix
<1>11. ix \in Index
  <2>1. names \in Seq(Nat)
    <3>1. \A i \in 1..size : names[i] \in Nat
      BY <1>3, <1>6
    <3> HIDE DEF size
    <3> QED
      BY <1>3, <1>7, <3>1
  <2> QED
    BY <1>7, <1>8, <1>10, <2>1 DEF Index
<1>12. \A i \in 1..size : ix.sealed[i] = f[names[i]]
  BY <1>7, <1>8 DEF shards
<1>13. ix.head = h /\ ix.removed = {} /\ ix.numbers = names /\ ix.sealed = shards
  BY <1>8
<1>14. /\ Len(names) = Cardinality(there) /\ Len(names) <= MaxShards
       /\ \A i \in 1..Len(names) : Cardinality(Below(there, names[i])) = i - 1
       /\ Len(ix.sealed) = Len(names)
       /\ \A i \in 1..Len(names) : ix.sealed[i] = f[names[i]]
  BY <1>3, <1>6, <1>7, <1>10, <1>12, <1>13
<1> QED
  BY <1>3, <1>7, <1>11, <1>13, <1>14 DEF there, names, ix

LEMMA NothingOpened ==
  /\ NoFiles \in ShardFiles /\ There(NoFiles) = {}
  /\ LET ix == Opened(NoFiles, EmptyShard) IN
     /\ ix \in Index /\ ix.head = EmptyShard /\ ix.removed = {}
     /\ ix.sealed = <<>> /\ ix.numbers = <<>>
<1> DEFINE ix == Opened(NoFiles, EmptyShard)
<1>1. NoFiles \in ShardFiles
  BY DEF NoFiles, ShardFiles
<1>2. There(NoFiles) = {}
  BY DEF There, NoFiles
<1>3. Cardinality(There(NoFiles)) = 0
  BY <1>2, FS_EmptySet
<1>4. /\ ix \in Index /\ ix.head = EmptyShard /\ ix.removed = {}
      /\ ix.numbers = NumbersOf(NoFiles)
      /\ NumbersOf(NoFiles) \in Seq(There(NoFiles))
      /\ Len(NumbersOf(NoFiles)) = Cardinality(There(NoFiles))
      /\ Len(ix.sealed) = Len(NumbersOf(NoFiles))
  BY <1>1, EmptyIsBounded, OpenedIs
<1> HIDE DEF ix
<1>5. ix.sealed \in Seq(BoundedShard) /\ ix.numbers \in Seq(There(NoFiles))
  BY <1>4 DEF Index
<1>6. ix.sealed = <<>> /\ ix.numbers = <<>>
  BY <1>3, <1>4, <1>5
<1> QED
  BY <1>1, <1>2, <1>4, <1>6 DEF ix

-------------------------------------------------------------------------------
(* Types                                                                   *)

LEMMA WellFormedIs ==
  \A ix : WellFormed(ix) <=>
            /\ ix \in Index /\ Len(ix.sealed) <= MaxShards
            /\ ix.numbers \in Seq(Numbers)
<1> SUFFICES ASSUME NEW ix
             PROVE  WellFormed(ix) <=>
                      /\ ix \in Index /\ Len(ix.sealed) <= MaxShards
                      /\ ix.numbers \in Seq(Numbers)
  OBVIOUS
<1>1. Numbers \subseteq Nat
  BY DEF Numbers
<1>2. \A s : s \in Seq(Numbers) => s \in Seq(Nat)
  <2> SUFFICES ASSUME NEW T, T \subseteq Nat, NEW s \in Seq(T)
               PROVE  s \in Seq(Nat)
    BY <1>1
  <2>1. \A i \in 1..Len(s) : s[i] \in T
    OBVIOUS
  <2>2. \A i \in 1..Len(s) : s[i] \in Nat
    BY <2>1
  <2>3. Len(s) \in Nat /\ s = [i \in 1..Len(s) |-> s[i]]
    OBVIOUS
  <2> QED
    BY <2>2, <2>3
<1> QED
  BY <1>2 DEF WellFormed, Index

(* With room for one more shard an add keeps within the bounds.            *)
LEMMA AddedFits ==
  ASSUME NEW ix, WellFormed(ix), HasRoom(ix), NEW f \in ShardFiles,
         NEW key \in Keys, NEW v \in Vectors
  PROVE  /\ WellFormed(Added(ix, key, v))
         /\ Written(f, ix, Added(ix, key, v)) \in ShardFiles
<1> DEFINE r == Removed(ix, {key})
           full == Full(r)
           after == Added(ix, key, v)
           n == Len(ix.sealed)
<1>1. /\ ix \in Index /\ ix.numbers \in Seq(Numbers) /\ n < MaxShards
      /\ MaxShards \in Nat /\ ix.sealed \in Seq(BoundedShard) /\ Len(ix.numbers) = n
  BY WellFormedIs, KeysAreRowNumbers, MaxShardsAssumption DEF HasRoom, Index
<1>2. n \in Numbers /\ n + 1 <= MaxShards /\ n \in Nat
  BY <1>1 DEF Numbers
<1>3. /\ after \in Index
      /\ after.sealed = IF full THEN Append(ix.sealed, r.head) ELSE ix.sealed
      /\ after.numbers = IF full THEN Append(ix.numbers, n) ELSE ix.numbers
      /\ r.head \in BoundedShard
  BY <1>1, AddedIs
<1>4. Written(f, ix, after) = IF full THEN [f EXCEPT ![n] = r.head] ELSE f
  BY <1>1, WrittenIs
<1> HIDE DEF r, full, after
<1>5. after.numbers \in Seq(Numbers) /\ Len(after.sealed) <= MaxShards
  BY <1>1, <1>2, <1>3
<1>6. Written(f, ix, after) \in ShardFiles
  BY <1>2, <1>3, <1>4 DEF ShardFiles
<1> QED
  BY <1>3, <1>5, <1>6, WellFormedIs DEF after

(* Its shards are numbered in the order they were sealed.                  *)
InOrder(ix) == \A i \in 1..Len(ix.numbers) : ix.numbers[i] = i - 1

LEMMA AddedInOrder ==
  ASSUME NEW ix \in Index, InOrder(ix), NEW key \in Keys, NEW v \in Vectors
  PROVE  /\ Added(ix, key, v) \in Index /\ InOrder(Added(ix, key, v))
         /\ Len(Added(ix, key, v).sealed) >= Len(ix.sealed)
<1> DEFINE r == Removed(ix, {key})
           full == Full(r)
           after == Added(ix, key, v)
<1>1. /\ after \in Index
      /\ after.sealed = IF full THEN Append(ix.sealed, r.head) ELSE ix.sealed
      /\ after.numbers = IF full THEN Append(ix.numbers, Len(ix.sealed)) ELSE ix.numbers
  BY AddedIs
<1>2. ix.numbers \in Seq(Nat) /\ Len(ix.numbers) = Len(ix.sealed) /\ Len(ix.sealed) \in Nat
      /\ ix.sealed \in Seq(BoundedShard)
  BY DEF Index
<1> HIDE DEF r, full, after
<1>3. InOrder(after)
  <2>1. CASE full
    BY <1>1, <1>2, <2>1 DEF InOrder
  <2>2. CASE ~full
    BY <1>1, <2>2 DEF InOrder
  <2> QED
    BY <2>1, <2>2
<1>4. Len(after.sealed) >= Len(ix.sealed)
  BY <1>1, <1>2
<1> QED
  BY <1>1, <1>3, <1>4 DEF after

(* A shard is never taken for a missing file; files are numbered from 0.   *)
LEMMA ShardsAreFiles ==
  /\ None \notin BoundedShard
  /\ MaxShards \in Nat /\ Numbers = 0..(MaxShards - 1)
<1>1. None \notin Shard
  BY NoneIsNoShard, KeysAreRowNumbers DEF Shard
<1> QED
  BY <1>1, KeysAreFew, KeysAreRowNumbers, MaxShardsAssumption DEF Numbers

(* What an add does to an index, for those that look at its shards.        *)
LEMMA AddedShards ==
  ASSUME NEW ix \in Index, NEW key \in Keys, NEW v \in Vectors, NEW f,
         NEW r, r = Removed(ix, {key}), NEW full, full = Full(r),
         NEW after, after = Added(ix, key, v)
  PROVE  /\ after.head[key] = v
         /\ \A k \in Keys \ {key} :
              /\ after.head[k] = IF full THEN None ELSE ix.head[k]
              /\ r.head[k] = ix.head[k]
         /\ after.sealed = IF full THEN Append(ix.sealed, r.head) ELSE ix.sealed
         /\ after.numbers = IF full THEN Append(ix.numbers, Len(ix.sealed)) ELSE ix.numbers
         /\ after.removed = ix.removed \ {key}
         /\ r.head \in BoundedShard
         /\ Written(f, ix, after) = IF full THEN [f EXCEPT ![Len(ix.sealed)] = r.head] ELSE f
<1>1. /\ after \in Index
      /\ after.head = [k \in Keys |->
           IF k = key THEN v ELSE IF full THEN None ELSE ix.head[k]]
      /\ after.sealed = IF full THEN Append(ix.sealed, r.head) ELSE ix.sealed
      /\ after.numbers = IF full THEN Append(ix.numbers, Len(ix.sealed)) ELSE ix.numbers
      /\ after.removed = ix.removed \ {key}
      /\ r.head \in BoundedShard
  BY AddedIs
<1>2. r.head = [k \in Keys |-> IF k \in {key} THEN None ELSE ix.head[k]]
  <2>1. {key} \in SUBSET Keys
    OBVIOUS
  <2> QED
    BY <2>1, RemovedIs
<1>3. Written(f, ix, after) = IF full THEN [f EXCEPT ![Len(ix.sealed)] = r.head] ELSE f
  BY WrittenIs
<1>4. /\ after.head[key] = v
      /\ \A k \in Keys \ {key} :
           /\ after.head[k] = IF full THEN None ELSE ix.head[k]
           /\ r.head[k] = ix.head[k]
  BY <1>1, <1>2
<1> QED
  BY <1>1, <1>3, <1>4

(* The fresh shards are in order, and none is mapped, or lost, before the  *)
(* files are moved.                                                        *)
Sorted ==
  /\ CompactionTypeOK /\ InOrder(fresh)
  /\ step \notin {"move", "view"} => mapped = 0 /\ struck = {}

(* The fresh shards are in their staging files until these are renamed,    *)
(* none before the old files have gone, and files there are from then on.  *)
Kept ==
  step # "idle" =>
    /\ doomed # {} => mapped = 0 /\ step # "view"
    /\ \A n \in 0..(Len(fresh.sealed) - 1) :
         IF n < mapped \/ (step = "view" /\ n = mapped)
         THEN files[n] # None
         ELSE staged[n] = fresh.sealed[n + 1]

Numbered == Sorted /\ Kept

(* What the recursive function that carries keys over is.                  *)
LEMMA CarriedBelowIs ==
  \A n \in 0..MaxKey : CarriedBelow[n] =
    IF n = 0 THEN WithoutDeleted ELSE Carry(n - 1, CarriedBelow[n - 1])
<1> DEFINE Carries(m, f) ==
             f = [n \in 0..m |-> IF n = 0 THEN WithoutDeleted ELSE Carry(n - 1, f[n - 1])]
           bad == {m \in 0..MaxKey : ~ \E f : Carries(m, f)}
<1>1. MaxKey \in Nat
  BY KeysAreRowNumbers, MaxShardsAssumption
<1>2. ASSUME bad # {} PROVE FALSE
  <2>1. PICK m \in bad : \A l \in bad : m <= l
    <3>1. bad \subseteq 0..MaxKey
      OBVIOUS
    <3> HIDE DEF bad
    <3> QED
      BY <1>1, <1>2, <3>1, LeastExists
  <2>2. CASE m = 0
    <3> DEFINE g == [n \in 0..0 |-> WithoutDeleted]
    <3>1. Carries(0, g)
      OBVIOUS
    <3> HIDE DEF Carries
    <3> QED
      BY <2>1, <2>2, <3>1
  <2>3. CASE m # 0
    <3>1. m - 1 \in 0..MaxKey /\ m - 1 \notin bad /\ m \in Nat
      <4>1. m \in 0..MaxKey
        BY <2>1
      <4>2. m - 1 \in 0..MaxKey /\ m \in Nat /\ ~ (m <= m - 1)
        BY <1>1, <2>3, <4>1
      <4> HIDE DEF bad
      <4> QED
        BY <2>1, <4>2
    <3>2. PICK f : Carries(m - 1, f)
      BY <3>1
    <3> DEFINE g == [n \in 0..m |-> IF n = m THEN Carry(m - 1, f[m - 1]) ELSE f[n]]
    <3>3. ASSUME NEW n \in 0..m
          PROVE  g[n] = IF n = 0 THEN WithoutDeleted ELSE Carry(n - 1, g[n - 1])
      <4>1. CASE n = m
        <5>1. g[n] = Carry(m - 1, f[m - 1]) /\ g[m - 1] = f[m - 1]
          BY <3>1, <4>1, <2>3
        <5> QED
          BY <2>3, <4>1, <5>1
      <4>2. CASE n # m
        <5>1. n \in 0..(m - 1)
          BY <3>1, <4>2
        <5>2. f[n] = IF n = 0 THEN WithoutDeleted ELSE Carry(n - 1, f[n - 1])
          BY <3>2, <5>1
        <5>3. g[n] = f[n] /\ (n # 0 => g[n - 1] = f[n - 1])
          BY <3>1, <4>2, <5>1
        <5> HIDE DEF g
        <5> QED
          BY <5>2, <5>3
      <4> QED
        BY <4>1, <4>2
    <3>4. g = [n \in 0..m |-> g[n]]
      OBVIOUS
    <3>5. Carries(m, g)
      <4> HIDE DEF g
      <4> QED
        BY <3>3, <3>4
    <3> HIDE DEF Carries, g
    <3> QED
      BY <2>1, <3>5
  <2> QED
    BY <2>2, <2>3
<1>3. \E f : Carries(MaxKey, f)
  BY <1>1, <1>2
<1>4. CarriedBelow = [n \in 0..MaxKey |->
        IF n = 0 THEN WithoutDeleted ELSE Carry(n - 1, CarriedBelow[n - 1])]
  BY <1>3 DEF CarriedBelow
<1> QED
  BY <1>4

(* A key that is removed from sealed shards is not in the head.            *)
Apart(ix) == \A k \in ix.removed : ix.head[k] = None

(* A removal takes a key from the head.                                    *)
LEMMA AddedApart ==
  ASSUME NEW ix \in Index, Apart(ix), NEW key \in Keys, NEW v \in Vectors
  PROVE  Apart(Added(ix, key, v))
<1> DEFINE r == Removed(ix, {key})
           full == Full(r)
           after == Added(ix, key, v)
<1>1. r = Removed(ix, {key}) /\ full = Full(r) /\ after = Added(ix, key, v)
  OBVIOUS
<1> HIDE DEF r, full, after
<1>2. /\ after.removed = ix.removed \ {key}
      /\ \A k \in Keys \ {key} : after.head[k] = IF full THEN None ELSE ix.head[k]
  BY <1>1, AddedShards
<1>3. ix.removed \subseteq Keys
  BY DEF Index
<1> QED
  BY <1>1, <1>2, <1>3 DEF Apart

(* What the carrying over makes of the fresh index: still an index, with   *)
(* its shards in order, that answers as it did, but nothing for what was   *)
(* deleted and what the old index answers for what was written.            *)
CarriedUpTo(n, ix) ==
  /\ ix \in Index /\ InOrder(ix) /\ Len(ix.sealed) >= Len(fresh.sealed)
  /\ fresh.removed = {} => Apart(ix)
  /\ \A k \in Keys : Of(ix)!Get(k) =
       IF k < n /\ k \in touched \cap Live /\ IndexGet(k) # None
       THEN IndexGet(k) ELSE Of(WithoutDeleted)!Get(k)

LEMMA CarriedIs ==
  ASSUME Numbered
  PROVE  /\ WithoutDeleted \in Index
         /\ WithoutDeleted.sealed = fresh.sealed
         /\ \A k \in Keys : Of(WithoutDeleted)!Get(k) =
              IF k \in deleted \ Live THEN None ELSE Of(fresh)!Get(k)
         /\ CarriedUpTo(MaxKey, Carried)
         /\ touched = {} => Carried = WithoutDeleted
<1> DEFINE S == {k \in deleted \ Live : Of(fresh)!Contains(k)}
           start == WithoutDeleted
           carried == CarriedBelow
<1>1. /\ fresh \in Index /\ current \in Index /\ InOrder(fresh)
      /\ deleted \in SUBSET Keys /\ touched \in SUBSET Keys
  BY WellFormedIs DEF Numbered, Sorted, CompactionTypeOK
<1>2. S \in SUBSET Keys /\ start = Removed(fresh, S)
  BY <1>1 DEF WithoutDeleted
<1>3. /\ start \in Index /\ start.sealed = fresh.sealed /\ start.numbers = fresh.numbers
      /\ fresh.removed = {} => Apart(start)
  <2> HIDE DEF S
  <2>1. /\ start \in Index /\ start.sealed = fresh.sealed /\ start.numbers = fresh.numbers
        /\ start.head = [k \in Keys |-> IF k \in S THEN None ELSE fresh.head[k]]
        /\ start.removed = fresh.removed \cup {k \in S : CopiesIn(fresh.sealed, k) # {}}
    BY <1>1, <1>2, RemovedIs
  <2> HIDE DEF start
  <2> QED
    BY <1>2, <2>1 DEF Apart
<1>4. ASSUME NEW k \in Keys
      PROVE  Of(start)!Get(k) = IF k \in deleted \ Live THEN None ELSE Of(fresh)!Get(k)
  <2>1. Of(Removed(fresh, S))!Get(k) = IF k \in S THEN None ELSE Of(fresh)!Get(k)
    <3> HIDE DEF S
    <3> QED
      BY <1>1, <1>2, RemovedGet
  <2>2. Of(fresh)!Contains(k) <=> Of(fresh)!Get(k) # None
    BY <1>1, GetIs
  <2> QED
    BY <1>2, <2>1, <2>2
<1> HIDE DEF S
<1>5. MaxKey \in Nat /\ Keys = 0..(MaxKey - 1)
  BY KeysAreRowNumbers, MaxShardsAssumption
<1>6. carried[0] = start /\ \A n \in 1..MaxKey : carried[n] = Carry(n - 1, carried[n - 1])
  BY <1>5, CarriedBelowIs
<1>7. CarriedUpTo(0, start)
  <2>1. InOrder(start) /\ Len(start.sealed) >= Len(fresh.sealed)
    <3>1. Len(fresh.sealed) \in Nat
      BY <1>1 DEF Index
    <3> QED
      BY <1>1, <1>3, <3>1 DEF InOrder
  <2>2. \A k \in Keys : ~(k < 0)
    BY <1>5
  <2> QED
    BY <1>3, <2>1, <2>2 DEF CarriedUpTo, start
<1>8. ASSUME NEW n \in 1..MaxKey, NEW ix, CarriedUpTo(n - 1, ix)
      PROVE  CarriedUpTo(n, Carry(n - 1, ix))
  <2> DEFINE key == n - 1
             carries == key \in touched \cap Live /\ IndexGet(key) # None
             after == Carry(key, ix)
  <2>1. key \in Keys /\ key \in Nat /\ ix \in Index /\ InOrder(ix)
        /\ Len(ix.sealed) >= Len(fresh.sealed) /\ Len(ix.sealed) \in Nat /\ Len(fresh.sealed) \in Nat
    BY <1>1, <1>5, <1>8 DEF CarriedUpTo, Index
  <2>2. after = IF carries THEN Added(ix, key, IndexGet(key)) ELSE ix
    BY DEF Carry
  <2>3. \A k \in Keys : k < n <=> k < key \/ k = key
    BY <1>5, <2>1
  <2>4. CASE carries
    <3>1. IndexGet(key) \in Vectors
      BY <1>1, <2>1, <2>4, GetIs DEF IndexGet
    <3>2. /\ after \in Index /\ InOrder(after) /\ Len(after.sealed) >= Len(ix.sealed)
          /\ \A k \in Keys :
               Of(after)!Get(k) = IF k = key THEN IndexGet(key) ELSE Of(ix)!Get(k)
          /\ fresh.removed = {} => Apart(after)
      BY <1>8, <2>1, <2>2, <2>4, <3>1, AddedInOrder, AddedGet, AddedApart DEF CarriedUpTo
    <3>3. Len(after.sealed) \in Nat
      BY <3>2 DEF Index
    <3> HIDE DEF after
    <3>4. Len(after.sealed) >= Len(fresh.sealed)
      BY <2>1, <3>2, <3>3
    <3>5. \A k \in Keys : Of(after)!Get(k) =
            IF k < n /\ k \in touched \cap Live /\ IndexGet(k) # None
            THEN IndexGet(k) ELSE Of(WithoutDeleted)!Get(k)
      BY <1>8, <2>1, <2>3, <2>4, <3>2 DEF CarriedUpTo
    <3> QED
      BY <3>2, <3>4, <3>5 DEF CarriedUpTo, after
  <2>5. CASE ~carries
    BY <1>8, <2>1, <2>2, <2>3, <2>5 DEF CarriedUpTo
  <2> QED
    BY <2>4, <2>5
<1>9. \A n \in 0..MaxKey : CarriedUpTo(n, carried[n]) /\ (touched = {} => carried[n] = start)
  <2> DEFINE Good(n) == CarriedUpTo(n, carried[n]) /\ (touched = {} => carried[n] = start)
             bad == {n \in 0..MaxKey : ~Good(n)}
  <2>1. SUFFICES ASSUME bad # {} PROVE FALSE
    OBVIOUS
  <2>2. PICK n \in bad : \A l \in bad : n <= l
    <3>1. bad \subseteq 0..MaxKey
      OBVIOUS
    <3> HIDE DEF bad
    <3> QED
      BY <1>5, <2>1, <3>1, LeastExists
  <2>3. n # 0
    BY <1>6, <1>7, <2>2
  <2>4. n \in 1..MaxKey /\ n - 1 \in 0..MaxKey /\ ~(n <= n - 1)
    BY <1>5, <2>2, <2>3
  <2>5. Good(n - 1)
    <3> HIDE DEF Good
    <3> QED
      BY <2>2, <2>4
  <2>6. carried[n] = Carry(n - 1, carried[n - 1])
    BY <1>6, <2>4
  <2>7. CarriedUpTo(n, carried[n])
    BY <1>8, <2>4, <2>5, <2>6
  <2>8. touched = {} => carried[n] = start
    BY <2>5, <2>6 DEF Carry
  <2> QED
    BY <2>2, <2>7, <2>8
<1> QED
  BY <1>3, <1>4, <1>5, <1>9 DEF Carried

(* An index opened where there are no files.                               *)
LEMMA OpenedEmpty ==
  LET ix == Opened(NoFiles, EmptyShard) IN
  /\ WellFormed(ix) /\ InOrder(ix)
  /\ ix.head = EmptyShard /\ ix.sealed = <<>> /\ ix.removed = {}
<1> DEFINE ix == Opened(NoFiles, EmptyShard)
<1>1. /\ ix \in Index /\ ix.head = EmptyShard /\ ix.removed = {}
      /\ ix.sealed = <<>> /\ ix.numbers = <<>>
  BY NothingOpened
<1> HIDE DEF ix
<1>2. <<>> \in Seq(Numbers) /\ Len(ix.sealed) = 0 /\ Len(ix.numbers) = 0 /\ MaxShards \in Nat
  BY <1>1, KeysAreRowNumbers, MaxShardsAssumption
<1>3. WellFormed(ix)
  <2>1. ix.numbers \in Seq(Numbers) /\ Len(ix.sealed) <= MaxShards
    BY <1>1, <1>2
  <2> QED
    BY <1>1, <2>1, WellFormedIs
<1>4. InOrder(ix)
  BY <1>2 DEF InOrder
<1> QED
  BY <1>1, <1>3, <1>4 DEF ix

(* What opens from files is within the bounds.                             *)
LEMMA OpenedFits ==
  ASSUME NEW f \in ShardFiles, NEW h \in BoundedShard
  PROVE  WellFormed(Opened(f, h))
<1> DEFINE ix == Opened(f, h)
           names == NumbersOf(f)
<1>1. /\ There(f) \subseteq Numbers /\ names \in Seq(There(f)) /\ Len(names) <= MaxShards
      /\ ix \in Index /\ ix.numbers = names /\ Len(ix.sealed) = Len(names)
  BY OpenedIs
<1>2. \A T, U : T \subseteq U => \A s \in Seq(T) : s \in Seq(U)
  <2> SUFFICES ASSUME NEW T, NEW U, T \subseteq U, NEW s \in Seq(T)
               PROVE  s \in Seq(U)
    OBVIOUS
  <2>1. /\ \A i \in 1..Len(s) : s[i] \in U
        /\ Len(s) \in Nat /\ s = [i \in 1..Len(s) |-> s[i]]
    OBVIOUS
  <2> QED
    BY <2>1
<1> HIDE DEF ix, names
<1>3. names \in Seq(Numbers)
  BY <1>1, <1>2
<1> QED
  BY <1>1, <1>3, WellFormedIs DEF ix

(* When no rebuild runs its variables have their types.                    *)
LEMMA NoRebuildTypes ==
  ASSUME NoRebuild
  PROVE  /\ WellFormed(fresh') /\ InOrder(fresh')
         /\ step' = "idle" /\ Kept' /\ mapped' \in 0..Len(fresh'.sealed)
         /\ mapped' = 0 /\ struck' = {}
         /\ read' \in Shard /\ left' = {} /\ doomed' = {}
         /\ touched' = {} /\ deleted' = {} /\ promised' = {}
<1>1. EmptyShard \in Shard
  BY EmptyIsBounded, KeysAreFew
<1>2. fresh'.sealed = <<>> /\ Len(<<>>) = 0 /\ 0 \in 0..0
  BY OpenedEmpty DEF NoRebuild
<1> QED
  BY <1>1, <1>2, OpenedEmpty DEF NoRebuild, Kept

LEMMA NumberedInit ==
  ASSUME CInit
  PROVE  Numbered
<1>1. EmptyShard \in BoundedShard /\ EmptyShard \in Shard /\ Live = {}
  BY EmptyIsBounded, KeysAreFew DEF CInit, Live, Held
<1>2. 0 \in 0..MaxKey
  BY KeysAreRowNumbers, MaxShardsAssumption
<1>3. NoFiles \in ShardFiles
  BY NothingOpened
<1>4. /\ WellFormed(current) /\ WellFormed(fresh) /\ InOrder(fresh)
      /\ mapped \in 0..Len(fresh.sealed)
  <2>1. fresh.sealed = <<>> /\ Len(<<>>) = 0 /\ 0 \in 0..0
    BY OpenedEmpty DEF CInit
  <2> QED
    BY <2>1, OpenedEmpty DEF CInit
<1> QED
  BY <1>1, <1>2, <1>3, <1>4 DEF CInit, CompactionTypeOK, Numbered, Sorted, Kept

(* What a row that is given a vector changes.                              *)
LEMMA GiveTypes ==
  ASSUME Numbered, NEW key \in Keys, NEW v \in Vectors, Give(key, v)
  PROVE  /\ given' = [given EXCEPT ![key] = v] /\ given' \in Shard
         /\ Live' = Live \cup {key}
         /\ next' \in 0..MaxKey /\ \A k \in Live' : k < next'
         /\ touched' \in SUBSET Keys /\ touched \subseteq touched'
         /\ step # "idle" => key \in touched'
         /\ promised' \in SUBSET Live' /\ promised' = promised \ {key}
         /\ HasRoom(current)
<1> USE DEF Numbered, Sorted, CompactionTypeOK
<1>1. given' = [given EXCEPT ![key] = v] /\ given' \in Shard
  BY DEF Give, Shard
<1>2. Live' = Live \cup {key}
  BY <1>1, NoneIsNoVector DEF Live, Held, Shard
<1>3. next' \in 0..MaxKey /\ \A k \in Live' : k < next'
  <2>1. MaxKey \in Nat /\ key \in 0..(MaxKey - 1) /\ next \in 0..MaxKey
        /\ \A k \in Live : k \in 0..(MaxKey - 1) /\ k < next
    BY KeysAreRowNumbers, MaxShardsAssumption DEF Live, Held
  <2>2. CASE key = next
    BY <1>2, <2>1, <2>2 DEF Give
  <2>3. CASE key # next
    BY <1>2, <2>1, <2>3 DEF Give
  <2> QED
    BY <2>2, <2>3
<1>4. touched' \in SUBSET Keys /\ touched \subseteq touched' /\ promised' \in SUBSET Live'
      /\ (step # "idle" => key \in touched')
  BY <1>2 DEF Give, Rebuilding
<1> QED
  BY <1>1, <1>2, <1>3, <1>4 DEF Give

(* Each step keeps the types.                                              *)
LEMMA AddTypes ==
  ASSUME Numbered, NEW key \in Keys, NEW v \in Vectors, Add(key, v)
  PROVE  Sorted'
<1> USE DEF Numbered, Sorted, CompactionTypeOK
<1>1. Give(key, v)
  BY DEF Add
<1>2. WellFormed(current') /\ files' \in ShardFiles
  <2>1. WellFormed(Added(current, key, v))
        /\ Written(files, current, Added(current, key, v)) \in ShardFiles
    BY <1>1, GiveTypes, AddedFits
  <2> QED
    BY <2>1 DEF Add
<1>3. UNCHANGED <<fresh, staged, headFile, step, read, left, doomed, mapped, deleted>>
  BY DEF Add, rebuild
<1>4. struck' \in SUBSET Keys /\ (step \notin {"move", "view"} => struck' = {})
  <2>1. \A s : Held(s) \subseteq Keys
    BY DEF Held
  <2> QED
    BY <2>1 DEF Add, Strikes
<1> QED
  BY <1>1, <1>2, <1>3, <1>4, GiveTypes DEF InOrder

LEMMA DeleteTypes ==
  ASSUME Numbered, NEW key \in Keys, Delete(key)
  PROVE  Sorted'
<1> USE DEF Numbered, Sorted, CompactionTypeOK
<1>1. given' = [given EXCEPT ![key] = None] /\ given' \in Shard
  BY DEF Delete, Shard
<1>2. Live' = Live \ {key}
  BY <1>1 DEF Live, Held, Shard
<1>3. deleted' \in SUBSET Keys /\ promised' \in SUBSET Live'
  BY <1>2 DEF Delete
<1>4. UNCHANGED <<next, current, fresh, files, staged, headFile, step, read, left, doomed, mapped,
                  touched, struck>>
  BY DEF Delete, rebuild, disk
<1> QED
  BY <1>1, <1>2, <1>3, <1>4 DEF InOrder

LEMMA StartTypes ==
  ASSUME Numbered, RebuildStart
  PROVE  Sorted'
<1> USE DEF Numbered, Sorted, CompactionTypeOK
<1>1. current \in Index
  BY WellFormedIs
<1>2. read' \in Shard
  <2>1. \A k \in Keys : IndexGet(k) \in Vectors \cup {None}
    BY <1>1, GetIs DEF IndexGet
  <2> QED
    BY <2>1 DEF RebuildStart, Shard
<1>3. left' \in SUBSET Held(read')
  BY DEF RebuildStart
<1>4. staged' = NoFiles /\ fresh' = Opened(NoFiles, EmptyShard)
  BY DEF RebuildStart, Cleared
<1>5. /\ staged' \in ShardFiles /\ WellFormed(fresh') /\ InOrder(fresh')
      /\ fresh'.sealed = <<>> /\ Len(<<>>) = 0 /\ 0 \in 0..0
  BY <1>4, NothingOpened, OpenedEmpty
<1>6. /\ step = "idle" /\ step' = "stage"
      /\ touched' = {} /\ deleted' = {} /\ promised' \in SUBSET Live
  BY DEF RebuildStart, Rebuilding
<1>7. UNCHANGED <<given, next, current, files, headFile, doomed, mapped, struck>>
  BY DEF RebuildStart, rows
<1> QED
  BY <1>2, <1>3, <1>5, <1>6, <1>7 DEF Live, Held, InOrder

LEMMA StageTypes ==
  ASSUME Numbered, NEW key \in Keys, RebuildStage(key)
  PROVE  Sorted'
<1> USE DEF Numbered, Sorted, CompactionTypeOK
<1>1. read[key] \in Vectors
  BY DEF RebuildStage, Shard, Held
<1>2. WellFormed(fresh') /\ staged' \in ShardFiles
  <2>1. WellFormed(Added(fresh, key, read[key]))
        /\ Written(staged, fresh, Added(fresh, key, read[key])) \in ShardFiles
    BY <1>1, AddedFits DEF RebuildStage
  <2> QED
    BY <2>1 DEF RebuildStage
<1>3. InOrder(fresh') /\ fresh' \in Index
  <2>1. fresh \in Index
    BY WellFormedIs
  <2> QED
    BY <1>1, <2>1, AddedInOrder DEF RebuildStage
<1>4. left' \in SUBSET Held(read)
  BY DEF RebuildStage
<1>5. UNCHANGED <<given, next, current, files, headFile, step, read, doomed, mapped, touched, deleted,
                  promised, struck>>
  BY DEF RebuildStage, rows, tracks, aux
<1>6. step = "stage" /\ mapped = 0 /\ mapped \in 0..Len(fresh'.sealed)
  <2>1. Len(fresh'.sealed) \in Nat
    BY <1>3 DEF Index
  <2> QED
    BY <2>1 DEF RebuildStage
<1> QED
  BY <1>2, <1>3, <1>4, <1>5, <1>6 DEF Live, Held, InOrder

LEMMA ListTypes ==
  ASSUME Numbered, RebuildList
  PROVE  Sorted'
<1> USE DEF Numbered, Sorted, CompactionTypeOK
<1>1. current.numbers \in Seq(Numbers)
  BY WellFormedIs
<1>2. doomed' \in SUBSET Numbers
  <2>1. doomed' = {current.numbers[n] : n \in DOMAIN current.numbers}
    BY DEF RebuildList
  <2>2. \A n \in DOMAIN current.numbers : current.numbers[n] \in Numbers
    BY <1>1
  <2> QED
    BY <2>1, <2>2
<1>3. step = "stage" /\ step' = "listed"
      /\ UNCHANGED <<given, next, current, fresh, files, staged, headFile, read, left, mapped,
                     touched, deleted, promised, struck>>
  BY DEF RebuildList, rows, disk, tracks, aux
<1> QED
  BY <1>2, <1>3 DEF Live, Held, InOrder

LEMMA ReleaseTypes ==
  ASSUME Numbered, RebuildRelease
  PROVE  Sorted'
<1> USE DEF Numbered, Sorted, CompactionTypeOK
<1>1. /\ current \in Index
      /\ current.head \in BoundedShard /\ current.removed \in SUBSET Keys
      /\ current = [head |-> current.head, sealed |-> current.sealed,
                    numbers |-> current.numbers, removed |-> current.removed]
  BY WellFormedIs DEF Index
<1>2. current' = [head |-> current.head, sealed |-> <<>>, numbers |-> <<>>,
                  removed |-> current.removed]
  <2>1. current' = [current EXCEPT !.sealed = <<>>, !.numbers = <<>>]
    BY DEF RebuildRelease
  <2> QED
    BY <1>1, <2>1
<1>3. WellFormed(current')
  <2>1. /\ current'.head = current.head /\ current'.sealed = <<>> /\ current'.numbers = <<>>
        /\ current'.removed = current.removed
    BY <1>2
  <2>2. <<>> \in Seq(Numbers) /\ <<>> \in Seq(BoundedShard) /\ <<>> \in Seq(Nat)
        /\ Len(<<>>) = 0 /\ 0 <= MaxShards
    BY KeysAreRowNumbers, MaxShardsAssumption
  <2>3. current' \in Index
    BY <1>1, <1>2, <2>1, <2>2 DEF Index
  <2> QED
    BY <2>1, <2>2, <2>3, WellFormedIs
<1>4. step' = "move"
      /\ UNCHANGED <<given, next, fresh, files, staged, headFile, read, left, doomed, mapped, touched,
                     deleted, promised, struck>>
  BY DEF RebuildRelease, rows, disk, tracks, aux
<1> QED
  BY <1>3, <1>4 DEF Live, Held, InOrder

LEMMA UnlinkTypes ==
  ASSUME Numbered, NEW n \in Numbers, RebuildUnlink(n)
  PROVE  Sorted'
<1> USE DEF Numbered, Sorted, CompactionTypeOK
<1>1. files' \in ShardFiles
  BY DEF RebuildUnlink, ShardFiles
<1>2. doomed' \in SUBSET Numbers
  BY DEF RebuildUnlink
<1>3. step = "move"
      /\ UNCHANGED <<given, next, current, fresh, staged, headFile, step, read, left, mapped, touched,
                     deleted, promised, struck>>
  BY DEF RebuildUnlink, Unlinks, rows, tracks, aux
<1> QED
  BY <1>1, <1>2, <1>3 DEF Live, Held, InOrder

LEMMA RenameTypes ==
  ASSUME Numbered, NEW n \in Numbers, RebuildRename(n)
  PROVE  Sorted'
<1> USE DEF Numbered, Sorted, CompactionTypeOK
<1>1. files' \in ShardFiles /\ staged' \in ShardFiles
  BY DEF RebuildRename, ShardFiles
<1>2. /\ step' = "view" /\ mapped < Len(fresh.sealed)
      /\ UNCHANGED <<given, next, current, fresh, headFile, read, left, doomed, mapped, touched,
                     deleted, promised, struck>>
  BY DEF RebuildRename, Renames, rows, tracks, aux
<1> QED
  BY <1>1, <1>2 DEF Live, Held, InOrder

(* What the mapping makes of the fresh index.                              *)
LEMMA ViewIs ==
  ASSUME Numbered, RebuildView
  PROVE  /\ files[mapped] \in BoundedShard /\ mapped + 1 \in 1..Len(fresh.sealed)
         /\ fresh' = [head |-> fresh.head,
                      sealed |-> [fresh.sealed EXCEPT ![mapped + 1] = files[mapped]],
                      numbers |-> fresh.numbers, removed |-> fresh.removed]
         /\ fresh'.sealed \in Seq(BoundedShard) /\ Len(fresh'.sealed) = Len(fresh.sealed)
         /\ fresh' \in Index /\ WellFormed(fresh') /\ InOrder(fresh')
<1> USE DEF Numbered, Sorted, CompactionTypeOK
<1> DEFINE f == files[mapped]
           s == [fresh.sealed EXCEPT ![mapped + 1] = f]
<1>1. /\ fresh \in Index /\ fresh.sealed \in Seq(BoundedShard) /\ Len(fresh.sealed) \in Nat
      /\ Len(fresh.sealed) <= MaxShards /\ fresh.numbers \in Seq(Numbers)
      /\ fresh.numbers \in Seq(Nat) /\ Len(fresh.numbers) = Len(fresh.sealed)
      /\ fresh.head \in BoundedShard /\ fresh.removed \in SUBSET Keys
      /\ fresh = [head |-> fresh.head, sealed |-> fresh.sealed, numbers |-> fresh.numbers,
                  removed |-> fresh.removed]
  BY WellFormedIs DEF Index
<1>2. step = "view" /\ mapped \in 0..(Len(fresh.sealed) - 1) /\ mapped + 1 \in 1..Len(fresh.sealed)
  BY <1>1 DEF RebuildView
<1>3. f # None
  BY <1>2 DEF Kept
<1>4. f \in BoundedShard
  <2>1. mapped \in Numbers
    BY <1>1, <1>2, ShardsAreFiles
  <2> QED
    BY <1>3, <2>1 DEF ShardFiles
<1> HIDE DEF f
<1>5. s \in Seq(BoundedShard) /\ Len(s) = Len(fresh.sealed)
  BY <1>1, <1>2, <1>4
<1>6. fresh' = [head |-> fresh.head, sealed |-> s, numbers |-> fresh.numbers,
                removed |-> fresh.removed]
  <2>1. fresh' = [fresh EXCEPT !.sealed = [@ EXCEPT ![mapped + 1] = f]]
    BY DEF RebuildView, f
  <2> QED
    BY <1>1, <2>1
<1> HIDE DEF s
<1>7. /\ fresh'.sealed = s /\ fresh'.head = fresh.head /\ fresh'.numbers = fresh.numbers
      /\ fresh'.removed = fresh.removed
  BY <1>6
<1>8. fresh' \in Index
  BY <1>1, <1>5, <1>6, <1>7 DEF Index
<1>9. WellFormed(fresh') /\ InOrder(fresh')
  BY <1>1, <1>5, <1>7, <1>8, WellFormedIs DEF InOrder
<1> QED
  BY <1>2, <1>4, <1>5, <1>6, <1>7, <1>8, <1>9 DEF f, s

LEMMA ViewTypes ==
  ASSUME Numbered, RebuildView
  PROVE  Sorted'
<1> USE DEF Numbered, Sorted, CompactionTypeOK
<1>1. WellFormed(fresh') /\ InOrder(fresh') /\ Len(fresh'.sealed) = Len(fresh.sealed)
      /\ mapped + 1 \in 1..Len(fresh.sealed)
  BY ViewIs
<1>2. mapped' = mapped + 1 /\ mapped' \in 0..Len(fresh'.sealed)
  <2>1. mapped' = mapped + 1
    BY DEF RebuildView
  <2> QED
    BY <1>1, <2>1
<1>3. step' = "move"
      /\ UNCHANGED <<given, next, current, files, staged, headFile, read, left, doomed, touched,
                     deleted, promised, struck>>
  BY DEF RebuildView, rows, disk, tracks, aux
<1> QED
  BY <1>1, <1>2, <1>3 DEF Live, Held, InOrder

(* What an add leaves of the old index when an unlink or a rename takes    *)
(* the name of the shard it seals.                                         *)
LEMMA PutIs ==
  ASSUME NEW ix \in Index, NEW key \in Keys, NEW v \in Vectors,
         NEW s \in Seq(BoundedShard), NEW names \in Seq(Nat), Len(names) = Len(s),
         NEW open, open = [head |-> EmptyShard, sealed |-> s, numbers |-> names,
                           removed |-> Removed(ix, {key}).removed]
  PROVE  LET after == Put(open, key, v) IN
         /\ after \in Index
         /\ after.head = [k \in Keys |-> IF k = key THEN v ELSE None]
         /\ after.sealed = s /\ after.numbers = names
         /\ after.removed = ix.removed \ {key}
<1> DEFINE after == Put(open, key, v)
           filled == [k \in Keys |-> IF k = key THEN v ELSE None]
           hidden == Removed(ix, {key}).removed
<1>1. hidden \ {key} = ix.removed \ {key} /\ ix.removed \in SUBSET Keys
  <2>1. {key} \in SUBSET Keys
    OBVIOUS
  <2>2. hidden = ix.removed \cup {k \in {key} : CopiesIn(ix.sealed, k) # {}}
    BY <2>1, RemovedIs
  <2> HIDE DEF hidden
  <2> QED
    BY <2>2 DEF Index
<1> HIDE DEF hidden
<1>2. filled = [EmptyShard EXCEPT ![key] = v]
  BY DEF EmptyShard
<1>3. filled \in BoundedShard
  <2>1. filled \in Shard
    BY DEF Shard
  <2>2. Held(filled) \subseteq {key}
    BY DEF Held
  <2>3. IsFiniteSet({key}) /\ Cardinality({key}) = 1
    BY FS_Singleton
  <2>4. Cardinality(Held(filled)) <= 1 /\ Cardinality(Held(filled)) \in Nat
    <3> HIDE DEF filled
    <3> QED
      BY <2>2, <2>3, KeysAreFew, FS_Subset
  <2> HIDE DEF filled
  <2> QED
    BY <2>1, <2>4, ShardSizeAssumption, CountedAlike
<1> HIDE DEF filled
<1>4. after = [head |-> filled, sealed |-> s, numbers |-> names, removed |-> ix.removed \ {key}]
  <2>1. open = [head |-> EmptyShard, sealed |-> s, numbers |-> names, removed |-> hidden]
    BY DEF hidden
  <2> DEFINE front == [EmptyShard EXCEPT ![key] = v]
             rest == hidden \ {key}
  <2>2. after = [open EXCEPT !.head = [open.head EXCEPT ![key] = v],
                             !.removed = open.removed \ {key}]
    BY Zenon DEF Put
  <2>3. open.head = EmptyShard /\ open.removed = hidden
    BY <2>1
  <2> HIDE DEF after
  <2>4. after = [open EXCEPT !.head = front, !.removed = rest]
    BY <2>2, <2>3
  <2> HIDE DEF front, rest
  <2>5. after = [head |-> front, sealed |-> s, numbers |-> names, removed |-> rest]
    BY ONLY <2>1, <2>4
  <2> QED
    BY <1>1, <1>2, <2>5 DEF front, rest
<1> HIDE DEF after
<1>5. after \in Index
  BY <1>1, <1>3, <1>4 DEF Index
<1> QED
  BY <1>4, <1>5 DEF after, filled

LEMMA CaughtIs ==
  ASSUME Numbered, NEW key \in Keys, NEW v \in Vectors, AddCaught(key, v)
  PROVE  LET n == Len(current.sealed) IN
         /\ n \in Numbers /\ current' \in Index
         /\ current'.head = [k \in Keys |-> IF k = key THEN v ELSE None]
         /\ current'.removed = current.removed \ {key}
         /\ \/ /\ Unlinks(n) /\ UNCHANGED <<staged, step>> /\ doomed' = doomed \ {n}
               /\ files' = [files EXCEPT ![n] = None]
               /\ current'.sealed = current.sealed /\ current'.numbers = current.numbers
            \/ /\ Renames(n) /\ step' = "view" /\ UNCHANGED doomed
               /\ files' = [files EXCEPT ![n] = staged[n]]
               /\ staged' = [staged EXCEPT ![n] = None]
               /\ staged[n] \in BoundedShard
               /\ current'.sealed = Append(current.sealed, staged[n])
               /\ current'.numbers = Append(current.numbers, n)
<1> DEFINE n == Len(current.sealed)
           r == Removed(current, {key})
           emptied == [r EXCEPT !.head = EmptyShard]
<1>1. current \in Index /\ fresh \in Index /\ n < MaxShards /\ n \in Nat /\ n \in Numbers
      /\ Len(current.numbers) = n /\ current.numbers \in Seq(Nat)
      /\ current.sealed \in Seq(BoundedShard)
  BY WellFormedIs, ShardsAreFiles
     DEF AddCaught, Give, HasRoom, Numbered, Sorted, CompactionTypeOK, Index
<1>2. r.sealed = current.sealed /\ r.numbers = current.numbers /\ r \in Index
  <2>1. {key} \in SUBSET Keys
    OBVIOUS
  <2> QED
    BY <1>1, <2>1, RemovedIs
<1>3. emptied = [head |-> EmptyShard, sealed |-> current.sealed, numbers |-> current.numbers,
                 removed |-> r.removed]
  <2>1. r = [head |-> r.head, sealed |-> r.sealed, numbers |-> r.numbers, removed |-> r.removed]
    BY <1>2 DEF Index
  <2> HIDE DEF r
  <2> QED
    BY <1>2, <2>1
<1>4. CASE Unlinks(n) /\ current' = Put(emptied, key, v)
            /\ files' = [files EXCEPT ![n] = None] /\ doomed' = doomed \ {n}
            /\ UNCHANGED <<staged, step>>
  <2> HIDE DEF emptied
  <2>1. LET after == Put(emptied, key, v) IN
        /\ after \in Index
        /\ after.head = [k \in Keys |-> IF k = key THEN v ELSE None]
        /\ after.sealed = current.sealed /\ after.numbers = current.numbers
        /\ after.removed = current.removed \ {key}
    BY <1>1, <1>3, PutIs
  <2> QED
    BY <1>1, <1>4, <2>1
<1>5. CASE /\ Renames(n) /\ step' = "view" /\ UNCHANGED doomed
           /\ files' = [files EXCEPT ![n] = staged[n]]
           /\ staged' = [staged EXCEPT ![n] = None]
           /\ current' = Put([emptied EXCEPT !.sealed = Append(@, staged[n]),
                                             !.numbers = Append(@, n)], key, v)
  <2> DEFINE s == Append(current.sealed, staged[n])
             names == Append(current.numbers, n)
             open == [emptied EXCEPT !.sealed = Append(@, staged[n]), !.numbers = Append(@, n)]
  <2>1. staged[n] \in BoundedShard
    <3>1. /\ step = "move" /\ n = mapped /\ n < Len(fresh.sealed) /\ n \in 0..(Len(fresh.sealed) - 1)
          /\ Len(fresh.sealed) \in Nat /\ n + 1 \in 1..Len(fresh.sealed)
          /\ fresh.sealed \in Seq(BoundedShard)
      BY <1>1, <1>5 DEF Renames, Index
    <3>2. staged[n] = fresh.sealed[n + 1]
      BY <3>1 DEF Numbered, Kept
    <3> QED
      BY <3>1, <3>2
  <2>2. /\ s \in Seq(BoundedShard) /\ names \in Seq(Nat) /\ Len(names) = Len(s)
    BY <1>1, <2>1
  <2>5. open = [head |-> EmptyShard, sealed |-> s, numbers |-> names, removed |-> r.removed]
    <3>1. open = [emptied EXCEPT !.sealed = Append(emptied.sealed, staged[n]),
                                 !.numbers = Append(emptied.numbers, n)]
      OBVIOUS
    <3> HIDE DEF n, r, emptied, open
    <3>2. emptied.sealed = current.sealed /\ emptied.numbers = current.numbers
      BY <1>3
    <3>3. open = [emptied EXCEPT !.sealed = s, !.numbers = names]
      BY <3>1, <3>2
    <3> HIDE DEF s, names
    <3> QED
      BY <1>3, <3>3
  <2> HIDE DEF n
  <2>3. current' = Put(open, key, v)
    BY <1>5
  <2> HIDE DEF s, names, open, emptied
  <2>4. /\ current' \in Index
        /\ current'.head = [k \in Keys |-> IF k = key THEN v ELSE None]
        /\ current'.sealed = s /\ current'.numbers = names
        /\ current'.removed = current.removed \ {key}
    <3>1. LET after == Put(open, key, v) IN
          /\ after \in Index
          /\ after.head = [k \in Keys |-> IF k = key THEN v ELSE None]
          /\ after.sealed = s /\ after.numbers = names
          /\ after.removed = current.removed \ {key}
      <4>1. current \in Index
        BY <1>1
      <4> HIDE DEF r
      <4>2. open = [head |-> EmptyShard, sealed |-> s, numbers |-> names,
                    removed |-> Removed(current, {key}).removed]
        BY <2>5 DEF r
      <4> QED
        BY <2>2, <4>1, <4>2, PutIs
    <3> QED
      BY <2>3, <3>1
  <2> QED
    BY <1>1, <1>5, <2>1, <2>4 DEF n, s, names
<1> QED
  BY <1>4, <1>5 DEF AddCaught

LEMMA CaughtTypes ==
  ASSUME Numbered, NEW key \in Keys, NEW v \in Vectors, AddCaught(key, v)
  PROVE  Sorted'
<1> USE DEF Numbered, Sorted, CompactionTypeOK
<1> DEFINE n == Len(current.sealed)
<1>1. Give(key, v) /\ HasRoom(current)
  BY DEF AddCaught, Give
<1>2. UNCHANGED <<fresh, headFile, read, left, mapped, deleted, struck>>
  BY DEF AddCaught
<1>3. /\ n < MaxShards /\ n \in Nat /\ n \in Numbers /\ current.numbers \in Seq(Numbers)
      /\ current.sealed \in Seq(BoundedShard) /\ Len(current.numbers) = n /\ MaxShards \in Nat
      /\ fresh \in Index /\ Len(fresh.sealed) \in Nat
  BY <1>1, WellFormedIs, ShardsAreFiles DEF HasRoom, Index
<1>4. /\ WellFormed(current') /\ files' \in ShardFiles /\ staged' \in ShardFiles
      /\ doomed' \in SUBSET Numbers /\ step \in {"move", "view"} /\ step' \in {"move", "view"}
      /\ step' = "view" => mapped < Len(fresh.sealed)
  <2>1. CASE /\ Unlinks(n) /\ UNCHANGED <<staged, step>> /\ doomed' = doomed \ {n}
             /\ files' = [files EXCEPT ![n] = None]
             /\ current'.sealed = current.sealed /\ current'.numbers = current.numbers
    <3>1. WellFormed(current')
      BY <1>3, <2>1, CaughtIs, WellFormedIs
    <3> QED
      BY <2>1, <3>1 DEF Unlinks, ShardFiles
  <2>2. CASE /\ Renames(n) /\ step' = "view" /\ UNCHANGED doomed
             /\ files' = [files EXCEPT ![n] = staged[n]]
             /\ staged' = [staged EXCEPT ![n] = None]
             /\ staged[n] \in BoundedShard
             /\ current'.sealed = Append(current.sealed, staged[n])
             /\ current'.numbers = Append(current.numbers, n)
    <3>1. Append(current.numbers, n) \in Seq(Numbers)
      BY <1>3
    <3>2. Len(Append(current.sealed, staged[n])) = n + 1 /\ n + 1 <= MaxShards
      BY <1>3, <2>2
    <3>3. current' \in Index
      BY CaughtIs
    <3>4. WellFormed(current')
      <4> HIDE DEF n
      <4> QED
        BY <2>2, <3>1, <3>2, <3>3, WellFormedIs
    <3> QED
      BY <2>2, <3>4 DEF Renames, ShardFiles
  <2> QED
    BY <2>1, <2>2, CaughtIs
<1> QED
  BY <1>1, <1>2, <1>4, GiveTypes DEF InOrder

LEMMA SwapTypes ==
  ASSUME Numbered, RebuildSwap
  PROVE  Sorted'
<1> DEFINE ix == Carried
<1>1. /\ ix \in Index /\ InOrder(ix) /\ Len(ix.sealed) <= MaxShards
      /\ Len(ix.sealed) >= Len(fresh.sealed) /\ Len(fresh.sealed) \in Nat
      /\ MaxShards \in Nat
  BY CarriedIs, WellFormedIs, KeysAreRowNumbers, MaxShardsAssumption
     DEF CarriedUpTo, RebuildSwap, Numbered, Sorted, CompactionTypeOK, Index
<1>2. current' = ix /\ headFile' = ix.head /\ NoRebuild
      /\ UNCHANGED <<given, next, staged>>
      /\ files' = [n \in Numbers |-> IF n \in Len(fresh.sealed)..(Len(ix.sealed) - 1)
                                     THEN ix.sealed[n + 1] ELSE files[n]]
  BY DEF RebuildSwap, rows
<1> HIDE DEF ix
<1>3. /\ ix.sealed \in Seq(BoundedShard) /\ ix.numbers \in Seq(Nat)
      /\ Len(ix.numbers) = Len(ix.sealed) /\ Len(ix.sealed) \in Nat
      /\ ix.head \in BoundedShard
  BY <1>1 DEF Index
<1>4. ix.numbers \in Seq(Numbers)
  <2>1. \A i \in 1..Len(ix.numbers) : ix.numbers[i] \in Numbers
    BY <1>1, <1>3 DEF InOrder, Numbers
  <2>2. ix.numbers = [i \in 1..Len(ix.numbers) |-> ix.numbers[i]]
    BY <1>3
  <2> QED
    BY <1>3, <2>1, <2>2
<1>5. files' \in ShardFiles
  <2>1. ASSUME NEW n \in Numbers, n \in Len(fresh.sealed)..(Len(ix.sealed) - 1)
        PROVE  ix.sealed[n + 1] \in BoundedShard
    <3>1. n + 1 \in 1..Len(ix.sealed)
      BY <1>1, <1>3, <2>1
    <3> QED
      BY <1>3, <3>1
  <2>2. \A n \in Numbers : files[n] \in BoundedShard \cup {None}
    BY DEF Numbered, Sorted, CompactionTypeOK, ShardFiles
  <2> QED
    BY <1>2, <2>1, <2>2 DEF ShardFiles
<1>6. WellFormed(current')
  BY <1>1, <1>2, <1>4, WellFormedIs
<1>7. Live' = Live
  BY <1>2 DEF Live
<1> QED
  BY <1>2, <1>3, <1>5, <1>6, <1>7, NoRebuildTypes DEF Numbered, Sorted, CompactionTypeOK, InOrder

LEMMA ReopenTypes ==
  ASSUME Numbered, OpenAgain
  PROVE  Sorted'
<1>1. WellFormed(current')
  BY OpenedFits DEF OpenAgain, Numbered, Sorted, CompactionTypeOK
<1> DEFINE Above(n) == (\A k \in Live : k < n) /\ (n = 0 \/ n - 1 \in Live)
<1>2. MaxKey \in Nat /\ Live \subseteq 0..(MaxKey - 1)
  BY KeysAreRowNumbers, MaxShardsAssumption DEF Live, Held
<1>3. \E n \in 0..MaxKey : Above(n)
  <2>1. CASE Live = {}
    BY <1>2, <2>1
  <2>2. CASE Live # {}
    <3> DEFINE S == {n \in 0..MaxKey : \A k \in Live : k < n}
    <3>1. MaxKey \in S /\ S \subseteq 0..MaxKey
      BY <1>2
    <3> HIDE DEF S
    <3>2. PICK n \in S : \A m \in S : n <= m
      BY <1>2, <3>1, LeastExists
    <3>3. n \in 0..MaxKey /\ \A k \in Live : k < n
      BY <3>2 DEF S
    <3>4. n # 0
      <4>1. PICK k \in Live : TRUE
        BY <2>2
      <4>2. k \in 0..(MaxKey - 1) /\ k < n
        BY <1>2, <3>3, <4>1
      <4> QED
        BY <4>2
    <3>5. n - 1 \in Live
      <4>1. SUFFICES ASSUME n - 1 \notin Live PROVE FALSE
        OBVIOUS
      <4>2. n - 1 \in 0..MaxKey /\ \A k \in Live : k < n - 1
        BY <1>2, <3>3, <3>4, <4>1
      <4>3. n - 1 \in S
        BY <4>2 DEF S
      <4> QED
        BY <1>2, <3>2, <3>3, <4>3
    <3> QED
      BY <3>3, <3>5
  <2> QED
    BY <2>1, <2>2
<1>4. next' = CHOOSE n \in 0..MaxKey : Above(n)
  BY DEF OpenAgain
<1>5. next' \in 0..MaxKey /\ \A k \in Live : k < next'
  BY <1>3, <1>4
<1>6. NoRebuild /\ UNCHANGED <<given, files, staged, headFile>> /\ Live' = Live
  BY DEF OpenAgain, disk, Live
<1> QED
  BY <1>1, <1>5, <1>6, NoRebuildTypes DEF Numbered, Sorted, CompactionTypeOK, InOrder

(* Each step keeps the fresh index's files.                                *)
LEMMA KeptStays ==
  ASSUME Numbered, [CNext]_cvars
  PROVE  Kept'
<1> USE DEF Kept, Numbered
<1> DEFINE size == Len(fresh.sealed)
<1>1. /\ fresh \in Index /\ size \in Nat /\ size <= MaxShards
      /\ fresh.sealed \in Seq(BoundedShard) /\ mapped \in 0..size
      /\ 0..(size - 1) \subseteq Numbers
      /\ files \in ShardFiles /\ staged \in ShardFiles
      /\ step \notin {"move", "view"} => mapped = 0
  <2>1. /\ fresh \in Index /\ size \in Nat /\ size <= MaxShards
        /\ fresh.sealed \in Seq(BoundedShard)
    BY WellFormedIs DEF Sorted, CompactionTypeOK, Index
  <2>2. 0..(size - 1) \subseteq Numbers
    BY <2>1, ShardsAreFiles
  <2> QED
    BY <2>1, <2>2 DEF Sorted, CompactionTypeOK
<1>2. ASSUME NEW key \in Keys, NEW v \in Vectors, Add(key, v)
      PROVE  Kept'
  <2>1. UNCHANGED <<fresh, staged, step, doomed, mapped>>
    BY <1>2 DEF Add, rebuild
  <2>2. ASSUME NEW n \in Numbers, files[n] # None
        PROVE  files'[n] # None
    <3> DEFINE r == Removed(current, {key})
               full == Full(r)
               after == Added(current, key, v)
    <3>1. r = Removed(current, {key}) /\ full = Full(r) /\ after = Added(current, key, v)
          /\ files' = Written(files, current, after) /\ current \in Index
      BY <1>2, WellFormedIs DEF Add, Sorted, CompactionTypeOK
    <3> HIDE DEF r, full, after
    <3>2. /\ r.head \in BoundedShard
          /\ files' = IF full THEN [files EXCEPT ![Len(current.sealed)] = r.head] ELSE files
      BY <3>1, AddedShards
    <3>3. r.head # None
      BY <3>2, ShardsAreFiles
    <3> QED
      BY <1>1, <2>2, <3>2, <3>3 DEF ShardFiles
  <2> QED
    BY <1>1, <2>1, <2>2
<1>3. ASSUME NEW key \in Keys, NEW v \in Vectors, AddCaught(key, v)
      PROVE  Kept'
  <2> DEFINE n == Len(current.sealed)
  <2>1. UNCHANGED <<fresh, mapped>> /\ n \in Numbers
    BY <1>3, CaughtIs DEF AddCaught
  <2>2. CASE Unlinks(n) /\ UNCHANGED <<staged, step>> /\ doomed' = doomed \ {n}
    <3>1. step = "move" /\ step' = "move" /\ mapped = 0 /\ doomed # {}
      BY <2>2 DEF Unlinks
    <3> HIDE DEF n
    <3>2. \A m \in 0..(size - 1) : ~(m < mapped)
      BY <1>1, <3>1
    <3> QED
      BY <2>1, <2>2, <3>1, <3>2
  <2>3. CASE /\ Renames(n) /\ step' = "view" /\ UNCHANGED doomed
             /\ files' = [files EXCEPT ![n] = staged[n]]
             /\ staged' = [staged EXCEPT ![n] = None]
             /\ staged[n] \in BoundedShard
    <3>1. step = "move" /\ doomed = {} /\ n = mapped /\ staged[n] # None
      BY <2>3, ShardsAreFiles DEF Renames
    <3> HIDE DEF n
    <3>2. \A m \in 0..(size - 1) :
            /\ files'[m] = IF m = n THEN staged[n] ELSE files[m]
            /\ m # n => staged'[m] = staged[m]
      BY <1>1, <2>3 DEF ShardFiles
    <3> QED
      BY <1>1, <2>1, <2>3, <3>1, <3>2
  <2> QED
    BY <1>3, <2>2, <2>3, CaughtIs
<1>4. ASSUME NEW key \in Keys, Delete(key)
      PROVE  Kept'
  BY <1>4 DEF Delete, rebuild, disk
<1>5. CASE SaveIndex
  BY <1>5 DEF SaveIndex, rebuild
<1>6. CASE RebuildStart
  <2>1. fresh' = Opened(NoFiles, EmptyShard) /\ step = "idle" /\ step' = "stage"
        /\ UNCHANGED mapped
    BY <1>6 DEF RebuildStart, Cleared, Rebuilding
  <2>2. fresh'.sealed = <<>> /\ Len(<<>>) = 0 /\ 0..(0 - 1) = {}
    BY <2>1, OpenedEmpty
  <2> QED
    BY <1>1, <2>1, <2>2
<1>7. ASSUME NEW key \in Keys, RebuildStage(key)
      PROVE  Kept'
  <2> DEFINE v == read[key]
             r == Removed(fresh, {key})
             full == Full(r)
             after == Added(fresh, key, v)
  <2>1. /\ r = Removed(fresh, {key}) /\ full = Full(r) /\ after = Added(fresh, key, v)
        /\ step = "stage" /\ fresh' = after /\ staged' = Written(staged, fresh, after)
        /\ UNCHANGED <<step, files, doomed, mapped>> /\ mapped = 0
    BY <1>1, <1>7 DEF RebuildStage
  <2>2. v \in Vectors /\ size \in Numbers
    BY <1>1, <1>7, ShardsAreFiles
       DEF RebuildStage, HasRoom, Sorted, CompactionTypeOK, Shard, Held
  <2> HIDE DEF v, r, full, after, size
  <2>3. /\ after.sealed = IF full THEN Append(fresh.sealed, r.head) ELSE fresh.sealed
        /\ r.head \in BoundedShard
        /\ Written(staged, fresh, after) = IF full THEN [staged EXCEPT ![size] = r.head] ELSE staged
    BY <1>1, <2>1, <2>2, AddedShards DEF size
  <2>4. \A n \in 0..(size - 1) : staged[n] = fresh.sealed[n + 1]
    BY <2>1 DEF size
  <2>5. \A n \in 0..(Len(after.sealed) - 1) : staged'[n] = after.sealed[n + 1]
    <3> SUFFICES ASSUME NEW n \in 0..(Len(after.sealed) - 1)
                 PROVE  staged'[n] = after.sealed[n + 1]
      OBVIOUS
    <3>1. CASE full
      <4> DEFINE s == Append(fresh.sealed, r.head)
      <4>1. /\ Len(s) = size + 1 /\ s[size + 1] = r.head
            /\ \A i \in 1..size : s[i] = fresh.sealed[i]
        BY <1>1, <2>3 DEF size
      <4>2. after.sealed = s
        BY <2>3, <3>1
      <4> HIDE DEF s
      <4>3. n \in Nat /\ n < size + 1
        BY <1>1, <4>1, <4>2
      <4>4. CASE n = size
        BY <1>1, <2>1, <2>2, <2>3, <3>1, <4>1, <4>2, <4>4 DEF ShardFiles
      <4>5. CASE n # size
        <5>1. n \in 0..(size - 1) /\ n + 1 \in 1..size
          BY <1>1, <4>3, <4>5
        <5>2. staged'[n] = staged[n]
          BY <1>1, <2>1, <2>2, <2>3, <3>1, <4>5, <5>1 DEF ShardFiles
        <5> QED
          BY <2>4, <4>1, <4>2, <5>1, <5>2
      <4> QED
        BY <4>4, <4>5
    <3>2. CASE ~full
      BY <2>1, <2>3, <2>4, <3>2 DEF size
    <3> QED
      BY <3>1, <3>2
  <2>6. \A n \in Nat : ~(n < 0)
    OBVIOUS
  <2>7. after = fresh' /\ 0..(Len(after.sealed) - 1) \subseteq Nat
    BY <2>1
  <2> QED
    BY <2>1, <2>5, <2>6, <2>7
<1>8. CASE RebuildList
  BY <1>1, <1>8 DEF RebuildList, disk
<1>9. CASE RebuildRelease
  BY <1>1, <1>9 DEF RebuildRelease, disk
<1>10. ASSUME NEW n \in Numbers, RebuildUnlink(n)
       PROVE  Kept'
  <2>1. /\ step = "move" /\ doomed # {} /\ UNCHANGED <<fresh, staged, step, mapped>>
    BY <1>10 DEF RebuildUnlink, Unlinks
  <2>2. \A m \in 0..(size - 1) : ~(m < mapped)
    BY <1>1, <2>1
  <2> QED
    BY <2>1, <2>2
<1>11. ASSUME NEW n \in Numbers, RebuildRename(n)
       PROVE  Kept'
  <2>1. /\ step = "move" /\ doomed = {} /\ n = mapped /\ n \in 0..(size - 1)
        /\ step' = "view" /\ UNCHANGED <<fresh, doomed, mapped>>
        /\ files' = [files EXCEPT ![n] = staged[n]]
        /\ staged' = [staged EXCEPT ![n] = None]
    BY <1>1, <1>11 DEF RebuildRename, Renames
  <2>2. staged[n] # None
    <3>1. n + 1 \in 1..size /\ ~(n < mapped)
      BY <1>1, <2>1
    <3>2. fresh.sealed[n + 1] \in BoundedShard
      BY <1>1, <3>1
    <3> QED
      BY <2>1, <3>1, <3>2, ShardsAreFiles
  <2>3. \A m \in 0..(size - 1) :
          /\ files'[m] = IF m = n THEN staged[n] ELSE files[m]
          /\ m # n => staged'[m] = staged[m]
    BY <1>1, <2>1 DEF ShardFiles
  <2> QED
    BY <1>1, <2>1, <2>2, <2>3
<1>12. CASE RebuildView
  <2>1. /\ step = "view" /\ step' = "move" /\ mapped' = mapped + 1
        /\ UNCHANGED <<files, staged, doomed>>
    BY <1>12 DEF RebuildView, disk
  <2>2. fresh'.sealed = [fresh.sealed EXCEPT ![mapped + 1] = files[mapped]]
        /\ Len(fresh'.sealed) = size
    BY <1>12, ViewIs
  <2> HIDE DEF size
  <2>3. ASSUME NEW n \in 0..(size - 1)
        PROVE  IF n < mapped' THEN files[n] # None ELSE staged[n] = fresh'.sealed[n + 1]
    <3>1. CASE n < mapped \/ n = mapped
      BY <1>1, <2>1, <2>3, <3>1 DEF size
    <3>2. CASE ~(n < mapped \/ n = mapped)
      <4>1. n + 1 \in 1..size /\ n + 1 # mapped + 1 /\ ~(n < mapped')
        BY <1>1, <2>1, <3>2
      <4>2. fresh'.sealed[n + 1] = fresh.sealed[n + 1]
        BY <1>1, <2>2, <4>1 DEF size
      <4> QED
        BY <2>1, <3>2, <4>1, <4>2 DEF size
    <3> QED
      BY <3>1, <3>2
  <2> QED
    BY <2>1, <2>2, <2>3
<1>13. CASE RebuildSwap \/ OpenAgain
  BY <1>13 DEF RebuildSwap, OpenAgain, NoRebuild
<1>14. CASE UNCHANGED cvars
  BY <1>14 DEF cvars, rebuild, disk
<1> QED
  BY <1>2, <1>3, <1>4, <1>5, <1>6, <1>7, <1>8, <1>9, <1>10, <1>11, <1>12, <1>13, <1>14 DEF CNext

LEMMA NumberedStays ==
  ASSUME Numbered, [CNext]_cvars
  PROVE  Numbered'
<1>1. CASE SaveIndex
  <2>1. Sorted'
    BY <1>1, WellFormedIs
       DEF SaveIndex, Numbered, Sorted, CompactionTypeOK, rows, rebuild, tracks, aux, Live, Held,
           InOrder, Index
  <2> QED
    BY <2>1, KeptStays DEF Numbered
<1>2. CASE UNCHANGED cvars
  <2>1. Sorted'
    BY <1>2 DEF cvars, Numbered, Sorted, CompactionTypeOK, rows, disk, rebuild, tracks, aux, Live,
                Held, InOrder
  <2> QED
    BY <2>1, KeptStays DEF Numbered
<1> QED
  BY <1>1, <1>2, KeptStays, AddTypes, CaughtTypes, DeleteTypes, StartTypes, StageTypes, ListTypes,
     ReleaseTypes, UnlinkTypes, RenameTypes, ViewTypes, SwapTypes, ReopenTypes DEF CNext, Numbered

LEMMA AlwaysNumbered == CSpec => []Numbered
  BY NumberedInit, NumberedStays, PTL DEF CSpec

-------------------------------------------------------------------------------
(* What a compaction leaves                                                *)

(* What an index answers, and that it holds a key at most once.            *)
Answer(ix, k) == IF k \in ix.removed THEN None ELSE ReadIn(ix.head, ix.sealed, k)

OneCopy(ix, k) ==
  /\ ix.head[k] # None => CopiesIn(ix.sealed, k) = {}
  /\ \A m, n \in CopiesIn(ix.sealed, k) : m = n

(* An index has copies of what was read, and none that differs.            *)
Faithful(ix, k) ==
  /\ ix.head[k] \in {None, read[k]}
  /\ \A n \in 1..Len(ix.sealed) : ix.sealed[n][k] \in {None, read[k]}
  /\ read[k] # None => ix.head[k] # None \/ CopiesIn(ix.sealed, k) # {}

(* During a rebuild the fresh index answers with what was read, for the    *)
(* keys that are staged, and holds each once; once an add has struck it,   *)
(* that is left of the keys that neither it nor a write has touched.  A    *)
(* key that is neither live nor was deleted meanwhile was not read.        *)
Packed ==
  step # "idle" =>
    /\ step # "stage" => left = {}
    /\ fresh.removed = {}
    /\ \A k \in Keys : k \notin Live \cup deleted => read[k] = None
    /\ struck = {} =>
         \A k \in Keys : /\ Answer(fresh, k) = IF k \in left THEN None ELSE read[k]
                         /\ OneCopy(fresh, k)
    /\ struck # {} =>
         /\ touched # {}
         /\ \A k \in Live \ (touched \cup struck) : Faithful(fresh, k)

(* A key is removed only after it left the head, and the old index's head  *)
(* holds of what was not written meanwhile what was read.                  *)
HeadRead ==
  /\ Apart(current)
  /\ step # "idle" => \A k \in Live \ touched : current.head[k] \in {None, read[k]}

(* The fresh shards that are not mapped hold something.  The one whose     *)
(* file is renamed is there until it is mapped, or it is struck, and in    *)
(* its place is a shard the old index sealed meanwhile.                    *)
Unmapped ==
  step # "idle" =>
    /\ \A n \in 1..Len(fresh.sealed) : n > mapped => Held(fresh.sealed[n]) # {}
    /\ step = "view" =>
         \/ files[mapped] = fresh.sealed[mapped + 1]
         \/ /\ struck # {}
            /\ Held(fresh.sealed[mapped + 1]) \subseteq struck
            /\ \A k \in Live \ touched : files[mapped][k] \in {None, read[k]}

(* What each of them makes an index answer.                                *)
LEMMA AnsweredIsFaithful ==
  ASSUME Numbered, NEW k \in Keys, fresh.removed = {}, Answer(fresh, k) = read[k], OneCopy(fresh, k)
  PROVE  Faithful(fresh, k)
<1> DEFINE s == fresh.sealed
<1>1. s \in Seq(Shard)
  <2>1. s \in Seq(BoundedShard) /\ BoundedShard \subseteq Shard
    BY WellFormedIs, KeysAreFew DEF Numbered, Sorted, CompactionTypeOK, Index
  <2> QED
    BY <2>1
<1>2. ReadIn(fresh.head, s, k) = read[k] /\ (NewestIn(s, k) = None <=> CopiesIn(s, k) = {})
  BY <1>1, NewestInType DEF Answer
<1>3. \A n \in 1..Len(s) : s[n][k] # None => n \in CopiesIn(s, k)
  BY DEF CopiesIn
<1>4. CASE CopiesIn(s, k) = {}
  BY <1>2, <1>3, <1>4 DEF Faithful, ReadIn
<1>5. CASE CopiesIn(s, k) # {}
  <2>1. fresh.head[k] = None /\ \A m, n \in CopiesIn(s, k) : m = n
    BY <1>5 DEF OneCopy
  <2>2. NewestIn(s, k) = read[k]
    BY <1>2, <2>1 DEF ReadIn
  <2>3. PICK n : CopiesIn(s, k) = {n}
    BY <1>5, <2>1
  <2>4. n \in 1..Len(s) /\ Len(s) \in Nat
    BY <1>1, <2>3 DEF CopiesIn
  <2> DEFINE Largest(j) == \A m \in CopiesIn(s, k) : m <= j
             newest == CHOOSE j \in CopiesIn(s, k) : Largest(j)
  <2>5. newest \in CopiesIn(s, k)
    <3>1. CopiesIn(s, k) \subseteq 1..Len(s)
      BY DEF CopiesIn
    <3> QED
      BY <1>5, <2>4, <3>1, LargestExists
  <2>6. NewestIn(s, k) = s[newest][k]
    BY <1>5 DEF NewestIn
  <2> HIDE DEF newest
  <2>7. s[n][k] = read[k]
    BY <2>2, <2>3, <2>5, <2>6
  <2> QED
    BY <1>3, <1>5, <2>1, <2>3, <2>7 DEF Faithful
<1> QED
  BY <1>4, <1>5

LEMMA FaithfulAnswers ==
  ASSUME Numbered, NEW k \in Keys, fresh.removed = {}, Faithful(fresh, k)
  PROVE  Answer(fresh, k) = read[k]
<1> DEFINE s == fresh.sealed
<1>1. s \in Seq(Shard) /\ fresh.head \in Shard
  <2>1. s \in Seq(BoundedShard) /\ BoundedShard \subseteq Shard /\ fresh.head \in BoundedShard
    BY WellFormedIs, KeysAreFew DEF Numbered, Sorted, CompactionTypeOK, Index
  <2> QED
    BY <2>1
<1>2. Answer(fresh, k) = ReadIn(fresh.head, s, k)
  BY DEF Answer
<1>3. CASE fresh.head[k] # None
  BY <1>2, <1>3 DEF Faithful, ReadIn
<1>4. CASE fresh.head[k] = None /\ CopiesIn(s, k) = {}
  BY <1>2, <1>4 DEF Faithful, ReadIn, NewestIn
<1>5. CASE fresh.head[k] = None /\ CopiesIn(s, k) # {}
  <2> DEFINE Largest(j) == \A m \in CopiesIn(s, k) : m <= j
             newest == CHOOSE j \in CopiesIn(s, k) : Largest(j)
  <2>1. CopiesIn(s, k) \subseteq 1..Len(s) /\ Len(s) \in Nat
    BY <1>1 DEF CopiesIn
  <2>2. newest \in CopiesIn(s, k)
    BY <1>5, <2>1, LargestExists
  <2>3. NewestIn(s, k) = s[newest][k]
    BY <1>5 DEF NewestIn
  <2> HIDE DEF newest
  <2>4. s[newest][k] # None /\ newest \in 1..Len(s)
    BY <2>2 DEF CopiesIn
  <2> QED
    BY <1>2, <1>5, <2>3, <2>4 DEF Faithful, ReadIn
<1> QED
  BY <1>3, <1>4, <1>5

LEMMA AddedUnhides ==
  ASSUME NEW ix \in Index, NEW key \in Keys, NEW v \in Vectors
  PROVE  Added(ix, key, v).removed = ix.removed \ {key}
<1> DEFINE r == Removed(ix, {key})
           full == Full(r)
           after == Added(ix, key, v)
<1>1. /\ after \in Index
      /\ after.head = [k \in Keys |->
           IF k = key THEN v ELSE IF full THEN None ELSE ix.head[k]]
      /\ after.sealed = IF full THEN Append(ix.sealed, r.head) ELSE ix.sealed
      /\ after.numbers = IF full THEN Append(ix.numbers, Len(ix.sealed)) ELSE ix.numbers
      /\ after.removed = ix.removed \ {key}
      /\ r.head \in BoundedShard
  BY AddedIs
<1> HIDE DEF after
<1> QED
  BY <1>1 DEF after

(* The fresh index after a key it did not hold.                            *)
LEMMA AddedOnce ==
  ASSUME NEW ix \in Index, ix.removed = {}, NEW key \in Keys, NEW v \in Vectors,
         Answer(ix, key) = None, NEW k \in Keys, OneCopy(ix, k)
  PROVE  OneCopy(Added(ix, key, v), k)
<1> DEFINE r == Removed(ix, {key})
           full == Full(r)
           after == Added(ix, key, v)
<1>1. ix.sealed \in Seq(Shard) /\ ix.head \in Shard
  <2>1. ix.sealed \in Seq(BoundedShard) /\ ix.head \in BoundedShard
        /\ BoundedShard \subseteq Shard
    BY KeysAreFew DEF Index
  <2> QED
    BY <2>1
<1>2. CopiesIn(ix.sealed, key) = {} /\ ix.head[key] = None
  BY <1>1, NewestInType DEF Answer, ReadIn
<1>3. /\ after.head[k] = IF k = key THEN v ELSE IF full THEN None ELSE ix.head[k]
      /\ after.sealed = IF full THEN Append(ix.sealed, r.head) ELSE ix.sealed
      /\ r.head \in BoundedShard
  <2>1. /\ after.head = [j \in Keys |->
             IF j = key THEN v ELSE IF full THEN None ELSE ix.head[j]]
        /\ after.sealed = IF full THEN Append(ix.sealed, r.head) ELSE ix.sealed
        /\ r.head \in BoundedShard
    BY AddedIs
  <2> HIDE DEF after, full, r
  <2> QED
    BY <2>1
<1>4. r.head[k] = ix.head[k]
  <2>1. {key} \in SUBSET Keys
    OBVIOUS
  <2>2. r.head = [j \in Keys |-> IF j \in {key} THEN None ELSE ix.head[j]]
    BY <2>1, RemovedIs
  <2> HIDE DEF r
  <2> QED
    BY <1>2, <2>2
<1>5. r.head \in Shard
  BY <1>3, KeysAreFew
<1> HIDE DEF r, full, after
<1>6. CASE full
  <2>1. CopiesIn(after.sealed, k)
          = CopiesIn(ix.sealed, k) \cup (IF r.head[k] # None THEN {Len(ix.sealed) + 1} ELSE {})
    BY <1>1, <1>3, <1>5, <1>6, NewestInAppend
  <2>2. CASE ix.head[k] # None
    <3>1. CopiesIn(after.sealed, k) = {Len(ix.sealed) + 1} /\ k # key
      BY <1>2, <1>4, <2>1, <2>2 DEF OneCopy
    <3>2. after.head[k] = None
      BY <1>3, <1>6, <3>1
    <3> QED
      BY <3>1, <3>2 DEF OneCopy, after
  <2>3. CASE ix.head[k] = None
    <3>1. CopiesIn(after.sealed, k) = CopiesIn(ix.sealed, k)
      BY <1>4, <2>1, <2>3
    <3>2. after.head[k] # None => CopiesIn(ix.sealed, k) = {}
      BY <1>2, <1>3, <1>6
    <3> QED
      BY <3>1, <3>2 DEF OneCopy, after
  <2> QED
    BY <2>2, <2>3
<1>7. CASE ~full
  BY <1>2, <1>3, <1>7 DEF OneCopy, after
<1> QED
  BY <1>6, <1>7

(* A key that becomes live is touched, and what is touched stays so.       *)
LEMMA GiveKeepsPacked ==
  ASSUME Numbered, Packed, NEW key \in Keys, NEW v \in Vectors, Give(key, v),
         UNCHANGED <<fresh, read, left, deleted>>,
         struck \subseteq struck', struck' # struck => step = "view",
         step = "idle" <=> step' = "idle", step = "stage" <=> step' = "stage"
  PROVE  Packed'
<1> USE DEF Packed
<1>1. Live' = Live \cup {key} /\ touched \subseteq touched' /\ (step # "idle" => key \in touched')
  BY GiveTypes
<1> SUFFICES ASSUME step # "idle" PROVE Packed'
  OBVIOUS
<1>2. CASE struck' = {}
  BY <1>1, <1>2
<1>3. CASE struck' # {}
  <2>1. ASSUME NEW k \in Live' \ (touched' \cup struck')
        PROVE  Faithful(fresh, k)'
    <3>1. k \in Live \ (touched \cup struck) /\ k \in Keys
      BY <1>1, <2>1 DEF Live, Held
    <3>2. Faithful(fresh, k)
      <4>1. CASE struck = {}
        BY <1>3, <3>1, <4>1, AnsweredIsFaithful
      <4>2. CASE struck # {}
        BY <3>1, <4>2
      <4> QED
        BY <4>1, <4>2
    <3> QED
      BY <3>2 DEF Faithful
  <2> QED
    BY <1>1, <1>3, <2>1
<1> QED
  BY <1>2, <1>3

(* The mapping of a fresh shard, or of what has taken its place.           *)
LEMMA ViewKeepsPacked ==
  ASSUME Numbered, Packed, Unmapped, RebuildView
  PROVE  Packed'
<1> DEFINE f == files[mapped]
           s == fresh.sealed[mapped + 1]
<1>1. /\ step = "view" /\ step' = "move"
      /\ UNCHANGED <<read, left, deleted, touched, struck>> /\ Live' = Live
  BY DEF RebuildView, Live, rows, tracks, aux
<1>2. /\ mapped + 1 \in 1..Len(fresh.sealed)
      /\ fresh'.head = fresh.head /\ fresh'.removed = fresh.removed
      /\ fresh'.sealed = [fresh.sealed EXCEPT ![mapped + 1] = f]
      /\ Len(fresh'.sealed) = Len(fresh.sealed)
      /\ fresh.sealed \in Seq(BoundedShard)
  BY ViewIs, WellFormedIs DEF Numbered, Sorted, CompactionTypeOK, Index
<1>3. CASE f = s
  <2>1. fresh'.sealed = fresh.sealed
    BY <1>2, <1>3
  <2>2. \A k : /\ Answer(fresh', k) = Answer(fresh, k)
               /\ OneCopy(fresh', k) <=> OneCopy(fresh, k)
               /\ Faithful(fresh', k) <=> Faithful(fresh, k)
    BY <1>2, <2>1 DEF Answer, OneCopy, Faithful
  <2>3. \A k : Faithful(fresh, k)' <=> Faithful(fresh', k)
    BY <1>1 DEF Faithful
  <2> QED
    BY <1>1, <1>2, <2>2, <2>3 DEF Packed
<1>4. CASE f # s
  <2>1. /\ struck # {} /\ Held(s) \subseteq struck
        /\ \A k \in Live \ touched : f[k] \in {None, read[k]}
    BY <1>1, <1>4 DEF Unmapped
  <2> HIDE DEF f
  <2>2. ASSUME NEW k \in Live \ (touched \cup struck)
        PROVE  Faithful(fresh, k)'
    <3>1. /\ Faithful(fresh, k) /\ k \in Keys /\ s[k] = None /\ f[k] \in {None, read[k]}
      BY <1>1, <2>1 DEF Packed, Live, Held
    <3>2. \A n \in 1..Len(fresh.sealed) :
            fresh'.sealed[n] = IF n = mapped + 1 THEN f ELSE fresh.sealed[n]
      BY <1>2
    <3> HIDE DEF s
    <3>3. CopiesIn(fresh.sealed, k) \subseteq CopiesIn(fresh'.sealed, k)
      BY <1>2, <3>1, <3>2 DEF CopiesIn, s
    <3> QED
      BY <1>1, <1>2, <3>1, <3>2, <3>3 DEF Faithful
  <2> QED
    BY <1>1, <1>2, <2>1, <2>2 DEF Packed
<1> QED
  BY <1>3, <1>4

(* Each step keeps the fresh index packed.                                 *)
LEMMA PackedStays ==
  ASSUME Numbered, Packed, Unmapped, [CNext]_cvars
  PROVE  Packed'
<1> USE DEF Packed
<1>1. ASSUME NEW key \in Keys, NEW v \in Vectors, Add(key, v)
      PROVE  Packed'
  <2>1. Give(key, v) /\ UNCHANGED <<fresh, step, read, left, deleted>>
        /\ struck \subseteq struck' /\ (struck' # struck => step = "view")
    BY <1>1 DEF Add, rebuild, Strikes
  <2> QED
    BY <2>1, GiveKeepsPacked
<1>2. ASSUME NEW key \in Keys, NEW v \in Vectors, AddCaught(key, v)
      PROVE  Packed'
  <2>1. Give(key, v) /\ UNCHANGED <<fresh, read, left, deleted, struck>>
        /\ step \in {"move", "view"} /\ step' \in {"move", "view"}
    BY <1>2 DEF AddCaught, Unlinks, Renames
  <2> QED
    BY <2>1, GiveKeepsPacked
<1>3. ASSUME NEW key \in Keys, Delete(key)
      PROVE  Packed'
  <2>1. UNCHANGED <<fresh, step, read, left, touched, struck>>
    BY <1>3 DEF Delete, rebuild
  <2>2. Live \subseteq Live' \cup {key} /\ Live' \subseteq Live
    BY <1>3 DEF Delete, Live, Held, Numbered, Sorted, CompactionTypeOK, Shard
  <2>3. step # "idle" => deleted' = deleted \cup {key}
    BY <1>3 DEF Delete, Rebuilding
  <2>4. \A k : Faithful(fresh, k) => Faithful(fresh, k)'
    BY <2>1 DEF Faithful
  <2> QED
    BY <2>1, <2>2, <2>3, <2>4
<1>4. CASE SaveIndex \/ UNCHANGED cvars
  <2>1. UNCHANGED <<fresh, step, read, left, touched, deleted, struck>> /\ Live' = Live
    BY <1>4 DEF SaveIndex, cvars, rows, rebuild, tracks, aux, Live
  <2>2. \A k : Faithful(fresh, k) => Faithful(fresh, k)'
    BY <2>1 DEF Faithful
  <2> QED
    BY <2>1, <2>2
<1>5. CASE RebuildStart
  <2>1. /\ step' = "stage" /\ Live' = Live
        /\ read' = [k \in Keys |-> IF k \in Live THEN IndexGet(k) ELSE None]
        /\ left' = Held(read')
        /\ fresh' = Opened(NoFiles, EmptyShard)
    BY <1>5 DEF RebuildStart, Cleared, Live, rows
  <2>2. fresh'.head = EmptyShard /\ fresh'.sealed = <<>> /\ fresh'.removed = {}
    BY <2>1, OpenedEmpty
  <2>3. ASSUME NEW k \in Keys
        PROVE  Answer(fresh', k) = None /\ OneCopy(fresh', k)
    <3>1. CopiesIn(fresh'.sealed, k) = {} /\ fresh'.head[k] = None
      BY <2>2, EmptyIsBounded DEF CopiesIn
    <3> QED
      BY <3>1 DEF Answer, ReadIn, NewestIn, OneCopy
  <2>4. \A k \in Keys : /\ k \notin left' => read'[k] = None
                        /\ k \notin Live => read'[k] = None
    BY <2>1 DEF Held
  <2>5. struck' = {}
    BY <1>5 DEF RebuildStart, Rebuilding, Numbered, Sorted
  <2> QED
    BY <2>1, <2>2, <2>3, <2>4, <2>5
<1>6. ASSUME NEW key \in Keys, RebuildStage(key)
      PROVE  Packed'
  <2> DEFINE v == read[key]
  <2>1. /\ step = "stage" /\ key \in left /\ left' = left \ {key}
        /\ fresh' = Added(fresh, key, v) /\ struck = {}
        /\ UNCHANGED <<step, read, deleted, struck>> /\ Live' = Live
    BY <1>6 DEF RebuildStage, Live, rows, tracks, aux, Numbered, Sorted
  <2>2. v \in Vectors /\ fresh \in Index /\ fresh.removed = {} /\ Answer(fresh, key) = None
    BY <2>1, WellFormedIs DEF Numbered, Sorted, CompactionTypeOK, Shard, Held
  <2>3. ASSUME NEW k \in Keys
        PROVE  /\ Answer(fresh', k) = IF k = key THEN v ELSE Answer(fresh, k)
               /\ OneCopy(fresh', k)
    <3>1. Of(Added(fresh, key, v))!Get(k) = IF k = key THEN v ELSE Of(fresh)!Get(k)
      BY <2>2, AddedGet
    <3>2. OneCopy(Added(fresh, key, v), k)
      BY <2>1, <2>2, AddedOnce
    <3> QED
      BY <2>1, <3>1, <3>2, OfReads DEF Answer
  <2>4. fresh'.removed = {}
    <3>1. Added(fresh, key, v).removed = fresh.removed \ {key}
      BY <2>2, AddedUnhides
    <3> QED
      BY <2>1, <2>2, <3>1
  <2> QED
    BY <2>1, <2>3, <2>4
<1>7. CASE RebuildList \/ RebuildRelease \/ \E n \in Numbers : RebuildUnlink(n) \/ RebuildRename(n)
  <2>1. /\ UNCHANGED <<fresh, read, left, touched, deleted, struck>> /\ Live' = Live
        /\ step # "idle" /\ step' # "stage" /\ left = {}
    BY <1>7 DEF RebuildList, RebuildRelease, RebuildUnlink, RebuildRename, Unlinks, Renames, rows,
                tracks, aux, Live
  <2>2. \A k : Faithful(fresh, k) => Faithful(fresh, k)'
    BY <2>1 DEF Faithful
  <2> QED
    BY <2>1, <2>2
<1>8. CASE RebuildView
  BY <1>8, ViewKeepsPacked
<1>9. CASE RebuildSwap \/ OpenAgain
  BY <1>9 DEF RebuildSwap, OpenAgain, NoRebuild
<1> QED
  BY <1>1, <1>2, <1>3, <1>4, <1>5, <1>6, <1>7, <1>8, <1>9 DEF CNext

(* Each step keeps the old index's head as it was read.                    *)
LEMMA HeadReadStays ==
  ASSUME Numbered, Packed, HeadRead, [CNext]_cvars
  PROVE  HeadRead'
<1> USE DEF HeadRead
<1>1. /\ current \in Index /\ fresh \in Index /\ current.head \in Shard
      /\ Live \subseteq Keys
  <2>1. current \in Index /\ fresh \in Index
    BY WellFormedIs DEF Numbered, Sorted, CompactionTypeOK
  <2> QED
    BY <2>1, KeysAreFew DEF Index, Live, Held
<1>2. ASSUME NEW key \in Keys, NEW v \in Vectors, Add(key, v)
      PROVE  HeadRead'
  <2> DEFINE r == Removed(current, {key})
             full == Full(r)
             after == Added(current, key, v)
  <2>1. /\ r = Removed(current, {key}) /\ full = Full(r) /\ after = Added(current, key, v)
        /\ Give(key, v) /\ current' = after /\ UNCHANGED <<step, read>>
    BY <1>2 DEF Add, rebuild
  <2> HIDE DEF r, full, after
  <2>2. \A k \in Keys \ {key} : after.head[k] = IF full THEN None ELSE current.head[k]
    BY <1>1, <2>1, AddedShards
  <2>3. Live' = Live \cup {key} /\ touched \subseteq touched' /\ (step # "idle" => key \in touched')
    BY <2>1, GiveTypes
  <2>4. Apart(current')
    BY <1>1, <2>1, AddedApart
  <2> QED
    BY <1>1, <2>1, <2>2, <2>3, <2>4
<1>3. ASSUME NEW key \in Keys, NEW v \in Vectors, AddCaught(key, v)
      PROVE  HeadRead'
  <2>1. Give(key, v) /\ UNCHANGED read /\ step # "idle"
    BY <1>3 DEF AddCaught, Unlinks, Renames
  <2>2. /\ current'.head = [k \in Keys |-> IF k = key THEN v ELSE None]
        /\ current'.removed = current.removed \ {key}
    BY <1>3, CaughtIs
  <2>3. Live' = Live \cup {key} /\ touched \subseteq touched' /\ key \in touched'
    BY <2>1, GiveTypes
  <2>4. current.removed \subseteq Keys
    BY <1>1 DEF Index
  <2> QED
    BY <1>1, <2>1, <2>2, <2>3, <2>4 DEF Apart
<1>4. ASSUME NEW key \in Keys, Delete(key)
      PROVE  HeadRead'
  <2>1. UNCHANGED <<current, step, read, touched>>
    BY <1>4 DEF Delete, rebuild
  <2>2. Live' \subseteq Live
    BY <1>4 DEF Delete, Live, Held, Numbered, Sorted, CompactionTypeOK, Shard
  <2> QED
    BY <2>1, <2>2
<1>5. CASE RebuildStart
  <2>1. /\ UNCHANGED current /\ Live' = Live
        /\ read' = [k \in Keys |-> IF k \in Live THEN IndexGet(k) ELSE None]
    BY <1>5 DEF RebuildStart, Live, rows
  <2>2. ASSUME NEW k \in Live
        PROVE  current.head[k] \in {None, read'[k]}
    <3>1. IndexGet(k) = IF k \in current.removed THEN None
                        ELSE ReadIn(current.head, current.sealed, k)
      BY OfReads DEF IndexGet
    <3> QED
      BY <1>1, <2>1, <3>1 DEF Apart, ReadIn
  <2> QED
    BY <2>1, <2>2
<1>6. CASE SaveIndex \/ RebuildList \/ RebuildView \/ UNCHANGED cvars
           \/ (\E k \in Keys : RebuildStage(k))
           \/ \E n \in Numbers : RebuildUnlink(n) \/ RebuildRename(n)
  <2>1. /\ UNCHANGED <<current, read, touched>> /\ Live' = Live
        /\ step' # "idle" => step # "idle"
    BY <1>6 DEF SaveIndex, RebuildList, RebuildView, RebuildStage, RebuildUnlink, RebuildRename,
                Unlinks, Renames, cvars, rows, rebuild, tracks, Live
  <2> QED
    BY <2>1
<1>7. CASE RebuildRelease
  <2>1. /\ UNCHANGED <<read, touched>> /\ Live' = Live /\ step # "idle"
        /\ current' = [current EXCEPT !.sealed = <<>>, !.numbers = <<>>]
    BY <1>7 DEF RebuildRelease, rows, tracks, Live
  <2>2. current'.head = current.head /\ current'.removed = current.removed
    BY <1>1, <2>1 DEF Index
  <2> QED
    BY <2>1, <2>2 DEF Apart
<1>8. CASE RebuildSwap
  <2>1. step' = "idle" /\ current' = Carried /\ fresh.removed = {}
    BY <1>8 DEF RebuildSwap, NoRebuild, Packed
  <2>2. Apart(Carried)
    BY <2>1, CarriedIs DEF CarriedUpTo, Apart
  <2> QED
    BY <2>1, <2>2
<1>9. CASE OpenAgain
  <2>1. step' = "idle" /\ current'.removed = {}
    BY <1>9 DEF OpenAgain, NoRebuild, Opened
  <2> QED
    BY <2>1 DEF Apart
<1> QED
  BY <1>2, <1>3, <1>4, <1>5, <1>6, <1>7, <1>8, <1>9 DEF CNext

(* An add beside a fresh shard whose file is renamed and not yet mapped.   *)
LEMMA AddKeepsUnmapped ==
  ASSUME Numbered, HeadRead, Unmapped, NEW key \in Keys, NEW v \in Vectors, Add(key, v)
  PROVE  Unmapped'
<1> DEFINE r == Removed(current, {key})
           full == Full(r)
           after == Added(current, key, v)
           size == Len(current.sealed)
<1>1. /\ r = Removed(current, {key}) /\ full = Full(r) /\ after = Added(current, key, v)
      /\ Give(key, v) /\ UNCHANGED <<fresh, step, read, mapped>>
      /\ files' = Written(files, current, after)
      /\ struck' = IF Strikes(after) THEN struck \cup Held(fresh.sealed[mapped + 1]) ELSE struck
  BY DEF Add, rebuild
<1>2. /\ current \in Index /\ size \in Nat /\ current.sealed \in Seq(BoundedShard)
      /\ files \in ShardFiles
  BY WellFormedIs DEF Numbered, Sorted, CompactionTypeOK, Index
<1> HIDE DEF r, full, after, size
<1>3. /\ \A k \in Keys \ {key} : r.head[k] = current.head[k]
      /\ after.sealed = IF full THEN Append(current.sealed, r.head) ELSE current.sealed
      /\ r.head \in BoundedShard
      /\ files' = IF full THEN [files EXCEPT ![size] = r.head] ELSE files
  BY <1>1, <1>2, AddedShards DEF size
<1>4. full <=> Len(after.sealed) > size
  <2>1. Len(Append(current.sealed, r.head)) = size + 1
    BY <1>2 DEF size
  <2> QED
    BY <1>2, <1>3, <2>1 DEF size
<1>5. /\ Live' = Live \cup {key} /\ touched \subseteq touched'
      /\ step # "idle" => key \in touched'
  BY <1>1, GiveTypes
<1> SUFFICES ASSUME step = "view"
             PROVE  \/ files'[mapped] = fresh.sealed[mapped + 1]
                    \/ /\ struck' # {}
                       /\ Held(fresh.sealed[mapped + 1]) \subseteq struck'
                       /\ \A k \in Live' \ touched' : files'[mapped][k] \in {None, read[k]}
  BY <1>1 DEF Unmapped
<1>6. mapped \in Numbers /\ mapped + 1 \in 1..Len(fresh.sealed) /\ mapped + 1 > mapped
  <2>1. /\ mapped \in 0..Len(fresh.sealed) /\ mapped < Len(fresh.sealed)
        /\ Len(fresh.sealed) \in Nat /\ Len(fresh.sealed) <= MaxShards
    BY WellFormedIs DEF Numbered, Sorted, CompactionTypeOK, Index
  <2> QED
    BY <2>1, ShardsAreFiles
<1>7. CASE full /\ size = mapped
  <2>1. Strikes(after)
    BY <1>4, <1>7 DEF Strikes, size
  <2>2. struck' = struck \cup Held(fresh.sealed[mapped + 1])
        /\ Held(fresh.sealed[mapped + 1]) # {}
    BY <1>1, <1>6, <2>1 DEF Unmapped
  <2>3. files'[mapped] = r.head
    BY <1>2, <1>3, <1>6, <1>7 DEF ShardFiles
  <2>4. \A k \in Live' \ touched' : r.head[k] \in {None, read[k]}
    <3>1. \A k \in Live' \ touched' : k \in Keys \ {key} /\ k \in Live \ touched
      BY <1>5 DEF Live, Held
    <3> QED
      BY <1>3, <3>1 DEF HeadRead
  <2> QED
    BY <2>2, <2>3, <2>4
<1>8. CASE ~(full /\ size = mapped)
  <2>1. files'[mapped] = files[mapped]
    BY <1>2, <1>3, <1>6, <1>8 DEF ShardFiles
  <2>2. Live' \ touched' \subseteq Live \ touched /\ struck \subseteq struck'
    BY <1>1, <1>5
  <2> QED
    BY <2>1, <2>2 DEF Unmapped
<1> QED
  BY <1>7, <1>8

(* Each step keeps what is known of the shards that are not mapped.        *)
LEMMA UnmappedStays ==
  ASSUME Numbered, HeadRead, Unmapped, [CNext]_cvars
  PROVE  Unmapped'
<1> USE DEF Unmapped
<1> DEFINE size == Len(fresh.sealed)
<1>1. /\ fresh \in Index /\ size \in Nat /\ fresh.sealed \in Seq(BoundedShard)
      /\ mapped \in 0..size /\ 0..(size - 1) \subseteq Numbers
      /\ files \in ShardFiles /\ staged \in ShardFiles
  <2>1. fresh \in Index /\ size \in Nat /\ fresh.sealed \in Seq(BoundedShard) /\ size <= MaxShards
    BY WellFormedIs DEF Numbered, Sorted, CompactionTypeOK, Index
  <2> QED
    BY <2>1, ShardsAreFiles DEF Numbered, Sorted, CompactionTypeOK
<1>2. ASSUME NEW n \in 0..(size - 1), Renames(n)
      PROVE  staged[n] = fresh.sealed[n + 1]
  <2>1. step = "move" /\ n = mapped /\ ~(n < mapped)
    BY <1>1, <1>2 DEF Renames
  <2> QED
    BY <1>2, <2>1 DEF Numbered, Kept
<1>3. ASSUME NEW key \in Keys, NEW v \in Vectors, AddCaught(key, v)
      PROVE  Unmapped'
  <2> DEFINE n == Len(current.sealed)
  <2>1. UNCHANGED <<fresh, mapped, read>> /\ n \in Numbers
    BY <1>3, CaughtIs DEF AddCaught
  <2>2. CASE Unlinks(n) /\ UNCHANGED step
    BY <2>1, <2>2 DEF Unlinks
  <2>3. CASE Renames(n) /\ files' = [files EXCEPT ![n] = staged[n]]
    <3>1. n \in 0..(size - 1) /\ n = mapped /\ step = "move"
      BY <1>1, <2>1, <2>3, ShardsAreFiles DEF Renames
    <3>2. files'[mapped] = fresh.sealed[mapped + 1]
      BY <1>1, <1>2, <2>3, <3>1 DEF ShardFiles
    <3> QED
      BY <2>1, <3>1, <3>2
  <2> QED
    BY <1>3, <2>2, <2>3, CaughtIs
<1>4. ASSUME NEW key \in Keys, Delete(key)
      PROVE  Unmapped'
  <2>1. UNCHANGED <<fresh, step, read, mapped, files, touched, struck>>
    BY <1>4 DEF Delete, rebuild, disk
  <2>2. Live' \subseteq Live
    BY <1>4 DEF Delete, Live, Held, Numbered, Sorted, CompactionTypeOK, Shard
  <2> QED
    BY <2>1, <2>2
<1>5. CASE SaveIndex \/ UNCHANGED cvars
  <2>1. UNCHANGED <<fresh, step, read, mapped, files, touched, struck>> /\ Live' = Live
    BY <1>5 DEF SaveIndex, cvars, rows, rebuild, disk, tracks, aux, Live
  <2> QED
    BY <2>1
<1>6. CASE RebuildStart
  <2>1. fresh' = Opened(NoFiles, EmptyShard) /\ step' = "stage"
    BY <1>6 DEF RebuildStart, Cleared
  <2>2. fresh'.sealed = <<>> /\ Len(<<>>) = 0 /\ 1..0 = {}
    BY <2>1, OpenedEmpty
  <2> QED
    BY <2>1, <2>2
<1>7. ASSUME NEW key \in Keys, RebuildStage(key)
      PROVE  Unmapped'
  <2> DEFINE v == read[key]
             r == Removed(fresh, {key})
             full == Full(r)
             after == Added(fresh, key, v)
  <2>1. /\ r = Removed(fresh, {key}) /\ full = Full(r) /\ after = Added(fresh, key, v)
        /\ step = "stage" /\ fresh' = after /\ UNCHANGED <<step, mapped>>
    BY <1>7 DEF RebuildStage
  <2>2. v \in Vectors
    BY <1>7 DEF RebuildStage, Numbered, Sorted, CompactionTypeOK, Shard, Held
  <2> HIDE DEF v, r, full, after
  <2>3. /\ after.sealed = IF full THEN Append(fresh.sealed, r.head) ELSE fresh.sealed
        /\ r.head \in BoundedShard
    BY <1>1, <2>1, <2>2, AddedShards
  <2>4. full => Held(r.head) # {}
    <3>1. full => Cardinality(Held(r.head)) >= ShardSize
      BY <2>1, CountedAlike
    <3> QED
      BY <3>1, FS_EmptySet, ShardSizeAssumption
  <2>5. ASSUME NEW n \in 1..Len(after.sealed), n > mapped
        PROVE  Held(after.sealed[n]) # {}
    <3>1. CASE full
      <4> DEFINE s == Append(fresh.sealed, r.head)
      <4>1. /\ Len(s) = size + 1 /\ s[size + 1] = r.head
            /\ \A i \in 1..size : s[i] = fresh.sealed[i]
        BY <1>1, <2>3
      <4>2. after.sealed = s
        BY <2>3, <3>1
      <4> HIDE DEF s
      <4>3. n \in 1..size \/ n = size + 1
        BY <1>1, <4>1, <4>2
      <4> QED
        BY <2>1, <2>4, <2>5, <3>1, <4>1, <4>2, <4>3
    <3>2. CASE ~full
      BY <2>1, <2>3, <2>5, <3>2
    <3> QED
      BY <3>1, <3>2
  <2> QED
    BY <2>1, <2>5
<1>8. CASE RebuildList \/ RebuildRelease \/ \E n \in Numbers : RebuildUnlink(n)
  <2>1. UNCHANGED <<fresh, mapped>> /\ step # "idle" /\ step' # "view"
    BY <1>8 DEF RebuildList, RebuildRelease, RebuildUnlink, Unlinks
  <2> QED
    BY <2>1
<1>9. ASSUME NEW n \in Numbers, RebuildRename(n)
      PROVE  Unmapped'
  <2>1. /\ Renames(n) /\ n \in 0..(size - 1) /\ n = mapped /\ step = "move"
        /\ UNCHANGED <<fresh, mapped, read>> /\ files' = [files EXCEPT ![n] = staged[n]]
    BY <1>1, <1>9, ShardsAreFiles DEF RebuildRename, Renames
  <2>2. files'[mapped] = fresh.sealed[mapped + 1]
    BY <1>1, <1>2, <2>1 DEF ShardFiles
  <2> QED
    BY <2>1, <2>2
<1>10. CASE RebuildView
  <2>1. /\ step = "view" /\ step' = "move" /\ mapped' = mapped + 1
    BY <1>10 DEF RebuildView
  <2>2. fresh'.sealed = [fresh.sealed EXCEPT ![mapped + 1] = files[mapped]]
        /\ Len(fresh'.sealed) = size
    BY <1>10, ViewIs
  <2>3. ASSUME NEW n \in 1..size, n > mapped'
        PROVE  Held(fresh'.sealed[n]) # {}
    <3>1. n > mapped /\ n # mapped + 1
      BY <1>1, <2>1, <2>3
    <3>2. fresh'.sealed[n] = fresh.sealed[n]
      BY <1>1, <2>2, <3>1
    <3> QED
      BY <2>1, <3>1, <3>2
  <2> QED
    BY <2>1, <2>2, <2>3
<1>11. CASE RebuildSwap \/ OpenAgain
  BY <1>11 DEF RebuildSwap, OpenAgain, NoRebuild
<1> QED
  BY <1>3, <1>4, <1>5, <1>6, <1>7, <1>8, <1>9, <1>10, <1>11, AddKeepsUnmapped DEF CNext

(* What the swap puts in the place of the old index.                       *)
LEMMA SwapIsExact ==
  ASSUME Numbered, Packed, RebuildSwap
  PROVE  /\ \A k \in Live \ (touched \cup struck) : IndexGet(k)' = read[k]
         /\ struck = {} => \A k \in Keys \ Live : ~IndexContains(k)'
         /\ touched = {} => \A k \in Keys : CopiesOf(k)' <= 1
<1> DEFINE ix == Carried
           start == WithoutDeleted
<1>1. /\ step = "move" /\ left = {} /\ fresh.removed = {}
      /\ current' = ix /\ fresh \in Index
  BY WellFormedIs DEF RebuildSwap, NoRebuild, Packed, Numbered, Sorted, CompactionTypeOK
<1>2. /\ start \in Index /\ start.sealed = fresh.sealed
      /\ CarriedUpTo(MaxKey, ix)
      /\ touched = {} => ix = start
      /\ \A k \in Keys : Of(start)!Get(k) =
           IF k \in deleted \ Live THEN None ELSE Of(fresh)!Get(k)
  BY CarriedIs
<1>3. ASSUME NEW k \in Keys, struck = {} \/ k \in Live \ (touched \cup struck)
      PROVE  Of(start)!Get(k) = IF k \in deleted \ Live THEN None ELSE read[k]
  <2>1. Of(start)!Get(k) = IF k \in deleted \ Live THEN None ELSE Of(fresh)!Get(k)
    BY <1>2
  <2>2. Answer(fresh, k) = read[k]
    <3>1. CASE struck = {}
      BY <1>1, <3>1 DEF Packed
    <3>2. CASE struck # {}
      BY <1>1, <1>3, <3>2, FaithfulAnswers DEF Packed
    <3> QED
      BY <3>1, <3>2
  <2> QED
    BY <2>1, <2>2, OfReads DEF Answer
<1>4. ASSUME NEW k \in Keys, k \notin touched \cap Live,
             struck = {} \/ k \in Live \ (touched \cup struck)
      PROVE  Of(ix)!Get(k) = IF k \in deleted \ Live THEN None ELSE read[k]
  <2> HIDE DEF ix, start
  <2> QED
    BY <1>2, <1>3, <1>4 DEF CarriedUpTo, start
<1>5. ix \in Index
  BY <1>2 DEF CarriedUpTo
<1> HIDE DEF ix, start
<1>6. ASSUME NEW k
      PROVE  /\ IndexGet(k)' = IF k \in ix.removed THEN None ELSE ReadIn(ix.head, ix.sealed, k)
             /\ IndexContains(k)' <=>
                  (k \notin ix.removed /\ (ix.head[k] # None \/ CopiesIn(ix.sealed, k) # {}))
  BY <1>1 DEF IndexGet, IndexContains, Of!Get, Of!Contains, Of!ReadBehind, Of!NewestSealed,
              Of!Copies, ReadIn, NewestIn, CopiesIn
<1>7. \A k \in Live \ (touched \cup struck) : IndexGet(k)' = read[k]
  <2>1. Live \subseteq Keys
    BY DEF Live, Held
  <2> QED
    BY <1>4, <1>6, <2>1, OfReads
<1>8. struck = {} => \A k \in Keys \ Live : ~IndexContains(k)'
  <2> SUFFICES ASSUME struck = {}, NEW k \in Keys \ Live
               PROVE  ~IndexContains(k)'
    OBVIOUS
  <2>1. Of(ix)!Get(k) = None
    BY <1>1, <1>4 DEF Packed
  <2>2. ~Of(ix)!Contains(k)
    BY <1>5, <2>1, GetIs
  <2> QED
    BY <1>6, <2>2, OfReads
<1>9. ASSUME touched = {}, NEW k \in Keys
      PROVE  CopiesOf(k)' <= 1
  <2>1. CopiesOf(k)' = Cardinality(CopiesIn(ix.sealed, k)) + (IF ix.head[k] # None THEN 1 ELSE 0)
    <3>1. \A s : Cardinality(s) = Cardinality(s)
      BY DEF Cardinality, Cardinality
    <3>2. CopiesOf(k)' = Cardinality(CopiesIn(ix.sealed, k))
                             + (IF ix.head[k] # None THEN 1 ELSE 0)
      BY <1>1 DEF CopiesOf, Of!Copies, CopiesIn
    <3> QED
      BY <3>1, <3>2
  <2>2. ix.sealed = fresh.sealed /\ (ix.head[k] # None => fresh.head[k] # None)
    <3> DEFINE S == {j \in deleted \ Live : Of(fresh)!Contains(j)}
    <3>1. ix = Removed(fresh, S) /\ S \in SUBSET Keys
      BY <1>2, <1>9 DEF WithoutDeleted, start, Numbered, Sorted, CompactionTypeOK
    <3>2. /\ ix.head = [j \in Keys |-> IF j \in S THEN None ELSE fresh.head[j]]
          /\ ix.sealed = fresh.sealed
      <4> HIDE DEF S
      <4> QED
        BY <1>1, <3>1, RemovedIs
    <3> QED
      BY <3>2
  <2>3. OneCopy(fresh, k)
    BY <1>1, <1>9 DEF Packed
  <2>4. CASE CopiesIn(ix.sealed, k) = {}
    BY <2>1, <2>4, FS_EmptySet
  <2>5. CASE CopiesIn(ix.sealed, k) # {}
    <3>1. PICK n : CopiesIn(ix.sealed, k) = {n}
      BY <2>2, <2>3, <2>5 DEF OneCopy
    <3>2. Cardinality(CopiesIn(ix.sealed, k)) = 1
      BY <3>1, FS_Singleton
    <3> QED
      BY <2>1, <2>2, <2>3, <2>5, <3>2 DEF OneCopy
  <2> QED
    BY <2>4, <2>5
<1> QED
  BY <1>7, <1>8, <1>9

LEMMA AlwaysPacked == CSpec => [](Numbered /\ Packed)
<1>1. CInit => Packed /\ HeadRead /\ Unmapped
  <2>1. CInit => current.removed = {}
    BY OpenedEmpty DEF CInit
  <2> QED
    BY <2>1 DEF CInit, Packed, HeadRead, Unmapped, Apart
<1>2. Numbered /\ Packed /\ HeadRead /\ Unmapped /\ [CNext]_cvars =>
        (Packed /\ HeadRead /\ Unmapped)'
  BY PackedStays, HeadReadStays, UnmappedStays
<1> QED
  BY <1>1, <1>2, NumberedInit, NumberedStays, PTL DEF CSpec

(* No shard, live, fresh or on disk, ever exceeds shard_size, whatever     *)
(* happens while a rebuild runs.                                           *)
THEOREM CompactionTypes == CSpec => []CompactionTypeOK
  BY AlwaysNumbered, PTL DEF Numbered, Sorted

(* What comes out of a compaction answers with what was read for every     *)
(* live point neither written meanwhile nor in a shard that an add struck, *)
(* contains nothing deleted if none was struck and, unless something was   *)
(* written, no key twice.                                                  *)
THEOREM CompactionAlwaysExact == CSpec => CompactionIsExact
<1>1. Numbered /\ Packed /\ [CNext]_cvars =>
        [RebuildSwap =>
           /\ \A k \in Live \ (touched \cup struck) : IndexGet(k)' = read[k]
           /\ struck = {} => \A k \in Keys \ Live : ~IndexContains(k)'
           /\ touched = {} => \A k \in Keys : CopiesOf(k)' <= 1]_cvars
  BY SwapIsExact
<1> QED
  BY <1>1, AlwaysPacked, PTL DEF CSpec, CompactionIsExact

-------------------------------------------------------------------------------
(* What a rebuild that dies leaves                                         *)

LEMMA IntervalCounted ==
  ASSUME NEW n \in Nat
  PROVE  IsFiniteSet(0..(n - 1)) /\ Cardinality(0..(n - 1)) = n
<1>1. 0 \in Int /\ n - 1 \in Int
  OBVIOUS
<1>2. /\ IsFiniteSet(0..(n - 1))
      /\ Cardinality(0..(n - 1)) = IF 0 > n - 1 THEN 0 ELSE n - 1 - 0 + 1
  BY <1>1, FS_Interval
<1> QED
  BY <1>2

(* Files numbered without a gap open in the order of their numbers.        *)
LEMMA FilesInOrder ==
  ASSUME NEW f \in ShardFiles, NEW h \in BoundedShard,
         NEW size \in Nat, There(f) = 0..(size - 1)
  PROVE  LET ix == Opened(f, h) IN
         /\ Len(ix.sealed) = size
         /\ \A i \in 1..size : ix.sealed[i] = f[i - 1]
<1> DEFINE ix == Opened(f, h)
           names == NumbersOf(f)
<1>1. /\ names \in Seq(There(f)) /\ Len(names) = Cardinality(There(f))
      /\ \A i \in 1..Len(names) : Cardinality(Below(There(f), names[i])) = i - 1
      /\ Len(ix.sealed) = Len(names)
      /\ \A i \in 1..Len(names) : ix.sealed[i] = f[names[i]]
  BY OpenedIs
<1> HIDE DEF ix, names
<1>2. Len(names) = size
  BY <1>1, IntervalCounted
<1>3. ASSUME NEW i \in 1..size
      PROVE  names[i] = i - 1
  <2>1. names[i] \in 0..(size - 1)
    BY <1>1, <1>2
  <2>2. Below(There(f), names[i]) = 0..(names[i] - 1)
    BY <2>1 DEF Below
  <2>3. Cardinality(0..(names[i] - 1)) = names[i]
    BY <2>1, IntervalCounted
  <2> QED
    BY <1>1, <1>2, <2>2, <2>3
<1> QED
  BY <1>1, <1>2, <1>3 DEF ix

(* The files a live index stands on are there, except while a rebuild is   *)
(* putting the fresh ones in their place.                                  *)
Known ==
  step \notin {"move", "view"} =>
    \A i \in 1..Len(current.numbers) : files[current.numbers[i]] # None

(* Before the old shards are released, if anything is promised, the files  *)
(* are the index's shards, in order, and what is promised reads the same   *)
(* behind the index's head and behind the head file.                       *)
Backed ==
  step \in {"stage", "listed"} /\ promised # {} =>
    /\ InOrder(current)
    /\ \A n \in Numbers :
         files[n] = IF n < Len(current.sealed) THEN current.sealed[n + 1] ELSE None
    /\ \A k \in promised :
         /\ k \notin current.removed
         /\ ReadIn(current.head, current.sealed, k) = given[k]
         /\ ReadIn(headFile, current.sealed, k) = given[k]

(* Such files open as the index's own shards.                              *)
LEMMA BackedOpens ==
  ASSUME Numbered,
         \A n \in Numbers :
           files[n] = IF n < Len(current.sealed) THEN current.sealed[n + 1] ELSE None
  PROVE  Opened(files, headFile).sealed = current.sealed
<1> DEFINE size == Len(current.sealed)
           ix == Opened(files, headFile)
<1>1. /\ current \in Index /\ size <= MaxShards /\ size \in Nat
      /\ current.sealed \in Seq(BoundedShard)
      /\ files \in ShardFiles /\ headFile \in BoundedShard
  BY WellFormedIs DEF Numbered, Sorted, CompactionTypeOK, Index
<1> HIDE DEF size
<1>2. There(files) = 0..(size - 1)
  <2>1. ASSUME NEW n \in 0..(size - 1)
        PROVE  n \in Numbers /\ current.sealed[n + 1] # None
    <3>1. n + 1 \in 1..size
      BY <1>1
    <3> QED
      BY <1>1, <3>1, ShardsAreFiles DEF size
  <2>2. \A n \in Numbers : n < size => n \in 0..(size - 1)
    BY <1>1, ShardsAreFiles
  <2>3. \A n \in 0..(size - 1) : n < size
    BY <1>1
  <2> QED
    BY <2>1, <2>2, <2>3 DEF There, size
<1>3. Len(ix.sealed) = size /\ \A i \in 1..size : ix.sealed[i] = files[i - 1]
  BY <1>1, <1>2, FilesInOrder
<1>4. ix.sealed \in Seq(BoundedShard)
  BY <1>1, OpenedIs DEF Index
<1> HIDE DEF ix
<1>5. ASSUME NEW i \in 1..size
      PROVE  ix.sealed[i] = current.sealed[i]
  <2>1. i - 1 \in Numbers /\ i - 1 < size /\ i - 1 + 1 = i
    BY <1>1, ShardsAreFiles
  <2> QED
    BY <1>3, <2>1 DEF size
<1> QED
  BY <1>1, <1>3, <1>4, <1>5 DEF size, ix

LEMMA BackedIsHarmless ==
  ASSUME Numbered, Backed
  PROVE  StagingIsHarmless
<1> SUFFICES ASSUME step \in {"stage", "listed"}, NEW k \in promised
             PROVE  IndexOnDisk(k) = given[k]
  BY DEF StagingIsHarmless, OldShardsIntact
<1> DEFINE ix == Opened(files, headFile)
<1>1. ix.sealed = current.sealed
  BY BackedOpens DEF Backed
<1>2. ix.head = headFile /\ ix.removed = {}
  BY DEF Opened
<1> HIDE DEF ix
<1>3. Of(ix)!Get(k) = ReadIn(headFile, current.sealed, k)
  BY <1>1, <1>2, OfReads
<1> QED
  BY <1>3 DEF IndexOnDisk, ix, Backed

(* An add beside the staging: a seal lengthens the files and the index.    *)
LEMMA AddBacked ==
  ASSUME Numbered, Known, Backed, NEW key \in Keys, NEW v \in Vectors, Add(key, v)
  PROVE  Known' /\ Backed'
<1> DEFINE r == Removed(current, {key})
           full == Full(r)
           after == Added(current, key, v)
           size == Len(current.sealed)
<1>1. /\ current \in Index /\ size < MaxShards /\ size \in Nat
      /\ current.sealed \in Seq(BoundedShard) /\ current.numbers \in Seq(Numbers)
      /\ Len(current.numbers) = size
      /\ files \in ShardFiles /\ headFile \in BoundedShard /\ promised \subseteq Live
  BY WellFormedIs DEF Add, Give, HasRoom, Numbered, Sorted, CompactionTypeOK, Index
<1>2. r = Removed(current, {key}) /\ full = Full(r) /\ after = Added(current, key, v)
  OBVIOUS
<1>3. /\ current' = after /\ files' = Written(files, current, after)
       /\ given' = [given EXCEPT ![key] = v] /\ promised' = promised \ {key}
       /\ UNCHANGED <<headFile, step>>
  BY DEF Add, Give, rebuild
<1> HIDE DEF r, full, after, size
<1>4. /\ after.head[key] = v
      /\ \A k \in Keys \ {key} :
           /\ after.head[k] = IF full THEN None ELSE current.head[k]
           /\ r.head[k] = current.head[k]
      /\ after.sealed = IF full THEN Append(current.sealed, r.head) ELSE current.sealed
      /\ after.numbers = IF full THEN Append(current.numbers, size) ELSE current.numbers
      /\ after.removed = current.removed \ {key}
      /\ r.head \in BoundedShard
      /\ Written(files, current, after) = IF full THEN [files EXCEPT ![size] = r.head] ELSE files
  BY <1>1, <1>2, AddedShards DEF size
<1>5. r.head # None /\ size \in Numbers
  BY <1>1, <1>4, ShardsAreFiles
<1>6. ASSUME NEW n \in Numbers
      PROVE  files'[n] = IF full /\ n = size THEN r.head ELSE files[n]
  BY <1>1, <1>4, <1>3, <1>5 DEF ShardFiles
<1>7. /\ full => /\ Len(current'.numbers) = size + 1
                 /\ current'.numbers[size + 1] = size
                 /\ \A i \in 1..size : current'.numbers[i] = current.numbers[i]
      /\ ~full => current'.numbers = current.numbers
  <2> DEFINE s == Append(current.numbers, size)
  <2>1. /\ Len(s) = size + 1 /\ s[size + 1] = size
        /\ \A i \in 1..size : s[i] = current.numbers[i]
    BY <1>1, <1>5
  <2>2. current'.numbers = IF full THEN s ELSE current.numbers
    BY <1>4, <1>3
  <2> HIDE DEF s
  <2> QED
    BY <2>1, <2>2
<1>8. Known'
  <2> SUFFICES ASSUME step \notin {"move", "view"}, NEW i \in 1..Len(current'.numbers)
               PROVE  files'[current'.numbers[i]] # None
    BY <1>3 DEF Known
  <2>1. CASE full /\ i = size + 1
    <3>1. current'.numbers[i] = size
      BY <1>7, <2>1
    <3> QED
      BY <1>5, <1>6, <2>1, <3>1
  <2>2. CASE ~(full /\ i = size + 1)
    <3>1. i \in 1..size /\ current'.numbers[i] = current.numbers[i]
      BY <1>1, <1>7, <2>2
    <3>2. current.numbers[i] \in Numbers /\ files[current.numbers[i]] # None
      BY <1>1, <3>1 DEF Known
    <3> QED
      BY <1>5, <1>6, <3>1, <3>2
  <2> QED
    BY <2>1, <2>2
<1>9. Backed'
  <2> SUFFICES ASSUME step \in {"stage", "listed"}, promised' # {}
               PROVE  /\ InOrder(current')
                      /\ \A n \in Numbers : files'[n] =
                           IF n < Len(current'.sealed) THEN current'.sealed[n + 1] ELSE None
                      /\ \A k \in promised' :
                           /\ k \notin current'.removed
                           /\ ReadIn(current'.head, current'.sealed, k) = given'[k]
                           /\ ReadIn(headFile, current'.sealed, k) = given'[k]
    BY <1>3 DEF Backed
  <2>1. promised # {}
    BY <1>3
  <2>2. InOrder(current) /\ \A n \in Numbers : files[n] =
          IF n < size THEN current.sealed[n + 1] ELSE None
    BY <2>1 DEF Backed, size
  <2>3. InOrder(current')
    <3>1. CASE full
      <4> SUFFICES ASSUME NEW i \in 1..(size + 1)
                   PROVE  current'.numbers[i] = i - 1
        BY <1>7, <3>1 DEF InOrder
      <4>1. CASE i = size + 1
        BY <1>1, <1>7, <3>1, <4>1
      <4>2. CASE i # size + 1
        BY <1>1, <1>7, <2>2, <3>1, <4>2 DEF InOrder
      <4> QED
        BY <4>1, <4>2
    <3>2. CASE ~full
      BY <1>7, <2>2, <3>2 DEF InOrder
    <3> QED
      BY <3>1, <3>2
  <2>4. ASSUME NEW n \in Numbers
        PROVE  files'[n] = IF n < Len(current'.sealed) THEN current'.sealed[n + 1] ELSE None
    <3>1. n \in Nat
      BY ShardsAreFiles
    <3>2. CASE full
      <4>1. /\ Len(current'.sealed) = size + 1 /\ current'.sealed[size + 1] = r.head
            /\ \A i \in 1..size : current'.sealed[i] = current.sealed[i]
        <5> DEFINE s == Append(current.sealed, r.head)
        <5>1. /\ Len(s) = size + 1 /\ s[size + 1] = r.head
              /\ \A i \in 1..size : s[i] = current.sealed[i]
          BY <1>1, <1>4 DEF size
        <5>2. current'.sealed = s
          BY <1>3, <1>4, <3>2
        <5> HIDE DEF s
        <5> QED
          BY <5>1, <5>2
      <4>2. CASE n = size
        BY <1>1, <1>6, <3>2, <4>1, <4>2
      <4>3. CASE n < size
        <5>1. n + 1 \in 1..size /\ n < Len(current'.sealed)
          BY <1>1, <3>1, <4>1, <4>3
        <5> QED
          BY <1>6, <2>2, <4>1, <4>3, <5>1
      <4>4. CASE n > size
        <5>1. ~(n < size) /\ ~(n < Len(current'.sealed)) /\ n # size
          BY <1>1, <3>1, <4>1, <4>4
        <5> QED
          BY <1>6, <2>2, <5>1
      <4> QED
        BY <1>1, <3>1, <4>2, <4>3, <4>4
    <3>3. CASE ~full
      BY <1>4, <1>3, <1>6, <2>2, <3>3 DEF size
    <3> QED
      BY <3>2, <3>3
  <2>5. ASSUME NEW k \in promised'
        PROVE  /\ k \notin current'.removed
               /\ ReadIn(current'.head, current'.sealed, k) = given'[k]
               /\ ReadIn(headFile, current'.sealed, k) = given'[k]
    <3>1. k \in promised /\ k # key /\ k \in Live /\ k \in Keys
      BY <1>1, <1>3 DEF Live, Held
    <3>2. given'[k] = given[k] /\ given[k] # None
      BY <1>3, <3>1 DEF Live, Held, Numbered, Sorted, CompactionTypeOK, Shard
    <3>3. /\ k \notin current.removed
          /\ ReadIn(current.head, current.sealed, k) = given[k]
          /\ ReadIn(headFile, current.sealed, k) = given[k]
      BY <2>1, <3>1 DEF Backed
    <3>4. k \notin current'.removed
      BY <1>4, <1>3, <3>3
    <3>5. CASE full
      <4>1. current.sealed \in Seq(Shard) /\ r.head \in Shard
        BY <1>1, <1>4, KeysAreFew
      <4>2. NewestIn(current'.sealed, k) = ReadIn(r.head, current.sealed, k)
        <5>1. NewestIn(Append(current.sealed, r.head), k) = ReadIn(r.head, current.sealed, k)
          BY <3>1, <4>1, NewestInAppend
        <5> QED
          BY <1>4, <1>3, <3>5, <5>1
      <4>3. current'.head[k] = None /\ r.head[k] = current.head[k]
        BY <1>4, <1>3, <3>1, <3>5
      <4> QED
        BY <3>2, <3>3, <3>4, <4>2, <4>3 DEF ReadIn
    <3>6. CASE ~full
      <4>1. current'.head[k] = current.head[k] /\ current'.sealed = current.sealed
        BY <1>4, <1>3, <3>1, <3>6
      <4> QED
        BY <3>2, <3>3, <3>4, <4>1 DEF ReadIn
    <3> QED
      BY <3>5, <3>6
  <2> QED
    BY <2>3, <2>4, <2>5
<1> QED
  BY <1>8, <1>9

(* When something is promised the files are the index's, by counting.      *)
LEMMA StartBacked ==
  ASSUME Numbered, Known, RebuildStart
  PROVE  Known' /\ Backed'
<1> DEFINE size == Len(current.sealed)
           ix == Opened(files, headFile)
<1>1. /\ current \in Index /\ size <= MaxShards /\ size \in Nat
      /\ current.sealed \in Seq(BoundedShard) /\ Len(current.numbers) = size
      /\ current.numbers \in Seq(Numbers)
      /\ files \in ShardFiles /\ headFile \in BoundedShard
  BY WellFormedIs DEF Numbered, Sorted, CompactionTypeOK, Index
<1>2. /\ step = "idle" /\ step' = "stage" /\ UNCHANGED <<given, current, files, headFile>>
      /\ promised' = {k \in Live : FilesAreTheIndex /\ IndexGet(k) = given[k]
                                       /\ IndexOnDisk(k) = given[k]}
  BY DEF RebuildStart, Rebuilding, rows
<1>3. Known'
  BY <1>2 DEF Known
<1>4. ASSUME promised' # {}
      PROVE  /\ InOrder(current) /\ ix.sealed = current.sealed
             /\ \A n \in Numbers :
                  files[n] = IF n < size THEN current.sealed[n + 1] ELSE None
  <2>1. ix.sealed = current.sealed /\ \A n \in DOMAIN current.numbers : current.numbers[n] = n - 1
    BY <1>2, <1>4 DEF FilesAreTheIndex
  <2>2. InOrder(current)
    BY <1>1, <2>1 DEF InOrder
  <2> HIDE DEF ix
  <2>3. IsFiniteSet(There(files)) /\ Cardinality(There(files)) = size
        /\ There(files) \subseteq Numbers
    BY <1>1, <2>1, OpenedIs DEF ix
  <2> HIDE DEF size
  <2>4. 0..(size - 1) \subseteq There(files)
    <3> SUFFICES ASSUME NEW n \in 0..(size - 1)
                 PROVE  n \in Numbers /\ files[n] # None
      BY DEF There
    <3>1. n + 1 \in 1..Len(current.numbers) /\ n + 1 - 1 = n /\ n \in Numbers
      BY <1>1, ShardsAreFiles
    <3>2. current.numbers[n + 1] = n
      BY <2>2, <3>1 DEF InOrder
    <3>3. files[current.numbers[n + 1]] # None
      BY <1>2, <3>1 DEF Known
    <3> QED
      BY <3>1, <3>2, <3>3
  <2>5. There(files) = 0..(size - 1)
    <3>1. Cardinality(0..(size - 1)) = size
      BY <1>1, IntervalCounted
    <3> QED
      BY <2>3, <2>4, <3>1, FS_Subset
  <2>6. \A i \in 1..size : ix.sealed[i] = files[i - 1]
    BY <1>1, <2>5, FilesInOrder DEF ix
  <2>7. ASSUME NEW n \in Numbers
        PROVE  files[n] = IF n < size THEN current.sealed[n + 1] ELSE None
    <3>1. n \in Nat
      BY ShardsAreFiles
    <3>2. CASE n < size
      <4>1. n + 1 \in 1..size /\ n + 1 - 1 = n
        BY <1>1, <3>1, <3>2
      <4>2. \A i \in 1..size : i = n + 1 => ix.sealed[i] = files[n]
        <5> SUFFICES ASSUME NEW i \in 1..size, i = n + 1
                     PROVE  ix.sealed[i] = files[n]
          OBVIOUS
        <5>1. i - 1 = n
          BY <3>1
        <5> QED
          BY <2>6, <5>1
      <4> QED
        BY <2>1, <3>2, <4>1, <4>2
    <3>3. CASE ~(n < size)
      <4>1. n \notin 0..(size - 1)
        BY <1>1, <3>3
      <4> QED
        BY <2>5, <3>3, <4>1 DEF There
    <3> QED
      BY <3>2, <3>3
  <2> QED
    BY <2>1, <2>2, <2>7
<1>5. ASSUME NEW k \in promised'
      PROVE  /\ k \notin current.removed
             /\ ReadIn(current.head, current.sealed, k) = given[k]
             /\ ReadIn(headFile, current.sealed, k) = given[k]
  <2>1. given[k] # None /\ IndexGet(k) = given[k] /\ IndexOnDisk(k) = given[k]
    BY <1>2 DEF Live, Held
  <2>2. ix.sealed = current.sealed /\ ix.head = headFile /\ ix.removed = {}
    BY <1>4 DEF Opened
  <2> HIDE DEF ix
  <2>3. IndexOnDisk(k) = ReadIn(headFile, current.sealed, k)
    BY <2>2, OfReads DEF IndexOnDisk, ix
  <2>4. IndexGet(k) = IF k \in current.removed THEN None ELSE ReadIn(current.head, current.sealed, k)
    BY OfReads DEF IndexGet
  <2> QED
    BY <2>1, <2>3, <2>4
<1> QED
  BY <1>2, <1>3, <1>4, <1>5 DEF Backed

(* After the swap, and after a reopen, the files of the index are there.   *)
LEMMA SwapKnown ==
  ASSUME Numbered, RebuildSwap
  PROVE  Known'
<1> DEFINE ix == Carried
<1>1. /\ ix \in Index /\ InOrder(ix) /\ Len(ix.sealed) <= MaxShards
      /\ Len(ix.sealed) >= Len(fresh.sealed) /\ Len(fresh.sealed) \in Nat
  BY CarriedIs, WellFormedIs DEF CarriedUpTo, RebuildSwap, Numbered, Sorted, CompactionTypeOK, Index
<1>2. /\ step = "move" /\ mapped = Len(fresh.sealed) /\ current' = ix
      /\ files' = [n \in Numbers |-> IF n \in Len(fresh.sealed)..(Len(ix.sealed) - 1)
                                     THEN ix.sealed[n + 1] ELSE files[n]]
  BY DEF RebuildSwap
<1> HIDE DEF ix
<1>3. /\ ix.sealed \in Seq(BoundedShard) /\ Len(ix.numbers) = Len(ix.sealed)
      /\ Len(ix.sealed) \in Nat
  BY <1>1 DEF Index
<1> SUFFICES ASSUME NEW i \in 1..Len(ix.numbers)
             PROVE  files'[ix.numbers[i]] # None
  BY <1>2 DEF Known
<1>4. ix.numbers[i] = i - 1 /\ i \in Nat /\ i - 1 \in Numbers
  BY <1>1, <1>3, ShardsAreFiles DEF InOrder
<1>5. files'[i - 1] = IF i - 1 \in Len(fresh.sealed)..(Len(ix.sealed) - 1)
                      THEN ix.sealed[i] ELSE files[i - 1]
  <2>1. i - 1 + 1 = i
    BY <1>4
  <2> QED
    BY <1>2, <1>4, <2>1
<1>6. CASE i - 1 \in Len(fresh.sealed)..(Len(ix.sealed) - 1)
  <2>1. ix.sealed[i] # None
    BY <1>3, ShardsAreFiles
  <2> QED
    BY <1>4, <1>5, <1>6, <2>1
<1>7. CASE i - 1 \notin Len(fresh.sealed)..(Len(ix.sealed) - 1)
  <2>1. i - 1 \in 0..(Len(fresh.sealed) - 1)
    BY <1>1, <1>3, <1>4, <1>7
  <2>2. i - 1 < mapped
    BY <1>1, <1>2, <2>1
  <2>3. files[i - 1] # None
    BY <1>2, <2>1, <2>2 DEF Numbered, Kept
  <2> QED
    BY <1>4, <1>5, <1>7, <2>3
<1> QED
  BY <1>6, <1>7

LEMMA ReopenKnown ==
  ASSUME Numbered, OpenAgain
  PROVE  Known'
<1> DEFINE ix == Opened(files, headFile)
<1>1. files \in ShardFiles /\ headFile \in BoundedShard
  BY DEF Numbered, Sorted, CompactionTypeOK
<1>2. current' = ix /\ UNCHANGED files
  BY DEF OpenAgain, disk
<1>3. ix.numbers = NumbersOf(files) /\ NumbersOf(files) \in Seq(There(files))
  BY <1>1, OpenedIs
<1> HIDE DEF ix
<1>4. \A i \in 1..Len(ix.numbers) : ix.numbers[i] \in There(files)
  BY <1>3
<1> QED
  BY <1>2, <1>4 DEF Known, There

(* Each step keeps what is known and what is promised.                     *)
LEMMA BackedStays ==
  ASSUME Numbered, Known, Backed, [CNext]_cvars
  PROVE  Known' /\ Backed'
<1> USE DEF Known, Backed
<1>1. ASSUME NEW key \in Keys, Delete(key)
      PROVE  Known' /\ Backed'
  <2>1. /\ UNCHANGED <<current, files, headFile, step>> /\ promised' = promised \ {key}
        /\ given' = [given EXCEPT ![key] = None]
    BY <1>1 DEF Delete, rebuild, disk
  <2>2. \A k \in promised' : k \in promised /\ given'[k] = given[k]
    BY <2>1 DEF Numbered, Sorted, CompactionTypeOK, Live, Held, Shard
  <2> QED
    BY <2>1, <2>2
<1>2. CASE SaveIndex
  BY <1>2 DEF SaveIndex, rows, rebuild, aux
<1>3. ASSUME NEW key \in Keys, RebuildStage(key)
      PROVE  Known' /\ Backed'
  BY <1>3 DEF RebuildStage, rows, aux
<1>4. CASE RebuildList
  BY <1>4 DEF RebuildList, rows, disk, aux, InOrder
<1>5. CASE RebuildRelease \/ \E n \in Numbers : RebuildUnlink(n) \/ RebuildRename(n)
  BY <1>5 DEF RebuildRelease, RebuildUnlink, RebuildRename, Unlinks
<1>6. ASSUME NEW key \in Keys, NEW v \in Vectors, AddCaught(key, v)
      PROVE  Known' /\ Backed'
  BY <1>6, CaughtIs DEF Unlinks, Renames
<1>10. CASE RebuildView
  <2>1. step' = "move"
    BY <1>10 DEF RebuildView
  <2> QED
    BY <2>1
<1>7. CASE RebuildSwap
  <2>1. step' = "idle"
    BY <1>7 DEF RebuildSwap, NoRebuild
  <2> QED
    BY <1>7, <2>1, SwapKnown
<1>8. CASE OpenAgain
  <2>1. step' = "idle"
    BY <1>8 DEF OpenAgain, NoRebuild
  <2> QED
    BY <1>8, <2>1, ReopenKnown
<1>9. CASE UNCHANGED cvars
  BY <1>9 DEF cvars, rows, rebuild, disk, aux, InOrder
<1> QED
  BY <1>1, <1>2, <1>3, <1>4, <1>5, <1>6, <1>7, <1>8, <1>9, <1>10, AddBacked, StartBacked DEF CNext

(* A rebuild that dies while it stages the fresh shards leaves every point *)
(* as it found it on disk, whatever was added and saved beside it.         *)
THEOREM StagingAlwaysHarmless == CSpec => []StagingIsHarmless
<1>1. CInit => Known /\ Backed
  <2>1. CInit => current.numbers = <<>> /\ step = "idle"
    BY NothingOpened DEF CInit
  <2> QED
    BY <2>1 DEF Known, Backed
<1>2. Numbered /\ Known /\ Backed /\ [CNext]_cvars => (Known /\ Backed)'
  BY BackedStays
<1> QED
  BY <1>1, <1>2, AlwaysNumbered, BackedIsHarmless, PTL DEF CSpec
===============================================================================
