---------------------------- MODULE CollectionProofs ----------------------------
(***************************************************************************)
(* What holds of a collection for every set of ids and vectors and however *)
(* many row numbers are handed out.                                        *)
(*                                                                         *)
(*   1. type correctness, with the numbering of the rows;                  *)
(*   2. an inductive invariant: what a batch under way has still to write, *)
(*      what the index file owes, and what a rebuild under way has read;   *)
(*   3. from it, that settled points agree in every copy, and that the     *)
(*      swap of a rebuild changes no answer;                               *)
(*   4. the same over an index that implements DurableMap and is released  *)
(*      before a rebuild replaces it: the invariant with what the map owes *)
(*      in place of the file.                                              *)
(***************************************************************************)
EXTENDS CollectionOverIndex, FiniteSetTheorems, TLAPS

-------------------------------------------------------------------------------
(* The invariant                                                           *)

Batch == Given(add.batch)

(* A batch under way is in the rows, in the store once it has been there,  *)
(* unless a delete took it out again, and not settled.                     *)
BatchUnderWay ==
  /\ add.at # "idle" => Batch \cap settled = {} /\ \A id \in Batch : text[id] = add.batch[id]
  /\ add.at \in {"replace", "index"} =>
       \A id \in Batch \ deleting : stored[id] = add.batch[id]

(* Rows have texts, saved points are settled, and with the flag down the   *)
(* file has what settled points say.                                       *)
FileInStep ==
  /\ \A i \in Live : text[row[i]] # None
  /\ durable \subseteq settled
  /\ ~dirty => \A i \in Live : row[i] \in settled => saved[i] = text[row[i]]

ReadBy == keys \ (left \cup {asked})

(* Row i is one an add() has written to the store and not to the index.    *)
BeingReplaced(i) ==
  add.at \in {"replace", "index"} /\ i \in Live /\ row[i] \in Batch

(* A rebuild under way tracks what is written and deleted beside it, and   *)
(* row numbers handed out since it began are beyond its keys.              *)
Tracked ==
  rebuilding =>
    /\ tracking
    /\ keys \subseteq Live \cup deleted
    /\ \A k \in keys : k < next
    /\ Given(fresh) \subseteq keys
    /\ \A i \in Live \ touched : row[i] \in settled => i \in keys
    /\ \A i \in touched : index[i] = None => add.at = "index" /\ BeingReplaced(i)

(* A key it has read and that was not written since is in its new index as *)
(* it is in the old one, or, if it is not there, as it is in the store.    *)
ReadIsExact ==
  rebuilding =>
    /\ asked # None /\ asked \notin touched => index[asked] = None
    /\ \A i \in ReadBy \ touched : index[i] # None => fresh[i] = index[i]
    /\ \A i \in (ReadBy \ touched) \cap Live :
         index[i] = None /\ ~BeingReplaced(i) /\ stored[row[i]] # None
           => fresh[i] = stored[row[i]]

IInv ==
  /\ TypeOK
  /\ SettledPointsAgree
  /\ BatchUnderWay
  /\ FileInStep
  /\ Tracked
  /\ ReadIsExact

-------------------------------------------------------------------------------
(* Type correctness                                                        *)

(* An id keeps to one row when new ids are given the numbers from next on. *)
LEMMA NewRows ==
  ASSUME TypeOK, NEW batch \in Batches, AddRows(batch)
  PROVE  /\ row' \in [Idxs -> Ids \cup {None}]
         /\ \A i, j \in Live' : row'[i] = row'[j] => i = j
         /\ next' \in 0..MaxIdx /\ \A i \in Live' : i < next'
         /\ \A i \in Live : i \in Live' /\ row'[i] = row[i]
         /\ \A i \in Live' \ Live : row'[i] \in Given(batch) /\ next <= i
         /\ next <= next'
         /\ \A id \in Given(batch) : \E i \in Live' : row'[i] = id
<1> DEFINE new == Given(batch) \ {row[i] : i \in Live}
           taken == next..(next + Cardinality(new) - 1)
<1>1. new \subseteq Ids /\ Cardinality(new) \in Nat
  <2>1. new \subseteq Ids
    BY DEF Given, Batches
  <2> QED
    BY <2>1, IdsAssumption, FS_Subset, FS_CardinalityType
<1>2. PICK place \in Bijection(taken, new) :
        row' = [i \in Idxs |-> IF i \in taken THEN place[i] ELSE row[i]]
  BY DEF AddRows
<1>3. taken \subseteq Idxs /\ next' = next + Cardinality(new)
  BY DEF AddRows
<1>4. place \in [taken -> new] /\ (\A a, b \in taken : place[a] = place[b] => a = b)
      /\ \A id \in new : \E a \in taken : place[a] = id
  BY <1>2 DEF Bijection, Injection, Surjection, IsInjective
<1> HIDE DEF new
<1>5. next \in Nat /\ next \in 0..MaxIdx /\ row \in [Idxs -> Ids \cup {None}] /\ \A i \in Live : i < next
  BY MaxIdxAssumption DEF TypeOK
<1>6. \A i \in taken : i \in Idxs /\ i \notin Live /\ row'[i] = place[i] /\ row'[i] \in new
  BY <1>1, <1>2, <1>3, <1>4, <1>5
<1>7. \A i \in Idxs \ taken : row'[i] = row[i]
  BY <1>2
<1>8. Live' = Live \cup taken
  BY <1>1, <1>3, <1>5, <1>6, <1>7, IdsAssumption DEF Live
<1>9. row' \in [Idxs -> Ids \cup {None}]
  BY <1>1, <1>2, <1>3, <1>4, <1>5
<1>10. \A i, j \in Live' : row'[i] = row'[j] => i = j
  <2>1. \A i \in taken, j \in Live : row'[i] # row'[j]
    BY <1>1, <1>3, <1>5, <1>6, <1>7 DEF new, Live
  <2> QED
    BY <1>4, <1>6, <1>7, <1>8, <2>1 DEF TypeOK, Live
<1>11. next' \in 0..MaxIdx /\ \A i \in Live' : i < next'
  <2>1. CASE Cardinality(new) = 0
    BY <1>1, <1>3, <1>5, <1>8, <2>1
  <2>2. CASE Cardinality(new) # 0
    <3>1. next + Cardinality(new) - 1 \in taken
      BY <1>1, <1>5, <2>2
    <3>2. next' \in 0..MaxIdx
      BY <1>1, <1>3, <1>5, <3>1, MaxIdxAssumption DEF Idxs
    <3>3. \A i \in Live : i < next'
      BY <1>1, <1>3, <1>5 DEF Live, Idxs
    <3>4. \A i \in taken : i < next'
      BY <1>1, <1>3, <1>5
    <3> QED
      BY <1>8, <3>2, <3>3, <3>4
  <2> QED
    BY <2>1, <2>2
<1>12. ASSUME NEW id \in Given(batch)
       PROVE  \E i \in Live' : row'[i] = id
  <2>1. CASE id \in new
    BY <1>4, <1>6, <1>8, <2>1
  <2>2. CASE id \notin new
    <3>1. PICK i \in Live : row[i] = id
      BY <2>2 DEF new
    <3> QED
      BY <1>6, <1>7, <1>8, <3>1 DEF Live
  <2> QED
    BY <2>1, <2>2
<1>13. new \subseteq Given(batch)
  BY DEF new
<1>14. \A i \in Live : i \in Live' /\ row'[i] = row[i]
  BY <1>6, <1>7, <1>8 DEF Live
<1>15. \A i \in Live' \ Live : row'[i] \in Given(batch) /\ next <= i
  BY <1>3, <1>5, <1>6, <1>8, <1>13 DEF Idxs
<1>16. next <= next'
  BY <1>1, <1>3, <1>5
<1> QED
  BY <1>9, <1>10, <1>11, <1>12, <1>14, <1>15, <1>16

(* What a batch gives each row is a vector or nothing.                     *)
LEMMA BatchByRowType ==
  ASSUME TypeOK
  PROVE  BatchByRow \in ByRow
BY DEF TypeOK, BatchByRow, ByRow, Batches, Live

LEMMA RebuiltType ==
  ASSUME TypeOK
  PROVE  Rebuilt \in ByRow
BY DEF TypeOK, Rebuilt, ByRow, Over, Without

LEMMA TypeInit == Init => TypeOK
<1> SUFFICES ASSUME Init PROVE TypeOK
  OBVIOUS
<1>1. Live = {} /\ row \in [Idxs -> Ids \cup {None}] /\ next \in 0..MaxIdx
  BY MaxIdxAssumption DEF Init, Empty, Live
<1>2. text \in Batches /\ stored \in Batches /\ index \in ByRow /\ saved \in ByRow /\ fresh \in ByRow
  BY DEF Init, Empty, Batches, ByRow
<1>3. add \in [at : {"idle", "store", "replace", "index"}, batch : Batches]
  BY DEF Init, Idle, Empty, Batches
<1> QED
  BY <1>1, <1>2, <1>3 DEF Init, TypeOK

(* Steps that leave the rows alone leave their numbering alone.            *)
LEMMA SameRows ==
  ASSUME TypeOK, UNCHANGED points
  PROVE  /\ row' \in [Idxs -> Ids \cup {None}]
         /\ \A i, j \in Live' : row'[i] = row'[j] => i = j
         /\ next' \in 0..MaxIdx /\ \A i \in Live' : i < next'
         /\ text' \in Batches
         /\ Live' = Live
BY DEF TypeOK, points, Live

LEMMA TypeStep == TypeOK /\ [Next]_vars => TypeOK'
<1> SUFFICES ASSUME TypeOK, [Next]_vars PROVE TypeOK'
  OBVIOUS
<1>1. ASSUME NEW batch \in Batches, AddRows(batch) PROVE TypeOK'
  <2>1. text' \in Batches
    BY <1>1 DEF AddRows, TypeOK, Over, Batches
  <2>2. add' \in [at : {"idle", "store", "replace", "index"}, batch : Batches]
    BY <1>1 DEF AddRows
  <2>3. settled' \in SUBSET Ids /\ durable' \in SUBSET Ids
    BY <1>1 DEF AddRows, TypeOK
  <2> QED
    BY <1>1, <2>1, <2>2, <2>3, NewRows DEF AddRows, TypeOK, disk, rebuild, tracks
<1>2. CASE AddStore
  <2>1. stored' \in Batches
    BY <1>2 DEF AddStore, TypeOK, Over, Batches
  <2> QED
    BY <1>2, <2>1, SameRows DEF AddStore, TypeOK, disk, rebuild, tracks, promises
<1>3. CASE AddRefused
  <2>1. add' \in [at : {"idle", "store", "replace", "index"}, batch : Batches]
    BY <1>3 DEF AddRefused, Idle, Empty, Batches
  <2> QED
    BY <1>3, <2>1, SameRows DEF AddRefused, TypeOK, disk, rebuild, tracks, promises
<1>4. CASE AddReplace
  <2>1. index' \in ByRow
    BY <1>4 DEF AddReplace, TypeOK, Without, ByRow
  <2> QED
    BY <1>4, <2>1, SameRows DEF AddReplace, TypeOK, disk, rebuild, tracks, promises
<1>5. CASE AddIndex
  <2>1. index' \in ByRow /\ Given(BatchByRow) \subseteq Idxs
    BY <1>5, BatchByRowType DEF AddIndex, TypeOK, Over, ByRow, Given
  <2>2. settled' \in SUBSET Ids /\ touched' \in SUBSET Idxs
    BY <1>5, <2>1 DEF AddIndex, TypeOK, Given, Batches
  <2>3. add' \in [at : {"idle", "store", "replace", "index"}, batch : Batches]
    BY <1>5 DEF AddIndex, Idle, Empty, Batches
  <2> QED
    BY <1>5, <2>1, <2>2, <2>3, SameRows DEF AddIndex, TypeOK, rebuild
<1>6. ASSUME NEW ids \in SUBSET Ids, DeleteStore(ids) PROVE TypeOK'
  <2>1. stored' \in Batches
    BY <1>6 DEF DeleteStore, TypeOK, Without, Batches
  <2> QED
    BY <1>6, <2>1, SameRows DEF DeleteStore, TypeOK, disk, rebuild, tracks, promises
<1>7. CASE DeleteRows
  <2>1. /\ row' \in [Idxs -> Ids \cup {None}]
        /\ Live' \subseteq Live /\ \A i \in Live' : row'[i] = row[i]
    BY <1>7 DEF DeleteRows, TypeOK, Without, Live
  <2>2. text' \in Batches /\ RowsOf(deleting) \subseteq Idxs
    BY <1>7 DEF DeleteRows, TypeOK, Without, Batches, RowsOf, Live
  <2> QED
    BY <1>7, <2>1, <2>2 DEF DeleteRows, TypeOK, disk, rebuild
<1>8. CASE Save
  BY <1>8, SameRows DEF Save, TypeOK, rebuild, tracks
<1>9. CASE RebuildStart
  <2>1. Live \subseteq Idxs /\ fresh' \in ByRow
    BY <1>9 DEF RebuildStart, Live, Empty, ByRow
  <2> QED
    BY <1>9, <2>1, SameRows DEF RebuildStart, TypeOK, disk, promises
<1>10. ASSUME NEW k \in Idxs, RebuildReadIndex(k) PROVE TypeOK'
  <2>1. fresh' \in ByRow /\ left' \subseteq keys /\ asked' \in keys \cup {None}
    BY <1>10 DEF RebuildReadIndex, TypeOK, ByRow
  <2> QED
    BY <1>10, <2>1, SameRows DEF RebuildReadIndex, TypeOK, disk, tracks, promises
<1>11. CASE RebuildReadStore
  <2>1. asked \in Idxs /\ stored[row[asked]] \in Vectors \cup {None}
    BY <1>11 DEF RebuildReadStore, TypeOK, Batches
  <2>2. fresh' \in ByRow
    BY <1>11, <2>1 DEF RebuildReadStore, TypeOK, ByRow
  <2> QED
    BY <1>11, <2>2, SameRows DEF RebuildReadStore, TypeOK, disk, tracks, promises
<1>12. CASE RebuildFails
  <2>1. fresh' \in ByRow
    BY <1>12 DEF RebuildFails, Empty, ByRow
  <2> QED
    BY <1>12, <2>1, SameRows DEF RebuildFails, TypeOK, disk, tracks, promises
<1>13. CASE RebuildSwap
  <2>1. fresh' \in ByRow
    BY <1>13 DEF RebuildSwap, SwapIn, Empty, ByRow
  <2> QED
    BY <1>13, <2>1, RebuiltType, SameRows DEF RebuildSwap, SwapIn, TypeOK
<1>14. CASE Reopen
  <2>1. fresh' \in ByRow /\ add' \in [at : {"idle", "store", "replace", "index"}, batch : Batches]
    BY <1>14 DEF Reopen, Restart, Idle, Empty, ByRow, Batches
  <2>2. Live' = Live /\ next' \in 0..MaxIdx /\ \A i \in Live : i < next'
    BY <1>14 DEF Reopen, Restart, FollowsRows, Live
  <2> QED
    BY <1>14, <2>1, <2>2 DEF Reopen, Restart, KeepPromises, TypeOK
<1>15. CASE UNCHANGED vars
  BY <1>15, SameRows DEF vars, TypeOK, disk, rebuild, tracks, promises
<1> QED
  BY <1>1, <1>2, <1>3, <1>4, <1>5, <1>6, <1>7, <1>8, <1>9, <1>10, <1>11, <1>12,
     <1>13, <1>14, <1>15 DEF Next

(* Every variable keeps its type, an id never has two rows, and no row     *)
(* number is at or beyond the next one to be handed out (TypeOK).          *)
THEOREM TypeCorrect == Spec => []TypeOK
BY TypeInit, TypeStep, PTL DEF Spec

-------------------------------------------------------------------------------
(* What each step does to the invariant                                    *)

USE DEF IInv

(* The rows a batch under way is for, and what it has for them.            *)
LEMMA RowsOfBatch ==
  ASSUME TypeOK
  PROVE  /\ \A i \in Idxs : i \in Given(BatchByRow) <=> i \in Live /\ row[i] \in Batch
         /\ \A i \in Given(BatchByRow) : i \in Idxs /\ BatchByRow[i] = add.batch[row[i]]
BY DEF TypeOK, BatchByRow, Batch, Given, Batches, Live

(* What the swap installs for each row number.                             *)
LEMMA RebuiltAt ==
  ASSUME TypeOK, NEW i \in Idxs
  PROVE  Rebuilt[i] = IF i \in touched \cap Live /\ index[i] # None THEN index[i]
                      ELSE IF i \in deleted \ Live THEN None ELSE fresh[i]
BY DEF TypeOK, Rebuilt, Over, Without, ByRow

(* The swap, row number by row number.                                     *)
LEMMA SwapIsExact ==
  ASSUME IInv, LockFree, AllRead, NEW i \in Idxs
  PROVE  /\ i \notin Live => Rebuilt[i] = None
         /\ i \in Live /\ index[i] # None /\ (i \in keys \/ row[i] \in settled)
              => Rebuilt[i] = index[i]
         /\ i \in Live \cap keys /\ index[i] = None /\ stored[row[i]] # None
              => Rebuilt[i] = stored[row[i]]
<1>1. rebuilding /\ add.at = "idle" /\ left = {} /\ asked = None
  BY DEF AllRead, LockFree
<1>2. ReadBy = keys /\ ~BeingReplaced(i)
  BY <1>1, NoneIsNoNumber DEF ReadBy, BeingReplaced, TypeOK, Idxs
<1>3. CASE i \notin Live
  <2>1. i \notin deleted => i \notin keys
    BY <1>1, <1>3 DEF Tracked
  <2>2. i \notin keys => fresh[i] = None
    BY <1>1 DEF Tracked, Given, TypeOK, ByRow
  <2> QED
    BY <1>3, <2>1, <2>2, RebuiltAt
<1>4. CASE i \in Live \cap touched
  <2>1. index[i] # None
    BY <1>1, <1>4 DEF Tracked
  <2> QED
    BY <1>4, <2>1, RebuiltAt
<1>5. CASE i \in Live \ touched
  <2>1. row[i] \in settled => i \in keys
    BY <1>1, <1>5 DEF Tracked
  <2>2. i \in keys /\ index[i] # None => fresh[i] = index[i]
    BY <1>1, <1>2, <1>5 DEF ReadIsExact
  <2>3. i \in keys /\ index[i] = None /\ stored[row[i]] # None => fresh[i] = stored[row[i]]
    BY <1>1, <1>2, <1>5 DEF ReadIsExact
  <2> QED
    BY <1>5, <2>1, <2>2, <2>3, RebuiltAt
<1> QED
  BY <1>3, <1>4, <1>5

(* A settled point has a text and its vector in the index.                 *)
LEMMA SettledInIndex ==
  ASSUME IInv, NEW i \in Live, row[i] \in settled
  PROVE  index[i] = text[row[i]] /\ index[i] # None
BY DEF SettledPointsAgree, FileInStep

LEMMA AgreeStep == IInv /\ [Next]_vars => SettledPointsAgree'
<1> SUFFICES ASSUME IInv, [Next]_vars PROVE SettledPointsAgree'
  OBVIOUS
<1>1. ASSUME NEW batch \in Batches, AddRows(batch) PROVE SettledPointsAgree'
  <2>1. ASSUME NEW i \in Live', row'[i] \in settled'
        PROVE  i \in Live /\ row'[i] = row[i] /\ text'[row[i]] = text[row[i]]
    <3>1. row'[i] \notin Given(batch) /\ row'[i] \in Ids
      BY <1>1, <2>1 DEF AddRows, TypeOK
    <3>2. i \in Live /\ row'[i] = row[i]
      BY <1>1, <3>1, NewRows
    <3> QED
      BY <1>1, <3>1, <3>2 DEF AddRows, Over, Given, TypeOK, Batches
  <2>2. UNCHANGED <<stored, index, saved, deleting>> /\ settled' \subseteq settled
        /\ durable' \subseteq durable /\ durable' \subseteq settled'
    BY <1>1 DEF AddRows, disk, FileInStep
  <2> QED
    BY <2>1, <2>2 DEF SettledPointsAgree
<1>2. CASE AddStore
  <2>1. \A id \in settled : stored'[id] = stored[id]
    BY <1>2 DEF AddStore, BatchUnderWay, Batch, Over, Given, TypeOK, Batches
  <2> QED
    BY <1>2, <2>1 DEF AddStore, SettledPointsAgree, points, disk, promises, Live
<1>3. CASE AddRefused
  BY <1>3 DEF AddRefused, SettledPointsAgree, points, disk, promises, Live
<1>4. CASE AddReplace
  <2>1. \A i \in Live : row[i] \in settled => index'[i] = index[i]
    BY <1>4, RowsOfBatch DEF AddReplace, BatchUnderWay, Without, TypeOK, ByRow, Live
  <2> QED
    BY <1>4, <2>1 DEF AddReplace, SettledPointsAgree, points, disk, promises, Live
<1>5. CASE AddIndex
  <2>1. UNCHANGED <<row, text, stored, saved, deleting, durable>> /\ Live' = Live
        /\ settled' = settled \cup Batch
    BY <1>5 DEF AddIndex, points, Live, Batch
  <2>2. ASSUME NEW i \in Live, row[i] \in Batch
        PROVE  index'[i] = text[row[i]] /\ (row[i] \notin deleting => stored[row[i]] = text[row[i]])
    <3>1. i \in Given(BatchByRow) /\ BatchByRow[i] = add.batch[row[i]] /\ i \in DOMAIN index
      BY <2>2, RowsOfBatch DEF Live, TypeOK, ByRow
    <3>2. index'[i] = BatchByRow[i]
      BY <1>5, <3>1 DEF AddIndex, Over, Given
    <3> QED
      BY <1>5, <2>2, <3>1, <3>2 DEF AddIndex, BatchUnderWay
  <2>3. ASSUME NEW i \in Live, row[i] \notin Batch
        PROVE  index'[i] = index[i]
    <3>1. i \notin Given(BatchByRow) /\ i \in DOMAIN index /\ i \in DOMAIN BatchByRow
      BY <2>3, RowsOfBatch, BatchByRowType DEF Live, TypeOK, ByRow
    <3> QED
      BY <1>5, <3>1 DEF AddIndex, Over, Given
  <2> QED
    BY <2>1, <2>2, <2>3 DEF SettledPointsAgree
<1>6. ASSUME NEW ids \in SUBSET Ids, DeleteStore(ids) PROVE SettledPointsAgree'
  <2>1. \A id \in Ids \ ids : stored'[id] = stored[id]
    BY <1>6 DEF DeleteStore, Without, TypeOK, Batches
  <2> QED
    BY <1>6, <2>1 DEF DeleteStore, SettledPointsAgree, points, disk, promises, Live, TypeOK
<1>7. CASE DeleteRows
  <2>1. \A i \in Live' : i \in Live /\ row'[i] = row[i] /\ row[i] \in Ids \ deleting
    BY <1>7 DEF DeleteRows, Without, RowsOf, Live, TypeOK
  <2>2. \A id \in Ids \ deleting : text'[id] = text[id]
    BY <1>7 DEF DeleteRows, Without, TypeOK, Batches
  <2> QED
    BY <1>7, <2>1, <2>2 DEF DeleteRows, SettledPointsAgree, disk
<1>8. CASE Save
  <2>1. \A i \in Live : row[i] \in settled => saved'[i] = text[row[i]]
    BY <1>8 DEF Save, SettledPointsAgree, FileInStep
  <2> QED
    BY <1>8, <2>1 DEF Save, SettledPointsAgree, points, Live
<1>9. CASE RebuildStart
  BY <1>9 DEF RebuildStart, SettledPointsAgree, points, disk, promises, Live
<1>10. ASSUME NEW k \in Idxs, RebuildReadIndex(k) PROVE SettledPointsAgree'
  BY <1>10 DEF RebuildReadIndex, SettledPointsAgree, points, disk, promises, Live
<1>11. CASE RebuildReadStore
  BY <1>11 DEF RebuildReadStore, SettledPointsAgree, points, disk, promises, Live
<1>12. CASE RebuildFails
  BY <1>12 DEF RebuildFails, SettledPointsAgree, points, disk, promises, Live
<1>13. CASE RebuildSwap
  <2>1. \A i \in Live : row[i] \in settled => Rebuilt[i] = text[row[i]]
    BY <1>13, SwapIsExact, SettledInIndex DEF RebuildSwap, SwapIn, Live
  <2> QED
    BY <1>13, <2>1 DEF RebuildSwap, SwapIn, SettledPointsAgree, FileInStep, points, Live
<1>14. CASE Reopen
  <2>1. Live' = Live
    BY <1>14 DEF Reopen, Restart, Live
  <2> QED
    BY <1>14, <2>1 DEF Reopen, Restart, KeepPromises, SettledPointsAgree, FileInStep
<1>15. CASE UNCHANGED vars
  BY <1>15 DEF vars, SettledPointsAgree, points, disk, promises, Live
<1> QED
  BY <1>1, <1>2, <1>3, <1>4, <1>5, <1>6, <1>7, <1>8, <1>9, <1>10, <1>11, <1>12,
     <1>13, <1>14, <1>15 DEF Next

LEMMA BatchStep == IInv /\ [Next]_vars => BatchUnderWay'
<1> SUFFICES ASSUME IInv, [Next]_vars PROVE BatchUnderWay'
  OBVIOUS
<1>1. ASSUME NEW batch \in Batches, AddRows(batch) PROVE BatchUnderWay'
  BY <1>1 DEF AddRows, BatchUnderWay, Batch, Over, Given, TypeOK, Batches
<1>2. CASE AddStore
  BY <1>2 DEF AddStore, BatchUnderWay, Batch, Over, Given, TypeOK, Batches, points, promises
<1>3. CASE AddRefused
  BY <1>3 DEF AddRefused, BatchUnderWay, Idle
<1>4. CASE AddReplace
  BY <1>4 DEF AddReplace, BatchUnderWay, Batch, points, promises
<1>5. CASE AddIndex
  BY <1>5 DEF AddIndex, BatchUnderWay, Idle
<1>6. ASSUME NEW ids \in SUBSET Ids, DeleteStore(ids) PROVE BatchUnderWay'
  <2>1. \A id \in Ids \ ids : stored'[id] = stored[id]
    BY <1>6 DEF DeleteStore, Without, TypeOK, Batches
  <2>2. Batch \subseteq Ids
    BY DEF Batch, Given, TypeOK, Batches
  <2> QED
    BY <1>6, <2>1, <2>2 DEF DeleteStore, BatchUnderWay, Batch, points, promises
<1>7. CASE DeleteRows
  BY <1>7 DEF DeleteRows, LockFree, BatchUnderWay
<1>8. CASE Save
  BY <1>8 DEF Save, LockFree, BatchUnderWay
<1>9. CASE RebuildStart
  BY <1>9 DEF RebuildStart, LockFree, BatchUnderWay
<1>10. ASSUME NEW k \in Idxs, RebuildReadIndex(k) PROVE BatchUnderWay'
  BY <1>10 DEF RebuildReadIndex, BatchUnderWay, Batch, points, promises
<1>11. CASE RebuildReadStore
  BY <1>11 DEF RebuildReadStore, BatchUnderWay, Batch, points, promises
<1>12. CASE RebuildFails
  BY <1>12 DEF RebuildFails, BatchUnderWay, Batch, points, promises
<1>13. CASE RebuildSwap
  BY <1>13 DEF RebuildSwap, SwapIn, LockFree, BatchUnderWay
<1>14. CASE Reopen
  BY <1>14 DEF Reopen, Restart, Idle, BatchUnderWay
<1>15. CASE UNCHANGED vars
  BY <1>15 DEF vars, BatchUnderWay, Batch, points, promises
<1> QED
  BY <1>1, <1>2, <1>3, <1>4, <1>5, <1>6, <1>7, <1>8, <1>9, <1>10, <1>11, <1>12,
     <1>13, <1>14, <1>15 DEF Next

LEMMA FileStep == IInv /\ [Next]_vars => FileInStep'
<1> SUFFICES ASSUME IInv, [Next]_vars PROVE FileInStep'
  OBVIOUS
<1>1. ASSUME NEW batch \in Batches, AddRows(batch) PROVE FileInStep'
  <2>1. \A id \in Ids : text'[id] = IF id \in Given(batch) THEN batch[id] ELSE text[id]
    BY <1>1 DEF AddRows, Over, Given, TypeOK, Batches
  <2>2. \A i \in Live' : row'[i] \in Ids
                         /\ (row'[i] \notin Given(batch) => i \in Live /\ row'[i] = row[i])
    BY <1>1, NewRows DEF Live, TypeOK
  <2>3. \A id \in Given(batch) : batch[id] # None
    BY DEF Given
  <2> QED
    BY <1>1, <2>1, <2>2, <2>3 DEF AddRows, FileInStep, disk
<1>2. CASE AddStore
  BY <1>2 DEF AddStore, FileInStep, points, disk, promises, Live
<1>3. CASE AddRefused
  BY <1>3 DEF AddRefused, FileInStep, points, disk, promises, Live
<1>4. CASE AddReplace
  BY <1>4 DEF AddReplace, FileInStep, points, disk, promises, Live
<1>5. CASE AddIndex
  BY <1>5 DEF AddIndex, FileInStep, points, Live
<1>6. ASSUME NEW ids \in SUBSET Ids, DeleteStore(ids) PROVE FileInStep'
  BY <1>6 DEF DeleteStore, FileInStep, points, disk, promises, Live
<1>7. CASE DeleteRows
  <2>1. \A i \in Live' : i \in Live /\ row'[i] = row[i] /\ row[i] \in Ids \ deleting
    BY <1>7 DEF DeleteRows, Without, RowsOf, Live, TypeOK
  <2>2. \A id \in Ids \ deleting : text'[id] = text[id]
    BY <1>7 DEF DeleteRows, Without, TypeOK, Batches
  <2> QED
    BY <1>7, <2>1, <2>2 DEF DeleteRows, FileInStep, disk
<1>8. CASE Save
  BY <1>8 DEF Save, FileInStep, SettledPointsAgree, points, Live
<1>9. CASE RebuildStart
  BY <1>9 DEF RebuildStart, FileInStep, points, disk, promises, Live
<1>10. ASSUME NEW k \in Idxs, RebuildReadIndex(k) PROVE FileInStep'
  BY <1>10 DEF RebuildReadIndex, FileInStep, points, disk, promises, Live
<1>11. CASE RebuildReadStore
  BY <1>11 DEF RebuildReadStore, FileInStep, points, disk, promises, Live
<1>12. CASE RebuildFails
  BY <1>12 DEF RebuildFails, FileInStep, points, disk, promises, Live
<1>13. CASE RebuildSwap
  <2>1. \A i \in Live : row[i] \in settled => Rebuilt[i] = text[row[i]]
    BY <1>13, SwapIsExact, SettledInIndex DEF RebuildSwap, SwapIn, Live
  <2> QED
    BY <1>13, <2>1 DEF RebuildSwap, SwapIn, FileInStep, points, Live
<1>14. CASE Reopen
  BY <1>14 DEF Reopen, Restart, KeepPromises, FileInStep, SettledPointsAgree, Live
<1>15. CASE UNCHANGED vars
  BY <1>15 DEF vars, FileInStep, points, disk, promises, Live
<1> QED
  BY <1>1, <1>2, <1>3, <1>4, <1>5, <1>6, <1>7, <1>8, <1>9, <1>10, <1>11, <1>12,
     <1>13, <1>14, <1>15 DEF Next


LEMMA TrackStep == IInv /\ [Next]_vars => Tracked'
<1> SUFFICES ASSUME IInv, [Next]_vars, rebuilding' PROVE Tracked'
  BY DEF Tracked
<1>1. ASSUME NEW batch \in Batches, AddRows(batch) PROVE Tracked'
  <2>1. UNCHANGED <<index, keys, fresh, tracking, touched, deleted>> /\ rebuilding
        /\ settled' = settled \ Given(batch) /\ add.at = "idle"
    BY <1>1 DEF AddRows, LockFree, rebuild, tracks
  <2>2. Live \subseteq Live' /\ next <= next'
        /\ \A i \in Live' : row'[i] \notin Given(batch) => i \in Live /\ row'[i] = row[i]
    BY <1>1, NewRows
  <2>3. \A k \in keys : k < next'
    BY <1>1, <2>1, <2>2, NewRows, MaxIdxAssumption DEF Tracked, TypeOK, Idxs
  <2> QED
    BY <2>1, <2>2, <2>3 DEF Tracked, Given, BeingReplaced
<1>2. CASE AddStore
  BY <1>2 DEF AddStore, Tracked, BeingReplaced, Batch, points, rebuild, tracks, promises, Live, Given
<1>3. CASE AddRefused
  BY <1>3 DEF AddRefused, Tracked, BeingReplaced, points, rebuild, tracks, promises, Live, Given
<1>4. CASE AddReplace
  <2>1. UNCHANGED <<row, next, keys, fresh, tracking, touched, deleted, settled>> /\ rebuilding /\ Live' = Live
    BY <1>4 DEF AddReplace, points, rebuild, tracks, promises, Live
  <2>2. ASSUME NEW i \in touched, index'[i] = None
        PROVE  add'.at = "index" /\ BeingReplaced(i)'
    <3>1. index[i] # None
      BY <1>4, <2>1, <2>2 DEF AddReplace, Tracked
    <3>2. i \in Given(BatchByRow)
      BY <1>4, <2>2, <3>1 DEF AddReplace, Without, TypeOK, ByRow
    <3> QED
      BY <1>4, <2>1, <3>2, RowsOfBatch DEF AddReplace, BeingReplaced, Batch, TypeOK
  <2> QED
    BY <2>1, <2>2 DEF Tracked, Given
<1>5. CASE AddIndex
  <2>1. UNCHANGED <<row, next, keys, fresh, tracking, deleted>> /\ rebuilding /\ Live' = Live
        /\ settled' = settled \cup Batch /\ tracking
    BY <1>5 DEF AddIndex, points, rebuild, Live, Batch, Tracked
  <2>2. touched' = touched \cup Given(BatchByRow)
    BY <1>5, <2>1 DEF AddIndex
  <2>3. \A i \in Live' \ touched' : row'[i] \in settled' => i \in keys
    BY <2>1, <2>2, RowsOfBatch DEF Tracked, Live
  <2>4. ASSUME NEW i \in touched' PROVE index'[i] # None
    <3>1. CASE i \in Given(BatchByRow)
      BY <1>5, <3>1, RowsOfBatch DEF AddIndex, Over, Given, TypeOK, ByRow
    <3>2. CASE i \notin Given(BatchByRow)
      <4>1. i \in Idxs /\ ~BeingReplaced(i)
        BY <2>2, <3>2, RowsOfBatch DEF BeingReplaced, TypeOK
      <4>2. index[i] # None
        BY <2>1, <2>2, <3>2, <4>1 DEF Tracked
      <4> QED
        BY <1>5, <3>2, <4>1, <4>2, BatchByRowType DEF AddIndex, Over, Given, TypeOK, ByRow
    <3> QED
      BY <3>1, <3>2
  <2> QED
    BY <2>1, <2>3, <2>4 DEF Tracked, Given
<1>6. ASSUME NEW ids \in SUBSET Ids, DeleteStore(ids) PROVE Tracked'
  BY <1>6 DEF DeleteStore, Tracked, BeingReplaced, Batch, points, rebuild, tracks, promises, Live, Given
<1>7. CASE DeleteRows
  <2>1. UNCHANGED <<next, index, keys, fresh, tracking, touched>> /\ rebuilding /\ tracking
        /\ add.at = "idle"
    BY <1>7 DEF DeleteRows, LockFree, rebuild, Tracked
  <2>2. Live = Live' \cup RowsOf(deleting) /\ \A i \in Live' : row'[i] = row[i]
    BY <1>7 DEF DeleteRows, Without, RowsOf, Live, TypeOK
  <2>3. deleted' = deleted \cup RowsOf(deleting) /\ settled' \subseteq settled
    BY <1>7, <2>1 DEF DeleteRows
  <2> QED
    BY <2>1, <2>2, <2>3 DEF Tracked, Given, BeingReplaced
<1>8. CASE Save
  BY <1>8 DEF Save, Tracked, BeingReplaced, Batch, points, rebuild, tracks, Live, Given
<1>9. CASE RebuildStart
  BY <1>9 DEF RebuildStart, Tracked, TypeOK, points, promises, Live, Given, Empty
<1>10. ASSUME NEW k \in Idxs, RebuildReadIndex(k) PROVE Tracked'
  <2>1. Given(fresh') \subseteq Given(fresh) \cup {k} /\ k \in keys
    BY <1>10 DEF RebuildReadIndex, Given, TypeOK, ByRow
  <2> QED
    BY <1>10, <2>1 DEF RebuildReadIndex, Tracked, BeingReplaced, Batch, points, tracks, promises, Live
<1>11. CASE RebuildReadStore
  <2>1. Given(fresh') \subseteq Given(fresh) \cup {asked} /\ asked \in keys
    BY <1>11 DEF RebuildReadStore, Given, TypeOK, ByRow
  <2> QED
    BY <1>11, <2>1 DEF RebuildReadStore, Tracked, BeingReplaced, Batch, points, tracks, promises, Live
<1>12. CASE RebuildFails \/ RebuildSwap \/ Reopen
  BY <1>12 DEF RebuildFails, RebuildSwap, SwapIn, Reopen, Restart
<1>13. CASE UNCHANGED vars
  BY <1>13 DEF vars, Tracked, BeingReplaced, Batch, points, rebuild, tracks, promises, Live, Given
<1> QED
  BY <1>1, <1>2, <1>3, <1>4, <1>5, <1>6, <1>7, <1>8, <1>9, <1>10, <1>11, <1>12,
     <1>13 DEF Next

LEMMA ReadStep == IInv /\ [Next]_vars => ReadIsExact'
<1> SUFFICES ASSUME IInv, [Next]_vars, rebuilding' PROVE ReadIsExact'
  BY DEF ReadIsExact
<1>1. ASSUME NEW batch \in Batches, AddRows(batch) PROVE ReadIsExact'
  <2>1. UNCHANGED <<stored, index, keys, left, asked, fresh, touched>> /\ rebuilding
        /\ add.at = "idle" /\ add'.at = "store"
    BY <1>1 DEF AddRows, LockFree, rebuild, tracks
  <2>2. \A i \in Live' \cap keys : i \in Live /\ row'[i] = row[i]
    <3>1. \A i \in keys : i < next /\ i \in Nat /\ next \in Nat
      BY <2>1, MaxIdxAssumption DEF Tracked, TypeOK, Idxs
    <3>2. \A i \in keys : ~ (next <= i)
      BY <3>1
    <3> QED
      BY <1>1, <3>2, NewRows
  <2> QED
    BY <2>1, <2>2 DEF ReadIsExact, ReadBy, BeingReplaced
<1>2. CASE AddStore
  <2>1. UNCHANGED <<row, index, keys, left, asked, fresh, touched>> /\ rebuilding /\ Live' = Live
        /\ add.at = "store" /\ add'.at = "replace" /\ Batch' = Batch
    BY <1>2 DEF AddStore, points, rebuild, tracks, Live, Batch, TypeOK
  <2>2. \A i \in Live : ~BeingReplaced(i)' => stored'[row[i]] = stored[row[i]]
    BY <1>2, <2>1 DEF AddStore, BeingReplaced, Batch, Over, Given, TypeOK, Batches, Live
  <2> QED
    BY <2>1, <2>2 DEF ReadIsExact, ReadBy, BeingReplaced
<1>3. CASE AddRefused
  BY <1>3 DEF AddRefused, ReadIsExact, ReadBy, BeingReplaced, points, rebuild, tracks, Live
<1>4. CASE AddReplace
  <2>1. UNCHANGED <<row, stored, keys, left, asked, fresh, touched>> /\ rebuilding /\ Live' = Live
        /\ add.at = "replace" /\ add'.at = "index" /\ Batch' = Batch
    BY <1>4 DEF AddReplace, points, rebuild, tracks, Live, Batch, TypeOK
  <2>2. \A i \in Idxs : index'[i] = IF i \in Given(BatchByRow) THEN None ELSE index[i]
    BY <1>4 DEF AddReplace, Without, TypeOK, ByRow
  <2>3. \A i \in Idxs : i \in Given(BatchByRow) <=> BeingReplaced(i)
    BY <2>1, RowsOfBatch DEF BeingReplaced
  <2>4. keys \subseteq Idxs
    BY DEF TypeOK
  <2>5. \A i \in Idxs : BeingReplaced(i)' <=> BeingReplaced(i)
    BY <2>1 DEF BeingReplaced
  <2> QED
    BY <2>1, <2>2, <2>3, <2>4, <2>5 DEF ReadIsExact, ReadBy, TypeOK
<1>5. CASE AddIndex
  <2>1. UNCHANGED <<row, stored, keys, left, asked, fresh>> /\ rebuilding /\ Live' = Live
        /\ touched' = touched \cup Given(BatchByRow) /\ add.at = "index"
    BY <1>5 DEF AddIndex, points, rebuild, Live, Tracked
  <2>2. \A i \in Idxs \ touched' : index'[i] = index[i] /\ ~BeingReplaced(i)
    BY <1>5, <2>1, RowsOfBatch, BatchByRowType DEF AddIndex, Over, Given, TypeOK, ByRow, BeingReplaced
  <2>3. keys \subseteq Idxs /\ asked \in keys \cup {None}
    BY DEF TypeOK
  <2> QED
    BY <2>1, <2>2, <2>3 DEF ReadIsExact, ReadBy
<1>6. ASSUME NEW ids \in SUBSET Ids, DeleteStore(ids) PROVE ReadIsExact'
  <2>1. UNCHANGED <<row, index, keys, left, asked, fresh, touched, add>> /\ rebuilding /\ Live' = Live
    BY <1>6 DEF DeleteStore, points, rebuild, tracks, Live
  <2>2. \A i \in Live : stored'[row[i]] # None => stored'[row[i]] = stored[row[i]]
    BY <1>6 DEF DeleteStore, Without, TypeOK, Batches, Live
  <2>3. \A i \in Live : BeingReplaced(i)' <=> BeingReplaced(i)
    BY <2>1 DEF BeingReplaced, Batch
  <2> QED
    BY <2>1, <2>2, <2>3 DEF ReadIsExact, ReadBy
<1>7. CASE DeleteRows
  <2>1. UNCHANGED <<stored, index, keys, left, asked, fresh, touched, add>> /\ rebuilding /\ add.at = "idle"
    BY <1>7 DEF DeleteRows, LockFree, rebuild
  <2>2. \A i \in Live' : i \in Live /\ row'[i] = row[i]
    BY <1>7 DEF DeleteRows, Without, Live, TypeOK
  <2> QED
    BY <2>1, <2>2 DEF ReadIsExact, ReadBy, BeingReplaced
<1>8. CASE Save
  BY <1>8 DEF Save, ReadIsExact, ReadBy, BeingReplaced, Batch, points, rebuild, tracks, Live
<1>9. CASE RebuildStart
  BY <1>9 DEF RebuildStart, ReadIsExact, ReadBy
<1>10. ASSUME NEW k \in Idxs, RebuildReadIndex(k) PROVE ReadIsExact'
  <2>1. UNCHANGED <<row, stored, index, keys, touched, add>> /\ rebuilding /\ Live' = Live
        /\ asked = None /\ k \in left /\ left' = left \ {k}
    BY <1>10 DEF RebuildReadIndex, points, tracks, Live
  <2>2. fresh'[k] = index[k] /\ \A i \in Idxs \ {k} : fresh'[i] = fresh[i]
    BY <1>10 DEF RebuildReadIndex, TypeOK, ByRow
  <2>3. asked' = IF index[k] = None THEN k ELSE None
    BY <1>10 DEF RebuildReadIndex
  <2>4. ReadBy' \subseteq ReadBy \cup {k} /\ (index[k] = None => k \notin ReadBy') /\ ReadBy' \subseteq Idxs
    BY <2>1, <2>3, NoneIsNoNumber DEF ReadBy, TypeOK, Idxs
  <2>5. \A i \in Idxs : BeingReplaced(i)' <=> BeingReplaced(i)
    BY <2>1 DEF BeingReplaced, Batch
  <2> QED
    BY <2>1, <2>2, <2>3, <2>4, <2>5 DEF ReadIsExact
<1>11. CASE RebuildReadStore
  <2>1. UNCHANGED <<row, stored, index, keys, left, touched, add>> /\ rebuilding /\ Live' = Live
        /\ asked # None /\ asked' = None
    BY <1>11 DEF RebuildReadStore, points, tracks, Live
  <2>2. asked \in Idxs /\ fresh'[asked] = stored[row[asked]]
        /\ \A i \in Idxs \ {asked} : fresh'[i] = fresh[i]
    BY <1>11 DEF RebuildReadStore, TypeOK, ByRow
  <2>3. ReadBy' \subseteq ReadBy \cup {asked} /\ ReadBy' \subseteq Idxs
    BY <2>1 DEF ReadBy, TypeOK
  <2>4. \A i \in Idxs : BeingReplaced(i)' <=> BeingReplaced(i)
    BY <2>1 DEF BeingReplaced, Batch
  <2> QED
    BY <2>1, <2>2, <2>3, <2>4 DEF ReadIsExact
<1>12. CASE RebuildFails \/ RebuildSwap \/ Reopen
  BY <1>12 DEF RebuildFails, RebuildSwap, SwapIn, Reopen, Restart
<1>13. CASE UNCHANGED vars
  BY <1>13 DEF vars, ReadIsExact, ReadBy, BeingReplaced, Batch, points, rebuild, tracks, Live
<1> QED
  BY <1>1, <1>2, <1>3, <1>4, <1>5, <1>6, <1>7, <1>8, <1>9, <1>10, <1>11, <1>12,
     <1>13 DEF Next

-------------------------------------------------------------------------------
(* The theorems                                                            *)

LEMMA InvInit == Init => IInv
<1> SUFFICES ASSUME Init PROVE IInv
  OBVIOUS
<1>1. Live = {}
  BY DEF Init, Empty, Live
<1>2. SettledPointsAgree /\ FileInStep
  BY <1>1 DEF Init, SettledPointsAgree, FileInStep
<1>3. BatchUnderWay /\ Tracked /\ ReadIsExact
  BY DEF Init, Idle, BatchUnderWay, Tracked, ReadIsExact
<1> QED
  BY <1>2, <1>3, TypeInit

LEMMA Always == Spec => []IInv
<1>1. IInv /\ [Next]_vars => IInv'
  BY TypeStep, AgreeStep, BatchStep, FileStep, TrackStep, ReadStep
<1> QED
  BY <1>1, InvInit, PTL DEF Spec

(* A point whose add() returned is the same in its row, the store and the  *)
(* index, and in the file if it was saved (SettledPointsAgree), through    *)
(* deletes, refusals, rebuilds and the death of the process at any step.   *)
THEOREM SettledAlwaysAgree == Spec => []SettledPointsAgree
BY Always, PTL DEF IInv

(* The swap of rebuild_index() changes no answer (RebuildIsExact),         *)
(* whatever adds and deletes it raced with.                                *)
THEOREM RebuildAlwaysExact == Spec => RebuildIsExact
<1> DEFINE Exact ==
      RebuildSwap =>
       \A i \in Idxs :
         /\ i \notin Live => index'[i] = None
         /\ i \in Live /\ index[i] # None /\ (i \in keys \/ row[i] \in settled)
              => index'[i] = index[i]
         /\ i \in Live \cap keys /\ index[i] = None /\ stored[row[i]] # None
              => index'[i] = stored[row[i]]
<1>1. IInv /\ [Next]_vars => [Exact]_vars
  <2>1. IInv /\ RebuildSwap => Exact
    BY SwapIsExact DEF RebuildSwap, SwapIn
  <2> QED
    BY <2>1
<1> HIDE DEF Exact
<1>2. Spec => [][Exact]_vars
  BY <1>1, Always, PTL DEF Spec
<1> QED
  BY <1>2 DEF RebuildIsExact, Exact

-------------------------------------------------------------------------------
(* Over any durable map                                                    *)

(* What the map owes a saved point: it has held the point's vector, and    *)
(* nothing else, since the last save.  With the flag down it owes that to  *)
(* every settled point, since the next save will skip the index.           *)
MapInStep ==
  /\ since \in [Idxs -> SUBSET (Vectors \cup {None})]
  /\ \A i \in Live : row[i] \in durable => since[i] = {text[row[i]]}
  /\ ~dirty => \A i \in Live : row[i] \in settled => since[i] = {text[row[i]]}

OInv == IInv /\ MapInStep

OSwap == \E struck \in SUBSET Idxs, other \in ByRow : ORebuildSwap(struck, other)

(* Steps of the collection, steps of the index alone, and the three that   *)
(* are neither.                                                            *)
LEMMA StepOfCollection ==
  ASSUME [ONext]_ovars
  PROVE  [Next]_vars \/ OSwap \/ OReopen \/ OReopenTorn
BY DEF ONext, Running, ovars, OElsewhere, Elsewhere, OAddReplace, OAddIndex, OSave, ORelease, OSwap,
       Next

(* What the swap installs of a point that it does not lose.                *)
LEMMA ORebuiltAt ==
  ASSUME TypeOK, NEW struck, NEW other \in ByRow
  PROVE  /\ ORebuilt(struck, other) \in ByRow
         /\ \A i \in Idxs \ (PassedOver \cup struck) : ORebuilt(struck, other)[i] = Rebuilt[i]
BY RebuiltType DEF ORebuilt, TypeOK, ByRow

(* The swap keeps the invariant: what it loses is promised no more.        *)
LEMMA SwapKeeps ==
  ASSUME OInv, NEW struck \in SUBSET Idxs, NEW other \in ByRow, ORebuildSwap(struck, other)
  PROVE  OInv'
<1> USE DEF OInv, IInv
<1> DEFINE new == ORebuilt(struck, other)
<1>1. /\ LockFree /\ AllRead /\ index' = new /\ saved' = new /\ dirty' = FALSE
      /\ rebuilding' = FALSE /\ UNCHANGED <<row, text, next, stored, add, deleting>> /\ Live' = Live
      /\ keys' = {} /\ left' = {} /\ asked' = None /\ fresh' = Empty(Idxs)
      /\ tracking' = FALSE /\ touched' = {} /\ deleted' = {}
      /\ settled' = settled \ {row[i] : i \in PassedOver \cup struck} /\ durable' = settled'
      /\ since' = [i \in Idxs |-> {new[i]}]
  BY DEF ORebuildSwap, SwapIn, points, Live
<1>0. new \in ByRow /\ \A i \in Idxs \ (PassedOver \cup struck) : new[i] = Rebuilt[i]
  BY ORebuiltAt
<1> HIDE DEF new
<1>2. ASSUME NEW i \in Live, row[i] \in settled'
      PROVE  new[i] = text[row[i]] /\ row[i] \in settled /\ i \in Idxs
  <2>1. row[i] \in settled /\ i \in Idxs \ (PassedOver \cup struck)
    BY <1>1, <1>2 DEF Live
  <2> QED
    BY <1>0, <1>1, <2>1, SwapIsExact, SettledInIndex
<1>3. TypeOK'
  <2>1. fresh' \in ByRow /\ settled' \in SUBSET Ids
    BY <1>1 DEF Empty, ByRow, TypeOK
  <2> QED
    BY <1>0, <1>1, <2>1 DEF TypeOK
<1>4. SettledPointsAgree'
  BY <1>1, <1>2 DEF SettledPointsAgree
<1>5. BatchUnderWay'
  BY <1>1 DEF LockFree, BatchUnderWay
<1>6. FileInStep'
  BY <1>1, <1>2 DEF FileInStep
<1>7. Tracked' /\ ReadIsExact'
  BY <1>1 DEF Tracked, ReadIsExact
<1>8. MapInStep'
  <2>1. since' \in [Idxs -> SUBSET (Vectors \cup {None})]
    BY <1>0, <1>1 DEF ByRow
  <2> QED
    BY <1>1, <1>2, <2>1 DEF MapInStep
<1> QED
  BY <1>3, <1>4, <1>5, <1>6, <1>7, <1>8

(* A death between the release and the swap promises nothing.              *)
LEMMA TornKeeps ==
  ASSUME OInv, OReopenTorn
  PROVE  OInv'
<1> USE DEF OInv, IInv
<1>1. /\ UNCHANGED <<row, text, stored, saved>> /\ Live' = Live /\ index' \in ByRow
      /\ dirty' = FALSE /\ add' = Idle /\ deleting' = {} /\ rebuilding' = FALSE
      /\ keys' = {} /\ left' = {} /\ asked' = None /\ fresh' = Empty(Idxs)
      /\ tracking' = FALSE /\ touched' = {} /\ deleted' = {}
      /\ settled' = {} /\ durable' = {}
      /\ since' = [i \in Idxs |-> since[i] \cup {index'[i]}]
      /\ next' \in 0..MaxIdx /\ \A i \in Live' : i < next'
  BY DEF OReopenTorn, Restart, ByRow, Live, FollowsRows
<1>2. TypeOK'
  <2>1. fresh' \in ByRow /\ add' \in [at : {"idle", "store", "replace", "index"}, batch : Batches]
    BY <1>1 DEF Idle, Empty, ByRow, Batches
  <2> QED
    BY <1>1, <2>1 DEF TypeOK
<1>3. SettledPointsAgree' /\ FileInStep'
  BY <1>1 DEF SettledPointsAgree, FileInStep
<1>4. BatchUnderWay' /\ Tracked' /\ ReadIsExact'
  BY <1>1 DEF Idle, BatchUnderWay, Tracked, ReadIsExact
<1>5. MapInStep'
  BY <1>1 DEF MapInStep, ByRow
<1> QED
  BY <1>2, <1>3, <1>4, <1>5

(* A reopen brings every saved point back, so the next life starts with    *)
(* the invariant.                                                          *)
LEMMA ReopenKeeps ==
  ASSUME OInv, OReopen
  PROVE  IInv'
<1>1. UNCHANGED <<row, text, stored, saved>> /\ Live' = Live /\ index' \in ByRow
  BY DEF OReopen, Restart, Map!Reopen, ByRow, Live
<1>2. /\ dirty' = FALSE /\ add' = Idle /\ deleting' = {} /\ rebuilding' = FALSE
      /\ keys' = {} /\ left' = {} /\ asked' = None /\ fresh' = Empty(Idxs)
      /\ tracking' = FALSE /\ touched' = {} /\ deleted' = {}
      /\ settled' = durable \ deleting /\ durable' = durable \ deleting
      /\ \E n \in 0..MaxIdx : FollowsRows(n) /\ next' = n
  BY DEF OReopen, Restart, KeepPromises
<1>3. ASSUME NEW i \in Live, row[i] \in durable
      PROVE  index'[i] = text[row[i]]
  <2>1. since[i] = {text[row[i]]} /\ text[row[i]] # None /\ i \in Idxs
    BY <1>3 DEF OInv, IInv, MapInStep, FileInStep, Live
  <2> QED
    BY <2>1 DEF OReopen, Map!Reopen
<1>4. TypeOK'
  <2>1. fresh' \in ByRow /\ add'.at = "idle" /\ add' \in [at : {"idle"}, batch : Batches]
    BY <1>2 DEF Idle, Empty, ByRow, Batches
  <2>2. next' \in 0..MaxIdx /\ \A i \in Live' : i < next'
    BY <1>1, <1>2 DEF FollowsRows
  <2> QED
    BY <1>1, <1>2, <2>1, <2>2 DEF OInv, IInv, TypeOK
<1>5. SettledPointsAgree'
  BY <1>1, <1>2, <1>3 DEF OInv, IInv, SettledPointsAgree, FileInStep
<1>6. BatchUnderWay' /\ Tracked' /\ ReadIsExact'
  BY <1>2 DEF Idle, BatchUnderWay, Tracked, ReadIsExact
<1>7. FileInStep'
  BY <1>1, <1>2, <1>5 DEF OInv, IInv, FileInStep, SettledPointsAgree
<1> QED
  BY <1>4, <1>5, <1>6, <1>7 DEF IInv

LEMMA MapStep ==
  OInv /\ [ONext]_ovars /\ ~OSwap /\ ~OReopenTorn => MapInStep'
<1> SUFFICES ASSUME OInv, [ONext]_ovars, ~OSwap, ~OReopenTorn PROVE MapInStep'
  OBVIOUS
<1> USE DEF OInv, IInv
<1>1. ASSUME NEW batch \in Batches, AddRows(batch), UNCHANGED since PROVE MapInStep'
  <2>1. ASSUME NEW i \in Live', row'[i] \in settled'
        PROVE  i \in Live /\ row'[i] = row[i] /\ text'[row[i]] = text[row[i]]
    <3>1. row'[i] \notin Given(batch) /\ row'[i] \in Ids
      BY <1>1, <2>1 DEF AddRows, TypeOK
    <3>2. i \in Live /\ row'[i] = row[i]
      BY <1>1, <3>1, NewRows
    <3> QED
      BY <1>1, <3>1, <3>2 DEF AddRows, Over, Given, TypeOK, Batches
  <2>2. UNCHANGED <<since, dirty>> /\ settled' \subseteq settled
        /\ durable' \subseteq durable /\ durable' \subseteq settled'
    BY <1>1 DEF AddRows, disk, FileInStep
  <2> QED
    BY <2>1, <2>2 DEF MapInStep
<1>2. ASSUME UNCHANGED <<points, disk, promises, since>> PROVE MapInStep'
  BY <1>2 DEF MapInStep, points, disk, promises, Live
<1>3. CASE DeleteRows /\ UNCHANGED since
  <2>1. \A i \in Live' : i \in Live /\ row'[i] = row[i] /\ row[i] \in Ids \ deleting
    BY <1>3 DEF DeleteRows, Without, RowsOf, Live, TypeOK
  <2>2. \A id \in Ids \ deleting : text'[id] = text[id]
    BY <1>3 DEF DeleteRows, Without, TypeOK, Batches
  <2> QED
    BY <1>3, <2>1, <2>2 DEF DeleteRows, MapInStep, disk
<1>4. CASE OAddReplace
  <2>1. ASSUME NEW i \in Live, row[i] \in settled \cup durable
        PROVE  since'[i] = since[i]
    <3>1. i \notin Given(BatchByRow) /\ i \in Idxs
      BY <1>4, <2>1, RowsOfBatch DEF OAddReplace, AddReplace, BatchUnderWay, FileInStep, Live
    <3> QED
      BY <1>4, <3>1 DEF OAddReplace
  <2>2. since' \in [Idxs -> SUBSET (Vectors \cup {None})]
    BY <1>4 DEF OAddReplace, MapInStep
  <2> QED
    BY <1>4, <2>1, <2>2 DEF OAddReplace, AddReplace, MapInStep, points, disk, promises, Live
<1>5. CASE OAddIndex
  <2>1. ASSUME NEW i \in Live, row[i] \in durable
        PROVE  since'[i] = since[i]
    <3>1. i \notin Given(BatchByRow) /\ i \in Idxs
      BY <1>5, <2>1, RowsOfBatch DEF OAddIndex, AddIndex, BatchUnderWay, FileInStep, Live
    <3> QED
      BY <1>5, <3>1 DEF OAddIndex, Map!Put
  <2>2. since' \in [Idxs -> SUBSET (Vectors \cup {None})]
    <3>1. since' = [i \in Idxs |-> IF i \in Given(BatchByRow)
                                   THEN since[i] \cup {BatchByRow[i]} ELSE since[i]]
      BY <1>5 DEF OAddIndex, Map!Put
    <3>2. \A i \in Idxs : BatchByRow[i] \in Vectors \cup {None}
      BY BatchByRowType DEF ByRow
    <3> QED
      BY <3>1, <3>2 DEF MapInStep
  <2> QED
    BY <1>5, <2>1, <2>2 DEF OAddIndex, AddIndex, MapInStep, points, Live
<1>6. CASE OSave
  <2>1. CASE dirty
    <3>1. since' = [i \in Idxs |-> {index[i]}]
      BY <1>6, <2>1 DEF OSave, Map!Save
    <3>2. since' \in [Idxs -> SUBSET (Vectors \cup {None})]
      BY <3>1 DEF TypeOK, ByRow
    <3>3. \A i \in Live : row[i] \in settled => since'[i] = {text[row[i]]}
      BY <3>1 DEF SettledPointsAgree, Live
    <3> QED
      BY <1>6, <3>2, <3>3 DEF OSave, Save, MapInStep, points, Live
  <2>2. CASE ~dirty
    BY <1>6, <2>2 DEF OSave, Save, MapInStep, points, Live
  <2> QED
    BY <2>1, <2>2
<1>7. ASSUME NEW gone, ORelease(gone) PROVE MapInStep'
  BY <1>2, <1>7 DEF ORelease, vars
<1>8. CASE OReopen
  <2>1. /\ UNCHANGED <<row, text>> /\ Live' = Live /\ dirty' = FALSE
        /\ settled' = durable \ deleting /\ durable' = durable \ deleting
        /\ index' \in ByRow /\ since' = [i \in Idxs |-> since[i] \cup {index'[i]}]
    BY <1>8 DEF OReopen, Restart, KeepPromises, Map!Reopen, Live, ByRow
  <2>2. since' \in [Idxs -> SUBSET (Vectors \cup {None})]
    BY <2>1 DEF MapInStep, ByRow
  <2>3. ASSUME NEW i \in Live, row[i] \in durable
        PROVE  since'[i] = {text[row[i]]}
    <3>1. since[i] = {text[row[i]]} /\ text[row[i]] # None /\ i \in Idxs
      BY <2>3 DEF MapInStep, FileInStep, Live
    <3>2. index'[i] \in since[i]
      BY <1>8, <3>1 DEF OReopen, Map!Reopen
    <3> QED
      BY <2>1, <3>1, <3>2
  <2> QED
    BY <2>1, <2>2, <2>3 DEF MapInStep
<1> QED
  BY <1>1, <1>2, <1>3, <1>4, <1>5, <1>6, <1>7, <1>8
     DEF ONext, OSwap, Running, OElsewhere, Elsewhere, ovars, vars, AddStore, AddRefused, DeleteStore,
         RebuildStart, RebuildReadIndex, RebuildReadStore, RebuildFails

LEMMA AlwaysOverAMap == OSpec => []OInv
<1>1. OInit => OInv
  <2>1. OInit => IInv
    BY InvInit DEF OInit
  <2>2. OInit => MapInStep
    BY DEF OInit, Init, Map!Init, MapInStep
  <2> QED
    BY <2>1, <2>2 DEF OInv
<1>2. OInv /\ [ONext]_ovars => OInv'
  <2>1. OInv /\ [Next]_vars => IInv'
    BY TypeStep, AgreeStep, BatchStep, FileStep, TrackStep, ReadStep DEF OInv, IInv
  <2>2. OInv /\ [ONext]_ovars /\ ~OSwap /\ ~OReopenTorn => OInv'
    BY <2>1, StepOfCollection, ReopenKeeps, MapStep DEF OInv
  <2> QED
    BY <2>2, SwapKeeps, TornKeeps DEF OSwap
<1> QED
  BY <1>1, <1>2, PTL DEF OSpec

(* Over a vector index that implements DurableMap, as the sharded one does *)
(* (Refinement, in ShardedIndexProofs), and that is released before it is  *)
(* replaced, a point whose add() returned is searchable by its vector but  *)
(* for the time between a release that takes it and the swap; and one that *)
(* was saved after that comes back with it at every reopen, but for one in *)
(* that time (SavedPointsComeBack).  Of a point that was written during the *)
(* rebuild and then released, or whose fresh shard was struck, nothing is  *)
(* promised after the swap, until it is added again.                       *)
THEOREM SavedPointsAlwaysComeBack == OSpec => []SavedPointsComeBack
<1>1. OInv => SavedPointsComeBack
  BY DEF OInv, IInv, MapInStep, SettledPointsAgree, SavedPointsComeBack
<1> QED
  BY <1>1, AlwaysOverAMap, PTL

(* Over such an index the swap gives back what the release took, all but   *)
(* what was written while the rebuild ran and released with the old shards *)
(* and what was struck (SwapRestores): the rebuild read the rest before.   *)
THEOREM SwapAlwaysRestores == OSpec => SwapRestores
<1> DEFINE Exact ==
      \A struck \in SUBSET Idxs, other \in ByRow : ORebuildSwap(struck, other) =>
       \A i \in Idxs \ (PassedOver \cup struck) :
         /\ i \notin Live => index'[i] = None
         /\ i \in Live /\ index[i] # None /\ (i \in keys \/ row[i] \in settled)
              => index'[i] = index[i]
         /\ i \in Live \cap keys /\ index[i] = None /\ stored[row[i]] # None
              => index'[i] = stored[row[i]]
<1>1. OInv => [Exact]_ovars
  <2> SUFFICES ASSUME OInv, NEW struck \in SUBSET Idxs, NEW other \in ByRow,
                      ORebuildSwap(struck, other), NEW i \in Idxs \ (PassedOver \cup struck)
               PROVE  /\ i \notin Live => index'[i] = None
                      /\ i \in Live /\ index[i] # None /\ (i \in keys \/ row[i] \in settled)
                           => index'[i] = index[i]
                      /\ i \in Live \cap keys /\ index[i] = None /\ stored[row[i]] # None
                           => index'[i] = stored[row[i]]
    OBVIOUS
  <2>2. IInv /\ TypeOK /\ LockFree /\ AllRead /\ index' = ORebuilt(struck, other)
    BY DEF ORebuildSwap, SwapIn, OInv, IInv
  <2>3. index'[i] = Rebuilt[i]
    BY <2>2, ORebuiltAt
  <2> QED
    BY <2>2, <2>3, SwapIsExact
<1> HIDE DEF Exact
<1>2. OSpec => [][Exact]_ovars
  BY <1>1, AlwaysOverAMap, PTL
<1> QED
  BY <1>2 DEF SwapRestores, Exact

(* One file is such an index: what it holds for a row number, the index    *)
(* has held for it at the last save or since.                              *)
FileIsSince == \A i \in Idxs : saved[i] \in since[i]

LEMMA FileIsSinceStep ==
  ASSUME FileIsSince, [Running \/ FileReopen]_ovars
  PROVE  FileIsSince'
<1>1. CASE OElsewhere \/ UNCHANGED ovars
  <2>1. UNCHANGED <<saved, since>>
    BY <1>1 DEF OElsewhere, Elsewhere, ovars, vars, disk, AddRows, AddStore, AddRefused,
                DeleteStore, DeleteRows, RebuildStart, RebuildReadIndex, RebuildReadStore,
                RebuildFails
  <2> QED
    BY <2>1 DEF FileIsSince
<1>2. CASE OAddReplace
  BY <1>2 DEF OAddReplace, AddReplace, disk, FileIsSince
<1>3. CASE OAddIndex
  BY <1>3 DEF OAddIndex, AddIndex, Map!Put, FileIsSince
<1>4. CASE OSave
  BY <1>4 DEF OSave, Save, Map!Save, FileIsSince
<1>5. ASSUME NEW struck \in SUBSET Idxs, NEW other \in ByRow, ORebuildSwap(struck, other)
      PROVE  FileIsSince'
  BY <1>5 DEF ORebuildSwap, SwapIn, FileIsSince
<1>6. CASE FileReopen
  BY <1>6 DEF FileReopen, Reopen, Restart, FileIsSince
<1> QED
  BY <1>1, <1>2, <1>3, <1>4, <1>5, <1>6 DEF Running

(* A collection over one file, which is what the run `collection' checks,  *)
(* is a collection over a durable map: the map's contract allows what      *)
(* reading the file back brings.                                           *)
THEOREM OneFileIsADurableMap == FileSpec => OSpec
<1> DEFINE Whole == shards = "whole" /\ released = {}
           FInv == TypeOK /\ FileIsSince /\ Whole
<1>1. OInit => FInv
  <2>1. OInit => TypeOK
    BY TypeInit DEF OInit
  <2> QED
    BY <2>1 DEF OInit, Init, Empty, Map!Init, FileIsSince
<1>2. FInv /\ [Running \/ FileReopen]_ovars => FInv' /\ [ONext]_ovars
  <2> SUFFICES ASSUME FInv, [Running \/ FileReopen]_ovars PROVE FInv' /\ [ONext]_ovars
    OBVIOUS
  <2>1. FileIsSince'
    BY FileIsSinceStep
  <2>2. Whole'
    BY DEF Running, FileReopen, ovars, OElsewhere, OAddReplace, OAddIndex, OSave, ORebuildSwap
  <2>3. TypeOK'
    <3>1. [Next]_vars \/ OSwap
      BY DEF Running, FileReopen, ovars, OElsewhere, Elsewhere, OAddReplace, OAddIndex, OSave, OSwap,
             Next
    <3>2. ASSUME NEW struck \in SUBSET Idxs, NEW other \in ByRow, ORebuildSwap(struck, other)
          PROVE  TypeOK'
      <4>1. struck = {} /\ PassedOver = {}
        BY <3>2 DEF ORebuildSwap, PassedOver
      <4>2. ORebuilt(struck, other) = Rebuilt
        BY <4>1, RebuiltType DEF ORebuilt, ByRow
      <4>3. RebuildSwap
        BY <3>2, <4>1, <4>2 DEF ORebuildSwap, RebuildSwap
      <4> QED
        BY <4>3, TypeStep DEF Next
    <3> QED
      BY <3>1, <3>2, TypeStep DEF OSwap
  <2>4. ASSUME FileReopen PROVE OReopen
    BY <2>4 DEF FileReopen, Reopen, OReopen, Map!Reopen, TypeOK, ByRow, FileIsSince
  <2> QED
    BY <2>1, <2>2, <2>3, <2>4 DEF ONext
<1> HIDE DEF FInv
<1> QED
  BY <1>1, <1>2, PTL DEF FileSpec, OSpec
===============================================================================
