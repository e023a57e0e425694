-------------------------- MODULE CollectionOverIndex --------------------------
(***************************************************************************)
(* A collection over a vector index that implements DurableMap, as the     *)
(* sharded index does, and that lets go of its shards while a rebuild puts *)
(* others in their place: each call of the collection that reaches the     *)
(* index is the collection's step and the map's in one.  What a reopen     *)
(* brings back is then not one file but anything the map's contract        *)
(* allows, and anything at all between the release of the old shards and   *)
(* the swap, when their files are deleted and replaced.                    *)
(*                                                                         *)
(* `index' goes on recording what the index was given, and `released' what *)
(* of it the index has let go: it answers with the rest.  `saved' goes on  *)
(* recording what a single file would hold, and only FileSpec reads it.    *)
(***************************************************************************)
EXTENDS Collection

VARIABLES
  since,     \* for each row number, what it has held since the last save
  shards,    \* "whole"; "released", with the swap to come; or "written" since
  released   \* the row numbers whose copies went with the released shards

ovars == <<vars, since, shards, released>>

Map == INSTANCE DurableMap WITH Keys <- Idxs, map <- index

OInit == Init /\ Map!Init /\ shards = "whole" /\ released = {}

(* Steps that leave the index alone, or read it.                           *)
Elsewhere ==
  \/ \E batch \in Batches : AddRows(batch)
  \/ AddStore
  \/ AddRefused
  \/ \E ids \in SUBSET Ids : DeleteStore(ids)
  \/ DeleteRows
  \/ RebuildStart
  \/ \E k \in Idxs : RebuildReadIndex(k)
  \/ RebuildReadStore
  \/ RebuildFails

OElsewhere == Elsewhere /\ UNCHANGED <<since, shards, released>>

(* remove(), once for each key.                                            *)
OAddReplace ==
  /\ AddReplace
  /\ since' = [i \in Idxs |->
                 IF i \in Given(BatchByRow) THEN since[i] \cup {None} ELSE since[i]]
  /\ UNCHANGED <<shards, released>>

OAddIndex ==
  /\ AddIndex
  /\ Map!Put(Given(BatchByRow), BatchByRow)
  /\ released' = released \ Given(BatchByRow)
  /\ shards' = IF shards = "whole" THEN "whole" ELSE "written"

(* The index is saved if the collection has it marked as changed.          *)
OSave ==
  /\ Save
  /\ IF dirty THEN Map!Save ELSE UNCHANGED since
  /\ UNCHANGED <<shards, released>>

(* rebuilt(old) releases the old index: what its head does not hold is     *)
(* gone from it, be it what the rebuild has read or what was written and   *)
(* sealed since.  It does so without the collection's lock.                *)
ORelease(gone) ==
  /\ AllRead
  /\ shards = "whole"
  /\ shards' = "released"
  /\ released' = gone
  /\ UNCHANGED <<vars, since>>

(* Written since the rebuild began, and gone with the old shards: the swap *)
(* does not find them in the old index, and leaves what it had read.       *)
PassedOver == released \cap touched

(* What the swap installs.  The fresh shards were renamed and then mapped: *)
(* of a shard that the old index, written to since the release, sealed     *)
(* over between the two, the swap installs something else.                 *)
ORebuilt(struck, other) ==
  [i \in Idxs |-> IF i \in struck THEN other[i]
                  ELSE IF i \notin PassedOver THEN Rebuilt[i]
                  ELSE IF i \in deleted \ Live THEN None ELSE fresh[i]]

(* Nothing is promised any more of a point that the swap passes over or    *)
(* that was struck.                                                        *)
ORebuildSwap(struck, other) ==
  /\ struck # {} => shards = "written"
  /\ SwapIn(ORebuilt(struck, other))
  /\ settled' = settled \ {row[i] : i \in PassedOver \cup struck}
  /\ durable' = settled'
  /\ since' = [i \in Idxs |-> {ORebuilt(struck, other)[i]}]
  /\ shards' = "whole"
  /\ released' = {}

OReopen ==
  /\ shards = "whole"
  /\ Restart /\ KeepPromises
  /\ Map!Reopen
  /\ UNCHANGED <<shards, released>>

(* The process dies while the old shards' files make way for the others.   *)
OReopenTorn ==
  /\ shards # "whole"
  /\ Restart
  /\ settled' = {} /\ durable' = {}
  /\ index' \in ByRow
  /\ since' = [i \in Idxs |-> since[i] \cup {index'[i]}]
  /\ shards' = "whole"
  /\ released' = {}

Running ==
  \/ OElsewhere
  \/ OAddReplace
  \/ OAddIndex
  \/ OSave
  \/ \E struck \in SUBSET Idxs, other \in ByRow : ORebuildSwap(struck, other)

ONext ==
  \/ Running
  \/ \E gone \in SUBSET Idxs : ORelease(gone)
  \/ OReopen
  \/ OReopenTorn

OSpec == OInit /\ [][ONext]_ovars

-------------------------------------------------------------------------------
(* The index in one file, as in Collection, with since as history: nothing *)
(* is released, and the swap is one assignment.                            *)
FileReopen ==
  /\ Reopen
  /\ since' = [i \in Idxs |-> since[i] \cup {saved[i]}]
  /\ UNCHANGED <<shards, released>>

FileSpec == OInit /\ [][Running \/ FileReopen]_ovars

-------------------------------------------------------------------------------
(* Properties                                                              *)

(* A point whose add() returned is searchable by the vector it was given,  *)
(* unless a rebuild's release has taken it from the index in use; and once *)
(* a save() came after it that vector is all the index has held for it     *)
(* since, so that every reopen from there on brings it back with it, but   *)
(* for one between a release and the swap.  The contract speaks of the     *)
(* index's last save, and the collection skips that unless it has marked   *)
(* the index as changed: here the two have to agree.                       *)
SavedPointsComeBack ==
  \A i \in Live :
    /\ row[i] \in settled /\ i \notin released => index[i] = text[row[i]]
    /\ row[i] \in durable => since[i] = {text[row[i]]}

(* The swap gives back what the release took, but what was written while   *)
(* the rebuild ran and went with the old shards, and what was struck: of   *)
(* every other row number the new index has what the old one was given,    *)
(* as in RebuildIsExact.                                                   *)
SwapRestores ==
  [][\A struck \in SUBSET Idxs, other \in ByRow : ORebuildSwap(struck, other) =>
       \A i \in Idxs \ (PassedOver \cup struck) :
         /\ i \notin Live => index'[i] = None
         /\ i \in Live /\ index[i] # None /\ (i \in keys \/ row[i] \in settled)
              => index'[i] = index[i]
         /\ i \in Live \cap keys /\ index[i] = None /\ stored[row[i]] # None
              => index'[i] = stored[row[i]]]_ovars
===============================================================================
