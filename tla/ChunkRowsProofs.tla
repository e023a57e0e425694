---------------------------- MODULE ChunkRowsProofs ----------------------------
(***************************************************************************)
(* For any threads, processes, chunks and keys: that merges survive, that  *)
(* what a delete found is gone, that a chunk keeps the time it was first   *)
(* written, and that the store follows the rows of a process on its own.   *)
(***************************************************************************)
EXTENDS ChunkRows, TLAPS

Adding == {"look", "put"}
Updating == {"read", "replace"}
Deleting == {"delete", "each", "deleted"}

(* An update is of one chunk and one key, and reads no more than it may;   *)
(* an item whose etag is the one it read is what it read.  An add knows    *)
(* when the items it found were written.                                   *)
Sound(t) ==
  /\ at[t] \in Updating => call[t].key \in Keys /\ \E i \in Ids : todo[t] = {i}
  /\ at[t] = "read" => tries[t] < Tries
  /\ at[t] \notin Updating => tries[t] = 0
  /\ at[t] = "replace" =>
       found[t] \in Item /\ \A i \in todo[t] : Unchanged(t, i) => items[i] = found[t]
  /\ at[t] = "put" => \A i \in DOMAIN found[t] : found[t][i] \in Nat

Typed == TypeOK /\ \A t \in Threads : Sound(t)

LEMMA NumbersGrow ==
  ASSUME TypeOK, calls < MaxCalls
  PROVE  calls + 1 \in 0..MaxCalls /\ calls + 1 \in Nat
  BY LimitsAreNumbers DEF TypeOK

LEMMA TypedInit == Init => Typed
<1> SUFFICES ASSUME Init PROVE Typed
  OBVIOUS
<1>1. TypeOK
  BY NoneIsNothing, LimitsAreNumbers DEF Init, TypeOK, Blank, NoCall
<1> QED
  BY <1>1 DEF Init, Typed, Sound, Updating

(* What a step of one thread leaves as it was for the others: the items it *)
(* writes have an etag that no other has read.                             *)
LEMMA OthersSound ==
  ASSUME Typed, TypeOK', NEW t \in Threads, NEW u \in Threads \ {t}, etags <= etags',
         at'[u] = at[u] /\ call'[u] = call[u] /\ todo'[u] = todo[u]
           /\ found'[u] = found[u] /\ tries'[u] = tries[u],
         \A i \in Ids : items'[i] \in {items[i], None} \/ items'[i].etag = etags + 1
  PROVE  Sound(u)'
<1>1. ASSUME at[u] = "replace"
      PROVE  /\ found'[u] \in Item'
             /\ \A i \in todo'[u] : Unchanged(u, i)' => items'[i] = found'[u]
  <2>1. /\ found[u] \in Item /\ found'[u] = found[u] /\ todo'[u] = todo[u]
        /\ etags \in Nat /\ etags' \in Nat
    BY <1>1 DEF Typed, Sound, TypeOK
  <2>2. found'[u] \in Item'
    BY <2>1 DEF Item
  <2>3. ASSUME NEW i \in todo[u], Unchanged(u, i)'
        PROVE  items'[i] = found[u]
    <3>1. items'[i] # None /\ items'[i].etag = found[u].etag /\ i \in Ids
      BY <2>1, <2>3 DEF Unchanged, Typed, TypeOK
    <3>2. found[u].etag # etags + 1
      BY <2>1 DEF Item
    <3>3. items'[i] = items[i]
      BY <3>1, <3>2
    <3> QED
      BY <1>1, <2>3, <3>1, <3>3 DEF Unchanged, Typed, Sound
  <2> QED
    BY <2>1, <2>2, <2>3
<1> QED
  BY <1>1 DEF Typed, Sound

(* The lock that a thread lets go of is its own, and no other's.           *)
LEMMA FinishTyped ==
  ASSUME TypeOK, NEW t \in Threads, Finish(t), UNCHANGED home
  PROVE  /\ at' = [at EXCEPT ![t] = "idle"]
         /\ call' = [call EXCEPT ![t] = NoCall] /\ todo' = [todo EXCEPT ![t] = {}]
         /\ tries' = [tries EXCEPT ![t] = 0]
         /\ lock' \in [Processes -> Threads \cup {None}]
         /\ NoCall \in [number : 0..MaxCalls, key : Keys \cup {None}, by : Nat \cup {None}]
         /\ \A u \in Threads : (lock'[home'[u]] = u) =
              (at'[u] \in Adding \/ (at'[u] \in Updating /\ call'[u].by = None))
<1>1. lock' = [p \in Processes |-> IF lock[p] = t THEN None ELSE lock[p]]
      /\ at' = [at EXCEPT ![t] = "idle"] /\ call' = [call EXCEPT ![t] = NoCall]
  BY DEF Finish, Go
<1>2. \A u \in Threads : home[u] \in Processes /\ u # None
  BY NoneIsNothing DEF TypeOK
<1>3. lock'[home[t]] # t
  BY <1>1, <1>2
<1>4. \A u \in Threads \ {t} : (lock'[home[u]] = u) = (lock[home[u]] = u)
  BY <1>1, <1>2
<1>5. at'[t] = "idle" /\ \A u \in Threads \ {t} : at'[u] = at[u] /\ call'[u] = call[u]
  BY <1>1 DEF TypeOK
<1>6. ASSUME NEW u \in Threads
      PROVE  (lock'[home'[u]] = u) =
               (at'[u] \in Adding \/ (at'[u] \in Updating /\ call'[u].by = None))
  BY <1>3, <1>4, <1>5 DEF TypeOK, Adding, Updating
<1>7. NoCall \in [number : 0..MaxCalls, key : Keys \cup {None}, by : Nat \cup {None}]
  BY LimitsAreNumbers DEF NoCall
<1>8. lock' \in [Processes -> Threads \cup {None}]
  BY <1>1 DEF TypeOK
<1> QED
  BY <1>1, <1>6, <1>7, <1>8 DEF Finish

StepOf(t) ==
  \/ \E ids \in SUBSET Ids \ {{}} : Add(t, ids) \/ Delete(t, ids)
  \/ \E i \in Ids, k \in Keys : Update(t, i, k)
  \/ Look(t) \/ Put(t)
  \/ Find(t) \/ DeleteBatch(t) \/ BatchRefused(t) \/ DeleteOne(t) \/ Deleted(t)
  \/ Read(t) \/ Replace(t) \/ GoneSince(t) \/ ReadAgain(t)
  \/ Refused(t)

(* A step of t leaves the other threads where they are.                    *)
Elsewhere(t) ==
  \A u \in Threads \ {t} :
    at'[u] = at[u] /\ call'[u] = call[u] /\ todo'[u] = todo[u]
      /\ found'[u] = found[u] /\ tries'[u] = tries[u]

LEMMA FinishElsewhere == ASSUME TypeOK, NEW t \in Threads, Finish(t) PROVE Elsewhere(t)
  BY DEF Finish, Go, Elsewhere, TypeOK

(* So does every step of t, and what it writes has a new etag.             *)
LEMMA Frame ==
  ASSUME TypeOK, NEW t \in Threads, StepOf(t)
  PROVE  /\ Elsewhere(t) /\ etags <= etags' /\ etags' \in Nat
         /\ \A i \in Ids : items'[i] \in {items[i], None} \/ items'[i].etag = etags + 1
<1> USE DEF fixed, store, work, aux, Go, Fall, Elsewhere
<1>1. ASSUME NEW ids \in SUBSET Ids, Add(t, ids) \/ Delete(t, ids)
      PROVE  UNCHANGED store /\ Elsewhere(t)
  BY <1>1 DEF Add, Delete, Call, TypeOK
<1>2. ASSUME NEW i \in Ids, NEW k \in Keys, Update(t, i, k)
      PROVE  UNCHANGED store /\ Elsewhere(t)
  BY <1>2 DEF Update, Call, TypeOK
<1>3. ASSUME Look(t) \/ Find(t) \/ BatchRefused(t) \/ Deleted(t) \/ Read(t) \/ GoneSince(t)
               \/ ReadAgain(t) \/ Refused(t)
      PROVE  UNCHANGED store /\ Elsewhere(t)
  <2>1. CASE Look(t)
    BY <2>1 DEF Look, TypeOK
  <2>2. CASE Find(t)
    BY <2>2 DEF Find, TypeOK
  <2>3. CASE BatchRefused(t)
    BY <2>3 DEF BatchRefused, OneByOne, TypeOK
  <2>4. CASE Deleted(t) \/ GoneSince(t) \/ Refused(t)
    BY <2>4, FinishElsewhere DEF Deleted, GoneSince, Refused
  <2>5. CASE Read(t)
    <3>1. CASE Finish(t)
      BY <2>5, <3>1, FinishElsewhere DEF Read
    <3>2. CASE ~Finish(t)
      <4>1. PICK i \in todo[t] :
              /\ found' = [found EXCEPT ![t] = items[i]] /\ tries' = [tries EXCEPT ![t] = @ + 1]
              /\ at' = [at EXCEPT ![t] = "replace"] /\ UNCHANGED <<lock, call, todo>>
        BY <2>5, <3>2 DEF Read
      <4>2. \A u \in Threads \ {t} : at'[u] = at[u] /\ call'[u] = call[u] /\ todo'[u] = todo[u]
        BY <4>1 DEF TypeOK
      <4>3. \A u \in Threads \ {t} : found'[u] = found[u] /\ tries'[u] = tries[u]
        BY <4>1 DEF TypeOK
      <4> QED
        BY <2>5, <4>2, <4>3 DEF Read
    <3> QED
      BY <3>1, <3>2
  <2>6. CASE ReadAgain(t)
    <3>1. CASE tries[t] < Tries
      BY <2>6, <3>1 DEF ReadAgain, TypeOK
    <3>2. CASE ~(tries[t] < Tries)
      BY <2>6, <3>2, FinishElsewhere DEF ReadAgain
    <3> QED
      BY <3>1, <3>2
  <2> QED
    BY <1>3, <2>1, <2>2, <2>3, <2>4, <2>5, <2>6
<1>4. ASSUME Put(t)
      PROVE  /\ etags' = etags + 1 /\ Elsewhere(t)
             /\ \A i \in Ids : items'[i] = items[i] \/ items'[i].etag = etags + 1
  <2>1. PICK ids \in Sent(t) :
           /\ Upsert(t, ids)
           /\ \/ Finish(t)
              \/ todo' = [todo EXCEPT ![t] = @ \ ids] /\ UNCHANGED <<lock, at, call, found, tries>>
    BY <1>4 DEF Put
  <2>2. Elsewhere(t)
    <3>1. CASE Finish(t)
      BY <3>1, FinishElsewhere
    <3>2. CASE ~Finish(t)
      BY <2>1, <3>2 DEF TypeOK
    <3> QED
      BY <3>1, <3>2
  <2>3. etags' = etags + 1
    BY <1>4 DEF Put
  <2> QED
    BY <2>1, <2>2, <2>3 DEF Upsert
<1>5. ASSUME Replace(t)
      PROVE  /\ etags' = etags + 1 /\ Elsewhere(t)
             /\ \A i \in Ids : items'[i] = items[i] \/ items'[i].etag = etags + 1
  <2>1. PICK j : items' = [items EXCEPT ![j] =
                   [found[t] EXCEPT !.meta[call[t].key] = call[t].number, !.etag = etags + 1]]
    BY <1>5 DEF Replace
  <2>2. ASSUME NEW i \in Ids PROVE items'[i] = items[i] \/ items'[i].etag = etags + 1
    <3>1. CASE i = j
      <4>1. items'[i] = [found[t] EXCEPT !.meta[call[t].key] = call[t].number, !.etag = etags + 1]
        BY <2>1, <3>1 DEF TypeOK
      <4> QED
        BY <4>1
    <3>2. CASE i # j
      BY <2>1, <3>2 DEF TypeOK
    <3> QED
      BY <3>1, <3>2
  <2>3. etags' = etags + 1 /\ Elsewhere(t)
    BY <1>5, FinishElsewhere DEF Replace
  <2> QED
    BY <2>2, <2>3
<1>6. ASSUME DeleteBatch(t) \/ DeleteOne(t)
      PROVE  /\ etags' = etags + 1 /\ Elsewhere(t)
             /\ \A i \in Ids : items'[i] \in {items[i], None}
  <2>1. PICK ids : Erase(t, ids)
    BY <1>6 DEF DeleteBatch, DeleteOne
  <2> QED
    BY <2>1 DEF Erase, TypeOK
<1>7. etags \in Nat
  BY DEF TypeOK
<1> QED
  BY <1>1, <1>2, <1>3, <1>4, <1>5, <1>6, <1>7 DEF StepOf

(* The items stay of their type as the count of etags grows.               *)
LEMMA ItemsTyped ==
  ASSUME TypeOK, etags' \in Nat, etags <= etags',
         \A i \in Ids : items'[i] \in {items[i], None} \/ items'[i] \in Item',
         DOMAIN items' = Ids, items' = [i \in Ids |-> items'[i]]
  PROVE  items' \in [Ids -> Item' \cup {None}]
<1>1. \A x \in Item : x \in Item'
  BY DEF Item, TypeOK
<1> QED
  BY <1>1 DEF TypeOK

-------------------------------------------------------------------------------
(* Types                                                                   *)

LockHeld(u) == (lock[home[u]] = u) = (at[u] \in Adding \/ (at[u] \in Updating /\ call[u].by = None))

LEMMA FreeLock ==
  ASSUME TypeOK, NEW t \in Threads, Free(t), Hold(t), UNCHANGED home
  PROVE  /\ lock' \in [Processes -> Threads \cup {None}]
         /\ lock'[home'[t]] = t
         /\ \A u \in Threads \ {t} : (lock'[home'[u]] = u) = (lock[home[u]] = u)
<1>1. \A u \in Threads : home[u] \in Processes /\ u # None
  BY NoneIsNothing DEF TypeOK
<1> QED
  BY <1>1 DEF Free, Hold, TypeOK

LEMMA AddTyped ==
  ASSUME Typed, NEW t \in Threads, NEW ids \in SUBSET Ids, Add(t, ids) PROVE TypeOK' /\ Sound(t)'
<1> USE DEF fixed, store, aux, Go
<1>1. /\ calls' = calls + 1 /\ calls' \in 0..MaxCalls /\ at[t] = "idle" /\ Free(t) /\ Hold(t)
      /\ at' = [at EXCEPT ![t] = "look"] /\ todo' = [todo EXCEPT ![t] = ids]
      /\ call' = [call EXCEPT ![t] = [number |-> calls', key |-> None, by |-> None]]
      /\ UNCHANGED <<home, batches, items, etags, found, tries, faults, landed, behind>>
  BY NumbersGrow DEF Add, Call, Typed
<1>2. local' \in [Processes -> [Ids -> Row \cup {None}]]
  <2>1. [by |-> calls', meta |-> Blank] \in Row
    BY <1>1 DEF Row, Blank
  <2> QED
    BY <2>1 DEF Add, Typed, TypeOK
<1>3. /\ lock' \in [Processes -> Threads \cup {None}]
      /\ \A u \in Threads : LockHeld(u)'
  BY <1>1, FreeLock DEF Typed, TypeOK, LockHeld, Adding, Updating
<1>4. TypeOK'
  BY <1>1, <1>2, <1>3 DEF Typed, TypeOK, LockHeld, Adding, Updating, Item
<1>5. Sound(t)'
  BY <1>1 DEF Typed, Sound, TypeOK, Updating
<1> QED
  BY <1>4, <1>5

LEMMA DeleteTyped ==
  ASSUME Typed, NEW t \in Threads, NEW ids \in SUBSET Ids, Delete(t, ids)
  PROVE  TypeOK' /\ Sound(t)'
<1> USE DEF fixed, store, aux, Go
<1>1. /\ calls' = calls + 1 /\ calls' \in 0..MaxCalls /\ at[t] = "idle"
      /\ at' = [at EXCEPT ![t] = "find"] /\ todo' = [todo EXCEPT ![t] = ids]
      /\ call' = [call EXCEPT ![t] = [number |-> calls', key |-> None, by |-> None]]
      /\ UNCHANGED <<home, batches, items, etags, lock, found, tries, faults, landed, behind>>
  BY NumbersGrow DEF Delete, Call, Typed
<1>2. local' \in [Processes -> [Ids -> Row \cup {None}]]
  BY DEF Delete, Typed, TypeOK
<1>3. \A u \in Threads : LockHeld(u)'
  BY <1>1 DEF Typed, TypeOK, LockHeld, Adding, Updating
<1>4. TypeOK'
  BY <1>1, <1>2, <1>3 DEF Typed, TypeOK, LockHeld, Adding, Updating, Item
<1>5. Sound(t)'
  BY <1>1 DEF Typed, Sound, TypeOK, Updating
<1> QED
  BY <1>4, <1>5

LEMMA UpdateTyped ==
  ASSUME Typed, NEW t \in Threads, NEW i \in Ids, NEW k \in Keys, Update(t, i, k)
  PROVE  TypeOK' /\ Sound(t)'
<1> USE DEF fixed, store, aux, Go
<1> DEFINE row == Rows(t)[i]
           by == IF row = None THEN None ELSE row.by
<1>1. /\ calls' = calls + 1 /\ calls' \in 0..MaxCalls /\ at[t] = "idle" /\ Free(t)
      /\ at' = [at EXCEPT ![t] = "read"] /\ todo' = [todo EXCEPT ![t] = {i}]
      /\ call' = [call EXCEPT ![t] = [number |-> calls', key |-> k, by |-> by]]
      /\ UNCHANGED <<home, batches, items, etags, found, tries, faults, landed, behind>>
  BY NumbersGrow DEF Update, Call, Typed
<1>2. row \in Row \cup {None} /\ home[t] \in Processes
  BY DEF Rows, Typed, TypeOK
<1>3. by \in Nat \cup {None} /\ (by = None) = (row = None)
  BY <1>2, NoneIsNothing DEF Row
<1>4. /\ local' \in [Processes -> [Ids -> Row \cup {None}]]
      /\ lock' \in [Processes -> Threads \cup {None}] /\ \A u \in Threads : LockHeld(u)'
  <2>1. CASE row = None
    <3>1. Hold(t) /\ UNCHANGED local
      BY <2>1 DEF Update
    <3> QED
      BY <1>1, <1>3, <2>1, <3>1, FreeLock DEF Typed, TypeOK, LockHeld, Adding, Updating
  <2>2. CASE row # None
    <3>1. local' = [local EXCEPT ![home[t]][i].meta[k] = calls'] /\ UNCHANGED lock
      BY <2>2 DEF Update
    <3>2. [row EXCEPT !.meta[k] = calls'] \in Row
      BY <1>1, <1>2, <2>2 DEF Row
    <3>3. local' = [local EXCEPT ![home[t]] =
                      [local[home[t]] EXCEPT ![i] = [row EXCEPT !.meta[k] = calls']]]
      BY <3>1 DEF Rows
    <3>4. local' \in [Processes -> [Ids -> Row \cup {None}]]
      BY <3>2, <3>3 DEF Typed, TypeOK
    <3>5. \A u \in Threads : LockHeld(u)'
      BY <1>1, <1>3, <2>2, <3>1 DEF Typed, TypeOK, LockHeld, Adding, Updating
    <3> QED
      BY <3>1, <3>4, <3>5 DEF Typed, TypeOK
  <2> QED
    BY <2>1, <2>2
<1>5. TypeOK'
  BY <1>1, <1>3, <1>4 DEF Typed, TypeOK, LockHeld, Adding, Updating, Item
<1>6. Sound(t)'
  <2>1. tries'[t] = 0 /\ 0 < Tries
    BY <1>1, LimitsAreNumbers DEF Typed, Sound, Updating
  <2>2. at'[t] = "read" /\ call'[t].key = k /\ todo'[t] = {i}
    BY <1>1 DEF Typed, TypeOK
  <2> QED
    BY <2>1, <2>2 DEF Sound, Updating
<1> QED
  BY <1>5, <1>6

(* What ends a call, whatever it has written, leaves the types.            *)
LEMMA EndTyped ==
  ASSUME Typed, NEW t \in Threads, Finish(t), UNCHANGED <<home, batches, local, calls>>,
         items' \in [Ids -> Item' \cup {None}], etags' \in Nat,
         faults' \in 0..MaxFaults, landed' \in [Ids -> [Keys -> Nat]], behind' \subseteq Ids
  PROVE  TypeOK' /\ Sound(t)'
<1>1. TypeOK
  BY DEF Typed
<1>2. /\ at' = [at EXCEPT ![t] = "idle"]
      /\ call' = [call EXCEPT ![t] = NoCall] /\ todo' = [todo EXCEPT ![t] = {}]
      /\ tries' = [tries EXCEPT ![t] = 0]
      /\ lock' \in [Processes -> Threads \cup {None}]
      /\ NoCall \in [number : 0..MaxCalls, key : Keys \cup {None}, by : Nat \cup {None}]
      /\ \A u \in Threads : (lock'[home'[u]] = u) =
           (at'[u] \in Adding \/ (at'[u] \in Updating /\ call'[u].by = None))
  BY <1>1, FinishTyped
<1>3. found' = [found EXCEPT ![t] = None]
  BY DEF Finish
<1>4. tries' \in [Threads -> 0..Tries]
  BY <1>1, <1>2, LimitsAreNumbers DEF TypeOK
<1>5. TypeOK'
  BY <1>1, <1>2, <1>3, <1>4 DEF TypeOK, Adding, Updating
<1>6. Sound(t)'
  BY <1>1, <1>2 DEF Sound, TypeOK, Updating
<1> QED
  BY <1>5, <1>6

LEMMA LookTyped ==
  ASSUME Typed, NEW t \in Threads, Look(t) \/ Find(t) \/ BatchRefused(t)
  PROVE  TypeOK' /\ Sound(t)'
<1> USE DEF fixed, store, work, aux, Go
<1>1. /\ \/ at[t] = "look" /\ at' = [at EXCEPT ![t] = "put"]
         \/ /\ at[t] \in {"find", "delete"}
            /\ \E where \in Deleting : at' = [at EXCEPT ![t] = where]
      /\ UNCHANGED <<fixed, local, store, lock, calls, call, tries, faults, aux>>
      /\ todo' \in [Threads -> SUBSET Ids] /\ DOMAIN found' = Threads
  <2>1. CASE Look(t)
    BY <2>1 DEF Look, Typed, TypeOK
  <2>2. CASE Find(t)
    <3>1. Here(todo[t]) \subseteq Ids
      BY DEF Here, Typed, TypeOK
    <3>2. PICK where \in Deleting : at' = [at EXCEPT ![t] = where]
      BY <2>2 DEF Find, Deleting
    <3>3. todo' \in [Threads -> SUBSET Ids] /\ DOMAIN found' = Threads
      BY <2>2, <3>1 DEF Find, Typed, TypeOK
    <3> QED
      BY <2>2, <3>2, <3>3 DEF Find
  <2>3. CASE BatchRefused(t)
    BY <2>3 DEF BatchRefused, OneByOne, Deleting, Typed, TypeOK
  <2> QED
    BY <2>1, <2>2, <2>3
<1>2. \A u \in Threads : LockHeld(u)'
  BY <1>1 DEF Typed, TypeOK, LockHeld, Adding, Updating, Deleting
<1>3. TypeOK'
  <2>1. at' \in [Threads -> {"idle", "look", "put", "find", "delete", "each", "deleted",
                             "read", "replace"}]
    <3>1. PICK where \in {"put", "delete", "each", "deleted"} : at' = [at EXCEPT ![t] = where]
      BY <1>1 DEF Deleting
    <3> QED
      BY <3>1 DEF Typed, TypeOK
  <2>2. UNCHANGED <<home, batches, local, items, etags, lock, calls, call, tries, faults, landed, behind>>
    BY <1>1
  <2> QED
    BY <1>1, <1>2, <2>1, <2>2 DEF Typed, TypeOK, LockHeld, Adding, Updating, Item
<1>4. ASSUME at'[t] = "put", NEW i \in DOMAIN found'[t] PROVE found'[t][i] \in Nat
  <2>1. Look(t)
    BY <1>1, <1>4 DEF Find, BatchRefused, OneByOne, Typed, TypeOK
  <2>2. found'[t] = [j \in Here(todo[t]) |-> items[j].written]
    BY <2>1 DEF Look, Typed, TypeOK
  <2>3. i \in Ids /\ items[i] # None
    BY <1>4, <2>2 DEF Here, Typed, TypeOK
  <2> QED
    BY <1>4, <2>2, <2>3 DEF Typed, TypeOK, Item
<1>5. at'[t] \notin Updating /\ tries'[t] = 0
  BY <1>1 DEF Typed, TypeOK, Sound, Updating, Deleting
<1> QED
  BY <1>3, <1>4, <1>5 DEF Sound, Updating

LEMMA PutTyped ==
  ASSUME Typed, NEW t \in Threads, Put(t) PROVE TypeOK' /\ Sound(t)'
<1> USE DEF fixed
<1>1. PICK ids \in Sent(t) :
         /\ Upsert(t, ids)
         /\ \/ Finish(t)
            \/ todo' = [todo EXCEPT ![t] = @ \ ids] /\ UNCHANGED <<lock, at, call, found, tries>>
  BY DEF Put
<1>2. /\ etags' = etags + 1 /\ etags' \in Nat /\ at[t] = "put"
      /\ UNCHANGED <<home, batches, local, calls, faults>>
  BY DEF Put, Typed, TypeOK
<1>3. call[t].number \in Nat /\ \A i \in Ids : FirstWritten(t, i) \in Nat
  BY <1>2 DEF FirstWritten, Typed, TypeOK, Sound
<1>4. Blank \in [Keys -> Nat]
  BY DEF Blank
<1>5. items' \in [Ids -> Item' \cup {None}]
  <2>1. items' = [i \in Ids |->
           IF i \in ids
           THEN [by |-> call[t].number, meta |-> Blank, written |-> FirstWritten(t, i),
                 etag |-> etags + 1]
           ELSE items[i]]
    BY <1>1 DEF Upsert
  <2>2. \A i \in Ids : [by |-> call[t].number, meta |-> Blank, written |-> FirstWritten(t, i),
                        etag |-> etags + 1] \in Item'
    BY <1>2, <1>3, <1>4 DEF Item, Typed, TypeOK
  <2>3. \A x \in Item : x \in Item'
    BY <1>2 DEF Item, Typed, TypeOK
  <2> QED
    BY <2>1, <2>2, <2>3 DEF Typed, TypeOK
<1>6. landed' \in [Ids -> [Keys -> Nat]] /\ behind' \subseteq Ids
  BY <1>1, <1>4 DEF Upsert, Typed, TypeOK
<1>7. CASE Finish(t)
  BY <1>2, <1>5, <1>6, <1>7, EndTyped DEF Typed, TypeOK
<1>8. CASE ~Finish(t)
  <2>1. todo' = [todo EXCEPT ![t] = @ \ ids] /\ UNCHANGED <<lock, at, call, found, tries>>
    BY <1>1, <1>8
  <2>2. TypeOK'
    BY <1>2, <1>5, <1>6, <2>1 DEF Typed, TypeOK
  <2>3. Sound(t)'
    BY <1>2, <2>1 DEF Typed, Sound, Updating
  <2> QED
    BY <2>2, <2>3
<1> QED
  BY <1>7, <1>8

LEMMA EraseTyped ==
  ASSUME Typed, NEW t \in Threads, at[t] \in {"delete", "each"},
         NEW ids \in SUBSET Ids, Erase(t, ids)
  PROVE  TypeOK' /\ Sound(t)'
<1> USE DEF fixed, Go
<1>1. PICK where \in {"delete", "each", "deleted"} : at' = [at EXCEPT ![t] = where]
  BY DEF Erase
<1>2. /\ etags' = etags + 1 /\ etags' \in Nat
      /\ UNCHANGED <<home, batches, local, lock, calls, call, found, tries, faults>>
      /\ todo' = [todo EXCEPT ![t] = @ \ ids]
  BY DEF Erase, Typed, TypeOK
<1>3. items' \in [Ids -> Item' \cup {None}]
  <2>1. \A x \in Item : x \in Item'
    BY <1>2 DEF Item, Typed, TypeOK
  <2> QED
    BY <2>1 DEF Erase, Typed, TypeOK
<1>4. landed' \in [Ids -> [Keys -> Nat]] /\ behind' \subseteq Ids
  <2>1. Blank \in [Keys -> Nat] /\ landed \in [Ids -> [Keys -> Nat]] /\ behind \subseteq Ids
    BY DEF Blank, Typed, TypeOK
  <2>2. /\ landed' = [j \in Ids |-> IF j \in ids THEN Blank ELSE landed[j]]
        /\ behind' = (behind \ {i \in ids : Rows(t)[i] = None})
                       \cup {i \in Here(ids) : Rows(t)[i] # None}
    BY DEF Erase
  <2>3. Here(ids) \subseteq Ids
    BY DEF Here
  <2> QED
    BY <2>1, <2>2, <2>3
<1>5. \A u \in Threads : LockHeld(u)'
  BY <1>1, <1>2 DEF Typed, TypeOK, LockHeld, Adding, Updating
<1>6. TypeOK'
  BY <1>1, <1>2, <1>3, <1>4, <1>5 DEF Typed, TypeOK, LockHeld, Adding, Updating
<1>7. Sound(t)'
  BY <1>1, <1>2 DEF Typed, TypeOK, Sound, Updating
<1> QED
  BY <1>6, <1>7

LEMMA ReadTyped ==
  ASSUME Typed, NEW t \in Threads, Read(t) PROVE TypeOK' /\ Sound(t)'
<1> USE DEF fixed, store, aux, Go
<1>1. PICK i \in todo[t] :
         IF items[i] = None
         THEN Finish(t)
         ELSE /\ found' = [found EXCEPT ![t] = items[i]]
              /\ tries' = [tries EXCEPT ![t] = @ + 1]
              /\ at' = [at EXCEPT ![t] = "replace"]
              /\ UNCHANGED <<lock, call, todo>>
  BY DEF Read
<1>2. /\ at[t] = "read"
      /\ UNCHANGED <<home, batches, local, items, etags, calls, faults, landed, behind>>
  BY DEF Read
<1>3. i \in Ids /\ todo[t] = {i} /\ call[t].key \in Keys /\ tries[t] < Tries
  BY <1>2 DEF Typed, TypeOK, Sound, Updating
<1>4. Item' = Item
  BY <1>2 DEF Item
<1>5. CASE items[i] = None
  BY <1>1, <1>2, <1>4, <1>5, EndTyped DEF Typed, TypeOK
<1>6. CASE items[i] # None
  <2>1. /\ found' = [found EXCEPT ![t] = items[i]] /\ tries' = [tries EXCEPT ![t] = @ + 1]
        /\ at' = [at EXCEPT ![t] = "replace"] /\ UNCHANGED <<lock, call, todo>>
    BY <1>1, <1>6
  <2>2. tries[t] + 1 \in 0..Tries
    BY <1>3, LimitsAreNumbers DEF Typed, TypeOK
  <2>3. \A u \in Threads : LockHeld(u)'
    BY <1>2, <2>1 DEF Typed, TypeOK, LockHeld, Adding, Updating
  <2>4. TypeOK'
    BY <1>2, <1>4, <2>1, <2>2, <2>3 DEF Typed, TypeOK, LockHeld, Adding, Updating
  <2>5. found'[t] = items[i] /\ found'[t] \in Item'
    BY <1>3, <1>4, <1>6, <2>1 DEF Typed, TypeOK
  <2>6. at'[t] = "replace" /\ todo'[t] = {i} /\ items'[i] = found'[t] /\ call'[t].key \in Keys
    BY <1>2, <1>3, <2>1, <2>5 DEF Typed, TypeOK
  <2> QED
    BY <1>3, <2>4, <2>5, <2>6 DEF Sound, Updating
<1> QED
  BY <1>5, <1>6

LEMMA ReplaceTyped ==
  ASSUME Typed, NEW t \in Threads, Replace(t) PROVE TypeOK' /\ Sound(t)'
<1> USE DEF fixed, Go
<1>1. PICK i \in todo[t] :
         /\ items' = [items EXCEPT ![i] =
              [found[t] EXCEPT !.meta[call[t].key] = call[t].number, !.etag = etags + 1]]
         /\ landed' = [landed EXCEPT ![i][call[t].key] = call[t].number]
         /\ behind' \subseteq behind \cup {i}
  BY DEF Replace
<1>2. /\ at[t] = "replace" /\ etags' = etags + 1 /\ etags' \in Nat /\ Finish(t)
      /\ UNCHANGED <<home, batches, local, calls, faults>>
  BY DEF Replace, Typed, TypeOK
<1>3. i \in Ids /\ call[t].key \in Keys /\ found[t] \in Item /\ call[t].number \in Nat
  BY <1>2 DEF Typed, TypeOK, Sound, Updating
<1>4. [found[t] EXCEPT !.meta[call[t].key] = call[t].number, !.etag = etags + 1] \in Item'
  <2>1. found[t].meta \in [Keys -> Nat] /\ etags + 1 \in 1..etags'
    BY <1>2, <1>3 DEF Item, Typed, TypeOK
  <2>2. [found[t].meta EXCEPT ![call[t].key] = call[t].number] \in [Keys -> Nat]
    BY <1>3, <2>1
  <2> DEFINE new == [found[t] EXCEPT !.meta = [found[t].meta EXCEPT ![call[t].key] = call[t].number],
                                     !.etag = etags + 1]
  <2>3. new \in Item'
    BY <1>3, <2>1, <2>2 DEF Item
  <2>4. new = [found[t] EXCEPT !.meta[call[t].key] = call[t].number, !.etag = etags + 1]
    BY <1>3 DEF Item
  <2> QED
    BY <2>3, <2>4
<1>5. items' \in [Ids -> Item' \cup {None}]
  <2>1. \A x \in Item : x \in Item'
    BY <1>2 DEF Item, Typed, TypeOK
  <2> QED
    BY <1>1, <1>4, <2>1 DEF Typed, TypeOK
<1>6. landed' \in [Ids -> [Keys -> Nat]] /\ behind' \subseteq Ids
  BY <1>1, <1>3 DEF Typed, TypeOK
<1> QED
  BY <1>2, <1>5, <1>6, EndTyped DEF Typed, TypeOK

(* Deleted, GoneSince, ReadAgain and Refused write nothing.                *)
LEMMA OverTyped ==
  ASSUME Typed, NEW t \in Threads, Deleted(t) \/ GoneSince(t) \/ ReadAgain(t) \/ Refused(t)
  PROVE  TypeOK' /\ Sound(t)'
<1> USE DEF fixed, store, work, aux, Go
<1>1. ASSUME Finish(t), UNCHANGED <<home, batches, local, items, etags, calls, landed>>,
             faults' \in 0..MaxFaults, behind' \subseteq Ids
      PROVE  TypeOK' /\ Sound(t)'
  <2>1. Item' = Item
    BY <1>1 DEF Item
  <2> QED
    BY <1>1, <2>1, EndTyped DEF Typed, TypeOK
<1>2. CASE Deleted(t) \/ GoneSince(t)
  BY <1>1, <1>2 DEF Deleted, GoneSince, Typed, TypeOK
<1>3. CASE Refused(t)
  <2>1. faults' \in 0..MaxFaults
    BY <1>3, LimitsAreNumbers DEF Refused, Typed, TypeOK
  <2>2. behind \cup todo[t] \subseteq Ids
    BY DEF Typed, TypeOK
  <2> QED
    BY <1>1, <1>3, <2>1, <2>2 DEF Refused, Fall
<1>4. CASE ReadAgain(t)
  <2>1. CASE tries[t] < Tries
    <3>1. /\ at[t] = "replace" /\ at' = [at EXCEPT ![t] = "read"]
          /\ UNCHANGED <<fixed, local, store, lock, calls, work, aux, faults>>
      BY <1>4, <2>1 DEF ReadAgain
    <3>2. \A u \in Threads : LockHeld(u)'
      BY <3>1 DEF Typed, TypeOK, LockHeld, Adding, Updating
    <3>3. TypeOK'
      BY <3>1, <3>2 DEF Typed, TypeOK, LockHeld, Adding, Updating, Item
    <3> QED
      BY <2>1, <3>1, <3>3 DEF Typed, TypeOK, Sound, Updating
  <2>2. CASE ~(tries[t] < Tries)
    <3>1. behind \cup todo[t] \subseteq Ids
      BY DEF Typed, TypeOK
    <3> QED
      BY <1>1, <1>4, <2>2, <3>1 DEF ReadAgain, Fall, Typed, TypeOK
  <2> QED
    BY <2>1, <2>2
<1> QED
  BY <1>2, <1>3, <1>4

LEMMA TypedStep == Typed /\ [Next]_vars => Typed'
<1> SUFFICES ASSUME Typed, [Next]_vars PROVE Typed'
  OBVIOUS
<1>1. ASSUME NEW t \in Threads, StepOf(t) PROVE Typed'
  <2>1. TypeOK' /\ Sound(t)'
    <3>1. ASSUME DeleteBatch(t) \/ DeleteOne(t) PROVE TypeOK' /\ Sound(t)'
      <4>1. PICK ids \in SUBSET todo[t] : Erase(t, ids)
        BY <3>1 DEF DeleteBatch, DeleteOne
      <4>2. ids \in SUBSET Ids
        BY <4>1 DEF Typed, TypeOK
      <4>3. at[t] \in {"delete", "each"}
        BY <3>1 DEF DeleteBatch, DeleteOne
      <4> QED
        BY <4>1, <4>2, <4>3, EraseTyped
    <3> QED
      BY <1>1, <3>1, AddTyped, DeleteTyped, UpdateTyped, LookTyped, PutTyped, ReadTyped,
         ReplaceTyped, OverTyped DEF StepOf
  <2>2. \A u \in Threads \ {t} : Sound(u)'
    BY <1>1, <2>1, Frame, OthersSound DEF Typed, Elsewhere
  <2> QED
    BY <2>1, <2>2 DEF Typed
<1>2. CASE UNCHANGED vars
  BY <1>2 DEF vars, fixed, store, work, aux, Typed, TypeOK, Item, Sound, Unchanged
<1>3. Next => \E t \in Threads : StepOf(t)
  BY DEF Next, StepOf
<1> QED
  BY <1>1, <1>2, <1>3

(* Every variable has its type, and only who adds, or updates a row that   *)
(* its process has not, holds the lock.                                    *)
THEOREM TypeCorrect == Spec => []TypeOK
<1>1. Typed => TypeOK
  BY DEF Typed
<1> QED
  BY TypedInit, TypedStep, <1>1, PTL DEF Spec

-------------------------------------------------------------------------------
(* Updates of other keys survive                                           *)

Merged == Typed /\ MergesSurvive

LEMMA MergedStep == Merged /\ [Next]_vars => Merged'
<1> SUFFICES ASSUME Merged, [Next]_vars PROVE MergesSurvive'
  BY TypedStep DEF Merged
<1>1. CASE UNCHANGED <<items, landed>>
  BY <1>1 DEF Merged, MergesSurvive
<1>2. ASSUME NEW t \in Threads, Put(t) PROVE MergesSurvive'
  <2>1. PICK ids : Upsert(t, ids)
    BY <1>2 DEF Put
  <2> QED
    BY <2>1 DEF Upsert, Merged, MergesSurvive
<1>3. ASSUME NEW t \in Threads, NEW ids, Erase(t, ids) PROVE MergesSurvive'
  BY <1>3 DEF Erase, Merged, MergesSurvive
<1>4. ASSUME NEW t \in Threads, Replace(t) PROVE MergesSurvive'
  <2> DEFINE k == call[t].key
  <2>1. PICK i \in todo[t] :
           /\ Unchanged(t, i)
           /\ items' = [items EXCEPT ![i] =
                [found[t] EXCEPT !.meta[k] = call[t].number, !.etag = etags + 1]]
           /\ landed' = [landed EXCEPT ![i][k] = call[t].number]
    BY <1>4 DEF Replace
  <2>2. i \in Ids /\ items[i] = found[t] /\ found[t] \in Item /\ items[i] # None
    BY <1>4, <2>1 DEF Replace, Merged, Typed, TypeOK, Sound, Unchanged
  <2>3. items'[i].meta = [items[i].meta EXCEPT ![k] = call[t].number]
    <3>1. items'[i] = [found[t] EXCEPT !.meta[k] = call[t].number, !.etag = etags + 1]
      BY <2>1, <2>2 DEF Merged, Typed, TypeOK
    <3> QED
      BY <2>2, <3>1 DEF Item
  <2>4. landed'[i] = [landed[i] EXCEPT ![k] = call[t].number]
    BY <2>1, <2>2 DEF Merged, Typed, TypeOK
  <2>5. \A j \in Ids \ {i} : items'[j] = items[j] /\ landed'[j] = landed[j]
    BY <2>1 DEF Merged, Typed, TypeOK
  <2> QED
    BY <2>2, <2>3, <2>4, <2>5 DEF Merged, MergesSurvive
<1>5. \/ UNCHANGED <<items, landed>>
      \/ \E t \in Threads : Put(t) \/ Replace(t) \/ \E ids : Erase(t, ids)
  BY DEF Next, vars, fixed, store, work, aux, Add, Delete, Update, Look, Find, DeleteBatch,
         BatchRefused, DeleteOne, Deleted, Read, GoneSince, ReadAgain, Refused, Fall
<1> QED
  BY <1>1, <1>2, <1>3, <1>4, <1>5

(* What an update set stays set until the chunk is written or deleted or   *)
(* the key is set again, however many threads and processes update, add    *)
(* and delete it meanwhile.                                                *)
THEOREM UpdatesAreMerged == Spec => []MergesSurvive
<1>1. Init => Merged
  <2>1. Init => MergesSurvive
    BY DEF Init, MergesSurvive
  <2> QED
    BY <2>1, TypedInit DEF Merged
<1>2. Merged => MergesSurvive
  BY DEF Merged
<1> QED
  BY <1>1, <1>2, MergedStep, PTL DEF Spec

-------------------------------------------------------------------------------
(* What a delete found is gone                                             *)

(* A number is of one call.                                                *)
Numbered ==
  /\ \A i \in Ids : items[i] # None => items[i].by <= calls
  /\ \A t \in Threads : call[t].number <= calls
  /\ \A t, u \in Threads :
       t # u /\ at[t] \in Adding /\ at[u] \in Adding => call[t].number # call[u].number

(* Of what a delete found, and is done with, no item is there of the add   *)
(* it found.                                                               *)
Gone(t) ==
  at[t] \in Deleting =>
    /\ DOMAIN found[t] \subseteq Ids /\ (at[t] = "deleted" => todo[t] = {})
    /\ \A i \in DOMAIN found[t] :
         /\ found[t][i] \in 0..calls
         /\ i \notin todo[t] /\ items[i] # None => items[i].by # found[t][i]

(* What an add has still to put was never there of this add, and no delete *)
(* found it.                                                               *)
PutsOnce(u) ==
  at[u] \in Adding =>
    \A i \in todo[u] :
      /\ items[i] # None => items[i].by # call[u].number
      /\ \A t \in Threads :
           at[t] \in Deleting /\ i \in DOMAIN found[t] => found[t][i] # call[u].number

Told == Typed /\ Numbered /\ \A t \in Threads : Gone(t) /\ PutsOnce(t)

(* A step that numbers no call, writes no item of another add and begins   *)
(* no add and no delete.                                                   *)
LEMMA QuietStep ==
  ASSUME Told, NEW t \in Threads, Elsewhere(t), calls' = calls,
         \A i \in Ids : items'[i] # None => items[i] # None /\ items'[i].by = items[i].by,
         call'[t].number \in {call[t].number, 0},
         at'[t] \in Adding =>
           at[t] \in Adding /\ call'[t] = call[t] /\ todo'[t] \subseteq todo[t],
         at'[t] \in Deleting =>
           /\ at[t] \in Deleting /\ found'[t] = found[t] /\ todo'[t] = todo[t]
           /\ at'[t] = "deleted" => at[t] = "deleted"
  PROVE  Numbered' /\ \A u \in Threads : Gone(u)' /\ PutsOnce(u)'
<1>1. Numbered'
  <2>1. calls \in Nat
    BY DEF Told, Typed, TypeOK
  <2> QED
    BY <2>1 DEF Told, Numbered, Elsewhere
<1>2. ASSUME NEW u \in Threads PROVE Gone(u)'
  BY DEF Told, Gone, Elsewhere
<1>3. ASSUME NEW u \in Threads PROVE PutsOnce(u)'
  <2>1. SUFFICES ASSUME at'[u] \in Adding, NEW i \in todo'[u]
                 PROVE  /\ items'[i] # None => items'[i].by # call'[u].number
                        /\ \A v \in Threads : at'[v] \in Deleting /\ i \in DOMAIN found'[v] =>
                             found'[v][i] # call'[u].number
    BY DEF PutsOnce
  <2>2. at[u] \in Adding /\ i \in todo[u] /\ call'[u] = call[u] /\ i \in Ids
    BY <2>1 DEF Elsewhere, Told, Typed, TypeOK
  <2>3. \A v \in Threads : at'[v] \in Deleting => at[v] \in Deleting /\ found'[v] = found[v]
    BY DEF Elsewhere
  <2> QED
    BY <2>2, <2>3 DEF Told, PutsOnce
<1> QED
  BY <1>1, <1>2, <1>3

(* A call that begins has a number that no other has.                      *)
LEMMA BeginStep ==
  ASSUME Told, NEW t \in Threads, Elsewhere(t), calls' = calls + 1, UNCHANGED items,
         call'[t].number = calls + 1, at'[t] \notin Deleting, todo'[t] \subseteq Ids
  PROVE  Numbered' /\ \A u \in Threads : Gone(u)' /\ PutsOnce(u)'
<1>1. calls \in Nat /\ \A i \in Ids : items[i] # None => items[i].by \in Nat
  BY DEF Told, Typed, TypeOK, Item
<1>2. \A u \in Threads \ {t} : call[u].number \in Nat
  BY DEF Told, Typed, TypeOK
<1>3. Numbered'
  BY <1>1, <1>2 DEF Told, Numbered, Elsewhere
<1>4. ASSUME NEW u \in Threads PROVE Gone(u)'
  BY <1>1 DEF Told, Gone, Elsewhere
<1>5. ASSUME NEW u \in Threads \ {t} PROVE PutsOnce(u)'
  BY DEF Told, PutsOnce, Elsewhere
<1>6. PutsOnce(t)'
  <2>1. SUFFICES ASSUME NEW i \in todo'[t]
                 PROVE  /\ items'[i] # None => items'[i].by # call'[t].number
                        /\ \A v \in Threads : at'[v] \in Deleting /\ i \in DOMAIN found'[v] =>
                             found'[v][i] # call'[t].number
    BY DEF PutsOnce
  <2>2. i \in Ids
    BY <2>1
  <2>3. items'[i] # None => items'[i].by # call'[t].number
    BY <1>1, <2>2 DEF Told, Numbered
  <2>4. ASSUME NEW v \in Threads, at'[v] \in Deleting, i \in DOMAIN found'[v]
        PROVE  found'[v][i] # call'[t].number
    <3>1. v # t /\ at[v] \in Deleting /\ found'[v] = found[v]
      BY <2>4 DEF Elsewhere
    <3>2. found[v][i] \in 0..calls
      BY <2>4, <3>1 DEF Told, Gone
    <3> QED
      BY <1>1, <3>1, <3>2
  <2> QED
    BY <2>3, <2>4
<1> QED
  BY <1>3, <1>4, <1>5, <1>6

(* The items put are of a number that no delete found of them.             *)
LEMMA PutStep ==
  ASSUME Told, TypeOK', NEW t \in Threads, Put(t)
  PROVE  Numbered' /\ \A u \in Threads : Gone(u)' /\ PutsOnce(u)'
<1>1. PICK ids \in Sent(t) :
         /\ Upsert(t, ids)
         /\ \/ Finish(t)
            \/ todo' = [todo EXCEPT ![t] = @ \ ids] /\ UNCHANGED <<lock, at, call, found, tries>>
  BY DEF Put
<1>2. at[t] = "put" /\ UNCHANGED calls /\ Elsewhere(t)
  BY Frame DEF Put, StepOf, Told, Typed
<1>3. ids \subseteq todo[t] /\ todo[t] \subseteq Ids
  BY <1>1 DEF Sent, Told, Typed, TypeOK
<1>4. /\ \A i \in ids : items'[i].by = call[t].number /\ items'[i] # None
      /\ \A i \in Ids \ ids : items'[i] = items[i]
  <2>1. \A i \in ids : items'[i] = [by |-> call[t].number, meta |-> Blank,
                                    written |-> FirstWritten(t, i), etag |-> etags + 1]
    BY <1>1, <1>3 DEF Upsert
  <2>2. \A i \in ids : FirstWritten(t, i) \in Nat
    BY <1>2, <1>3 DEF FirstWritten, Told, Typed, TypeOK, Sound
  <2>3. \A i \in ids : items'[i] \in [by : Nat, meta : [Keys -> Nat], written : Nat, etag : Nat]
    <3>1. call[t].number \in Nat /\ etags + 1 \in Nat /\ Blank \in [Keys -> Nat]
      BY DEF Told, Typed, TypeOK, Blank
    <3>2. ASSUME NEW i \in ids
          PROVE  items'[i] \in [by : Nat, meta : [Keys -> Nat], written : Nat, etag : Nat]
      <4>1. PICK n \in Nat : n = FirstWritten(t, i)
        BY <2>2
      <4>2. items'[i] = [by |-> call[t].number, meta |-> Blank, written |-> n, etag |-> etags + 1]
        BY <2>1, <4>1
      <4> QED
        BY <3>1, <4>2
    <3> QED
      BY <3>2
  <2> QED
    BY <1>1, <1>3, <2>1, <2>3, NoneIsNothing DEF Upsert
<1>5. \/ at'[t] = "idle" /\ call'[t] = NoCall
      \/ /\ at'[t] = "put" /\ call'[t] = call[t] /\ todo'[t] = todo[t] \ ids
  BY <1>1, <1>2 DEF Finish, Go, Told, Typed, TypeOK
<1>6. calls \in Nat /\ call[t].number <= calls /\ NoCall.number = 0
  BY DEF Told, Typed, TypeOK, Numbered, NoCall
<1>7. Numbered'
  <2>1. \A i \in Ids : items'[i] # None => items'[i].by <= calls'
    BY <1>2, <1>4, <1>6 DEF Told, Numbered
  <2>2. \A u \in Threads : call'[u].number <= calls'
    BY <1>2, <1>5, <1>6 DEF Told, Numbered, Elsewhere
  <2>3. \A u \in Threads : at'[u] \in Adding => at[u] \in Adding /\ call'[u] = call[u]
    BY <1>2, <1>5 DEF Elsewhere, Adding
  <2> QED
    BY <2>1, <2>2, <2>3 DEF Told, Numbered
<1>8. ASSUME NEW u \in Threads PROVE Gone(u)'
  <2>1. SUFFICES ASSUME at'[u] \in Deleting PROVE Gone(u)'
    BY DEF Gone
  <2>2. u # t /\ at[u] \in Deleting /\ at'[u] = at[u] /\ found'[u] = found[u] /\ todo'[u] = todo[u]
    BY <1>2, <1>5, <2>1 DEF Elsewhere, Deleting
  <2>3. ASSUME NEW i \in DOMAIN found[u], i \notin todo[u], items'[i] # None
        PROVE  items'[i].by # found[u][i]
    <3>1. i \in Ids
      BY <2>2 DEF Told, Gone
    <3>2. CASE i \in ids
      BY <1>2, <1>3, <1>4, <2>2, <3>2 DEF Told, PutsOnce, Adding
    <3>3. CASE i \notin ids
      BY <1>4, <2>2, <2>3, <3>1, <3>3 DEF Told, Gone
    <3> QED
      BY <3>2, <3>3
  <2> QED
    BY <1>2, <2>2, <2>3 DEF Told, Gone
<1>9. ASSUME NEW u \in Threads PROVE PutsOnce(u)'
  <2>1. SUFFICES ASSUME at'[u] \in Adding, NEW i \in todo'[u]
                 PROVE  /\ items'[i] # None => items'[i].by # call'[u].number
                        /\ \A v \in Threads : at'[v] \in Deleting /\ i \in DOMAIN found'[v] =>
                             found'[v][i] # call'[u].number
    BY DEF PutsOnce
  <2>2. /\ at[u] \in Adding /\ call'[u] = call[u] /\ i \in todo[u] /\ i \in Ids
        /\ u = t => i \notin ids
    BY <1>2, <1>5, <2>1 DEF Elsewhere, Adding, Told, Typed, TypeOK
  <2>3. \A v \in Threads : at'[v] \in Deleting => at[v] \in Deleting /\ found'[v] = found[v]
    BY <1>2, <1>5 DEF Elsewhere, Deleting
  <2>4. items'[i] # None => items'[i].by # call'[u].number
    <3>1. CASE i \in ids
      <4>1. u # t /\ call[u].number # call[t].number
        BY <1>2, <2>2, <3>1 DEF Told, Numbered, Adding
      <4> QED
        BY <1>4, <2>2, <3>1, <4>1
    <3>2. CASE i \notin ids
      BY <1>4, <2>2, <3>2 DEF Told, PutsOnce
    <3> QED
      BY <3>1, <3>2
  <2> QED
    BY <2>2, <2>3, <2>4 DEF Told, PutsOnce
<1> QED
  BY <1>7, <1>8, <1>9

LEMMA FindStep ==
  ASSUME Told, NEW t \in Threads, Find(t)
  PROVE  Numbered' /\ \A u \in Threads : Gone(u)' /\ PutsOnce(u)'
<1> USE DEF fixed, store, aux, Go
<1>1. /\ Elsewhere(t) /\ UNCHANGED <<items, calls, call>> /\ at[t] = "find"
      /\ DOMAIN found'[t] = Here(todo[t]) /\ todo'[t] = Here(todo[t])
      /\ \A i \in Here(todo[t]) : found'[t][i] = items[i].by
      /\ at'[t] \in Deleting /\ (at'[t] = "deleted" => todo'[t] = {})
  BY Frame DEF Find, StepOf, Told, Typed, TypeOK, Deleting
<1>2. Here(todo[t]) \subseteq Ids /\ \A i \in Here(todo[t]) : items[i] # None
  BY DEF Here, Told, Typed, TypeOK
<1>3. \A i \in Ids : items[i] # None => items[i].by \in 0..calls
  BY DEF Told, Typed, TypeOK, Item, Numbered
<1>4. Numbered'
  <2>1. \A u \in Threads : at'[u] \in Adding => at[u] \in Adding
    BY <1>1 DEF Elsewhere, Adding, Deleting
  <2> QED
    BY <1>1, <2>1 DEF Told, Numbered
<1>5. ASSUME NEW u \in Threads PROVE Gone(u)'
  <2>1. CASE u = t
    BY <1>1, <1>2, <1>3, <2>1 DEF Gone
  <2>2. CASE u # t
    BY <1>1, <2>2 DEF Told, Gone, Elsewhere
  <2> QED
    BY <2>1, <2>2
<1>6. ASSUME NEW u \in Threads PROVE PutsOnce(u)'
  <2>1. SUFFICES ASSUME at'[u] \in Adding, NEW i \in todo'[u]
                 PROVE  /\ items'[i] # None => items'[i].by # call'[u].number
                        /\ \A v \in Threads : at'[v] \in Deleting /\ i \in DOMAIN found'[v] =>
                             found'[v][i] # call'[u].number
    BY DEF PutsOnce
  <2>2. u # t /\ at[u] \in Adding /\ i \in todo[u] /\ call'[u] = call[u]
    BY <1>1, <2>1 DEF Elsewhere, Adding, Deleting
  <2>3. ASSUME NEW v \in Threads, at'[v] \in Deleting, i \in DOMAIN found'[v]
        PROVE  found'[v][i] # call'[u].number
    <3>1. CASE v = t
      BY <1>1, <1>2, <2>2, <2>3, <3>1 DEF Told, PutsOnce
    <3>2. CASE v # t
      BY <1>1, <2>2, <2>3, <3>2 DEF Told, PutsOnce, Elsewhere
    <3> QED
      BY <3>1, <3>2
  <2> QED
    BY <1>1, <2>2, <2>3 DEF Told, PutsOnce
<1> QED
  BY <1>4, <1>5, <1>6

LEMMA EraseStep ==
  ASSUME Told, NEW t \in Threads, at[t] \in {"delete", "each"},
         NEW ids \in SUBSET todo[t], Erase(t, ids), Elsewhere(t)
  PROVE  Numbered' /\ \A u \in Threads : Gone(u)' /\ PutsOnce(u)'
<1> USE DEF fixed, Go
<1>1. /\ UNCHANGED <<calls, call, found>> /\ todo'[t] = todo[t] \ ids /\ ids \subseteq Ids
      /\ at'[t] \in Deleting /\ (at'[t] = "deleted" => todo'[t] = {})
      /\ items' = [i \in Ids |-> IF i \in ids THEN None ELSE items[i]]
  BY DEF Erase, Told, Typed, TypeOK, Deleting
<1>2. at[t] \in Deleting
  BY DEF Deleting
<1>3. \A u \in Threads : at'[u] \in Adding => at[u] \in Adding /\ todo'[u] = todo[u]
  BY <1>1 DEF Elsewhere, Adding, Deleting
<1>4. Numbered'
  BY <1>1, <1>3 DEF Told, Numbered
<1>5. ASSUME NEW u \in Threads PROVE Gone(u)'
  <2>1. CASE u = t
    BY <1>1, <1>2, <2>1 DEF Told, Gone
  <2>2. CASE u # t
    BY <1>1, <2>2 DEF Told, Gone, Elsewhere
  <2> QED
    BY <2>1, <2>2
<1>6. ASSUME NEW u \in Threads PROVE PutsOnce(u)'
  <2>1. \A v \in Threads : at'[v] \in Deleting => at[v] \in Deleting
    BY <1>2 DEF Elsewhere
  <2>2. \A i \in todo[u] : items'[i] # None => items'[i] = items[i]
    BY <1>1 DEF Told, Typed, TypeOK
  <2> QED
    BY <1>1, <1>3, <2>1, <2>2 DEF Told, PutsOnce
<1> QED
  BY <1>4, <1>5, <1>6

LEMMA ToldStep == Told /\ [Next]_vars => Told'
<1> SUFFICES ASSUME Told, [Next]_vars PROVE Told'
  OBVIOUS
<1>1. Typed' /\ TypeOK'
  BY TypedStep DEF Told, Typed
<1>2. SUFFICES Numbered' /\ \A u \in Threads : Gone(u)' /\ PutsOnce(u)'
  BY <1>1 DEF Told
<1> USE DEF fixed, store, work, aux, Go
<1>3. ASSUME NEW t \in Threads, StepOf(t)
      PROVE  Numbered' /\ \A u \in Threads : Gone(u)' /\ PutsOnce(u)'
  <2>1. Elsewhere(t) /\ calls \in Nat /\ call[t].number \in Nat /\ NoCall.number = 0
    BY <1>3, Frame DEF Told, Typed, TypeOK, NoCall
  <2>2. ASSUME NEW ids \in SUBSET Ids, Add(t, ids) \/ Delete(t, ids)
        PROVE  Numbered' /\ \A u \in Threads : Gone(u)' /\ PutsOnce(u)'
    <3>1. /\ calls' = calls + 1 /\ UNCHANGED items /\ call'[t].number = calls + 1
          /\ at'[t] \notin Deleting /\ todo'[t] \subseteq Ids
      BY <2>2 DEF Add, Delete, Call, Told, Typed, TypeOK, Deleting
    <3> QED
      BY <2>1, <3>1, BeginStep
  <2>3. ASSUME NEW i \in Ids, NEW k \in Keys, Update(t, i, k)
        PROVE  Numbered' /\ \A u \in Threads : Gone(u)' /\ PutsOnce(u)'
    <3>1. /\ calls' = calls + 1 /\ UNCHANGED items /\ call'[t].number = calls + 1
          /\ at'[t] \notin Deleting /\ todo'[t] \subseteq Ids
      BY <2>3 DEF Update, Call, Told, Typed, TypeOK, Deleting
    <3> QED
      BY <2>1, <3>1, BeginStep
  <2>4. CASE Look(t)
    <3>1. /\ UNCHANGED <<calls, items>> /\ at[t] \in Adding /\ at'[t] = "put"
          /\ call'[t] = call[t] /\ todo'[t] = todo[t]
      BY <2>4 DEF Look, Told, Typed, TypeOK, Adding
    <3> QED
      BY <2>1, <3>1, QuietStep DEF Deleting
  <2>5. CASE Put(t)
    BY <1>1, <2>5, PutStep
  <2>6. CASE Find(t)
    BY <2>6, FindStep
  <2>7. CASE DeleteBatch(t) \/ DeleteOne(t)
    <3>1. PICK ids \in SUBSET todo[t] : Erase(t, ids)
      BY <2>7 DEF DeleteBatch, DeleteOne
    <3>2. at[t] \in {"delete", "each"}
      BY <2>7 DEF DeleteBatch, DeleteOne
    <3> QED
      BY <2>1, <3>1, <3>2, EraseStep
  <2>8. CASE BatchRefused(t)
    <3>1. /\ UNCHANGED <<calls, items>> /\ at[t] \in Deleting /\ at'[t] = "each"
          /\ call'[t] = call[t] /\ todo'[t] = todo[t] /\ found'[t] = found[t]
      BY <2>8 DEF BatchRefused, OneByOne, Told, Typed, TypeOK, Deleting
    <3> QED
      BY <2>1, <3>1, QuietStep DEF Adding
  <2>9. ASSUME Finish(t), UNCHANGED calls,
               \A i \in Ids : items'[i] # None => items[i] # None /\ items'[i].by = items[i].by
        PROVE  Numbered' /\ \A u \in Threads : Gone(u)' /\ PutsOnce(u)'
    <3>1. at'[t] = "idle" /\ call'[t].number = 0
      BY <2>1, <2>9 DEF Finish, Told, Typed, TypeOK
    <3> QED
      BY <2>1, <2>9, <3>1, QuietStep DEF Adding, Deleting
  <2>10. CASE Deleted(t) \/ GoneSince(t) \/ Refused(t)
    BY <2>9, <2>10 DEF Deleted, GoneSince, Refused, Fall
  <2>11. ASSUME UNCHANGED <<items, calls, call>>, at'[t] \in Updating
         PROVE  Numbered' /\ \A u \in Threads : Gone(u)' /\ PutsOnce(u)'
    BY <2>1, <2>11, QuietStep DEF Adding, Deleting, Updating
  <2>12. CASE Read(t)
    <3>1. CASE Finish(t)
      BY <2>9, <2>12, <3>1 DEF Read
    <3>2. CASE ~Finish(t)
      <4>1. at' = [at EXCEPT ![t] = "replace"] /\ UNCHANGED <<items, calls, call>>
        BY <2>12, <3>2 DEF Read
      <4> QED
        BY <2>11, <4>1 DEF Told, Typed, TypeOK, Updating
    <3> QED
      BY <3>1, <3>2
  <2>13. CASE ReadAgain(t)
    <3>1. CASE tries[t] < Tries
      <4>1. at' = [at EXCEPT ![t] = "read"] /\ UNCHANGED <<items, calls, call>>
        BY <2>13, <3>1 DEF ReadAgain
      <4> QED
        BY <2>11, <4>1 DEF Told, Typed, TypeOK, Updating
    <3>2. CASE ~(tries[t] < Tries)
      BY <2>9, <2>13, <3>2 DEF ReadAgain, Fall
    <3> QED
      BY <3>1, <3>2
  <2>14. CASE Replace(t)
    <3>1. PICK i \in todo[t] :
             /\ Unchanged(t, i)
             /\ items' = [items EXCEPT ![i] =
                  [found[t] EXCEPT !.meta[call[t].key] = call[t].number, !.etag = etags + 1]]
      BY <2>14 DEF Replace
    <3>2. i \in Ids /\ items[i] = found[t] /\ found[t] \in Item /\ items[i] # None
      BY <2>14, <3>1 DEF Replace, Told, Typed, TypeOK, Sound, Unchanged
    <3>3. items'[i].by = items[i].by
      <4>1. items'[i] = [found[t] EXCEPT !.meta[call[t].key] = call[t].number, !.etag = etags + 1]
        BY <3>1, <3>2 DEF Told, Typed, TypeOK
      <4> QED
        BY <3>2, <4>1 DEF Item
    <3>4. \A j \in Ids \ {i} : items'[j] = items[j]
      BY <3>1 DEF Told, Typed, TypeOK
    <3> QED
      BY <2>9, <2>14, <3>2, <3>3, <3>4 DEF Replace
  <2> QED
    BY <1>3, <2>2, <2>3, <2>4, <2>5, <2>6, <2>7, <2>8, <2>10, <2>12, <2>13, <2>14 DEF StepOf
<1>4. CASE UNCHANGED vars
  BY <1>4 DEF vars, Told, Numbered, Gone, PutsOnce
<1>5. Next => \E t \in Threads : StepOf(t)
  BY DEF Next, StepOf
<1> QED
  BY <1>3, <1>4, <1>5

(* Of the chunks a delete found, none is there when it returns unless it   *)
(* has been added again, whatever batch the store refused because another  *)
(* had deleted one of it.                                                  *)
THEOREM FoundAreDeleted == Spec => []DeletedAreGone
<1>1. Init => Told
  <2>1. Init => Numbered /\ \A t \in Threads : Gone(t) /\ PutsOnce(t)
    BY DEF Init, NoCall, Numbered, Gone, PutsOnce, Adding, Deleting
  <2> QED
    BY <2>1, TypedInit DEF Told
<1>2. Told => DeletedAreGone
  BY DEF Told, Gone, DeletedAreGone, Deleting
<1> QED
  BY <1>1, <1>2, ToldStep, PTL DEF Spec

-------------------------------------------------------------------------------
(* When a chunk was first written                                          *)

LEMMA WrittenOnce ==
  ASSUME Typed, [Next]_vars, NEW i \in Ids, items[i] # None, items'[i] # None, ~Overlooked(i)
  PROVE  items'[i].written = items[i].written
<1>1. ASSUME NEW t \in Threads, Put(t) PROVE items'[i].written = items[i].written
  <2>1. PICK ids \in Sent(t) : Upsert(t, ids)
    BY <1>1 DEF Put
  <2>2. CASE i \in ids
    <3>1. items'[i] = [by |-> call[t].number, meta |-> Blank,
                       written |-> FirstWritten(t, i), etag |-> etags + 1]
      BY <2>1, <2>2 DEF Upsert
    <3>2. i \in DOMAIN found[t] /\ found[t][i] = items[i].written
      BY <1>1, <3>1 DEF Overlooked, Put
    <3> QED
      BY <3>1, <3>2 DEF FirstWritten
  <2>3. CASE i \notin ids
    BY <2>1, <2>3 DEF Upsert
  <2> QED
    BY <2>2, <2>3
<1>2. ASSUME NEW t \in Threads, NEW ids, Erase(t, ids)
      PROVE  items'[i].written = items[i].written
  BY <1>2 DEF Erase
<1>3. ASSUME NEW t \in Threads, Replace(t) PROVE items'[i].written = items[i].written
  <2>1. PICK j \in todo[t] :
           /\ Unchanged(t, j)
           /\ items' = [items EXCEPT ![j] =
                [found[t] EXCEPT !.meta[call[t].key] = call[t].number, !.etag = etags + 1]]
    BY <1>3 DEF Replace
  <2>2. items[j] = found[t] /\ found[t] \in Item
    BY <1>3, <2>1 DEF Replace, Typed, Sound
  <2>3. CASE i = j
    <3>1. items'[i] = [found[t] EXCEPT !.meta[call[t].key] = call[t].number, !.etag = etags + 1]
      BY <2>1, <2>3 DEF Typed, TypeOK
    <3> QED
      BY <2>2, <2>3, <3>1 DEF Item
  <2>4. CASE i # j
    BY <2>1, <2>4 DEF Typed, TypeOK
  <2> QED
    BY <2>3, <2>4
<1>4. \/ UNCHANGED items
      \/ \E t \in Threads : Put(t) \/ Replace(t) \/ \E ids : Erase(t, ids)
  BY DEF Next, vars, fixed, store, work, aux, Add, Delete, Update, Look, Find, DeleteBatch,
         BatchRefused, DeleteOne, Deleted, Read, GoneSince, ReadAgain, Refused, Fall
<1> QED
  BY <1>1, <1>2, <1>3, <1>4

(* A chunk that is written again keeps the time it was first written,      *)
(* whoever writes, updates or deletes it meanwhile, unless who writes it   *)
(* looked before that time was there to see.                               *)
THEOREM FirstWrittenIsKept == Spec => KeepsFirstWritten
<1>1. Typed /\ [Next]_vars =>
        [\A i \in Ids :
           items[i] # None /\ items'[i] # None /\ ~Overlooked(i) =>
             items'[i].written = items[i].written]_vars
  BY WrittenOnce
<1> QED
  BY TypedInit, TypedStep, <1>1, PTL DEF Spec, KeepsFirstWritten

-------------------------------------------------------------------------------
(* The store follows the rows                                              *)

(* A row knows its add, and an add's rows are as it wrote them.            *)
RowsAre ==
  /\ \A p \in Processes, i \in Ids : local[p][i] # None => local[p][i].by <= calls
  /\ \A t \in Threads : call[t].by # None => call[t].by <= calls
  /\ \A t \in Threads : at[t] \in Adding =>
       \A i \in todo[t] : Rows(t)[i] = [by |-> call[t].number, meta |-> Blank]
  /\ \A t \in Threads, i \in Ids :
       /\ at[t] \in Updating /\ i \in todo[t] /\ call[t].by # None
       /\ Rows(t)[i] # None /\ Rows(t)[i].by = call[t].by
       => call[t].number <= Rows(t)[i].meta[call[t].key]

Adder(t, i) == at[t] \in Adding /\ i \in todo[t]
Deleter(t, i) == at[t] \in {"find", "delete", "each"} /\ i \in todo[t]
Setter(t, i, k, row) ==
  /\ at[t] \in Updating /\ i \in todo[t]
  /\ call[t].key = k /\ call[t].by = row.by /\ call[t].number = row.meta[k]

(* The item is the row, but for what a call under way will send.           *)
Follows(row, i) ==
  IF row = None
  THEN items[i] = None \/ \E t \in Threads : Deleter(t, i)
  ELSE /\ items[i] # None /\ items[i].by = row.by
       /\ \A k \in Keys :
            items[i].meta[k] = row.meta[k] \/ \E t \in Threads : Setter(t, i, k, row)

Followed(t, i) == i \in behind \/ (\E u \in Threads : Adder(u, i)) \/ Follows(Rows(t)[i], i)

InStep ==
  (\A t, u \in Threads : home[t] = home[u]) => \A t \in Threads, i \in Ids : Followed(t, i)

(* A step that begins no call: what t was about, it goes on with or drops. *)
GoesOn(t) ==
  /\ UNCHANGED <<local, calls, home>> /\ call'[t] \in {call[t], NoCall}
  /\ at'[t] \in Adding => at[t] \in Adding /\ call'[t] = call[t] /\ todo'[t] \subseteq todo[t]
  /\ at'[t] \in Updating => at[t] \in Updating /\ call'[t] = call[t] /\ todo'[t] = todo[t]

LEMMA FinishGoesOn ==
  ASSUME TypeOK, NEW t \in Threads, Finish(t), UNCHANGED <<local, calls, home>>
  PROVE  GoesOn(t) /\ at'[t] = "idle"
  BY DEF Finish, Go, GoesOn, Adding, Updating, TypeOK

LEMMA StepGoesOn ==
  ASSUME TypeOK, NEW t \in Threads, StepOf(t)
  PROVE  \/ GoesOn(t)
         \/ \E ids \in SUBSET Ids : Add(t, ids) \/ Delete(t, ids)
         \/ \E i \in Ids, k \in Keys : Update(t, i, k)
<1> USE DEF fixed, store, work, aux, Go, Adding, Updating
<1>1. ASSUME Finish(t), UNCHANGED <<local, calls, home>> PROVE GoesOn(t)
  BY <1>1, FinishGoesOn
<1>2. CASE Look(t) \/ Find(t)
  BY <1>2 DEF Look, Find, GoesOn, TypeOK
<1>3. CASE Put(t)
  <2>1. /\ UNCHANGED <<local, calls, home>> /\ at[t] = "put"
        /\ Finish(t) \/ \E ids : todo' = [todo EXCEPT ![t] = @ \ ids] /\ UNCHANGED <<at, call>>
    BY <1>3 DEF Put
  <2> QED
    BY <1>1, <2>1 DEF GoesOn, TypeOK
<1>4. CASE DeleteBatch(t) \/ DeleteOne(t)
  <2>1. PICK ids : Erase(t, ids) /\ at[t] \in {"delete", "each"}
    BY <1>4 DEF DeleteBatch, DeleteOne
  <2> QED
    BY <2>1 DEF Erase, GoesOn, TypeOK
<1>5. CASE BatchRefused(t)
  BY <1>5 DEF BatchRefused, OneByOne, GoesOn, TypeOK
<1>6. CASE Deleted(t) \/ GoneSince(t) \/ Replace(t) \/ Refused(t)
  BY <1>1, <1>6 DEF Deleted, GoneSince, Replace, Refused, Fall
<1>7. CASE Read(t)
  <2>1. CASE Finish(t)
    BY <1>1, <1>7, <2>1 DEF Read
  <2>2. CASE ~Finish(t)
    <3>1. at' = [at EXCEPT ![t] = "replace"] /\ UNCHANGED <<local, calls, home, call, todo>>
      BY <1>7, <2>2 DEF Read
    <3> QED
      BY <1>7, <3>1 DEF Read, GoesOn, TypeOK
  <2> QED
    BY <2>1, <2>2
<1>8. CASE ReadAgain(t)
  <2>1. CASE tries[t] < Tries
    <3>1. at' = [at EXCEPT ![t] = "read"] /\ UNCHANGED <<local, calls, home, call, todo>>
      BY <1>8, <2>1 DEF ReadAgain
    <3> QED
      BY <1>8, <3>1 DEF ReadAgain, GoesOn, TypeOK
  <2>2. CASE ~(tries[t] < Tries)
    BY <1>1, <1>8, <2>2 DEF ReadAgain, Fall
  <2> QED
    BY <2>1, <2>2
<1> QED
  BY <1>2, <1>3, <1>4, <1>5, <1>6, <1>7, <1>8 DEF StepOf

(* While a call begins, no thread of its process is adding.                *)
LEMMA NoneAdds ==
  ASSUME TypeOK, NEW t \in Threads, Free(t), NEW u \in Threads, home[u] = home[t]
  PROVE  at[u] \notin Adding
  BY NoneIsNothing DEF TypeOK, Free, Adding

LEMMA RowsGoOn ==
  ASSUME TypeOK, RowsAre, NEW t \in Threads, Elsewhere(t), GoesOn(t) PROVE RowsAre'
<1>1. \A p \in Processes, i \in Ids : local'[p][i] # None => local'[p][i].by <= calls'
  BY DEF GoesOn, RowsAre
<1>2. \A u \in Threads : call'[u].by # None => call'[u].by <= calls'
  BY DEF GoesOn, RowsAre, Elsewhere, NoCall
<1>3. \A u \in Threads :
        /\ at'[u] \in Adding => at[u] \in Adding /\ call'[u] = call[u] /\ todo'[u] \subseteq todo[u]
        /\ at'[u] \in Updating => at[u] \in Updating /\ call'[u] = call[u] /\ todo'[u] = todo[u]
  BY DEF GoesOn, Elsewhere
<1>4. \A u \in Threads : Rows(u)' = Rows(u)
  BY DEF GoesOn, Rows
<1> QED
  BY <1>1, <1>2, <1>3, <1>4 DEF RowsAre

LEMMA RowsBegin ==
  ASSUME Told, RowsAre, NEW t \in Threads, Elsewhere(t), Free(t),
         UNCHANGED home, calls' = calls + 1,
         call'[t].number = calls + 1, call'[t].by # None => call'[t].by \in 0..calls,
         \A p \in Processes \ {home[t]} : local'[p] = local[p],
         \A i \in Ids :
           \/ Rows(t)'[i] = None
           \/ Rows(t)'[i] = Rows(t)[i]
           \/ Rows(t)'[i] = [by |-> calls + 1, meta |-> Blank]
           \/ /\ Rows(t)[i] # None /\ Rows(t)'[i] # None /\ Rows(t)'[i].by = Rows(t)[i].by
              /\ \A k \in Keys : Rows(t)'[i].meta[k] \in {Rows(t)[i].meta[k], calls + 1},
         at'[t] \in Adding =>
           \A i \in todo'[t] : Rows(t)'[i] = [by |-> calls + 1, meta |-> Blank],
         at'[t] \in Updating /\ call'[t].by # None =>
           /\ call'[t].key \in Keys
           /\ \A i \in todo'[t] : Rows(t)'[i] # None => Rows(t)'[i].meta[call'[t].key] = calls + 1
  PROVE  RowsAre'
<1>1. /\ calls \in Nat /\ home[t] \in Processes
      /\ \A u \in Threads : home[u] \in Processes /\ home'[u] = home[u]
      /\ \A u \in Threads : call[u].number \in Nat /\ call[u].number <= calls
      /\ \A u \in Threads : call[u].by # None => call[u].by \in Nat
  BY DEF Told, Typed, TypeOK, Numbered
<1>2. \A i \in Ids : Rows(t)[i] # None => /\ Rows(t)[i].by \in Nat /\ Rows(t)[i].by <= calls
                                          /\ \A k \in Keys : Rows(t)[i].meta[k] \in Nat
  BY <1>1 DEF Rows, RowsAre, Told, Typed, TypeOK, Row
<1>3. ASSUME NEW p \in Processes, NEW i \in Ids, local'[p][i] # None
      PROVE  local'[p][i].by <= calls'
  <2>1. CASE p = home[t]
    BY <1>1, <1>2, <1>3, <2>1 DEF Rows
  <2>2. CASE p # home[t]
    <3>1. local[p][i].by \in Nat /\ local[p][i].by <= calls /\ local'[p] = local[p]
      BY <1>3, <2>2 DEF RowsAre, Told, Typed, TypeOK, Row
    <3> QED
      BY <1>1, <3>1
  <2> QED
    BY <2>1, <2>2
<1>4. ASSUME NEW u \in Threads, call'[u].by # None PROVE call'[u].by <= calls'
  <2>1. CASE u = t
    BY <1>1, <1>4, <2>1
  <2>2. CASE u # t
    BY <1>1, <1>4, <2>2 DEF RowsAre, Elsewhere
  <2> QED
    BY <2>1, <2>2
<1>5. ASSUME NEW u \in Threads, at'[u] \in Adding, NEW i \in todo'[u]
      PROVE  Rows(u)'[i] = [by |-> call'[u].number, meta |-> Blank]
  <2>1. CASE u = t
    BY <1>5, <2>1
  <2>2. CASE u # t
    <3>1. at[u] \in Adding /\ home[u] # home[t]
      BY <1>5, <2>2, NoneAdds DEF Elsewhere, Told, Typed
    <3> QED
      BY <1>1, <1>5, <2>2, <3>1 DEF Rows, RowsAre, Elsewhere
  <2> QED
    BY <2>1, <2>2
<1>6. ASSUME NEW u \in Threads, NEW i \in Ids,
             at'[u] \in Updating, i \in todo'[u], call'[u].by # None,
             Rows(u)'[i] # None, Rows(u)'[i].by = call'[u].by
      PROVE  call'[u].number <= Rows(u)'[i].meta[call'[u].key]
  <2>1. CASE u = t
    BY <1>1, <1>6, <2>1
  <2>2. CASE u # t
    <3>1. /\ at[u] \in Updating /\ i \in todo[u] /\ call'[u] = call[u] /\ call[u].by # None
          /\ call[u].key \in Keys /\ call[u].by \in Nat /\ call[u].by <= calls
      BY <1>1, <1>6, <2>2 DEF Elsewhere, RowsAre, Told, Typed, Sound
    <3>2. CASE home[u] # home[t]
      BY <1>1, <1>6, <3>1, <3>2 DEF Rows, RowsAre
    <3>3. CASE home[u] = home[t]
      <4>1. Rows(u)' = Rows(t)' /\ Rows(u) = Rows(t)
        BY <1>1, <3>3 DEF Rows
      <4>2. CASE Rows(t)'[i] = Rows(t)[i]
        BY <1>6, <3>1, <4>1, <4>2 DEF RowsAre
      <4>3. CASE Rows(t)'[i] = [by |-> calls + 1, meta |-> Blank]
        BY <1>1, <1>6, <3>1, <4>1, <4>3
      <4>4. CASE /\ Rows(t)[i] # None /\ Rows(t)'[i] # None /\ Rows(t)'[i].by = Rows(t)[i].by
                 /\ \A k \in Keys : Rows(t)'[i].meta[k] \in {Rows(t)[i].meta[k], calls + 1}
        <5>1. call[u].number <= Rows(t)[i].meta[call[u].key]
          BY <1>6, <3>1, <4>1, <4>4 DEF RowsAre
        <5> QED
          BY <1>1, <3>1, <4>1, <4>4, <5>1
      <4> QED
        BY <1>6, <4>1, <4>2, <4>3, <4>4
    <3> QED
      BY <3>2, <3>3
  <2> QED
    BY <2>1, <2>2
<1> QED
  BY <1>3, <1>4, <1>5, <1>6 DEF RowsAre

LEMMA RowsStep == Told /\ RowsAre /\ [Next]_vars => RowsAre'
<1> SUFFICES ASSUME Told, RowsAre, [Next]_vars PROVE RowsAre'
  OBVIOUS
<1> USE DEF fixed, store, work, aux, Go
<1>1. CASE UNCHANGED vars
  BY <1>1 DEF vars, RowsAre, Rows
<1>2. ASSUME NEW t \in Threads, StepOf(t) PROVE RowsAre'
  <2>1. TypeOK /\ Elsewhere(t) /\ home[t] \in Processes
    BY <1>2, Frame DEF Told, Typed, TypeOK
  <2>2. CASE GoesOn(t)
    BY <2>1, <2>2, RowsGoOn
  <2>3. ASSUME NEW ids \in SUBSET Ids, Add(t, ids) PROVE RowsAre'
    <3>1. /\ UNCHANGED home /\ calls' = calls + 1 /\ Free(t)
          /\ call'[t] = [number |-> calls + 1, key |-> None, by |-> None]
          /\ at'[t] = "look" /\ todo'[t] = ids
      BY <2>1, <2>3 DEF Add, Call, TypeOK
    <3>2. /\ \A p \in Processes \ {home[t]} : local'[p] = local[p]
          /\ \A i \in ids : Rows(t)'[i] = [by |-> calls + 1, meta |-> Blank]
          /\ \A i \in Ids \ ids : Rows(t)'[i] = Rows(t)[i]
      BY <2>1, <2>3, <3>1 DEF Add, Rows, TypeOK
    <3> QED
      BY <2>1, <3>1, <3>2, RowsBegin DEF Updating
  <2>4. ASSUME NEW ids \in SUBSET Ids, Delete(t, ids) PROVE RowsAre'
    <3>1. /\ UNCHANGED home /\ calls' = calls + 1 /\ Free(t)
          /\ call'[t] = [number |-> calls + 1, key |-> None, by |-> None]
          /\ at'[t] = "find"
      BY <2>1, <2>4 DEF Delete, Call, TypeOK
    <3>2. /\ \A p \in Processes \ {home[t]} : local'[p] = local[p]
          /\ \A i \in Ids : Rows(t)'[i] = None \/ Rows(t)'[i] = Rows(t)[i]
      BY <2>1, <2>4, <3>1 DEF Delete, Rows, TypeOK
    <3> QED
      BY <2>1, <3>1, <3>2, RowsBegin DEF Updating, Adding
  <2>5. ASSUME NEW i \in Ids, NEW k \in Keys, Update(t, i, k) PROVE RowsAre'
    <3> DEFINE row == Rows(t)[i]
    <3>1. /\ UNCHANGED home /\ calls' = calls + 1 /\ Free(t)
          /\ call'[t] = [number |-> calls + 1, key |-> k, by |-> IF row = None THEN None ELSE row.by]
          /\ at'[t] = "read" /\ todo'[t] = {i}
      BY <2>1, <2>5 DEF Update, Call, TypeOK
    <3>2. row # None => row \in Row /\ row.by \in 0..calls
      <4>1. ASSUME row # None PROVE row \in Row /\ row.by <= calls
        BY <2>1, <4>1 DEF Rows, RowsAre, TypeOK
      <4> QED
        BY <2>1, <4>1 DEF Row, TypeOK
    <3>3. CASE row = None
      <4>1. local' = local /\ Rows(t)' = Rows(t)
        BY <2>5, <3>1, <3>3 DEF Update, Rows
      <4> QED
        BY <2>1, <3>1, <3>3, <4>1, RowsBegin DEF Adding
    <3>4. CASE row # None
      <4>1. local' = [local EXCEPT ![home[t]][i].meta[k] = calls + 1]
        BY <2>5, <3>1, <3>4 DEF Update
      <4>2. \A p \in Processes \ {home[t]} : local'[p] = local[p]
        BY <2>1, <4>1 DEF TypeOK
      <4>3. Rows(t)' = [Rows(t) EXCEPT ![i].meta[k] = calls + 1]
        BY <2>1, <3>1, <4>1 DEF Rows, TypeOK
      <4>4. Rows(t)'[i] = [row EXCEPT !.meta[k] = calls + 1]
            /\ \A j \in Ids \ {i} : Rows(t)'[j] = Rows(t)[j]
        BY <2>1, <4>3 DEF Rows, TypeOK
      <4>5. /\ Rows(t)'[i].by = row.by
            /\ Rows(t)'[i].meta[k] = calls + 1
            /\ \A l \in Keys : Rows(t)'[i].meta[l] \in {row.meta[l], calls + 1}
        BY <3>2, <3>4, <4>4 DEF Row
      <4>6. Rows(t)'[i] # None
        <5>1. Rows(t)'[i] \in Row
          <6>1. [row.meta EXCEPT ![k] = calls + 1] \in [Keys -> Nat]
            BY <2>1, <3>2, <3>4 DEF Row, TypeOK
          <6> QED
            BY <3>2, <3>4, <4>4, <6>1 DEF Row
        <5> QED
          BY <5>1, NoneIsNothing DEF Row
      <4> HIDE DEF row
      <4>7. /\ call'[t].number = calls + 1 /\ call'[t].by \in 0..calls /\ call'[t].key = k
        BY <3>1, <3>2, <3>4
      <4>8. \A j \in Ids :
           \/ Rows(t)'[j] = Rows(t)[j]
           \/ /\ Rows(t)[j] # None /\ Rows(t)'[j] # None /\ Rows(t)'[j].by = Rows(t)[j].by
              /\ \A l \in Keys : Rows(t)'[j].meta[l] \in {Rows(t)[j].meta[l], calls + 1}
        BY <3>4, <4>4, <4>5, <4>6 DEF row
      <4> QED
        BY <2>1, <3>1, <4>2, <4>5, <4>7, <4>8, RowsBegin DEF Adding
    <3> QED
      BY <3>3, <3>4
  <2> QED
    BY <1>2, <2>1, <2>2, <2>3, <2>4, <2>5, StepGoesOn
<1>3. Next => \E t \in Threads : StepOf(t)
  BY DEF Next, StepOf
<1> QED
  BY <1>1, <1>2, <1>3

(* A chunk that t leaves alone, or lets go of when it has lost count.      *)
LEMMA PaceKept ==
  ASSUME NEW t \in Threads, Elsewhere(t), GoesOn(t), NEW i \in Ids, NEW u \in Threads,
         items'[i] = items[i], i \in behind => i \in behind',
         \/ i \in behind'
         \/ /\ Adder(t, i) => Adder(t, i)'
            /\ items[i] # None => /\ Deleter(t, i) => Deleter(t, i)'
                                  /\ at[t] \in Updating /\ i \in todo[t] => at'[t] \in Updating,
         Followed(u, i)
  PROVE  Followed(u, i)'
<1>1. Rows(u)' = Rows(u)
  BY DEF GoesOn, Rows
<1>2. CASE i \in behind'
  BY <1>2 DEF Followed
<1>3. CASE i \notin behind'
  <2>1. \A v \in Threads \ {t} : at'[v] = at[v] /\ call'[v] = call[v] /\ todo'[v] = todo[v]
    BY DEF Elsewhere
  <2>2. \A v \in Threads : Adder(v, i) => Adder(v, i)'
    BY <1>3, <2>1 DEF Adder
  <2>3. ASSUME items[i] # None
        PROVE  /\ \A v \in Threads : Deleter(v, i) => Deleter(v, i)'
               /\ \A v \in Threads, k \in Keys : \A row :
                    Setter(v, i, k, row) =>
                      /\ at'[v] \in Updating /\ i \in todo'[v]
                      /\ call'[v].key = k /\ call'[v].by = row.by /\ call'[v].number = row.meta[k]
    <3>1. \A v \in Threads : Deleter(v, i) => Deleter(v, i)'
      BY <1>3, <2>1, <2>3 DEF Deleter
    <3>2. ASSUME NEW v \in Threads, at[v] \in Updating, i \in todo[v]
          PROVE  at'[v] \in Updating /\ i \in todo'[v] /\ call'[v] = call[v]
      BY <1>3, <2>1, <2>3, <3>2 DEF GoesOn
    <3> QED
      BY <3>1, <3>2 DEF Setter
  <2>4. CASE \E v \in Threads : Adder(v, i)
    BY <2>2, <2>4 DEF Followed
  <2>5. CASE Follows(Rows(u)[i], i)
    <3>1. CASE Rows(u)[i] = None
      BY <1>1, <2>3, <2>5, <3>1 DEF Follows, Followed
    <3>2. CASE Rows(u)[i] # None
      <4>1. /\ items[i] # None /\ items[i].by = Rows(u)[i].by
            /\ \A k \in Keys : \/ items[i].meta[k] = Rows(u)[i].meta[k]
                               \/ \E v \in Threads : Setter(v, i, k, Rows(u)[i])
        BY <2>5, <3>2 DEF Follows
      <4>2. ASSUME NEW k \in Keys, NEW v \in Threads, Setter(v, i, k, Rows(u)[i])
            PROVE  Setter(v, i, k, Rows(u)[i])'
        BY <1>1, <2>3, <4>1, <4>2 DEF Setter
      <4> QED
        BY <1>1, <3>2, <4>1, <4>2 DEF Follows, Followed
    <3> QED
      BY <3>1, <3>2
  <2> QED
    BY <1>3, <2>4, <2>5 DEF Followed
<1> QED
  BY <1>2, <1>3

LEMMA PutInStep ==
  ASSUME Told, RowsAre, NEW t \in Threads, Elsewhere(t), GoesOn(t), Put(t),
         NEW i \in Ids, NEW u \in Threads, home[u] = home[t], Followed(u, i)
  PROVE  Followed(u, i)'
<1> USE DEF fixed, Go
<1>1. PICK ids \in Sent(t) :
         /\ Upsert(t, ids)
         /\ \/ Finish(t) /\ ids = todo[t]
            \/ todo' = [todo EXCEPT ![t] = @ \ ids] /\ UNCHANGED <<lock, at, call, found, tries>>
  BY DEF Put
<1>2. ids \subseteq todo[t] /\ todo[t] \subseteq Ids /\ at[t] = "put"
  BY <1>1 DEF Put, Sent, Told, Typed, TypeOK
<1>3. CASE i \in ids
  <2>1. Rows(u)'[i] = [by |-> call[t].number, meta |-> Blank]
    BY <1>2, <1>3 DEF GoesOn, Rows, RowsAre, Adding
  <2>2. items'[i] = [by |-> call[t].number, meta |-> Blank, written |-> FirstWritten(t, i),
                     etag |-> etags + 1]
    BY <1>1, <1>3 DEF Upsert
  <2>3. FirstWritten(t, i) \in Nat /\ call[t].number \in Nat /\ etags + 1 \in Nat
        /\ Blank \in [Keys -> Nat]
    BY <1>2, <1>3 DEF FirstWritten, Told, Typed, TypeOK, Sound, Blank
  <2>4. items'[i] # None
    <3>1. PICK n \in Nat : n = FirstWritten(t, i)
      BY <2>3
    <3>2. items'[i] = [by |-> call[t].number, meta |-> Blank, written |-> n, etag |-> etags + 1]
      BY <2>2, <3>1
    <3>3. items'[i] \in [by : Nat, meta : [Keys -> Nat], written : Nat, etag : Nat]
      BY <2>3, <3>2
    <3> QED
      BY <3>3, NoneIsNothing
  <2>5. Rows(u)'[i] # None
    <3>1. Rows(u)'[i] \in [by : Nat, meta : [Keys -> Nat]]
      BY <2>1, <2>3
    <3> QED
      BY <3>1, NoneIsNothing
  <2> QED
    BY <2>1, <2>2, <2>4, <2>5 DEF Followed, Follows
<1>4. CASE i \notin ids
  <2>1. items'[i] = items[i] /\ (i \in behind => i \in behind')
    BY <1>1, <1>4 DEF Upsert
  <2>2. Adder(t, i) => Adder(t, i)'
    BY <1>1, <1>2, <1>4 DEF Adder, Told, Typed, TypeOK
  <2>3. ~Deleter(t, i) /\ at[t] \notin Updating
    BY <1>2 DEF Deleter, Updating
  <2> QED
    BY <2>1, <2>2, <2>3, PaceKept
<1> QED
  BY <1>3, <1>4

LEMMA EraseInStep ==
  ASSUME TypeOK, NEW t \in Threads, Elsewhere(t), GoesOn(t), at[t] \in {"delete", "each"},
         NEW ids \in SUBSET todo[t], Erase(t, ids),
         NEW i \in Ids, NEW u \in Threads, home[u] = home[t], Followed(u, i)
  PROVE  Followed(u, i)'
<1> USE DEF fixed, Go
<1>1. /\ items' = [j \in Ids |-> IF j \in ids THEN None ELSE items[j]]
      /\ behind' = (behind \ {j \in ids : Rows(t)[j] = None})
                     \cup {j \in Here(ids) : Rows(t)[j] # None}
      /\ todo' = [todo EXCEPT ![t] = @ \ ids]
      /\ at' = [at EXCEPT ![t] = IF ids = todo[t] THEN "deleted" ELSE at[t]]
  BY DEF Erase
<1>2. Rows(u) = Rows(t) /\ Rows(u)' = Rows(u)
  BY DEF Rows, GoesOn
<1>3. CASE i \in ids
  <2>1. items'[i] = None
    BY <1>1, <1>3
  <2>2. CASE Rows(t)[i] = None
    BY <1>2, <2>1, <2>2 DEF Followed, Follows
  <2>3. CASE Rows(t)[i] # None /\ items[i] # None
    BY <1>1, <1>3, <2>3 DEF Here, Followed
  <2>4. CASE Rows(t)[i] # None /\ items[i] = None
    <3>1. i \in behind \/ \E v \in Threads : Adder(v, i)
      BY <1>2, <2>4 DEF Followed, Follows
    <3>2. i \in behind => i \in behind'
      BY <1>1, <2>4
    <3>3. \A v \in Threads : Adder(v, i) => Adder(v, i)'
      BY DEF Adder, Adding, Elsewhere
    <3> QED
      BY <3>1, <3>2, <3>3 DEF Followed
  <2> QED
    BY <2>2, <2>3, <2>4
<1>4. CASE i \notin ids
  <2>1. items'[i] = items[i] /\ (i \in behind => i \in behind')
    BY <1>1, <1>4
  <2>2. Deleter(t, i) => Deleter(t, i)'
    BY <1>1, <1>4 DEF Deleter, TypeOK
  <2>3. ~Adder(t, i) /\ at[t] \notin Updating
    BY DEF Adder, Adding, Updating
  <2> QED
    BY <2>1, <2>2, <2>3, PaceKept
<1> QED
  BY <1>3, <1>4

LEMMA ReplaceInStep ==
  ASSUME Told, MergesSurvive, RowsAre, NEW t \in Threads, Elsewhere(t), GoesOn(t), Replace(t),
         NEW i \in Ids, NEW u \in Threads, home[u] = home[t], Followed(u, i)
  PROVE  Followed(u, i)'
<1> USE DEF fixed, Go
<1> DEFINE k == call[t].key
           n == call[t].number
<1>1. PICK j \in todo[t] :
         /\ Unchanged(t, j)
         /\ items' = [items EXCEPT ![j] =
              [found[t] EXCEPT !.meta[k] = n, !.etag = etags + 1]]
         /\ behind' = behind \cup
              {h \in {j} : items[h].by # call[t].by \/ landed[h][k] > n}
  BY DEF Replace
<1>2. /\ at[t] = "replace" /\ todo[t] = {j} /\ j \in Ids
      /\ items[j] = found[t] /\ found[t] \in Item /\ items[j] # None
      /\ k \in Keys /\ n \in Nat
  BY <1>1 DEF Replace, Told, Typed, TypeOK, Sound, Unchanged, Updating
<1>3. Rows(u) = Rows(t) /\ Rows(u)' = Rows(u)
  BY DEF Rows, GoesOn
<1>4. \A v \in Threads \ {t} : at'[v] = at[v] /\ call'[v] = call[v] /\ todo'[v] = todo[v]
  BY DEF Elsewhere
<1>5. CASE i # j
  <2>1. items'[i] = items[i] /\ (i \in behind => i \in behind')
    BY <1>1, <1>2, <1>5 DEF Told, Typed, TypeOK
  <2>2. ~Adder(t, i) /\ ~Deleter(t, i) /\ i \notin todo[t]
    BY <1>2, <1>5 DEF Adder, Adding, Deleter
  <2> QED
    BY <2>1, <2>2, PaceKept
<1>6. CASE i = j /\ (i \in behind \/ items[i].by # call[t].by \/ landed[i][k] > n)
  BY <1>1, <1>6 DEF Followed
<1>7. ASSUME i = j, NEW v \in Threads, Adder(v, i) PROVE Followed(u, i)'
  <2>1. Adder(v, i)'
    BY <1>2, <1>4, <1>7 DEF Adder, Adding
  <2> QED
    BY <2>1 DEF Followed
<1>8. CASE /\ i = j /\ items[i].by = call[t].by /\ ~(landed[i][k] > n)
           /\ Follows(Rows(u)[i], i)
  <2> DEFINE row == Rows(u)[i]
  <2>1. items'[i] = [found[t] EXCEPT !.meta[k] = n, !.etag = etags + 1]
    BY <1>1, <1>2, <1>8 DEF Told, Typed, TypeOK
  <2>2. /\ items'[i].by = items[i].by /\ items'[i].meta = [items[i].meta EXCEPT ![k] = n]
        /\ items[i].meta \in [Keys -> Nat] /\ items[i].by \in Nat
    BY <1>2, <1>8, <2>1 DEF Item
  <2>3. items'[i] # None
    <3>1. etags + 1 \in Nat
      BY DEF Told, Typed, TypeOK
    <3>2. [found[t].meta EXCEPT ![k] = n] \in [Keys -> Nat]
      BY <1>2 DEF Item
    <3>3. items'[i] \in [by : Nat, meta : [Keys -> Nat], written : Nat, etag : Nat]
      BY <1>2, <2>1, <3>1, <3>2 DEF Item
    <3> QED
      BY <3>3, NoneIsNothing
  <2>4. CASE row = None
    <3>1. PICK v \in Threads : Deleter(v, i)
      BY <1>2, <1>8, <2>4 DEF Follows
    <3>2. Deleter(v, i)'
      BY <1>2, <1>4, <3>1 DEF Deleter
    <3> QED
      BY <1>3, <2>4, <3>2 DEF Followed, Follows
  <2>5. CASE row # None
    <3>1. /\ items[i].by = row.by
          /\ \A l \in Keys : items[i].meta[l] = row.meta[l] \/ \E v \in Threads : Setter(v, i, l, row)
      BY <1>8, <2>5 DEF Follows
    <3>2. call[t].by # None
      BY <1>8, <2>2, NoneIsNothing
    <3>3. n <= row.meta[k] /\ row.meta[k] \in Nat
      <4>1. row \in Row
        BY <2>5 DEF Rows, Told, Typed, TypeOK
      <4> QED
        BY <1>2, <1>3, <1>8, <2>5, <3>1, <3>2, <4>1 DEF RowsAre, Updating, Row
    <3>4. items[i].meta[k] <= n
      BY <1>2, <1>8, <2>2 DEF MergesSurvive, Told, Typed, TypeOK
    <3>5. ASSUME NEW v \in Threads, NEW l \in Keys, Setter(v, i, l, row), v # t
          PROVE  Setter(v, i, l, Rows(u)[i])'
      BY <1>3, <1>4, <3>5 DEF Setter
    <3>6. ASSUME NEW l \in Keys
          PROVE  items'[i].meta[l] = row.meta[l] \/ \E v \in Threads : Setter(v, i, l, Rows(u)[i])'
      <4>1. CASE l # k
        <5>1. items'[i].meta[l] = items[i].meta[l]
          BY <2>2, <4>1
        <5>2. \A v \in Threads : Setter(v, i, l, row) => v # t
          BY <4>1 DEF Setter
        <5> QED
          BY <3>1, <3>5, <5>1, <5>2
      <4>2. CASE l = k /\ n = row.meta[k]
        BY <2>2, <4>2
      <4>3. CASE l = k /\ n # row.meta[k]
        <5>1. items[i].meta[k] # row.meta[k]
          BY <1>2, <2>2, <3>3, <3>4, <4>3
        <5>2. \A v \in Threads : Setter(v, i, k, row) => v # t
          BY <4>3 DEF Setter
        <5> QED
          BY <3>1, <3>5, <4>3, <5>1, <5>2
      <4> QED
        BY <4>1, <4>2, <4>3
    <3> QED
      BY <1>3, <2>2, <2>3, <2>5, <3>1, <3>6 DEF Followed, Follows
  <2> QED
    BY <2>4, <2>5
<1> QED
  BY <1>5, <1>6, <1>7, <1>8 DEF Followed

(* A call that begins, of a row that it leaves alone.                      *)
LEMMA PaceBegun ==
  ASSUME NEW t \in Threads, Elsewhere(t), at[t] = "idle", UNCHANGED <<items, behind>>,
         NEW i \in Ids, NEW u \in Threads, Rows(u)'[i] = Rows(u)[i], Followed(u, i)
  PROVE  Followed(u, i)'
<1>1. \A v \in Threads : /\ Adder(v, i) => Adder(v, i)'
                         /\ Deleter(v, i) => Deleter(v, i)'
  BY DEF Adder, Adding, Deleter, Elsewhere
<1>2. ASSUME NEW v \in Threads, NEW k \in Keys, Setter(v, i, k, Rows(u)[i])
      PROVE  Setter(v, i, k, Rows(u)[i])'
  BY <1>2 DEF Setter, Updating, Elsewhere
<1>3. CASE Follows(Rows(u)[i], i)
  BY <1>1, <1>2, <1>3 DEF Followed, Follows
<1> QED
  BY <1>1, <1>3 DEF Followed

LEMMA UpdateInStep ==
  ASSUME TypeOK, NEW t \in Threads, Elsewhere(t), NEW j \in Ids, NEW k \in Keys, Update(t, j, k),
         NEW i \in Ids, NEW u \in Threads, home[u] = home[t], Followed(u, i)
  PROVE  Followed(u, i)'
<1> USE DEF fixed, store, aux, Go
<1> DEFINE row == Rows(t)[j]
<1>1. /\ at[t] = "idle" /\ UNCHANGED <<items, behind, home>> /\ home[t] \in Processes
      /\ call'[t] = [number |-> calls', key |-> k, by |-> IF row = None THEN None ELSE row.by]
      /\ at'[t] = "read" /\ todo'[t] = {j}
      /\ Rows(u) = Rows(t) /\ Rows(u)' = Rows(t)'
  BY DEF Update, Call, Rows, TypeOK
<1>2. CASE row = None
  <2>1. Rows(u)' = Rows(u)
    BY <1>1, <1>2 DEF Update, Rows
  <2> QED
    BY <1>1, <2>1, PaceBegun
<1>3. CASE row # None
  <2>1. local' = [local EXCEPT ![home[t]][j].meta[k] = calls']
    BY <1>3 DEF Update
  <2>2. Rows(t)' = [Rows(t) EXCEPT ![j].meta[k] = calls']
    BY <1>1, <2>1 DEF Rows, TypeOK
  <2>3. Rows(t)'[j] = [row EXCEPT !.meta[k] = calls'] /\ \A h \in Ids \ {j} : Rows(t)'[h] = Rows(t)[h]
    <3>1. Rows(t) \in [Ids -> Row \cup {None}]
      BY <1>1 DEF Rows, TypeOK
    <3> QED
      BY <2>2, <3>1
  <2>4. CASE i # j
    BY <1>1, <2>3, <2>4, PaceBegun
  <2>5. CASE i = j
    <3>1. row \in Row
      BY <1>1, <1>3 DEF Rows, TypeOK
    <3>2. calls' \in Nat
      BY LimitsAreNumbers DEF Update, Call, TypeOK
    <3>3. Rows(t)'[i] \in Row
      <4>1. [row.meta EXCEPT ![k] = calls'] \in [Keys -> Nat]
        BY <3>1, <3>2 DEF Row
      <4> QED
        BY <2>3, <2>5, <3>1, <4>1 DEF Row
    <3>4. /\ Rows(t)'[i].by = row.by /\ Rows(t)'[i].meta[k] = calls' /\ Rows(t)'[i] # None
          /\ \A l \in Keys \ {k} : Rows(t)'[i].meta[l] = row.meta[l]
      BY <2>3, <2>5, <3>1, <3>3, NoneIsNothing DEF Row
    <3>5. \A v \in Threads : Adder(v, i) => Adder(v, i)'
      BY <1>1 DEF Adder, Adding, Elsewhere
    <3>6. CASE Follows(Rows(u)[i], i)
      <4>1. /\ items'[i] # None /\ items'[i].by = Rows(t)'[i].by
            /\ \A l \in Keys : \/ items[i].meta[l] = row.meta[l]
                               \/ \E v \in Threads : Setter(v, i, l, row)
        BY <1>1, <1>3, <2>5, <3>4, <3>6 DEF Follows
      <4>2. Setter(t, i, k, Rows(u)[i])'
        BY <1>1, <1>3, <2>5, <3>4 DEF Setter, Updating
      <4>3. ASSUME NEW l \in Keys \ {k}, NEW v \in Threads, Setter(v, i, l, row)
            PROVE  Setter(v, i, l, Rows(u)[i])'
        BY <1>1, <3>4, <4>3 DEF Setter, Updating, Elsewhere
      <4>4. ASSUME NEW l \in Keys
            PROVE  \/ items'[i].meta[l] = Rows(u)'[i].meta[l]
                   \/ \E v \in Threads : Setter(v, i, l, Rows(u)[i])'
        BY <1>1, <3>4, <4>1, <4>2, <4>3
      <4> QED
        BY <1>1, <3>4, <4>1, <4>4 DEF Followed, Follows
    <3> QED
      BY <1>1, <3>5, <3>6 DEF Followed
  <2> QED
    BY <2>4, <2>5
<1> QED
  BY <1>2, <1>3

LEMMA BeginInStep ==
  ASSUME TypeOK, NEW t \in Threads, Elsewhere(t), NEW ids \in SUBSET Ids,
         Add(t, ids) \/ Delete(t, ids),
         NEW i \in Ids, NEW u \in Threads, home[u] = home[t], Followed(u, i)
  PROVE  Followed(u, i)'
<1> USE DEF fixed, store, aux, Go
<1>1. /\ at[t] = "idle" /\ UNCHANGED <<items, behind, home>> /\ home[t] \in Processes
      /\ todo'[t] = ids /\ Rows(u) = Rows(t) /\ Rows(u)' = Rows(t)'
  BY DEF Add, Delete, Call, Rows, TypeOK
<1>2. CASE i \notin ids
  <2>1. Rows(t)'[i] = Rows(t)[i]
    <3>1. CASE Add(t, ids)
      BY <1>1, <1>2, <3>1 DEF Add, Rows, TypeOK
    <3>2. CASE Delete(t, ids)
      BY <1>1, <1>2, <3>2 DEF Delete, Rows, TypeOK
    <3> QED
      BY <3>1, <3>2
  <2> QED
    BY <1>1, <2>1, PaceBegun
<1>3. CASE i \in ids /\ Add(t, ids)
  <2>1. at'[t] = "look"
    BY <1>3 DEF Add, TypeOK
  <2> QED
    BY <1>1, <1>3, <2>1 DEF Followed, Adder, Adding
<1>4. CASE i \in ids /\ Delete(t, ids)
  <2>1. at'[t] = "find" /\ Rows(t)'[i] = None
    BY <1>1, <1>4 DEF Delete, Rows, TypeOK
  <2> QED
    BY <1>1, <1>4, <2>1 DEF Followed, Follows, Deleter
<1> QED
  BY <1>2, <1>3, <1>4

LEMMA OverInStep ==
  ASSUME Told, NEW t \in Threads, Elsewhere(t), GoesOn(t),
         \/ Look(t) \/ Find(t) \/ BatchRefused(t) \/ Deleted(t)
         \/ Read(t) \/ GoneSince(t) \/ ReadAgain(t) \/ Refused(t),
         NEW i \in Ids, NEW u \in Threads, Followed(u, i)
  PROVE  Followed(u, i)'
<1> USE DEF fixed, store, work, aux, Go
<1>1. items'[i] = items[i] /\ (i \in behind => i \in behind')
  BY DEF Look, Find, BatchRefused, Deleted, Read, GoneSince, ReadAgain, Refused, Fall
<1>2. SUFFICES \/ i \in behind'
               \/ /\ Adder(t, i) => Adder(t, i)'
                  /\ items[i] # None => /\ Deleter(t, i) => Deleter(t, i)'
                                        /\ at[t] \in Updating /\ i \in todo[t] =>
                                             at'[t] \in Updating
  BY <1>1, PaceKept
<1>3. CASE i \notin todo[t]
  BY <1>3 DEF Adder, Deleter
<1>4. CASE Look(t)
  BY <1>4 DEF Look, Adder, Adding, Deleter, Updating, Told, Typed, TypeOK
<1>5. CASE Find(t)
  <2>1. /\ at[t] = "find" /\ todo'[t] = Here(todo[t])
        /\ at'[t] = IF Here(todo[t]) = {} THEN "deleted" ELSE IF batches THEN "delete" ELSE "each"
    BY <1>5 DEF Find, Told, Typed, TypeOK
  <2>2. i \in todo[t] /\ items[i] # None => i \in Here(todo[t])
    BY DEF Here
  <2> QED
    BY <2>1, <2>2 DEF Adder, Adding, Deleter, Updating
<1>6. CASE BatchRefused(t)
  BY <1>6 DEF BatchRefused, OneByOne, Adder, Adding, Deleter, Updating, Told, Typed, TypeOK
<1>7. CASE Deleted(t)
  BY <1>7 DEF Deleted, Adder, Adding, Deleter, Updating
<1>8. CASE Fall(t)
  BY <1>3, <1>8 DEF Fall
<1>9. CASE Read(t) /\ i \in todo[t]
  <2>1. todo[t] = {i} /\ at[t] = "read"
    BY <1>9 DEF Read, Told, Typed, Sound, Updating
  <2>2. CASE items[i] = None
    BY <2>1, <2>2 DEF Adder, Adding
  <2>3. CASE items[i] # None
    <3>1. at' = [at EXCEPT ![t] = "replace"]
      BY <1>9, <2>1, <2>3 DEF Read
    <3> QED
      BY <2>1, <3>1 DEF Adder, Adding, Deleter, Updating, Told, Typed, TypeOK
  <2> QED
    BY <2>2, <2>3
<1>10. CASE GoneSince(t) /\ i \in todo[t]
  BY <1>10 DEF GoneSince, Here, Adder, Adding
<1>11. CASE ReadAgain(t) /\ tries[t] < Tries
  BY <1>11 DEF ReadAgain, Adder, Adding, Deleter, Updating, Told, Typed, TypeOK
<1>12. (ReadAgain(t) /\ ~(tries[t] < Tries)) \/ Refused(t) => Fall(t)
  BY DEF ReadAgain, Refused
<1> QED
  BY <1>3, <1>4, <1>5, <1>6, <1>7, <1>8, <1>9, <1>10, <1>11, <1>12

LEMMA InStepStep == Told /\ MergesSurvive /\ RowsAre /\ InStep /\ [Next]_vars => InStep'
<1> SUFFICES ASSUME Told, MergesSurvive, RowsAre, InStep, [Next]_vars PROVE InStep'
  OBVIOUS
<1>1. home' = home
  BY DEF Next, vars, fixed, Add, Delete, Update, Look, Put, Find, DeleteBatch, DeleteOne, Erase,
         BatchRefused, Deleted, Read, Replace, GoneSince, ReadAgain, Refused, Fall
<1> SUFFICES ASSUME \A t, u \in Threads : home[t] = home[u], NEW u \in Threads, NEW i \in Ids
             PROVE  Followed(u, i)'
  BY <1>1 DEF InStep
<1>2. Followed(u, i) /\ TypeOK
  BY DEF InStep, Told, Typed
<1>3. ASSUME NEW t \in Threads, StepOf(t) PROVE Followed(u, i)'
  <2>1. Elsewhere(t) /\ home[u] = home[t]
    BY <1>2, <1>3, Frame
  <2>2. ASSUME NEW ids \in SUBSET Ids, Add(t, ids) \/ Delete(t, ids) PROVE Followed(u, i)'
    BY <1>2, <2>1, <2>2, BeginInStep
  <2>3. ASSUME NEW j \in Ids, NEW k \in Keys, Update(t, j, k) PROVE Followed(u, i)'
    BY <1>2, <2>1, <2>3, UpdateInStep
  <2>4. CASE GoesOn(t)
    <3>1. ASSUME DeleteBatch(t) \/ DeleteOne(t) PROVE Followed(u, i)'
      <4>1. PICK ids \in SUBSET todo[t] : Erase(t, ids)
        BY <3>1 DEF DeleteBatch, DeleteOne
      <4>2. at[t] \in {"delete", "each"}
        BY <3>1 DEF DeleteBatch, DeleteOne
      <4> QED
        BY <1>2, <2>1, <2>4, <4>1, <4>2, EraseInStep
    <3>2. CASE Put(t)
      BY <1>2, <2>1, <2>4, <3>2, PutInStep
    <3>3. CASE Replace(t)
      BY <1>2, <2>1, <2>4, <3>3, ReplaceInStep
    <3>4. CASE \/ Look(t) \/ Find(t) \/ BatchRefused(t) \/ Deleted(t)
               \/ Read(t) \/ GoneSince(t) \/ ReadAgain(t) \/ Refused(t)
      BY <1>2, <2>1, <2>4, <3>4, OverInStep
    <3> QED
      BY <1>3, <2>2, <2>3, <3>1, <3>2, <3>3, <3>4 DEF StepOf
  <2> QED
    BY <1>2, <1>3, <2>2, <2>3, <2>4, StepGoesOn
<1>4. CASE UNCHANGED vars
  BY <1>2, <1>4 DEF vars, fixed, store, work, aux, Followed, Follows, Adder, Deleter, Setter, Rows
<1>5. Next => \E t \in Threads : StepOf(t)
  BY DEF Next, StepOf
<1> QED
  BY <1>3, <1>4, <1>5

(* When nothing is under way, the items of a collection that one process   *)
(* writes are its rows, but where a caller was told of an error and no add *)
(* came after, and where a delete or an update came to the store after an  *)
(* add or an update made later: however its threads interleave, and        *)
(* whatever the store refuses.                                             *)
THEOREM StoreFollowsRows == Spec => []PagesFollow
<1>1. Init => Merged /\ Told /\ RowsAre /\ InStep
  <2> SUFFICES ASSUME Init PROVE Merged /\ Told /\ RowsAre /\ InStep
    OBVIOUS
  <2>1. Typed
    BY TypedInit
  <2>2. MergesSurvive /\ Numbered /\ \A t \in Threads : Gone(t) /\ PutsOnce(t)
    BY DEF Init, NoCall, MergesSurvive, Numbered, Gone, PutsOnce, Adding, Deleting
  <2>3. RowsAre
    BY DEF Init, NoCall, RowsAre, Adding, Updating
  <2>4. InStep
    BY DEF Init, InStep, Followed, Follows, Rows
  <2> QED
    BY <2>1, <2>2, <2>3, <2>4 DEF Merged, Told
<1>2. Merged /\ Told /\ RowsAre /\ InStep /\ [Next]_vars =>
        Merged' /\ Told' /\ RowsAre' /\ InStep'
  BY MergedStep, ToldStep, RowsStep, InStepStep DEF Merged
<1>3. Told /\ InStep => PagesFollow
  <2> SUFFICES ASSUME Told, InStep, \A t, u \in Threads : at[t] = "idle" /\ home[t] = home[u],
                      NEW t \in Threads, NEW i \in Ids, i \notin behind
               PROVE  IF items[i] = None THEN Rows(t)[i] = None
                      ELSE Rows(t)[i] = [by |-> items[i].by, meta |-> items[i].meta]
    BY DEF PagesFollow
  <2>1. Follows(Rows(t)[i], i)
    BY DEF InStep, Followed, Adder, Adding
  <2>2. \A u \in Threads : at[u] = "idle"
    OBVIOUS
  <2>3. CASE Rows(t)[i] = None
    BY <2>1, <2>2, <2>3 DEF Follows, Deleter
  <2>4. CASE Rows(t)[i] # None
    <3>1. /\ items[i] # None /\ items[i].by = Rows(t)[i].by
          /\ \A k \in Keys : items[i].meta[k] = Rows(t)[i].meta[k]
      BY <2>1, <2>2, <2>4 DEF Follows, Setter, Updating
    <3>2. Rows(t)[i] \in Row /\ items[i] \in Item
      BY <2>4, <3>1 DEF Rows, Told, Typed, TypeOK
    <3>3. items[i].meta = Rows(t)[i].meta
      BY <3>1, <3>2 DEF Row, Item
    <3> QED
      BY <3>1, <3>2, <3>3 DEF Row
  <2> QED
    BY <2>3, <2>4
<1> QED
  BY <1>1, <1>2, <1>3, PTL DEF Spec

===============================================================================
