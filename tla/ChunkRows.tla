------------------------------- MODULE ChunkRows -------------------------------
(***************************************************************************)
(* chunk_store.py: put(), delete() and update() of _CosmosCollection, and  *)
(* the Collection methods that share their writes with it: _add_batch(),   *)
(* delete() and update_metadata().                                         *)
(*                                                                         *)
(* Threads of one or more processes write one collection.  A process has   *)
(* its own table of rows, behind its lock; the store is one container that *)
(* all of them write and the pages read.  An add holds the lock until the  *)
(* store has taken the rows.  A delete or an update of a row its process   *)
(* has lets go of it first.  Batches are transactions, or on an old SDK    *)
(* the operations go one at a time.                                        *)
(*                                                                         *)
(* A row is the add that wrote it, when an id was first written, and for   *)
(* each key of its metadata the update that set it last.                   *)
(***************************************************************************)
EXTENDS Integers

CONSTANTS
  Threads, Processes,
  Ids,       \* point ids
  Keys,      \* metadata keys that updates set
  None,      \* no row, nothing read
  Tries,     \* how often an update reads again
  MaxCalls,  \* bound: adds, deletes and updates
  MaxFaults  \* bound: calls that fail

ASSUME NoneIsNothing ==
  /\ None \notin Nat \cup Threads \cup [by : Nat, meta : [Keys -> Nat]]
  /\ None \notin [by : Nat, meta : [Keys -> Nat], written : Nat, etag : Nat]
ASSUME LimitsAreNumbers == Tries \in Nat \ {0} /\ {MaxCalls, MaxFaults} \subseteq Nat

VARIABLES
  home,    \* each thread's process
  batches, \* the SDK can batch
  local,   \* each process's rows: by, meta
  items,   \* the container's items: by, meta, written, etag
  lock,    \* the thread that holds each process's lock, or None
  calls,   \* how many calls there have been, which number them and tell the time
  etags,   \* how many writes the container has taken
  at,      \* where each thread is
  call,    \* its call: its number, its ids, the key it sets, and by which add
           \* its process had the row
  todo,    \* the ids whose operations it has not sent
  found,   \* what it found in the store
  tries,   \* how often it has read the item
  faults,  \* how many calls have failed
  landed,  \* auxiliary: the last update of each id and key the store took
  behind   \* auxiliary: the ids whose item may be behind their rows

fixed == <<home, batches>>
store == <<items, etags>>
work == <<call, todo, found, tries>>
aux == <<landed, behind>>
vars == <<fixed, local, store, lock, calls, at, work, faults, aux>>

NoCall == [number |-> 0, key |-> None, by |-> None]
Blank == [k \in Keys |-> 0]

Init ==
  /\ home \in [Threads -> Processes] /\ batches \in BOOLEAN
  /\ local = [p \in Processes |-> [i \in Ids |-> None]]
  /\ items = [i \in Ids |-> None] /\ etags = 0
  /\ lock = [p \in Processes |-> None]
  /\ calls = 0 /\ faults = 0
  /\ at = [t \in Threads |-> "idle"] /\ call = [t \in Threads |-> NoCall]
  /\ todo = [t \in Threads |-> {}]
  /\ found = [t \in Threads |-> None] /\ tries = [t \in Threads |-> 0]
  /\ landed = [i \in Ids |-> Blank] /\ behind = {}

Go(t, where) == at' = [at EXCEPT ![t] = where]
Free(t) == lock[home[t]] = None
Rows(t) == local[home[t]]

Call(t, key, by) ==
  /\ at[t] = "idle"
  /\ Free(t)
  /\ calls < MaxCalls
  /\ calls' = calls + 1
  /\ call' = [call EXCEPT ![t] = [number |-> calls', key |-> key, by |-> by]]

Finish(t) ==
  /\ Go(t, "idle")
  /\ call' = [call EXCEPT ![t] = NoCall]
  /\ todo' = [todo EXCEPT ![t] = {}]
  /\ found' = [found EXCEPT ![t] = None]
  /\ tries' = [tries EXCEPT ![t] = 0]
  /\ lock' = [p \in Processes |-> IF lock[p] = t THEN None ELSE lock[p]]

-------------------------------------------------------------------------------
(* Collection: the process's own rows, and what is left to share           *)

(* Wrong: the lock is let go of before the store has the rows.             *)
(* (TypeOK, PagesFollow)                                                   *)
LetGo(t) == lock' = lock

Hold(t) == lock' = [lock EXCEPT ![home[t]] = t]

Add(t, ids) ==
  /\ Call(t, None, None)
  /\ Hold(t)
  /\ local' = [local EXCEPT ![home[t]] =
                 [i \in Ids |-> IF i \in ids THEN [by |-> calls', meta |-> Blank] ELSE @[i]]]
  /\ todo' = [todo EXCEPT ![t] = ids]
  /\ Go(t, "look")
  /\ UNCHANGED <<fixed, store, found, tries, faults, aux>>

Delete(t, ids) ==
  /\ Call(t, None, None)
  /\ local' = [local EXCEPT ![home[t]] = [i \in Ids |-> IF i \in ids THEN None ELSE @[i]]]
  /\ todo' = [todo EXCEPT ![t] = ids]
  /\ Go(t, "find")
  /\ UNCHANGED <<fixed, store, lock, found, tries, faults, aux>>

(* Of a row its process has, and else of one that another wrote, under the *)
(* lock.                                                                   *)
Update(t, i, k) ==
  LET row == Rows(t)[i] IN
  /\ Call(t, k, IF row = None THEN None ELSE row.by)
  /\ IF row = None
     THEN Hold(t) /\ UNCHANGED local
     ELSE local' = [local EXCEPT ![home[t]][i].meta[k] = calls'] /\ UNCHANGED lock
  /\ todo' = [todo EXCEPT ![t] = {i}]
  /\ Go(t, "read")
  /\ UNCHANGED <<fixed, store, found, tries, faults, aux>>

-------------------------------------------------------------------------------
(* put() and delete()                                                      *)

Here(ids) == {i \in ids : items[i] # None}

(* _held(): when each of them was first written.                           *)
Look(t) ==
  /\ at[t] = "look"
  /\ found' = [found EXCEPT ![t] = [i \in Here(todo[t]) |-> items[i].written]]
  /\ Go(t, "put")
  /\ UNCHANGED <<fixed, local, store, lock, calls, call, todo, tries, faults, aux>>

(* Wrong: each put takes its own time. (KeepsFirstWritten)                 *)
NowWritten(t, i) == call[t].number

FirstWritten(t, i) == IF i \in DOMAIN found[t] THEN found[t][i] ELSE call[t].number

(* A batch goes at once; on an old SDK each goes on its own.               *)
Sent(t) == IF batches THEN {todo[t]} ELSE {{i} : i \in todo[t]}

Upsert(t, ids) ==
  /\ items' = [i \in Ids |->
       IF i \in ids
       THEN [by |-> call[t].number, meta |-> Blank, written |-> FirstWritten(t, i),
             etag |-> etags + 1]
       ELSE items[i]]
  /\ landed' = [i \in Ids |-> IF i \in ids THEN Blank ELSE landed[i]]
  /\ behind' = behind \ ids

Put(t) ==
  /\ at[t] = "put"
  /\ etags' = etags + 1
  /\ \E ids \in Sent(t) :
       /\ Upsert(t, ids)
       /\ IF ids = todo[t]
          THEN Finish(t)
          ELSE /\ todo' = [todo EXCEPT ![t] = @ \ ids]
               /\ UNCHANGED <<lock, at, call, found, tries>>
  /\ UNCHANGED <<fixed, local, calls, faults>>

(* Which of them are here, and by which add: no other is deleted.          *)
Find(t) ==
  /\ at[t] = "find"
  /\ found' = [found EXCEPT ![t] = [i \in Here(todo[t]) |-> items[i].by]]
  /\ todo' = [todo EXCEPT ![t] = Here(@)]
  /\ Go(t, IF Here(todo[t]) = {} THEN "deleted" ELSE IF batches THEN "delete" ELSE "each")
  /\ UNCHANGED <<fixed, local, store, lock, calls, call, tries, faults, aux>>

(* The items go; those whose rows the process has again are missed.        *)
Erase(t, ids) ==
  /\ items' = [i \in Ids |-> IF i \in ids THEN None ELSE items[i]]
  /\ landed' = [i \in Ids |-> IF i \in ids THEN Blank ELSE landed[i]]
  /\ behind' = (behind \ {i \in ids : Rows(t)[i] = None})
                 \cup {i \in Here(ids) : Rows(t)[i] # None}
  /\ etags' = etags + 1
  /\ todo' = [todo EXCEPT ![t] = @ \ ids]
  /\ Go(t, IF ids = todo[t] THEN "deleted" ELSE at[t])
  /\ UNCHANGED <<fixed, local, lock, calls, call, found, tries, faults>>

DeleteBatch(t) ==
  /\ at[t] = "delete"
  /\ Here(todo[t]) = todo[t]
  /\ Erase(t, todo[t])

(* Wrong: a batch that is refused deleted what there was. (DeletedAreGone) *)
NoneLeft(t) == Go(t, "deleted")

OneByOne(t) == Go(t, "each")

(* One that another deleted a moment ago fails the whole batch.            *)
BatchRefused(t) ==
  /\ at[t] = "delete"
  /\ Here(todo[t]) # todo[t]
  /\ OneByOne(t)
  /\ UNCHANGED <<fixed, local, store, lock, calls, work, faults, aux>>

DeleteOne(t) ==
  /\ at[t] = "each"
  /\ \E i \in todo[t] : Erase(t, {i})

Deleted(t) ==
  /\ at[t] = "deleted"
  /\ Finish(t)
  /\ UNCHANGED <<fixed, local, store, calls, faults, aux>>

-------------------------------------------------------------------------------
(* update()                                                                *)

(* Read the item; False when it is not there.                              *)
Read(t) ==
  /\ at[t] = "read"
  /\ \E i \in todo[t] :
       IF items[i] = None
       THEN Finish(t)
       ELSE /\ found' = [found EXCEPT ![t] = items[i]]
            /\ tries' = [tries EXCEPT ![t] = @ + 1]
            /\ Go(t, "replace")
            /\ UNCHANGED <<lock, call, todo>>
  /\ UNCHANGED <<fixed, local, store, calls, faults, aux>>

(* Wrong: whatever is there is replaced. (MergesSurvive)                   *)
StillThere(t, i) == items[i] # None

Unchanged(t, i) == items[i] # None /\ items[i].etag = found[t].etag

(* What was read, merged with what is given.  It is behind its row if the  *)
(* item is of another add, or was set by a later update.                   *)
Replace(t) ==
  /\ at[t] = "replace"
  /\ \E i \in todo[t] :
       LET k == call[t].key IN
       /\ Unchanged(t, i)
       /\ items' = [items EXCEPT ![i] =
                      [found[t] EXCEPT !.meta[k] = call[t].number, !.etag = etags + 1]]
       /\ landed' = [landed EXCEPT ![i][k] = call[t].number]
       /\ behind' = behind \cup
            {j \in {i} : items[j].by # call[t].by \/ landed[j][k] > call[t].number}
  /\ etags' = etags + 1
  /\ Finish(t)
  /\ UNCHANGED <<fixed, local, calls, faults>>

(* Gone since it was read: False.                                          *)
GoneSince(t) ==
  /\ at[t] = "replace"
  /\ Here(todo[t]) = {}
  /\ Finish(t)
  /\ UNCHANGED <<fixed, local, store, calls, faults, aux>>

Fall(t) ==
  /\ Finish(t)
  /\ behind' = behind \cup todo[t]
  /\ UNCHANGED <<fixed, local, store, calls, landed>>

(* Changed between the read and this write: read again, or give up.        *)
ReadAgain(t) ==
  /\ at[t] = "replace"
  /\ \E i \in todo[t] : items[i] # None /\ ~Unchanged(t, i)
  /\ IF tries[t] < Tries
     THEN /\ Go(t, "read")
          /\ UNCHANGED <<fixed, local, store, lock, calls, work, aux>>
     ELSE Fall(t)
  /\ UNCHANGED faults

(* The store refuses, and the caller is told.                              *)
Refused(t) ==
  /\ at[t] \notin {"idle", "deleted"}
  /\ faults < MaxFaults
  /\ faults' = faults + 1
  /\ Fall(t)

Next ==
  \E t \in Threads :
    \/ \E ids \in SUBSET Ids \ {{}} : Add(t, ids) \/ Delete(t, ids)
    \/ \E i \in Ids, k \in Keys : Update(t, i, k)
    \/ Look(t) \/ Put(t)
    \/ Find(t) \/ DeleteBatch(t) \/ BatchRefused(t) \/ DeleteOne(t) \/ Deleted(t)
    \/ Read(t) \/ Replace(t) \/ GoneSince(t) \/ ReadAgain(t)
    \/ Refused(t)

Spec == Init /\ [][Next]_vars

-------------------------------------------------------------------------------
(* Properties                                                              *)

Row == [by : Nat, meta : [Keys -> Nat]]
Item == [by : Nat, meta : [Keys -> Nat], written : Nat, etag : 1..etags]

(* Every variable has its type; only who adds, or updates a row that its   *)
(* process has not, holds the lock.                                        *)
TypeOK ==
  /\ home \in [Threads -> Processes] /\ batches \in BOOLEAN
  /\ local \in [Processes -> [Ids -> Row \cup {None}]]
  /\ items \in [Ids -> Item \cup {None}] /\ etags \in Nat
  /\ lock \in [Processes -> Threads \cup {None}]
  /\ \A t \in Threads : (lock[home[t]] = t) =
       (at[t] \in {"look", "put"} \/ (at[t] \in {"read", "replace"} /\ call[t].by = None))
  /\ calls \in 0..MaxCalls
  /\ at \in [Threads -> {"idle", "look", "put", "find", "delete", "each", "deleted",
                         "read", "replace"}]
  /\ call \in [Threads -> [number : 0..MaxCalls, key : Keys \cup {None},
                           by : Nat \cup {None}]]
  /\ todo \in [Threads -> SUBSET Ids] /\ DOMAIN found = Threads
  /\ tries \in [Threads -> 0..Tries]
  /\ faults \in 0..MaxFaults
  /\ landed \in [Ids -> [Keys -> Nat]] /\ behind \subseteq Ids

(* "Changed by another process between the read and this write: read it    *)
(* again": what an update set stays set until the chunk is written or      *)
(* deleted or the key set again, whoever updates other keys meanwhile.     *)
MergesSurvive ==
  \A i \in Ids : items[i] # None => items[i].meta = landed[i]

(* "A delete of what another process deleted a moment ago fails the whole  *)
(* batch.  The rest still go": of the chunks a delete found, none is there *)
(* when it returns, unless it has been added again.                        *)
DeletedAreGone ==
  \A t \in Threads : at[t] = "deleted" =>
    \A i \in DOMAIN found[t] : items[i] # None => items[i].by # found[t][i]

(* "A store that refuses is an error rather than a page gone quietly out   *)
(* of date": at rest, the items of a collection that one process writes    *)
(* are its rows, but where a caller was told of an error and no add came   *)
(* after, and where a delete or an update, which let go of the lock        *)
(* before they reach the store, came after an add or an update made later. *)
PagesFollow ==
  (\A t, u \in Threads : at[t] = "idle" /\ home[t] = home[u]) =>
    \A t \in Threads : \A i \in Ids \ behind :
      IF items[i] = None THEN Rows(t)[i] = None
      ELSE Rows(t)[i] = [by |-> items[i].by, meta |-> items[i].meta]

(* "One already here keeps the time it was first written", unless whoever  *)
(* wrote it had looked before it was.                                      *)
Overlooked(i) ==
  \E t \in Threads :
    /\ at[t] = "put" /\ items'[i].by = call[t].number
    /\ i \in DOMAIN found[t] => found[t][i] # items[i].written

KeepsFirstWritten ==
  [][\A i \in Ids :
       items[i] # None /\ items'[i] # None /\ ~Overlooked(i) =>
         items'[i].written = items[i].written]_vars
===============================================================================
