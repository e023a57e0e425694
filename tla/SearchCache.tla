------------------------------ MODULE SearchCache ------------------------------
(***************************************************************************)
(* core/cache.py under core/collection.py: the cache of a collection's     *)
(* search answers, in one process, whose threads search it, add to it,     *)
(* delete from it and update its metadata.                                 *)
(*                                                                         *)
(* The cache is in memory, in Redis, or in both: a small memory tier (L1)  *)
(* before Redis (L2).  A search looks its query up without the             *)
(* collection's lock, and computes and keeps a missing answer under it.    *)
(* An add forgets every answer before it commits, under the lock; a delete *)
(* and an update, after they have committed and let the lock go.           *)
(*                                                                         *)
(* An answer is the number of commits its rows had seen.  An entry may run *)
(* out at any time after it was kept; Redis outlives the process.  With a  *)
(* policy, or several vectors to a point, no search uses the cache.        *)
(***************************************************************************)
EXTENDS Integers, Sequences

CONSTANTS
  Threads,    \* the process's threads
  Queries,    \* what is searched for
  None,       \* no thread; no query; no answer
  MaxSize,    \* memory_max_size, or hybrid_l1_size
  MaxWrites,  \* bound: how many commits there are
  MaxFaults   \* bound: how often forgetting fails and the process restarts

ASSUME NoneIsNothing == None \notin Threads \cup Queries \cup Nat
ASSUME RoomForOne == MaxSize \in Nat \ {0}
ASSUME BoundsAreNumbers == MaxWrites \in Nat /\ MaxFaults \in Nat

VARIABLES
  tier,     \* the backend: "memory", "redis" or "hybrid"
  l1,       \* the memory tier's entries, least recently used first
  l2,       \* Redis's
  commits,  \* how many writes have committed
  told,     \* the last of them that its writer has returned from
  lock,     \* the thread that holds Collection._lock
  at,       \* where each thread is
  query,    \* what it searches for
  since,    \* auxiliary: `told' when its search began
  value,    \* the answer it has found, or commit it has made
  answer,   \* the answer its last search gave
  doomed,   \* the keys of Redis it has still to delete
  faults,   \* how many faults there have been
  late,     \* auxiliary: an answer went up to L1 after a write had cleared it
  unheard   \* auxiliary: a write's forgetting failed

shared == <<tier, l1, l2, commits, told, lock>>
thread == <<at, query, since, value, answer, doomed>>
aux == <<late, unheard>>

vars == <<shared, thread, faults, aux>>

Memory == tier # "redis"
Redis == tier # "memory"

Init ==
  /\ tier \in {"memory", "redis", "hybrid"}
  /\ l1 = <<>>
  /\ l2 = [q \in Queries |-> None]
  /\ commits = 0 /\ told = 0
  /\ lock = None
  /\ at = [t \in Threads |-> "idle"]
  /\ query = [t \in Threads |-> None]
  /\ since = [t \in Threads |-> 0]
  /\ value = [t \in Threads |-> None]
  /\ answer = [t \in Threads |-> None]
  /\ doomed = [t \in Threads |-> {}]
  /\ faults = 0
  /\ late = FALSE /\ unheard = FALSE

-------------------------------------------------------------------------------
(* The memory tier, under a lock of its own                                *)

Kept(q) == {n \in 1..Len(l1) : l1[n].query = q}

Hit(q) == Kept(q) # {}

InL1(q) == l1[CHOOSE n \in Kept(q) : TRUE].of

Without(entries, q) ==
  LET kept == {n \in 1..Len(entries) : entries[n].query = q}
      n == CHOOSE k \in kept : TRUE
  IN IF kept = {} THEN entries
     ELSE SubSeq(entries, 1, n - 1) \o SubSeq(entries, n + 1, Len(entries))

(* A hit makes the entry the most recently used.                           *)
Touched(q) == Append(Without(l1, q), [query |-> q, of |-> InL1(q)])

(* Wrong: room is made only when there is none left. (TypeOK)              *)
WithOneMore(q, of) ==
  LET left == IF Len(l1) > MaxSize THEN Tail(l1) ELSE l1
  IN Append(Without(left, q), [query |-> q, of |-> of])

(* Room is made first, whether or not the key is there already.            *)
With(q, of) ==
  LET left == IF Len(l1) >= MaxSize THEN Tail(l1) ELSE l1
  IN Append(Without(left, q), [query |-> q, of |-> of])

-------------------------------------------------------------------------------
(* A search                                                                *)

Go(t, where) == at' = [at EXCEPT ![t] = where]

Answers(t, of) ==
  /\ answer' = [answer EXCEPT ![t] = of]
  /\ Go(t, "answered")

(* get(), in memory or in a hybrid cache's first tier.                     *)
LookInMemory(t, q) ==
  /\ at[t] = "idle"
  /\ Memory
  /\ query' = [query EXCEPT ![t] = q]
  /\ since' = [since EXCEPT ![t] = told]
  /\ \/ /\ Hit(q)
        /\ l1' = Touched(q)
        /\ Answers(t, InL1(q))
     \/ /\ ~Hit(q)
        /\ l1' = l1
        /\ Go(t, IF tier = "hybrid" THEN "look" ELSE "compute")
        /\ UNCHANGED answer
  /\ UNCHANGED <<tier, l2, commits, told, lock, value, doomed, faults, aux>>

LookInRedis(t, q) ==
  /\ at[t] = "idle"
  /\ ~Memory
  /\ query' = [query EXCEPT ![t] = q]
  /\ since' = [since EXCEPT ![t] = told]
  /\ IF l2[q] # None
     THEN Answers(t, l2[q])
     ELSE Go(t, "compute") /\ UNCHANGED answer
  /\ UNCHANGED <<shared, value, doomed, faults, aux>>

(* The second tier of a hybrid cache.                                      *)
LookBehind(t) ==
  /\ at[t] = "look"
  /\ IF l2[query[t]] # None
     THEN Go(t, "promote") /\ value' = [value EXCEPT ![t] = l2[query[t]]]
     ELSE Go(t, "compute") /\ UNCHANGED value
  /\ UNCHANGED <<shared, query, since, answer, doomed, faults, aux>>

(* Wrong: a hit in the second tier starts its life there again.            *)
(* (StaleAnswersEnd)                                                       *)
PromotedInBoth(t) == [l2 EXCEPT ![query[t]] = value[t]]

Promoted(t) == l2

(* A write has cleared L1 and is not over.                                 *)
Cleared == \E s \in Threads : at[s] \in {"adding", "forgetting"}

(* What the second tier had goes into the first.                           *)
Promote(t) ==
  /\ at[t] = "promote"
  /\ l1' = With(query[t], value[t])
  /\ l2' = Promoted(t)
  /\ Answers(t, value[t])
  /\ value' = [value EXCEPT ![t] = None]
  /\ late' = (late \/ value[t] < commits \/ Cleared)
  /\ UNCHANGED <<tier, commits, told, lock, query, since, doomed, faults, unheard>>

(* Under the lock the answer is computed and kept; by a hybrid cache, in   *)
(* memory first.                                                           *)
Compute(t) ==
  /\ at[t] = "compute"
  /\ lock = None
  /\ IF Memory THEN l1' = With(query[t], commits) ELSE l1' = l1
  /\ IF Redis
     THEN /\ lock' = t
          /\ value' = [value EXCEPT ![t] = commits]
          /\ Go(t, "keep")
          /\ UNCHANGED answer
     ELSE lock' = lock /\ Answers(t, commits) /\ UNCHANGED value
  /\ UNCHANGED <<tier, l2, commits, told, query, since, doomed, faults, aux>>

KeepInRedis(t) ==
  /\ at[t] = "keep"
  /\ l2' = [l2 EXCEPT ![query[t]] = value[t]]
  /\ lock' = None
  /\ Answers(t, value[t])
  /\ value' = [value EXCEPT ![t] = None]
  /\ UNCHANGED <<tier, l1, commits, told, query, since, doomed, faults, aux>>

(* The caller has the answer, and is done with it.                         *)
TakeAnswer(t) ==
  /\ at[t] = "answered"
  /\ Go(t, "idle")
  /\ query' = [query EXCEPT ![t] = None]
  /\ answer' = [answer EXCEPT ![t] = None]
  /\ since' = [since EXCEPT ![t] = 0]
  /\ UNCHANGED <<shared, value, doomed, faults, aux>>

-------------------------------------------------------------------------------
(* A write                                                                 *)

(* Wrong: only the second tier is told. (NoStaleAnswer)                    *)
ForgetBehind(t) == l1' = l1 /\ doomed' = [doomed EXCEPT ![t] = Queries]

(* delete_prefix(), of the memory tier at once; Redis is scanned, and what *)
(* is found deleted.                                                       *)
ForgetBegins(t) ==
  /\ l1' = <<>>
  /\ doomed' = [doomed EXCEPT ![t] = IF Redis THEN Queries ELSE {}]

ForgetInRedis(t, q) ==
  /\ at[t] \in {"forgetting", "adding"}
  /\ q \in doomed[t]
  /\ l2' = [l2 EXCEPT ![q] = None]
  /\ doomed' = [doomed EXCEPT ![t] = @ \ {q}]
  /\ UNCHANGED <<tier, l1, commits, told, lock, at, query, since, value, answer, faults, aux>>

(* Redis cannot be reached: the exception is swallowed.                    *)
ForgetFails(t) ==
  /\ doomed[t] # {}
  /\ faults < MaxFaults
  /\ faults' = faults + 1
  /\ doomed' = [doomed EXCEPT ![t] = {}]
  /\ unheard' = TRUE
  /\ UNCHANGED <<shared, at, query, since, value, answer, late>>

(* _add_batch() takes the lock and forgets before it writes anything.      *)
BeginAdd(t) ==
  /\ at[t] = "idle"
  /\ commits < MaxWrites
  /\ lock = None
  /\ lock' = t
  /\ ForgetBegins(t)
  /\ Go(t, "adding")
  /\ UNCHANGED <<tier, l2, commits, told, query, since, value, answer, faults, aux>>

CommitAdd(t) ==
  /\ at[t] = "adding"
  /\ doomed[t] = {}
  /\ commits' = commits + 1
  /\ told' = commits'
  /\ lock' = None
  /\ Go(t, "idle")
  /\ UNCHANGED <<tier, l1, l2, query, since, value, answer, doomed, faults, aux>>

(* delete() and update_metadata() commit under the lock, which is free     *)
(* again when they go on to forget.                                        *)
CommitDelete(t) ==
  /\ at[t] = "idle"
  /\ commits < MaxWrites
  /\ lock = None
  /\ commits' = commits + 1
  /\ value' = [value EXCEPT ![t] = commits']
  /\ Go(t, "deleted")
  /\ UNCHANGED <<tier, l1, l2, told, lock, query, since, answer, doomed, faults, aux>>

ForgetAfter(t) ==
  /\ at[t] = "deleted"
  /\ ForgetBegins(t)
  /\ Go(t, "forgetting")
  /\ UNCHANGED <<tier, l2, commits, told, lock, query, since, value, answer, faults, aux>>

DeleteReturns(t) ==
  /\ at[t] = "forgetting"
  /\ doomed[t] = {}
  /\ told' = IF told < value[t] THEN value[t] ELSE told
  /\ value' = [value EXCEPT ![t] = None]
  /\ Go(t, "idle")
  /\ UNCHANGED <<tier, l1, l2, commits, lock, query, since, answer, doomed, faults, aux>>

-------------------------------------------------------------------------------
(* An entry's time is over; Redis drops one that has expired.              *)
ExpireInMemory(q) ==
  /\ Hit(q)
  /\ l1' = Without(l1, q)
  /\ UNCHANGED <<tier, l2, commits, told, lock, thread, faults, aux>>

ExpireInRedis(q) ==
  /\ l2[q] # None
  /\ l2' = [l2 EXCEPT ![q] = None]
  /\ UNCHANGED <<tier, l1, commits, told, lock, thread, faults, aux>>

(* The process dies and another opens the collection: what Redis kept is   *)
(* there, and so is what was committed.                                    *)
Restart ==
  /\ faults < MaxFaults
  /\ faults' = faults + 1
  /\ l1' = <<>>
  /\ lock' = None
  /\ at' = [t \in Threads |-> "idle"]
  /\ query' = [t \in Threads |-> None]
  /\ since' = [t \in Threads |-> 0]
  /\ value' = [t \in Threads |-> None]
  /\ answer' = [t \in Threads |-> None]
  /\ doomed' = [t \in Threads |-> {}]
  /\ UNCHANGED <<tier, l2, commits, told, aux>>

SearchStep(t) ==
  \/ LookBehind(t) \/ Promote(t) \/ Compute(t) \/ KeepInRedis(t) \/ TakeAnswer(t)

WriteStep(t) ==
  \/ \E q \in Queries : ForgetInRedis(t, q)
  \/ CommitAdd(t) \/ ForgetAfter(t) \/ DeleteReturns(t)

Next ==
  \/ \E t \in Threads :
       \/ \E q \in Queries : LookInMemory(t, q) \/ LookInRedis(t, q)
       \/ SearchStep(t)
       \/ BeginAdd(t) \/ CommitDelete(t)
       \/ WriteStep(t)
       \/ ForgetFails(t)
  \/ \E q \in Queries : ExpireInMemory(q) \/ ExpireInRedis(q)
  \/ Restart

Spec == Init /\ [][Next]_vars

(* Every thread goes on with what it has begun, and every entry that stays *)
(* runs out: an hour in memory, a day in Redis.  No search and no write    *)
(* has to begin.                                                           *)
FairSpec ==
  /\ Spec
  /\ \A t \in Threads : WF_vars(SearchStep(t)) /\ WF_vars(WriteStep(t))
  /\ \A q \in Queries : WF_vars(ExpireInMemory(q)) /\ WF_vars(ExpireInRedis(q))

-------------------------------------------------------------------------------
(* Properties                                                              *)

Answer == 0..MaxWrites
Maybe == Answer \cup {None}

(* Every variable has its type; memory never holds more than its size, nor *)
(* two entries of one query; the lock is held by who says so.              *)
TypeOK ==
  /\ tier \in {"memory", "redis", "hybrid"}
  /\ l1 \in Seq([query : Queries, of : Answer]) /\ Len(l1) <= MaxSize
  /\ \A m, n \in 1..Len(l1) : l1[m].query = l1[n].query => m = n
  /\ l2 \in [Queries -> Maybe]
  /\ commits \in Answer /\ told \in 0..commits
  /\ lock \in Threads \cup {None}
  /\ \A t \in Threads : lock = t <=> at[t] \in {"keep", "adding"}
  /\ at \in [Threads -> {"idle", "look", "promote", "compute", "keep", "answered",
                         "adding", "deleted", "forgetting"}]
  /\ query \in [Threads -> Queries \cup {None}]
  /\ since \in [Threads -> Answer]
  /\ value \in [Threads -> Maybe] /\ answer \in [Threads -> Maybe]
  /\ doomed \in [Threads -> SUBSET Queries]
  /\ faults \in 0..MaxFaults
  /\ late \in BOOLEAN /\ unheard \in BOOLEAN

(* "Called after every write.  It was an empty function, so a search       *)
(* repeated after an add or a delete returned the answer from before it":  *)
(* a search that begins after a write has returned is never answered from  *)
(* before it, whatever thread keeps an answer meanwhile, and after a       *)
(* restart.  Not so once Redis could not be told, nor once a hybrid cache  *)
(* has promoted an answer from before a write.                             *)
NoStaleAnswer ==
  ~late /\ ~unheard =>
    \A t \in Threads : at[t] = "answered" => since[t] <= answer[t]

(* Whatever a promotion, a failed call or a restart left behind, entries   *)
(* do not keep each other alive: once the writes end, there comes a time   *)
(* from which every answer given is as of the last of them.                *)
StaleAnswersEnd ==
  <>[](\A t \in Threads : at[t] = "answered" => answer[t] = commits)
===============================================================================
