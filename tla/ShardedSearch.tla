----------------------------- MODULE ShardedSearch -----------------------------
(***************************************************************************)
(* A collection over its sharded index: ShardedIndex.search() asks every   *)
(* shard for its nearest and merges the answers, and Collection.search()   *)
(* asks it for a wider window than its own limit.                          *)
(*                                                                         *)
(* The collection has its own account of what is there, the rows, and it   *)
(* is not the index's: delete() takes the row and leaves the vector, and   *)
(* rows are committed before their vectors reach the index, so a refusing  *)
(* store or the death of the process leaves rows that have none.           *)
(*                                                                         *)
(* A vector is a point on a line and distance is how far apart two points  *)
(* are, so keys and vectors are integers here.  A shard's own search is    *)
(* exact: recall of the HNSW graph is a property of usearch.               *)
(***************************************************************************)
EXTENDS ShardedDurability, FiniteSetsExt

Seqs == INSTANCE SequencesExt

ASSUME KeysAreNumbers == Keys \subseteq Nat
ASSUME VectorsAreNumbers == Vectors \subseteq Int

VARIABLES
  points,  \* the keys of the points table, and of _idx_to_id
  count    \* _count: how many points the collection takes itself to have

svars == <<head, sealed, removed, pending, saved, since, points, count>>

(* Newest first: the head, then the sealed shards from the last.           *)
Shards == <<head>> \o Seqs!Reverse(sealed)

Distance(v, query) == IF v < query THEN query - v ELSE v - query

(* A match: a shard's number in Shards, a key, and how far its copy is.    *)
MatchesOf(n, query) ==
  {[order |-> n, key |-> k, distance |-> Distance(Shards[n][k], query)] :
     k \in Held(Shards[n])}

Before(a, b) ==
  \/ a.distance < b.distance
  \/ a.distance = b.distance /\ a.order < b.order
  \/ a.distance = b.distance /\ a.order = b.order /\ a.key < b.key

(* The `wanted' nearest of a set of matches.                               *)
Nearest(matches, wanted) ==
  {m \in matches : Cardinality({o \in matches : Before(o, m)}) < wanted}

(* Wrong: every copy counts. (NoStaleMatch)                                *)
ShadowedNever(m) == FALSE

(* A copy older than another copy of the same key.                         *)
Shadowed(m) == \E n \in 1..(m.order - 1) : Shards[n][m.key] # None

-------------------------------------------------------------------------------
(* The merge asked again for more: shard by shard, a shard's window        *)
(* doubles until nothing in it is skipped, it has given enough, or it is   *)
(* the whole shard.                                                        *)
Skipped(m) == m.key \in removed \/ Shadowed(m)

(* min(wanted, size), and min(size, asked * 2) after each: what every set  *)
(* with the first, and with the next of each that it has, has in it.       *)
Windows(size, wanted) ==
  LET Doubles(W) ==
        Min({wanted, size}) \in W /\ \A a \in W : Min({size, 2 * a}) \in W
  IN {a \in 0..size : \A W \in SUBSET (0..size) : Doubles(W) => a \in W}

FoundIn(n, query, wanted) ==
  LET size == Size(Shards[n])
      Seen(asked) == Nearest(MatchesOf(n, query), asked)
      Found(asked) == {m \in Seen(asked) : ~Skipped(m)}
      Enough(asked) ==
        \/ Found(asked) = Seen(asked)
        \/ Cardinality(Found(asked)) >= wanted
        \/ asked >= size
  IN Found(Min({a \in Windows(size, wanted) : Enough(a)}))

SearchPastShadows(query, wanted) ==
  Nearest(UNION {FoundIn(n, query, wanted) : n \in 1..Len(Shards)}, wanted)

(* search(query, count)                                                    *)
Search(query, wanted) ==
  LET candidates ==
        UNION {Nearest(MatchesOf(n, query), wanted) : n \in 1..Len(Shards)}
      live == {m \in candidates : ~Shadowed(m) /\ m.key \notin removed}
      best == Nearest(live, wanted)
      crowded == \E m \in candidates : Shadowed(m)
  IN IF crowded /\ Cardinality(best) < wanted
     THEN SearchPastShadows(query, wanted)
     ELSE best

-------------------------------------------------------------------------------
(* Collection.search() with no filter and no policy: it drops what has no  *)
(* row.                                                                    *)

(* What a search can find: a row whose vector is in the index.             *)
LiveKeys == {k \in points : Contains(k)}

(* len(index): every copy in every shard, live or not.                     *)
IndexSize ==
  Cardinality({c \in (1..Len(Shards)) \X Keys : Shards[c[1]][c[2]] # None})

(* Wrong: no allowance for what has no row. (SearchIsExact)                *)
ReachableLimitOnly(limit) == Max({1, Min({Max({count, IndexSize}), limit})})

(* The window: the limit, and as many more as the index holds beyond the   *)
(* collection's count.                                                     *)
Reachable(limit) ==
  LET held == Max({count, IndexSize})
  IN Max({1, Min({held, limit + (held - count)})})

CollectionSearch(query, limit) ==
  Nearest({m \in Search(query, Reachable(limit)) : m.key \in points}, limit)

-------------------------------------------------------------------------------
SInit == HInit /\ points = {} /\ count = 0

(* add(): the rows are committed, and then the vectors go to the index.    *)
AddPoints(batch) ==
  /\ HBeginAdd(batch)
  /\ points' = points \cup Held(batch)
  /\ UNCHANGED count

(* The same, and the store behind the collection refuses the batch: the    *)
(* rows stay, and neither the index nor the count hears of them.           *)
RefusedAdd(batch) ==
  /\ ~Adding
  /\ batch # EmptyShard
  /\ points' = points \cup Held(batch)
  /\ UNCHANGED <<hvars, count>>

AddPointsChunk(chunk) ==
  /\ HAddChunk(chunk)
  /\ count' = IF pending' = EmptyShard THEN Cardinality(points) ELSE count
  /\ UNCHANGED points

(* delete(): the row goes and the vector stays where it is.                *)
DeletePoint(key) ==
  /\ ~Adding
  /\ key \in points
  /\ points' = points \ {key}
  /\ count' = Cardinality(points')
  /\ UNCHANGED hvars

(* The next process counts the rows it finds.                              *)
SReopen ==
  /\ HReopen
  /\ count' = Cardinality(points)
  /\ UNCHANGED points

(* The index's own operations leave the rows as they are.  add() takes out *)
(* of the index what it has of its batch first, and a rebuild what was     *)
(* deleted meanwhile: here a removal may come at any time.                 *)
SNext ==
  \/ \E batch \in Shard : AddPoints(batch)
  \/ \E batch \in Shard : RefusedAdd(batch)
  \/ \E chunk \in SUBSET Keys : AddPointsChunk(chunk)
  \/ \E k \in Keys : DeletePoint(k)
  \/ HSeal /\ UNCHANGED <<points, count>>
  \/ \E k \in Keys : HRemove(k) /\ UNCHANGED <<points, count>>
  \/ HSave /\ UNCHANGED <<points, count>>
  \/ SReopen

SSpec == SInit /\ [][SNext]_svars

-------------------------------------------------------------------------------
(* Properties                                                              *)

Queries == Vectors

(* Whatever count is asked for, a match is a key the index contains, at    *)
(* the distance of the vector it holds now: never a removed key, never the *)
(* sealed copy of a key that was re-added, and never a key twice.          *)
NoStaleMatch ==
  ~Adding =>
    \A q \in Queries, wanted \in 1..Cardinality(Keys) :
      LET answer == Search(q, wanted) IN
        /\ \A m \in answer :
             Contains(m.key) /\ m.distance = Distance(Get(m.key), q)
        /\ \A m, o \in answer : m.key = o.key => m = o

(* The rows no search can find, for they have no vector.                   *)
Missing == points \ LiveKeys

(* What a collection's search leaves out, it leaves out for something as   *)
(* near, however deleted keys, removed keys and stale copies crowd the     *)
(* shards' own answers: a live key is left out only when the answer holds  *)
(* `limit' keys as near as it, less one for every row without a vector,    *)
(* since the allowance counts the index against the rows.  With no such    *)
(* row the search is the exact one.                                        *)
SearchIsExact ==
  ~Adding =>
    \A q \in Queries, limit \in 1..Cardinality(Keys) :
      LET answer == CollectionSearch(q, limit)
          keys == {m.key : m \in answer}
          AsNear(k) == {m \in answer : m.distance <= Distance(Get(k), q)}
      IN /\ keys \subseteq LiveKeys
         /\ Cardinality(answer) <= limit
         /\ \A k \in LiveKeys \ keys :
              Cardinality(AsNear(k)) >= limit - Cardinality(Missing)
===============================================================================
