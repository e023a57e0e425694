------------------------------ MODULE SyncProofs -------------------------------
(***************************************************************************)
(* That the version a sync has reached is true of its target, for any rows *)
(* and bounds.                                                             *)
(***************************************************************************)
EXTENDS Sync, FiniteSetTheorems, TLAPS

Entry == [id : Ids, value : Values \cup {None}]

(* The feed has a last change of every row it tells of.                    *)
Last(commits, a, b, i, n) ==
  commits[n].id = i /\ \A m \in a + 1..b : commits[m].id = i => m <= n

Lasts(commits) ==
  \A a, b \in 0..Len(commits) : \A i \in Told(commits, a, b) :
    \E n \in a + 1..b : Last(commits, a, b, i, n)

Typed ==
  /\ TypeOK
  /\ Lasts(log)
  /\ at \in {"feed", "write"} => reached # None

(* A row is what the last commit to it made it.                            *)
Current ==
  \A n \in 1..Len(log) : log[n].id \notin Since(n) => source[log[n].id] = log[n].value

Trusted == trusted => reached # None /\ reached <= Len(log)

(* The head of a pass is one that the source has had.                      *)
Heads ==
  /\ at # "idle" /\ (steady \/ trusted) => head <= Len(log)
  /\ at # "idle" /\ trusted => reached <= head

(* What the feed told brings the target to the head, and is of no row that *)
(* was not committed since the version reached.                            *)
Followed ==
  at = "write" /\ trusted =>
    /\ DOMAIN latest \subseteq Since(reached)
    /\ \A i \in Ids \ Since(head) :
         source[i] = IF i \in DOMAIN latest THEN latest[i] ELSE target[i]

(* A row that the scan has passed is in the target, or about to be; one    *)
(* that it has not is still before it.                                     *)
Scanned ==
  at \in {"scan", "copy"} /\ steady =>
    \A i \in Ids \ Since(head) :
      IF i \in seen
      THEN target[i] = source[i] \/ (at = "copy" /\ read.id = i)
      ELSE source[i] # None => i \in Ahead(source, place)

(* What is still to be deleted is gone from the source; the rest is there. *)
Left ==
  at = "stale" /\ steady =>
    \A i \in Ids \ Since(head) :
      IF i \in stale THEN source[i] = None ELSE target[i] = source[i]

(* What was read is what the source has, unless that was committed since.  *)
ReadCurrent ==
  at = "copy" /\ (\/ steady /\ read.id \notin Since(head)
                  \/ trusted /\ read.id \notin Since(reached)) =>
    read.value = source[read.id]

Promise ==
  /\ Current /\ Trusted /\ CaughtUp /\ Heads /\ Followed /\ Scanned /\ Left /\ ReadCurrent

IInv == Typed /\ Promise

-------------------------------------------------------------------------------
(* Logs and ranks                                                          *)

LEMMA ToldGrows ==
  ASSUME NEW l \in Seq(Entry), NEW r \in Entry
  PROVE  /\ \A a \in 0..Len(l) :
              Told(Append(l, r), a, Len(l) + 1) = Told(l, a, Len(l)) \cup {r.id}
         /\ \A a, b \in 0..Len(l) : Told(Append(l, r), a, b) = Told(l, a, b)
  <1>1. /\ \A n \in 1..Len(l) : Append(l, r)[n] = l[n]
        /\ Append(l, r)[Len(l) + 1] = r
        /\ Len(l) \in Nat
    OBVIOUS
  <1>2. ASSUME NEW a \in 0..Len(l)
        PROVE  Told(Append(l, r), a, Len(l) + 1) = Told(l, a, Len(l)) \cup {r.id}
    <2>1. a + 1..Len(l) + 1 = (a + 1..Len(l)) \cup {Len(l) + 1} BY <1>1
    <2>2. \A n \in a + 1..Len(l) : n \in 1..Len(l) BY <1>1
    <2> QED BY <1>1, <2>1, <2>2 DEF Told
  <1>3. ASSUME NEW a \in 0..Len(l), NEW b \in 0..Len(l)
        PROVE  Told(Append(l, r), a, b) = Told(l, a, b)
    <2>1. \A n \in a + 1..b : n \in 1..Len(l) BY <1>1
    <2> QED BY <1>1, <2>1 DEF Told
  <1> QED BY <1>2, <1>3

LEMMA LastsGrow ==
  ASSUME NEW l \in Seq(Entry), NEW r \in Entry, Lasts(l)
  PROVE  Lasts(Append(l, r))
  <1> DEFINE m == Append(l, r)
  <1>1. /\ \A n \in 1..Len(l) : m[n] = l[n]
        /\ m[Len(l) + 1] = r
        /\ Len(l) \in Nat /\ Len(m) = Len(l) + 1
    OBVIOUS
  <1> SUFFICES ASSUME NEW a \in 0..Len(m), NEW b \in 0..Len(m), NEW i \in Told(m, a, b)
               PROVE  \E n \in a + 1..b : Last(m, a, b, i, n)
    BY DEF Lasts
  <1> HIDE DEF m
  <1>2. PICK k \in a + 1..b : m[k].id = i BY DEF Told
  <1>3. CASE b <= Len(l)
    <2>1. a \in 0..Len(l) /\ b \in 0..Len(l) /\ k \in 1..Len(l) BY <1>1, <1>2, <1>3
    <2>2. i \in Told(l, a, b) BY <1>1, <1>2, <2>1 DEF Told
    <2>3. PICK n \in a + 1..b : Last(l, a, b, i, n) BY <2>1, <2>2 DEF Lasts
    <2>4. \A o \in a + 1..b : o \in 1..Len(l) BY <2>1, <1>1
    <2> QED BY <1>1, <2>3, <2>4 DEF Last
  <1>4. CASE b = Len(l) + 1 /\ r.id = i
    <2>1. Last(m, a, b, i, b) BY <1>1, <1>2, <1>4 DEF Last
    <2> QED BY <1>1, <1>2, <1>4, <2>1
  <1>5. CASE b = Len(l) + 1 /\ r.id # i
    <2>1. k # b /\ a \in 0..Len(l) /\ k \in a + 1..Len(l) /\ k \in 1..Len(l)
      BY <1>1, <1>2, <1>5
    <2>2. i \in Told(l, a, Len(l)) BY <1>1, <1>2, <2>1 DEF Told
    <2>3. PICK n \in a + 1..Len(l) : Last(l, a, Len(l), i, n) BY <1>1, <2>1, <2>2 DEF Lasts
    <2>4. \A o \in a + 1..Len(l) : o \in 1..Len(l) BY <2>1, <1>1
    <2>5. \A o \in a + 1..b : o \in a + 1..Len(l) \/ o = b BY <1>1, <1>5, <2>1
    <2>6. Last(m, a, b, i, n) BY <1>1, <1>5, <2>3, <2>4, <2>5 DEF Last
    <2> QED BY <1>1, <1>5, <2>3, <2>6
  <1> QED BY <1>1, <1>3, <1>4, <1>5

LEMMA RowsAreFinite ==
  ASSUME NEW rows
  PROVE  /\ Held(rows) \subseteq Ids /\ IsFiniteSet(Held(rows))
         /\ Cardinality(Held(rows)) \in Nat
         /\ \A order, i : /\ IsFiniteSet({j \in Held(rows) : order[j] < order[i]})
                          /\ Rank(rows, order, i) \in Nat
  <1>1. Held(rows) \subseteq Ids BY DEF Held
  <1>2. IsFiniteSet(Held(rows)) BY <1>1, IdsAreFinite, FS_Subset
  <1>3. \A order, i : IsFiniteSet({j \in Held(rows) : order[j] < order[i]})
    <2> TAKE order, i
    <2>1. {j \in Held(rows) : order[j] < order[i]} \subseteq Held(rows) OBVIOUS
    <2> QED BY <1>2, <2>1, FS_Subset
  <1> QED BY <1>1, <1>2, <1>3, FS_CardinalityType DEF Rank

LEMMA PlacesAre ==
  ASSUME NEW order \in Places
  PROVE  /\ \A i \in Ids : order[i] \in Nat
         /\ \A i, j \in Ids : i # j => order[i] < order[j] \/ order[j] < order[i]
  <1>1. Cardinality(Ids) \in Nat BY IdsAreFinite, FS_CardinalityType
  <1> QED BY <1>1 DEF Places

LEMMA RankOrders ==
  ASSUME NEW order \in Places, NEW rows, NEW i \in Held(rows), NEW k \in Held(rows),
         order[i] < order[k]
  PROVE  Rank(rows, order, i) < Rank(rows, order, k)
  <1> DEFINE A == {j \in Held(rows) : order[j] < order[i]}
             B == {j \in Held(rows) : order[j] < order[k]}
  <1>1. Held(rows) \subseteq Ids /\ \A j \in Ids : order[j] \in Nat
    BY RowsAreFinite, PlacesAre
  <1>2. A \subseteq B /\ i \in B /\ i \notin A BY <1>1
  <1>3. IsFiniteSet(A) /\ IsFiniteSet(B) BY RowsAreFinite
  <1>4. Cardinality(A) <= Cardinality(B) /\ (Cardinality(A) = Cardinality(B) => A = B)
    BY <1>2, <1>3, FS_Subset
  <1>5. Cardinality(A) \in Nat /\ Cardinality(B) \in Nat BY <1>3, FS_CardinalityType
  <1>6. Cardinality(A) < Cardinality(B) BY <1>2, <1>4, <1>5
  <1> QED BY <1>6 DEF Rank

LEMMA RankIsLess ==
  ASSUME NEW order \in Places, NEW rows, NEW i \in Held(rows)
  PROVE  Rank(rows, order, i) < Cardinality(Held(rows))
  <1> DEFINE A == {j \in Held(rows) : order[j] < order[i]}
  <1>1. order[i] \in Nat BY RowsAreFinite, PlacesAre
  <1>2. A \subseteq Held(rows) /\ i \notin A BY <1>1
  <1>3. IsFiniteSet(A) /\ IsFiniteSet(Held(rows)) BY RowsAreFinite
  <1>4. /\ Cardinality(A) <= Cardinality(Held(rows))
        /\ Cardinality(A) = Cardinality(Held(rows)) => A = Held(rows)
    BY <1>2, <1>3, FS_Subset
  <1>5. Cardinality(A) \in Nat /\ Cardinality(Held(rows)) \in Nat
    BY <1>3, FS_CardinalityType
  <1>6. Cardinality(A) < Cardinality(Held(rows)) BY <1>2, <1>4, <1>5
  <1> QED BY <1>6 DEF Rank

-------------------------------------------------------------------------------
(* Types                                                                   *)

LEMMA TypedInit == Init => Typed
  <1> SUFFICES ASSUME Init PROVE Typed OBVIOUS
  <1>1. steady \in BOOLEAN /\ trusted \in BOOLEAN BY DEF Init
  <1>2. log \in Seq([id : Ids, value : Values \cup {None}]) /\ Len(log) = 0 BY DEF Init
  <1>3. TypeOK
    BY <1>1, <1>2, NoneIsNoValue, BoundsAreNumbers
    DEF Init, TypeOK, Rowset, NoRows, NoRead, NoChange
  <1>4. Lasts(log) BY DEF Init, Lasts, Told
  <1> QED BY <1>3, <1>4 DEF Typed, Init

(* The head of the source, and what a feed gives between two versions.     *)
LEMMA ChangesAre ==
  ASSUME Typed, at = "feed", head <= Len(log)
  PROVE  /\ DOMAIN Changes = Told(log, reached, head)
         /\ \A i \in DOMAIN Changes :
              /\ i \in Ids
              /\ \E n \in reached + 1..head :
                   /\ n \in 1..Len(log)
                   /\ Last(log, reached, head, i, n)
                   /\ Changes[i] = log[n].value
  <1>1. reached \in Nat /\ head \in Nat /\ Len(log) \in Nat /\ log \in Seq(Entry)
    BY NoneIsNoValue, BoundsAreNumbers DEF Typed, TypeOK, Entry
  <1> DEFINE span == reached + 1..head
             last(i) == CHOOSE n \in span : Last(log, reached, head, i, n)
  <1>2. Changes = [i \in Told(log, reached, head) |-> log[last(i)].value]
    BY DEF Changes, Last
  <1>3. ASSUME NEW i \in Told(log, reached, head)
        PROVE  /\ i \in Ids
               /\ last(i) \in span /\ last(i) \in 1..Len(log)
               /\ Last(log, reached, head, i, last(i))
    <2>1. PICK k \in span : log[k].id = i BY DEF Told
    <2>2. reached \in 0..Len(log) /\ head \in 0..Len(log) /\ k \in 1..Len(log) BY <1>1, <2>1
    <2>3. \E n \in span : Last(log, reached, head, i, n) BY <2>2 DEF Lasts, Typed
    <2>4. last(i) \in span /\ Last(log, reached, head, i, last(i)) BY <2>3
    <2>5. log[k] \in Entry BY <1>1, <2>2
    <2> QED BY <1>1, <2>1, <2>2, <2>4, <2>5 DEF Entry
  <1> HIDE DEF last
  <1>4. DOMAIN Changes = Told(log, reached, head) BY <1>2
  <1>5. \A i \in DOMAIN Changes : Changes[i] = log[last(i)].value BY <1>2, <1>4
  <1> QED BY <1>3, <1>4, <1>5

LEMMA TypedStep == Typed /\ [Next]_vars => Typed'
  <1> SUFFICES ASSUME Typed, [Next]_vars PROVE Typed' OBVIOUS
  <1> USE NoneIsNoValue, BoundsAreNumbers
  <1>0. /\ TypeOK /\ Len(log) \in 0..MaxVersion /\ log \in Seq(Entry)
        /\ at \in {"feed", "write"} => reached # None
    BY DEF Typed, TypeOK, Entry
  <1>1. ASSUME NEW i \in Ids, NEW value \in Values \cup {None}, Commit(i, value)
        PROVE  Typed'
    <2>1. log' = Append(log, [id |-> i, value |-> value]) /\ [id |-> i, value |-> value] \in Entry
      BY <1>1 DEF Commit, Entry
    <2>2. /\ log' \in Seq([id : Ids, value : Values \cup {None}])
          /\ Len(log') <= MaxVersion
      BY <1>0, <1>1, <2>1 DEF Commit, Entry
    <2>3. Lasts(log') BY <1>0, <2>1, LastsGrow DEF Typed
    <2>4. source' \in Rowset BY <1>0, <1>1 DEF Commit, TypeOK, Rowset
    <2>5. steady' \in BOOLEAN /\ place' \in Places BY <1>0, <1>1 DEF Commit, TypeOK
    <2>6. TypeOK' BY <1>0, <1>1, <2>2, <2>4, <2>5 DEF Commit, TypeOK, scan
    <2> QED BY <1>0, <1>1, <2>3, <2>6 DEF Commit, Typed
  <1>2. CASE Recreate
    <2>1. steady' \in BOOLEAN /\ trusted' \in BOOLEAN BY <1>2 DEF Recreate
    <2>2. log' \in Seq([id : Ids, value : Values \cup {None}]) /\ Len(log') = 0
      BY <1>2 DEF Recreate
    <2>3. TypeOK' BY <1>0, <1>2, <2>1, <2>2 DEF Recreate, TypeOK, Rowset, NoRows, scan
    <2>4. Lasts(log') BY <1>2 DEF Recreate, Lasts, Told
    <2> QED BY <1>0, <1>2, <2>3, <2>4 DEF Recreate, Typed
  <1>3. CASE StartPass
    <2>1. TypeOK' BY <1>0, <1>3 DEF StartPass, StartScan, TypeOK, sourceVars, scan
    <2> QED BY <1>3, <2>1 DEF StartPass, StartScan, Typed, sourceVars
  <1>4. CASE ReadFeed
    <2>1. ASSUME NEW i \in DOMAIN Changes PROVE i \in Ids /\ Changes[i] \in Values \cup {None}
      <3>1. PICK n \in 1..Len(log) : Changes[i] = log[n].value
        BY <1>4, ChangesAre DEF ReadFeed
      <3>2. log[n] \in Entry BY <1>0
      <3> QED BY <1>4, <3>1, <3>2, ChangesAre DEF ReadFeed, Entry
    <2>2. /\ DOMAIN latest' \subseteq Ids
          /\ \A i \in DOMAIN latest' : latest'[i] \in Values \cup {None}
      BY <1>4, <2>1 DEF ReadFeed
    <2>3. TypeOK' BY <1>0, <1>4, <2>2 DEF ReadFeed, TypeOK, sourceVars, scan, aux
    <2> QED BY <1>0, <1>4, <2>3 DEF ReadFeed, Typed, sourceVars
  <1>5. CASE FeedUnavailable
    <2>1. TypeOK' BY <1>0, <1>5 DEF FeedUnavailable, StartScan, TypeOK, sourceVars, aux
    <2> QED BY <1>5, <2>1 DEF FeedUnavailable, StartScan, Typed, sourceVars
  <1>6. ASSUME NEW i \in Ids, WriteUpsert(i) PROVE Typed'
    <2>1. target' \in Rowset BY <1>0, <1>6 DEF WriteUpsert, TypeOK, Rowset
    <2>2. /\ DOMAIN latest' \subseteq Ids
          /\ \A j \in DOMAIN latest' : latest'[j] \in Values \cup {None}
      BY <1>0, <1>6 DEF WriteUpsert, TypeOK
    <2>3. TypeOK' BY <1>0, <1>6, <2>1, <2>2 DEF WriteUpsert, TypeOK, sourceVars, scan, aux
    <2> QED BY <1>0, <1>6, <2>3 DEF WriteUpsert, Typed, sourceVars
  <1>7. ASSUME NEW i \in Ids, WriteDelete(i) PROVE Typed'
    <2>1. target' \in Rowset BY <1>0, <1>7 DEF WriteDelete, TypeOK, Rowset
    <2>2. /\ DOMAIN latest' \subseteq Ids
          /\ \A j \in DOMAIN latest' : latest'[j] \in Values \cup {None}
      BY <1>0, <1>7 DEF WriteDelete, TypeOK
    <2>3. TypeOK' BY <1>0, <1>7, <2>1, <2>2 DEF WriteDelete, TypeOK, sourceVars, scan, aux
    <2> QED BY <1>0, <1>7, <2>3 DEF WriteDelete, Typed, sourceVars
  <1>8. CASE ScanRow
    <2>1. PICK i \in Held(source) :
            read' = [id |-> i, value |-> source[i]] /\ seen' = seen \cup {i}
      BY <1>8 DEF ScanRow
    <2>2. i \in Ids /\ source[i] \in Values BY <1>0, <2>1 DEF Held, TypeOK, Rowset
    <2>3. TypeOK' BY <1>0, <1>8, <2>1, <2>2 DEF ScanRow, TypeOK, sourceVars, aux
    <2> QED BY <1>8, <2>3 DEF ScanRow, Typed, sourceVars
  <1>9. CASE CopyRow
    <2>1. target' \in Rowset BY <1>0, <1>9 DEF CopyRow, TypeOK, Rowset
    <2>2. TypeOK' BY <1>0, <1>9, <2>1 DEF CopyRow, NoRead, TypeOK, sourceVars, aux
    <2> QED BY <1>9, <2>2 DEF CopyRow, Typed, sourceVars
  <1>10. CASE CollectStale
    <2>1. TypeOK'
      BY <1>0, <1>10 DEF CollectStale, Unseen, Held, TypeOK, sourceVars, aux
    <2> QED BY <1>10, <2>1 DEF CollectStale, Typed, sourceVars
  <1>11. CASE PassFails
    <2>1. TypeOK'
      BY <1>0, <1>11 DEF PassFails, NoRead, NoChange, TypeOK, sourceVars, aux
    <2> QED BY <1>11, <2>1 DEF PassFails, Typed, sourceVars
  <1>12. CASE Restart
    <2>1. trusted' \in BOOLEAN BY <1>12 DEF Restart
    <2>2. TypeOK' BY <1>0, <1>12, <2>1 DEF Restart, NoRead, NoChange, TypeOK, sourceVars
    <2> QED BY <1>12, <2>2 DEF Restart, Typed, sourceVars
  <1>13. CASE UNCHANGED vars
    BY <1>0, <1>13 DEF Typed, TypeOK, vars, sourceVars, scan, aux
  <1>14. ASSUME NEW i \in Ids, DeleteStale(i) PROVE Typed'
    <2>1. target' \in Rowset BY <1>0, <1>14 DEF DeleteStale, TypeOK, Rowset
    <2>2. trusted' \in BOOLEAN BY <1>0, <1>14 DEF DeleteStale, TypeOK
    <2>3. TypeOK' BY <1>0, <1>14, <2>1, <2>2 DEF DeleteStale, TypeOK, sourceVars
    <2> QED BY <1>14, <2>3 DEF DeleteStale, Typed, sourceVars
  <1>15. CASE FinishFeed
    <2>1. trusted' \in BOOLEAN BY <1>0, <1>15 DEF FinishFeed, TypeOK
    <2>2. TypeOK'
      BY <1>0, <1>15, <2>1 DEF FinishFeed, Finish, NoChange, TypeOK, sourceVars, scan
    <2> QED BY <1>15, <2>2 DEF FinishFeed, Finish, Typed, sourceVars
  <1>16. CASE FinishScan
    <2>1. TypeOK'
      BY <1>0, <1>16 DEF FinishScan, Finish, NoChange, TypeOK, sourceVars, scan
    <2> QED BY <1>16, <2>1 DEF FinishScan, Finish, Typed, sourceVars
  <1> QED
    BY <1>1, <1>2, <1>3, <1>4, <1>5, <1>6, <1>7, <1>8, <1>9, <1>10, <1>11, <1>12, <1>13,
       <1>14, <1>15, <1>16
    DEF Next, Pass, PassOverNothing

(* Every variable keeps its type: TypeOK of the runs, for every instance.  *)
THEOREM TypeCorrect == Spec => []TypeOK
  <1>1. Typed => TypeOK BY DEF Typed
  <1> QED BY TypedInit, TypedStep, <1>1, PTL DEF Spec

-------------------------------------------------------------------------------
(* The promise of the version reached                                      *)

LEMMA Facts ==
  ASSUME Typed
  PROVE  /\ log \in Seq(Entry) /\ Len(log) \in Nat /\ head \in Nat
         /\ reached # None => reached \in Nat
         /\ source \in [Ids -> Values \cup {None}] /\ target \in [Ids -> Values \cup {None}]
         /\ offset \in Nat /\ seen \subseteq Ids /\ DOMAIN latest \subseteq Ids
         /\ place \in Places
         /\ \A n \in 1..Len(log) : log[n] \in Entry
  <1>1. log \in Seq(Entry) BY DEF Typed, TypeOK, Entry
  <1>2. Len(log) \in Nat /\ \A n \in 1..Len(log) : log[n] \in Entry BY <1>1
  <1>3. source \in [Ids -> Values \cup {None}] /\ target \in [Ids -> Values \cup {None}]
    BY DEF Typed, TypeOK, Rowset
  <1>4. head \in Nat /\ (reached # None => reached \in Nat)
    BY BoundsAreNumbers DEF Typed, TypeOK
  <1>5. offset \in Nat /\ seen \subseteq Ids /\ DOMAIN latest \subseteq Ids /\ place \in Places
    BY DEF Typed, TypeOK
  <1> QED BY <1>1, <1>2, <1>3, <1>4, <1>5

LEMMA CommitPromises ==
  ASSUME IInv, NEW i \in Ids, NEW value \in Values \cup {None}, Commit(i, value)
  PROVE  Promise'
  <1> DEFINE r == [id |-> i, value |-> value]
  <1>1. /\ log' = Append(log, r) /\ r \in Entry /\ r.id = i /\ r.value = value
        /\ source' = [source EXCEPT ![i] = value]
        /\ UNCHANGED <<target, reached, at, head, offset, read, seen, stale, latest, trusted>>
        /\ steady' => steady
        /\ steady' /\ at \in {"scan", "copy"} =>
             Ahead(source, place) \ {i} \subseteq Ahead(source', place')
    BY DEF Commit, Entry, scan
  <1>2. Typed /\ Promise BY DEF IInv
  <1>3. /\ Len(log') = Len(log) + 1 /\ Len(log) \in Nat
        /\ \A n \in 1..Len(log) : log'[n] = log[n]
        /\ log'[Len(log) + 1] = r
    BY <1>1, <1>2, Facts
  <1>4. \A a \in 0..Len(log) : Since(a)' = Since(a) \cup {i}
    <2>1. log \in Seq(Entry) BY <1>2, Facts
    <2>2. \A a \in 0..Len(log) :
            Told(Append(log, r), a, Len(log) + 1) = Told(log, a, Len(log)) \cup {r.id}
      BY <1>1, <2>1, ToldGrows
    <2> QED BY <1>1, <1>3, <2>2 DEF Since
  <1>5. \A j \in Ids \ {i} : source'[j] = source[j]
    BY <1>1, <1>2, Facts
  <1>6. trusted => reached \in 0..Len(log) /\ Since(reached)' = Since(reached) \cup {i}
    BY <1>1, <1>2, <1>3, <1>4, Facts DEF Promise, Trusted, Since
  <1>7. head \in 0..Len(log) => Since(head)' = Since(head) \cup {i}
    BY <1>1, <1>4 DEF Since
  <1>8. Current'
    <2> SUFFICES ASSUME NEW n \in 1..Len(log'), log'[n].id \notin Since(n)'
                 PROVE  source'[log'[n].id] = log'[n].value
      BY DEF Current
    <2>1. CASE n = Len(log) + 1 BY <1>1, <1>2, <1>3, <2>1, Facts
    <2>2. CASE n \in 1..Len(log)
      <3>1. log[n].id \in Ids \ {i} /\ log[n].id \notin Since(n)
        BY <1>2, <1>3, <1>4, <2>2, Facts DEF Entry
      <3> QED BY <1>2, <1>3, <1>5, <2>2, <3>1 DEF Promise, Current
    <2> QED BY <1>3, <2>1, <2>2
  <1>9. Trusted' BY <1>1, <1>2, <1>3, <1>6 DEF Promise, Trusted
  <1>10. CaughtUp'
    BY <1>1, <1>2, <1>5, <1>6 DEF Promise, CaughtUp, AtReached
  <1>11. Heads' BY <1>1, <1>2, <1>3, Facts DEF Promise, Heads
  <1>12. Followed'
    <2> SUFFICES ASSUME at = "write", trusted PROVE Followed'
      BY <1>1 DEF Followed
    <2>1. head \in 0..Len(log) BY <1>2, Facts DEF Promise, Heads
    <2> QED BY <1>1, <1>2, <1>5, <1>6, <1>7, <2>1 DEF Promise, Followed
  <1>13. Scanned'
    <2> SUFFICES ASSUME at \in {"scan", "copy"}, steady' PROVE Scanned'
      BY <1>1 DEF Scanned
    <2>1. steady /\ head \in 0..Len(log)
      BY <1>1, <1>2, Facts DEF Promise, Heads
    <2> SUFFICES ASSUME NEW j \in Ids \ Since(head)'
                 PROVE  IF j \in seen
                        THEN target[j] = source'[j] \/ (at = "copy" /\ read.id = j)
                        ELSE source'[j] # None => j \in Ahead(source', place')
      BY <1>1 DEF Scanned, Ahead
    <2>2. j \in Ids \ Since(head) /\ j # i /\ source'[j] = source[j] BY <1>5, <1>7, <2>1
    <2>3. IF j \in seen
          THEN target[j] = source[j] \/ (at = "copy" /\ read.id = j)
          ELSE source[j] # None => j \in Ahead(source, place)
      BY <1>2, <2>1, <2>2 DEF Promise, Scanned
    <2> QED BY <1>1, <2>2, <2>3
  <1>15. Left'
    <2> SUFFICES ASSUME at = "stale", steady' PROVE Left' BY <1>1 DEF Left
    <2>1. steady /\ head \in 0..Len(log)
      BY <1>1, <1>2, Facts DEF Promise, Heads
    <2> QED BY <1>1, <1>2, <1>5, <1>7, <2>1 DEF Promise, Left
  <1>14. ReadCurrent'
    <2> SUFFICES ASSUME at = "copy",
                        \/ steady' /\ read.id \notin Since(head)'
                        \/ trusted /\ read.id \notin Since(reached)'
                 PROVE  read.value = source'[read.id]
      BY <1>1 DEF ReadCurrent
    <2>1. read.id \in Ids BY <1>2 DEF Typed, TypeOK
    <2>2. steady => head \in 0..Len(log) BY <1>2, Facts DEF Promise, Heads
    <2>3. /\ read.id # i
          /\ \/ steady /\ read.id \notin Since(head)
             \/ trusted /\ read.id \notin Since(reached)
      BY <1>1, <1>6, <1>7, <2>2
    <2> QED BY <1>2, <1>5, <2>1, <2>3 DEF Promise, ReadCurrent
  <1> QED BY <1>8, <1>9, <1>10, <1>11, <1>12, <1>13, <1>14, <1>15 DEF Promise

LEMMA ReadFeedPromises ==
  ASSUME IInv, ReadFeed
  PROVE  Promise'
  <1>1. /\ at = "feed" /\ head <= Len(log) /\ latest' = Changes /\ at' = "write"
        /\ UNCHANGED <<source, log, target, reached, head, steady, trusted>>
    BY DEF ReadFeed, sourceVars, aux
  <1>2. Typed /\ Promise BY DEF IInv
  <1>3. Current' /\ Trusted' /\ CaughtUp' /\ Heads'
    BY <1>1, <1>2 DEF Promise, Current, Trusted, CaughtUp, AtReached, Heads, Since
  <1>4. Scanned' /\ Left' /\ ReadCurrent' BY <1>1 DEF Scanned, Left, ReadCurrent
  <1>5. Followed'
    <2> SUFFICES ASSUME trusted
                 PROVE  /\ DOMAIN Changes \subseteq Since(reached)
                        /\ \A i \in Ids \ Since(head) :
                             source[i] = IF i \in DOMAIN Changes THEN Changes[i] ELSE target[i]
      BY <1>1 DEF Followed, Since
    <2>1. /\ reached \in 0..Len(log) /\ head \in 0..Len(log) /\ Len(log) \in Nat
          /\ reached <= head
      BY <1>1, <1>2, Facts DEF Promise, Trusted, Heads
    <2>2. DOMAIN Changes = Told(log, reached, head) BY <1>1, <1>2, ChangesAre
    <2>3. /\ Told(log, reached, head) \subseteq Since(reached)
          /\ Since(reached) \subseteq Told(log, reached, head) \cup Since(head)
      <3>1. \A n \in reached + 1..head : n \in reached + 1..Len(log) BY <2>1
      <3>2. \A n \in reached + 1..Len(log) :
              n \in reached + 1..head \/ n \in head + 1..Len(log)
        BY <2>1
      <3> QED BY <3>1, <3>2 DEF Told, Since
    <2>4. ASSUME NEW i \in Ids \ Since(head), i \in DOMAIN Changes
          PROVE  source[i] = Changes[i]
      <3>1. PICK n \in reached + 1..head :
              n \in 1..Len(log) /\ Last(log, reached, head, i, n) /\ Changes[i] = log[n].value
        BY <1>1, <1>2, <2>4, ChangesAre
      <3>2. log[n].id = i BY <3>1 DEF Last
      <3>3. i \notin Since(n)
        <4> SUFFICES ASSUME NEW m \in n + 1..Len(log), log[m].id = i PROVE FALSE
          BY DEF Since, Told
        <4>1. m \in reached + 1..head \/ m \in head + 1..Len(log) BY <2>1, <3>1
        <4>2. m \notin head + 1..Len(log) BY <2>4 DEF Since, Told
        <4>3. m <= n BY <3>1, <4>1, <4>2 DEF Last
        <4> QED BY <2>1, <3>1, <4>3
      <3> QED BY <1>2, <3>1, <3>2, <3>3 DEF Promise, Current
    <2>5. ASSUME NEW i \in Ids \ Since(head), i \notin DOMAIN Changes
          PROVE  source[i] = target[i]
      BY <1>2, <2>2, <2>3, <2>5 DEF Promise, CaughtUp, AtReached
    <2> QED BY <2>2, <2>3, <2>4, <2>5
  <1> QED BY <1>3, <1>4, <1>5 DEF Promise

LEMMA ScanRowPromises ==
  ASSUME IInv, ScanRow
  PROVE  Promise'
  <1>1. /\ at = "scan" /\ offset' = offset + 1 /\ at' = "copy"
        /\ UNCHANGED <<source, place, log, target, reached, head, latest, steady, trusted>>
    BY DEF ScanRow, sourceVars, aux
  <1>2. PICK i \in Held(source) : /\ Rank(source, place, i) = offset
                                  /\ read' = [id |-> i, value |-> source[i]]
                                  /\ seen' = seen \cup {i}
    BY DEF ScanRow
  <1>3. Typed /\ Promise BY DEF IInv
  <1>4. Current' /\ Trusted' /\ CaughtUp' /\ Heads'
    BY <1>1, <1>3 DEF Promise, Current, Trusted, CaughtUp, AtReached, Heads, Since
  <1>5. Followed' /\ Left' BY <1>1 DEF Followed, Left
  <1>6. ReadCurrent' BY <1>1, <1>2 DEF ReadCurrent
  <1>7. Scanned'
    <2> SUFFICES ASSUME steady, NEW j \in Ids \ Since(head)
                 PROVE  IF j \in seen \cup {i}
                        THEN target[j] = source[j] \/ i = j
                        ELSE source[j] # None => Rank(source, place, j) >= offset + 1
      BY <1>1, <1>2 DEF Scanned, Since, Ahead, Held
    <2>1. IF j \in seen THEN target[j] = source[j]
          ELSE source[j] # None => Rank(source, place, j) >= offset
      BY <1>1, <1>3 DEF Promise, Scanned, Ahead
    <2>2. CASE j \in seen \cup {i} BY <2>1, <2>2
    <2>3. CASE j \notin seen \cup {i} /\ source[j] # None
      <3>1. j \in Held(source) /\ j # i /\ i \in Ids BY <1>2, <2>3 DEF Held
      <3>2. place \in Places BY <1>3, Facts
      <3>3. place[i] < place[j] \/ place[j] < place[i] BY <3>1, <3>2, PlacesAre
      <3>4. place[i] < place[j] => Rank(source, place, i) < Rank(source, place, j)
        BY <1>2, <3>1, <3>2, RankOrders
      <3>5. place[j] < place[i] => Rank(source, place, j) < Rank(source, place, i)
        BY <1>2, <3>1, <3>2, RankOrders
      <3>6. /\ Rank(source, place, i) \in Nat /\ Rank(source, place, j) \in Nat
            /\ offset \in Nat
        BY <1>3, RowsAreFinite, Facts
      <3> QED BY <1>2, <2>1, <2>3, <3>3, <3>4, <3>5, <3>6
    <2> QED BY <2>2, <2>3
  <1> QED BY <1>4, <1>5, <1>6, <1>7 DEF Promise

LEMMA CopyRowPromises ==
  ASSUME IInv, CopyRow
  PROVE  Promise'
  <1>1. /\ at = "copy" /\ at' = "scan"
        /\ target' = [target EXCEPT ![read.id] = read.value]
        /\ UNCHANGED <<source, place, log, reached, head, offset, seen, latest, steady, trusted>>
    BY DEF CopyRow, sourceVars, aux
  <1>2. Typed /\ Promise BY DEF IInv
  <1>3. Current' /\ Trusted' /\ Heads'
    BY <1>1, <1>2 DEF Promise, Current, Trusted, Heads, Since
  <1>4. Followed' /\ Left' /\ ReadCurrent' BY <1>1 DEF Followed, Left, ReadCurrent
  <1>5. target'[read.id] = read.value /\ \A j \in Ids \ {read.id} : target'[j] = target[j]
    <2>1. read.id \in Ids BY <1>1, <1>2 DEF Typed, TypeOK
    <2> QED BY <1>1, <1>2, <2>1, Facts
  <1>6. CaughtUp'
    <2> SUFFICES ASSUME trusted, NEW j \in Ids \ Since(reached) PROVE target'[j] = source[j]
      BY <1>1 DEF CaughtUp, AtReached, Since
    <2>1. CASE j = read.id BY <1>1, <1>2, <1>5, <2>1 DEF Promise, ReadCurrent
    <2>2. CASE j # read.id BY <1>2, <1>5, <2>2 DEF Promise, CaughtUp, AtReached
    <2> QED BY <2>1, <2>2
  <1>7. Scanned'
    <2> SUFFICES ASSUME steady, NEW j \in Ids \ Since(head)
                 PROVE  IF j \in seen THEN target'[j] = source[j]
                        ELSE source[j] # None => j \in Ahead(source, place)
      BY <1>1 DEF Scanned, Since, Ahead
    <2>1. IF j \in seen THEN target[j] = source[j] \/ read.id = j
          ELSE source[j] # None => j \in Ahead(source, place)
      BY <1>1, <1>2 DEF Promise, Scanned
    <2>2. CASE j = read.id
      <3>1. target'[j] = source[j]
        BY <1>1, <1>2, <1>5, <2>2 DEF Promise, ReadCurrent
      <3> QED BY <2>1, <3>1
    <2>3. CASE j # read.id BY <1>5, <2>1, <2>3
    <2> QED BY <2>2, <2>3
  <1> QED BY <1>3, <1>4, <1>6, <1>7 DEF Promise

LEMMA CollectPromises ==
  ASSUME IInv, CollectStale
  PROVE  Promise'
  <1>1. /\ at = "scan" /\ at' = "stale" /\ stale' = Unseen
        /\ offset >= Cardinality(Held(source))
        /\ UNCHANGED <<source, log, target, reached, head, latest, steady, trusted>>
    BY DEF CollectStale, sourceVars, aux
  <1>2. Typed /\ Promise BY DEF IInv
  <1>3. Current' /\ Trusted' /\ CaughtUp' /\ Heads'
    BY <1>1, <1>2 DEF Promise, Current, Trusted, CaughtUp, AtReached, Heads, Since
  <1>4. Followed' /\ Scanned' /\ ReadCurrent' BY <1>1 DEF Followed, Scanned, ReadCurrent
  <1>5. Left'
    <2> SUFFICES ASSUME steady, NEW j \in Ids \ Since(head)
                 PROVE  IF j \in Unseen THEN source[j] = None ELSE target[j] = source[j]
      BY <1>1 DEF Left, Since
    <2>1. CASE j \in seen
      BY <1>1, <1>2, <2>1 DEF Promise, Scanned, Unseen
    <2>2. CASE j \notin seen
      <3>1. source[j] = None
        <4> SUFFICES ASSUME source[j] # None PROVE FALSE OBVIOUS
        <4>1. Rank(source, place, j) >= offset
          BY <1>1, <1>2, <2>2 DEF Promise, Scanned, Ahead
        <4>2. Rank(source, place, j) < Cardinality(Held(source))
          BY <1>2, Facts, RankIsLess DEF Held
        <4>3. /\ Rank(source, place, j) \in Nat /\ offset \in Nat
              /\ Cardinality(Held(source)) \in Nat
          BY <1>2, RowsAreFinite, Facts
        <4> QED BY <1>1, <4>1, <4>2, <4>3
      <3> QED BY <2>2, <3>1 DEF Unseen, Held
    <2> QED BY <2>1, <2>2
  <1> QED BY <1>3, <1>4, <1>5 DEF Promise

LEMMA DeletePromises ==
  ASSUME IInv, NEW i \in Ids, DeleteStale(i)
  PROVE  Promise'
  <1>1. /\ at = "stale" /\ i \in stale /\ stale' = stale \ {i}
        /\ target' = [target EXCEPT ![i] = None]
        /\ trusted' => trusted /\ steady
        /\ UNCHANGED <<source, log, reached, at, head, steady>>
    BY DEF DeleteStale, sourceVars
  <1>2. Typed /\ Promise BY DEF IInv
  <1>3. target'[i] = None /\ \A j \in Ids \ {i} : target'[j] = target[j]
    BY <1>1, <1>2, Facts
  <1>4. Current' /\ Trusted' /\ Heads'
    BY <1>1, <1>2 DEF Promise, Current, Trusted, Heads, Since
  <1>5. Followed' /\ Scanned' /\ ReadCurrent' BY <1>1 DEF Followed, Scanned, ReadCurrent
  <1>6. Left' BY <1>1, <1>2, <1>3 DEF Promise, Left, Since
  <1>7. CaughtUp'
    <2> SUFFICES ASSUME trusted, steady, NEW j \in Ids \ Since(reached)
                 PROVE  target'[j] = source[j]
      BY <1>1 DEF CaughtUp, AtReached, Since
    <2>1. CASE j = i
      <3>1. /\ reached \in Nat /\ head \in Nat /\ Len(log) \in Nat
            /\ reached <= head /\ head <= Len(log)
        BY <1>1, <1>2, Facts DEF Promise, Trusted, Heads
      <3>2. \A n \in head + 1..Len(log) : n \in reached + 1..Len(log) BY <3>1
      <3>3. j \notin Since(head) BY <3>2 DEF Since, Told
      <3>4. source[j] = None BY <1>1, <1>2, <2>1, <3>3 DEF Promise, Left
      <3> QED BY <1>3, <2>1, <3>4
    <2>2. CASE j # i BY <1>2, <1>3, <2>2 DEF Promise, CaughtUp, AtReached
    <2> QED BY <2>1, <2>2
  <1> QED BY <1>4, <1>5, <1>6, <1>7 DEF Promise

LEMMA FinishPromises ==
  ASSUME IInv, FinishFeed \/ FinishScan
  PROVE  Promise'
  <1>1. /\ at' = "idle" /\ reached' = head
        /\ UNCHANGED <<source, log, target, head, steady>>
    BY DEF FinishFeed, FinishScan, Finish, sourceVars
  <1>2. Typed /\ Promise BY DEF IInv
  <1>3. Current' BY <1>1, <1>2 DEF Promise, Current, Since
  <1>4. Followed' /\ Scanned' /\ Left' /\ ReadCurrent' /\ Heads'
    BY <1>1 DEF Followed, Scanned, Left, ReadCurrent, Heads
  <1>5. trusted' => head <= Len(log)
    BY <1>2 DEF FinishFeed, FinishScan, Promise, Heads
  <1>6. Trusted' BY <1>1, <1>2, <1>5, Facts, NoneIsNoValue DEF Trusted
  <1>7. CaughtUp'
    <2> SUFFICES ASSUME trusted', NEW j \in Ids \ Since(head) PROVE target[j] = source[j]
      BY <1>1 DEF CaughtUp, AtReached, Since
    <2>1. CASE FinishFeed
      BY <1>2, <2>1 DEF FinishFeed, Promise, Followed
    <2>2. CASE FinishScan
      BY <1>2, <2>2 DEF FinishScan, Promise, Left
    <2> QED BY <2>1, <2>2
  <1> QED BY <1>3, <1>4, <1>6, <1>7 DEF Promise

(* A change of the feed written, be it an upsert or a delete.              *)
LEMMA WritePromises ==
  ASSUME IInv, at = "write", NEW i \in DOMAIN latest,
         target'[i] = latest[i], \A j \in Ids \ {i} : target'[j] = target[j],
         latest' = [j \in DOMAIN latest \ {i} |-> latest[j]],
         UNCHANGED <<source, log, reached, at, head, steady, trusted>>
  PROVE  Promise'
  <1>1. Typed /\ Promise BY DEF IInv
  <1>2. Current' /\ Trusted' /\ Heads'
    BY <1>1 DEF Promise, Current, Trusted, Heads, Since
  <1>3. Scanned' /\ Left' /\ ReadCurrent' BY DEF Scanned, Left, ReadCurrent
  <1>4. CaughtUp'
    <2> SUFFICES ASSUME trusted, NEW j \in Ids \ Since(reached) PROVE target'[j] = source[j]
      BY DEF CaughtUp, AtReached, Since
    <2>1. j # i BY <1>1 DEF Promise, Followed
    <2> QED BY <1>1, <2>1 DEF Promise, CaughtUp, AtReached
  <1>5. Followed'
    <2> SUFFICES ASSUME trusted
                 PROVE  /\ DOMAIN latest \ {i} \subseteq Since(reached)
                        /\ \A j \in Ids \ Since(head) :
                             source[j] = IF j \in DOMAIN latest \ {i}
                                         THEN latest[j] ELSE target'[j]
      BY DEF Followed, Since
    <2> QED BY <1>1 DEF Promise, Followed
  <1> QED BY <1>2, <1>3, <1>4, <1>5 DEF Promise

LEMMA PromiseStep == IInv /\ [Next]_vars => Promise'
  <1> SUFFICES ASSUME IInv, [Next]_vars PROVE Promise' OBVIOUS
  <1>0. Typed /\ Promise BY DEF IInv
  <1>1. ASSUME NEW i \in Ids, NEW value \in Values \cup {None}, Commit(i, value)
        PROVE  Promise'
    BY <1>1, CommitPromises
  <1>2. CASE Recreate
    <2>1. ~steady' /\ ~trusted' /\ Len(log') = 0 /\ UNCHANGED <<at, reached>>
      BY <1>2 DEF Recreate
    <2> QED
      BY <2>1 DEF Promise, Current, Trusted, CaughtUp, Heads, Followed, Scanned, Left, ReadCurrent
  <1>3. CASE StartPass
    <2>1. /\ head' = Len(log) /\ at' \in {"feed", "scan"}
          /\ at' = "scan" => seen' = {} /\ offset' = 0
          /\ at' = "feed" => reached # None /\ ~(Len(log) < reached)
          /\ UNCHANGED <<source, place, log, target, reached, trusted>>
      BY <1>3 DEF StartPass, StartScan, sourceVars
    <2>2. \A i : Rank(source, place, i) \in Nat BY RowsAreFinite
    <2>3. Current' /\ Trusted' /\ CaughtUp'
      BY <1>0, <2>1 DEF Promise, Current, Trusted, CaughtUp, AtReached, Since
    <2>4. Heads' BY <1>0, <2>1, Facts DEF Heads, Promise, Trusted
    <2>5. Followed' /\ Left' /\ ReadCurrent' BY <2>1 DEF Followed, Left, ReadCurrent
    <2>6. Scanned' BY <2>1, <2>2 DEF Scanned, Ahead, Held
    <2> QED BY <2>3, <2>4, <2>5, <2>6 DEF Promise
  <1>4. CASE ReadFeed BY <1>4, ReadFeedPromises
  <1>5. CASE FeedUnavailable
    <2>1. /\ at = "feed" /\ at' = "scan" /\ seen' = {} /\ offset' = 0
          /\ UNCHANGED <<source, place, log, target, reached, head, steady, trusted>>
      BY <1>5 DEF FeedUnavailable, StartScan, sourceVars, aux
    <2>2. \A i : Rank(source, place, i) \in Nat BY RowsAreFinite
    <2>3. Current' /\ Trusted' /\ CaughtUp' /\ Heads'
      BY <1>0, <2>1 DEF Promise, Current, Trusted, CaughtUp, AtReached, Heads, Since
    <2>4. Followed' /\ Left' /\ ReadCurrent' BY <2>1 DEF Followed, Left, ReadCurrent
    <2>5. Scanned' BY <2>1, <2>2 DEF Scanned, Ahead, Held
    <2> QED BY <2>3, <2>4, <2>5 DEF Promise
  <1>6. ASSUME NEW i \in Ids, WriteUpsert(i) PROVE Promise'
    <2>1. /\ at = "write" /\ i \in DOMAIN latest
          /\ target' = [target EXCEPT ![i] = latest[i]]
          /\ latest' = [j \in DOMAIN latest \ {i} |-> latest[j]]
          /\ UNCHANGED <<source, log, reached, at, head, steady, trusted>>
      BY <1>6 DEF WriteUpsert, sourceVars, aux
    <2>2. target'[i] = latest[i] /\ \A j \in Ids \ {i} : target'[j] = target[j]
      BY <1>0, <2>1, Facts
    <2> QED BY <1>0, <2>1, <2>2, WritePromises DEF IInv
  <1>7. ASSUME NEW i \in Ids, WriteDelete(i) PROVE Promise'
    <2>1. /\ at = "write" /\ i \in DOMAIN latest /\ latest[i] = None
          /\ target' = [target EXCEPT ![i] = None]
          /\ latest' = [j \in DOMAIN latest \ {i} |-> latest[j]]
          /\ UNCHANGED <<source, log, reached, at, head, steady, trusted>>
      BY <1>7 DEF WriteDelete, sourceVars, aux
    <2>2. target'[i] = latest[i] /\ \A j \in Ids \ {i} : target'[j] = target[j]
      BY <1>0, <2>1, Facts
    <2> QED BY <1>0, <2>1, <2>2, WritePromises DEF IInv
  <1>8. CASE ScanRow BY <1>8, ScanRowPromises
  <1>9. CASE CopyRow BY <1>9, CopyRowPromises
  <1>10. CASE CollectStale BY <1>10, CollectPromises
  <1>11. CASE PassFails
    <2>1. at' = "idle" /\ UNCHANGED <<source, log, target, reached, trusted>>
      BY <1>11 DEF PassFails, sourceVars, aux
    <2>2. Current' /\ Trusted' /\ CaughtUp'
      BY <1>0, <2>1 DEF Promise, Current, Trusted, CaughtUp, AtReached, Since
    <2>3. Heads' /\ Followed' /\ Scanned' /\ Left' /\ ReadCurrent'
      BY <2>1 DEF Heads, Followed, Scanned, Left, ReadCurrent
    <2> QED BY <2>2, <2>3 DEF Promise
  <1>12. CASE Restart
    <2>1. at' = "idle" /\ ~trusted' /\ UNCHANGED <<source, log>>
      BY <1>12 DEF Restart, sourceVars
    <2>2. Current' BY <1>0, <2>1 DEF Promise, Current, Since
    <2>3. Trusted' /\ CaughtUp' BY <2>1 DEF Trusted, CaughtUp
    <2>4. Heads' /\ Followed' /\ Scanned' /\ Left' /\ ReadCurrent'
      BY <2>1 DEF Heads, Followed, Scanned, Left, ReadCurrent
    <2> QED BY <2>2, <2>3, <2>4 DEF Promise
  <1>13. CASE UNCHANGED vars
    <2>1. UNCHANGED <<source, place, log, target, reached, at, head, offset, read, seen, stale,
                      latest, steady, trusted>>
      BY <1>13 DEF vars, sourceVars, scan, aux
    <2> QED
      BY <1>0, <2>1
      DEF Promise, Current, Trusted, CaughtUp, AtReached, Heads, Followed, Scanned,
          Left, ReadCurrent, Since, Ahead
  <1>14. ASSUME NEW i \in Ids, DeleteStale(i) PROVE Promise' BY <1>14, DeletePromises
  <1>15. CASE FinishFeed \/ FinishScan BY <1>15, FinishPromises
  <1> QED
    BY <1>1, <1>2, <1>3, <1>4, <1>5, <1>6, <1>7, <1>8, <1>9, <1>10, <1>11, <1>12, <1>13,
       <1>14, <1>15
    DEF Next, Pass, PassOverNothing

(* The version reached is a true statement about the target, at every      *)
(* moment, as long as no row slips past a scan whose deletes or version    *)
(* are then written: CaughtUp of the runs, for any rows, versions, tables  *)
(* and faults.                                                             *)
THEOREM VersionIsTrue == Spec => []CaughtUp
  <1>1. Init => IInv
    <2> SUFFICES ASSUME Init PROVE Promise BY TypedInit DEF IInv
    <2>1. ~trusted /\ at = "idle" /\ Len(log) = 0 BY DEF Init
    <2> QED
      BY <2>1 DEF Promise, Current, Trusted, CaughtUp, Heads, Followed, Scanned, Left, ReadCurrent
  <1>2. IInv /\ [Next]_vars => IInv' BY TypedStep, PromiseStep DEF IInv
  <1>3. IInv => CaughtUp BY DEF IInv, Promise
  <1> QED BY <1>1, <1>2, <1>3, PTL DEF Spec
===============================================================================
