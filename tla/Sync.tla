--------------------------------- MODULE Sync ---------------------------------
(***************************************************************************)
(* core/sync.py: VectrixSync.cdc(), run over and over by start_cdc(),      *)
(* keeping one collection of a target store like that of a source whose    *)
(* table has a change feed.                                                *)
(*                                                                         *)
(* The source belongs to others: they upsert and delete rows at any        *)
(* moment, each commit one version further, and may drop the table and     *)
(* make it again.  The feed gives the changes between two versions, or     *)
(* refuses; it and the paged scan of the rows are modelled from how        *)
(* sync.py calls them.  The scan states no order: the rows are taken to    *)
(* keep the one they have while nothing is committed, and every commit,    *)
(* since it rewrites files, to leave them in any.  Rows are scanned,       *)
(* written and deleted one at a time, as the backend commits them: larger  *)
(* pages and batches move the same rows.                                   *)
(***************************************************************************)
EXTENDS Integers, Sequences, FiniteSets

CONSTANTS
  Ids,         \* point ids
  Values,      \* what a row may hold
  None,        \* no row; no version
  MaxVersion,  \* bound: how far a table's versions go
  MaxTables,   \* bound: how often the table is made
  MaxFaults    \* bound: how many passes fail or are cut short

ASSUME IdsAreFinite == IsFiniteSet(Ids)
ASSUME NoneIsNoValue == None \notin Values \cup Nat
ASSUME BoundsAreNumbers == MaxTables \in Nat \ {0} /\ {MaxVersion, MaxFaults} \subseteq Nat

VARIABLES
  source,    \* the source's rows
  log,       \* its commits, as its change feed tells them
  place,     \* where each row is among the rows that a scan returns
  tables,    \* how often the table has been made
  target,    \* the target's rows
  reached,   \* _cdc_versions[name]
  at,        \* where the pass is
  head,      \* the version the source was at when the pass began
  offset,    \* how many rows the scan has passed
  read,      \* the row it has read and not written
  seen,      \* source_ids
  stale,     \* what is to be deleted of what a scan did not see
  latest,    \* the last change the feed told of each id it named
  faults,    \* how many faults there have been
  steady,    \* auxiliary: no row has slipped past this pass's scan
  trusted    \* auxiliary: `reached' is of this table, and nothing has been
             \* deleted since for want of a row that slipped past a scan

sourceVars == <<source, log, place, tables>>
scan == <<offset, read, seen, stale>>
aux == <<steady, trusted>>

vars == <<sourceVars, target, reached, at, head, scan, latest, faults, aux>>

NoRows == [i \in Ids |-> None]
NoRead == [id |-> None, value |-> None]
NoChange == [i \in {} |-> None]

Held(rows) == {i \in Ids : rows[i] # None}

Places == {p \in [Ids -> 1..Cardinality(Ids)] : \A i, j \in Ids : p[i] = p[j] => i = j}

(* How many rows a scan returns before this one.                           *)
Rank(rows, order, i) == Cardinality({j \in Held(rows) : order[j] < order[i]})

(* The rows that the scan has not come to.                                 *)
Ahead(rows, order) == {i \in Held(rows) : Rank(rows, order, i) >= offset}

Init ==
  /\ source = NoRows /\ log = <<>> /\ place \in Places /\ tables = 1
  /\ target = NoRows
  /\ reached = None
  /\ at = "idle" /\ head = 0
  /\ offset = 0 /\ read = NoRead /\ seen = {} /\ stale = {}
  /\ latest = NoChange
  /\ faults = 0
  /\ steady = TRUE /\ trusted = FALSE

-------------------------------------------------------------------------------
(* The source                                                              *)

(* A commit: row i becomes `value', or goes, and the rows may come to lie  *)
(* in another order.  Under a scan, one that it had not come to may so     *)
(* come to lie among those that it has passed.                             *)
Commit(i, value) ==
  /\ Len(log) < MaxVersion
  /\ value # source[i]
  /\ source' = [source EXCEPT ![i] = value]
  /\ log' = Append(log, [id |-> i, value |-> value])
  /\ place' \in Places
  /\ steady' = (/\ steady
                /\ at \in {"scan", "copy"} =>
                     Ahead(source, place) \ {i} \subseteq Ahead(source', place'))
  /\ UNCHANGED <<tables, target, reached, at, head, scan, latest, faults, trusted>>

(* The table is dropped and made again: its versions start over.           *)
Recreate ==
  /\ tables < MaxTables
  /\ tables' = tables + 1
  /\ source' = NoRows
  /\ log' = <<>>
  /\ steady' = FALSE
  /\ trusted' = FALSE
  /\ UNCHANGED <<place, target, reached, at, head, scan, latest, faults>>

-------------------------------------------------------------------------------
(* A pass of cdc()                                                         *)

StartScan ==
  /\ at' = "scan"
  /\ offset' = 0 /\ read' = NoRead /\ seen' = {} /\ stale' = {}

(* Wrong: a feed that is one commit behind is taken to be up to date.      *)
(* (EventuallyInSync)                                                      *)
UpToDateOffByOne == reached # None /\ (Len(log) = reached \/ Len(log) = reached + 1)

UpToDate == reached # None /\ Len(log) = reached

(* The head is read before anything else.  With no version reached, or one *)
(* beyond the head, every row is compared; otherwise the feed is asked.    *)
StartPass ==
  /\ at = "idle"
  /\ ~UpToDate
  /\ head' = Len(log)
  /\ steady' = TRUE
  /\ IF reached = None \/ Len(log) < reached
     THEN StartScan
     ELSE at' = "feed" /\ UNCHANGED scan
  /\ UNCHANGED <<sourceVars, target, reached, latest, faults, trusted>>

(* A pass that finds the head where it left it does nothing.               *)
PassOverNothing ==
  /\ at = "idle"
  /\ UpToDate
  /\ UNCHANGED vars

(* The rows that commits after one version and up to another are to.       *)
Told(commits, after, upto) == {commits[n].id : n \in after + 1..upto}

(* The last change of each id between the version reached and the head.    *)
Changes ==
  LET span == reached + 1..head
      last(i) == CHOOSE n \in span :
                   log[n].id = i /\ \A m \in span : log[m].id = i => m <= n
  IN [i \in Told(log, reached, head) |-> log[last(i)].value]

ReadFeed ==
  /\ at = "feed"
  /\ head <= Len(log)
  /\ latest' = Changes
  /\ at' = "write"
  /\ UNCHANGED <<sourceVars, target, reached, head, scan, faults, aux>>

(* The feed was off at that version, or what it needs is gone, or the      *)
(* table has no such versions: every row is compared.                      *)
FeedUnavailable ==
  /\ at = "feed"
  /\ StartScan
  /\ UNCHANGED <<sourceVars, target, reached, head, latest, faults, aux>>

WriteUpsert(i) ==
  /\ at = "write"
  /\ i \in DOMAIN latest
  /\ latest[i] # None
  /\ target' = [target EXCEPT ![i] = latest[i]]
  /\ latest' = [j \in DOMAIN latest \ {i} |-> latest[j]]
  /\ UNCHANGED <<sourceVars, reached, at, head, scan, faults, aux>>

(* The upserts written, the deletes are, each a commit to the target.      *)
WriteDelete(i) ==
  /\ at = "write"
  /\ i \in DOMAIN latest
  /\ \A j \in DOMAIN latest : latest[j] = None
  /\ target' = [target EXCEPT ![i] = None]
  /\ latest' = [j \in DOMAIN latest \ {i} |-> latest[j]]
  /\ UNCHANGED <<sourceVars, reached, at, head, scan, faults, aux>>

(* Wrong: the head as it is at the end of the pass. (CaughtUp)             *)
FinishAtTheEnd ==
  /\ reached' = Len(log)
  /\ at' = "idle"
  /\ latest' = NoChange

(* Wrong: the version to ask for next. (TypeOK)                            *)
FinishOnePast ==
  /\ reached' = head + 1
  /\ at' = "idle"
  /\ latest' = NoChange

(* _cdc_versions[name] = head                                              *)
Finish ==
  /\ reached' = head
  /\ at' = "idle"
  /\ latest' = NoChange

FinishFeed ==
  /\ at = "write"
  /\ DOMAIN latest = {}
  /\ Finish
  /\ trusted' = (trusted /\ steady)
  /\ UNCHANGED <<sourceVars, target, head, scan, faults, steady>>

(* The rows as a scan pages through them: LIMIT 1 OFFSET offset.           *)
ScanRow ==
  /\ at = "scan"
  /\ \E i \in Held(source) :
       /\ Rank(source, place, i) = offset
       /\ read' = [id |-> i, value |-> source[i]]
       /\ seen' = seen \cup {i}
  /\ offset' = offset + 1
  /\ at' = "copy"
  /\ UNCHANGED <<sourceVars, target, reached, head, stale, latest, faults, aux>>

CopyRow ==
  /\ at = "copy"
  /\ target' = [target EXCEPT ![read.id] = read.value]
  /\ read' = NoRead
  /\ at' = "scan"
  /\ UNCHANGED <<sourceVars, reached, head, offset, seen, stale, latest, faults, aux>>

(* What the scan did not see of what the target holds.                     *)
Unseen == Held(target) \ seen

(* The scan over, the target's rows that it did not see are collected.     *)
CollectStale ==
  /\ at = "scan"
  /\ offset >= Cardinality(Held(source))
  /\ stale' = Unseen
  /\ at' = "stale"
  /\ offset' = 0 /\ seen' = {}
  /\ UNCHANGED <<sourceVars, target, reached, head, read, latest, faults, aux>>

(* They are deleted, each a commit to the target: until the pass ends, the *)
(* version recorded is the one that an earlier pass reached.               *)
DeleteStale(i) ==
  /\ at = "stale"
  /\ i \in stale
  /\ target' = [target EXCEPT ![i] = None]
  /\ stale' = stale \ {i}
  /\ trusted' = (trusted /\ steady)
  /\ UNCHANGED <<sourceVars, reached, at, head, offset, read, seen, latest, faults, steady>>

FinishScan ==
  /\ at = "stale"
  /\ stale = {}
  /\ Finish
  /\ trusted' = steady
  /\ UNCHANGED <<sourceVars, target, head, scan, faults, steady>>

-------------------------------------------------------------------------------
(* A read or a write raises, and the pass ends where it is.                *)
PassFails ==
  /\ at # "idle"
  /\ faults < MaxFaults
  /\ faults' = faults + 1
  /\ at' = "idle"
  /\ offset' = 0 /\ read' = NoRead /\ seen' = {} /\ stale' = {} /\ latest' = NoChange
  /\ UNCHANGED <<sourceVars, target, reached, head, aux>>

(* The syncing process dies; another starts with no version reached.       *)
Restart ==
  /\ faults < MaxFaults
  /\ faults' = faults + 1
  /\ reached' = None
  /\ at' = "idle"
  /\ offset' = 0 /\ read' = NoRead /\ seen' = {} /\ stale' = {} /\ latest' = NoChange
  /\ trusted' = FALSE
  /\ UNCHANGED <<sourceVars, target, head, steady>>

Pass ==
  \/ StartPass
  \/ PassOverNothing
  \/ ReadFeed
  \/ FeedUnavailable
  \/ \E i \in Ids : WriteUpsert(i) \/ WriteDelete(i) \/ DeleteStale(i)
  \/ FinishFeed
  \/ ScanRow
  \/ CopyRow
  \/ CollectStale
  \/ FinishScan

Next ==
  \/ \E i \in Ids, value \in Values \cup {None} : Commit(i, value)
  \/ Recreate
  \/ Pass
  \/ PassFails
  \/ Restart

Spec == Init /\ [][Next]_vars

(* start_cdc()'s loop starts a pass whenever the last one is over, and a   *)
(* pass whose calls return goes on to its end.  Nothing makes the source's *)
(* users write, nor makes a fault happen.                                  *)
FairSpec == Spec /\ WF_vars(Pass)

-------------------------------------------------------------------------------
(* Properties                                                              *)

Rowset == [Ids -> Values \cup {None}]

(* Every variable has its type: the version reached is one the source has  *)
(* had, a row is held between its read and its write and at no other time, *)
(* and changes and deletes wait only in a pass that has collected them.    *)
TypeOK ==
  /\ source \in Rowset /\ target \in Rowset
  /\ log \in Seq([id : Ids, value : Values \cup {None}]) /\ Len(log) <= MaxVersion
  /\ place \in Places /\ tables \in 1..MaxTables /\ faults \in 0..MaxFaults
  /\ reached \in 0..MaxVersion \cup {None} /\ head \in 0..MaxVersion
  /\ at \in {"idle", "feed", "write", "scan", "copy", "stale"}
  /\ IF at = "copy" THEN read.id \in seen /\ read.value \in Values ELSE read = NoRead
  /\ seen \in SUBSET Ids /\ stale \in SUBSET Ids /\ offset \in Nat
  /\ at # "stale" => stale = {}
  /\ DOMAIN latest \subseteq Ids /\ (at # "write" => latest = NoChange)
  /\ \A i \in DOMAIN latest : latest[i] \in Values \cup {None}
  /\ steady \in BOOLEAN /\ trusted \in BOOLEAN

Since(v) == Told(log, v, Len(log))

AtReached == \A i \in Ids \ Since(reached) : target[i] = source[i]

(* The version reached is a promise: a row whose last commit is no later   *)
(* has in the target what it has in the source, gone if it is gone there,  *)
(* at every moment of every pass that follows, however passes failed       *)
(* half-way and were replayed over rows that had moved on.  It is broken,  *)
(* and `trusted' says so, by a pass that scanned the rows and let one slip *)
(* past: the row is deleted from the target, and if the pass then fails    *)
(* nothing tells of it until another pass scans.                           *)
CaughtUp == trusted => AtReached

(* "It copies every source row and deletes every target row the source     *)
(* does not have" (cdc's docstring, of a comparison row for row): whatever *)
(* else is written during it, what it leaves behind is no older than the   *)
(* head it started from.  No run checks it: it is not so of a scan that a  *)
(* row slipped past.                                                       *)
EveryRowIsCopied == reached # None => AtReached

(* Once the source's users stop and faults do, the loop comes to rest at   *)
(* the source's version, and the target, unless a row slipped past a scan  *)
(* or the table was made again behind its back, is then like the source    *)
(* and stays so, deletes included.                                         *)
EventuallyInSync ==
  <>[](at = "idle" /\ reached = Len(log) /\ (trusted => target = source))
===============================================================================
