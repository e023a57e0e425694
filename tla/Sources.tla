-------------------------------- MODULE Sources --------------------------------
(***************************************************************************)
(* sources.py: Sources.refresh(), which keeps one collection up with a     *)
(* feed, run by several schedulers and servers at once, each under a lease *)
(* it takes in the records store (signin/records.py).                      *)
(*                                                                         *)
(* The feed publishes as it likes.  A refresh asks whether the feed has    *)
(* changed, fetches each changed entry, writes it by deleting its document *)
(* and adding it again, remembers the text it wrote, and at the end keeps  *)
(* the ETag.  It may be slow, so that its lease runs out under it; it may  *)
(* die; the source may be reset, removed and added again at any of its     *)
(* steps, and a reset() or remove() may itself fail at any of its own.     *)
(*                                                                         *)
(* An ETag is the number of the edition it came with.  It is opaque to the *)
(* code: a site whose feed is again as it was may give the same ETag for   *)
(* it, and answer that nothing changed, or may not.                        *)
(*                                                                         *)
(* An entry's fingerprint and its text's version are the text.  Time is    *)
(* what is left of a lease: FULL while more than two thirds are, SPENT     *)
(* after it ran out.  The database's rows are saved as they are written.   *)
(***************************************************************************)
EXTENDS Integers, Sequences, FiniteSets

CONSTANTS
  Refreshes,   \* the processes that refresh
  Keys,        \* the feed's entries
  Texts,       \* what an entry may say
  None,        \* no text; no ETag; no lease; no version
  Versions,    \* what a record's version may be
  Counted,     \* whether the store counts a record's versions from 1, as
               \* SQLite and PostgreSQL do, or draws one that is not in
               \* use, as DynamoDB and Cosmos DB do
  MaxItems,    \* max_items
  MaxEditions, \* bound: how often the feed publishes
  MaxTroubles  \* bound: how often a call fails, a refresh dies or outlasts
               \* its lease, or the source is reset or removed

ASSUME NoneIsNothing == None \notin Keys \cup Texts \cup Versions \cup Nat
ASSUME VersionsAreNumbers == Versions \subseteq Nat
ASSUME NoneRefreshes == None \notin Refreshes
ASSUME TextsAreThere == Texts # {}
ASSUME ItemsAreWritten == MaxItems \in Nat \ {0}
ASSUME BoundsAreNumbers == MaxEditions \in Nat \ {0} /\ MaxTroubles \in Nat

Spent == 0   \* the lease ran out
Some == 1    \* two thirds of LEASE_FOR or less are left
Full == 2    \* more are

VARIABLES
  editions,   \* what the feed has published: its entries, one ETag each
  docs,       \* the collection's document of each entry
  here,       \* whether the SOURCE record is there
  tag,        \* the ETag in its state
  items,      \* the ITEM records: the text remembered of each entry
  lease,      \* the LEASE record
  at,         \* where each refresh is
  held,       \* the lease as it knows it
  etag,       \* the ETag in its copy of the state
  plan,       \* the texts it has still to write
  hand,       \* the entry it is writing
  writes,     \* how many it has written
  short,      \* whether it left an entry waiting or failed
  forgetting, \* which of remove(), remove(delete_documents) and reset() runs
  listed,     \* the items it has still to delete
  dropped,    \* the item whose document it has just deleted
  troubles,   \* how many of what MaxTroubles bounds there have been
  torn,       \* auxiliary: a remove() met a refresh at work
  crossed,    \* auxiliary: a reset() met a refresh at work
  halfway,    \* auxiliary: a remove() or reset() failed, and nothing has
              \* been written whole since
  unread,     \* auxiliary: a refresh did not read back the lease it made
  again,      \* auxiliary: a lease got a version that another refresh holds
  strayed,    \* auxiliary: a refresh wrote, or made a lease longer, after it
              \* lost its own
  broken,     \* auxiliary: entries whose last write or removal was cut short
  passed      \* auxiliary: entries passed over for an ETag that came back

leases == <<lease, held>>
records == <<here, tag, items>>
refresh == <<at, etag, plan, hand, writes, short>>
forget == <<forgetting, listed, dropped>>
met == <<torn, crossed, halfway>>
aux == <<met, unread, again, strayed, broken, passed>>

vars == <<editions, docs, records, leases, refresh, forget, troubles, aux>>

Feed == editions[Len(editions)]
Nothing == [k \in Keys |-> None]
NoLease == [by |-> None, version |-> None, left |-> Spent]

Working(r) == at[r] \notin {"idle", "chosen"}

Init ==
  /\ editions = <<[k \in Keys |-> CHOOSE t \in Texts : TRUE]>>
  /\ docs = Nothing
  /\ here = TRUE /\ tag = None /\ items = Nothing
  /\ lease = NoLease
  /\ at = [r \in Refreshes |-> "idle"]
  /\ held = [r \in Refreshes |-> NoLease]
  /\ etag = [r \in Refreshes |-> None]
  /\ plan = [r \in Refreshes |-> Nothing]
  /\ hand = [r \in Refreshes |-> None]
  /\ writes = [r \in Refreshes |-> 0]
  /\ short = [r \in Refreshes |-> FALSE]
  /\ forgetting = "no" /\ listed = {} /\ dropped = None /\ troubles = 0
  /\ torn = FALSE /\ crossed = FALSE /\ halfway = FALSE
  /\ unread = FALSE /\ again = FALSE /\ strayed = FALSE
  /\ broken = {} /\ passed = {}

-------------------------------------------------------------------------------
(* The records store                                                       *)

InUse == {lease.version} \cup {held[r].version : r \in Refreshes}

(* The version a LEASE record gets: 1 for a new row and one more at every  *)
(* change of a row that is there, though it is past its time; or one that  *)
(* nobody holds.                                                           *)
NewVersion(v) ==
  IF Counted
  THEN v = IF lease.version = None THEN 1 ELSE lease.version + 1
  ELSE v \notin InUse /\ \A w \in Versions : w < v => w \in InUse

(* create(): over no row, or one past its time.                            *)
Free == lease.left = Spent

(* replace() and delete() with a version ask only whether the row has it.  *)
Mine(r) == held[r].version # None /\ lease.version = held[r].version

(* Auxiliary: the row is the one that this refresh made, and not another   *)
(* that has its version.                                                   *)
Inside(r) == Mine(r) /\ lease.by = r

(* Auxiliary: the version is in another refresh's hands already.           *)
Again(r, v) == again' = (again \/ \E s \in Refreshes \ {r} : held[s].version = v)

-------------------------------------------------------------------------------
(* The lease                                                               *)

(* refresh(): the sources are listed, with their states, before any lease  *)
(* is taken.                                                               *)
Choose(r) ==
  /\ at[r] = "idle"
  /\ here
  /\ at' = [at EXCEPT ![r] = "chosen"]
  /\ etag' = [etag EXCEPT ![r] = tag]
  /\ UNCHANGED <<editions, docs, records, leases, plan, hand, writes, short,
                 forget, troubles, aux>>

Busy(r) ==
  /\ at[r] = "chosen"
  /\ ~Free
  /\ at' = [at EXCEPT ![r] = "idle"]
  /\ etag' = [etag EXCEPT ![r] = None]
  /\ UNCHANGED <<editions, docs, records, leases, plan, hand, writes, short,
                 forget, troubles, aux>>

CreateLease(r) ==
  /\ at[r] = "chosen"
  /\ Free
  /\ \E v \in Versions :
       /\ NewVersion(v)
       /\ lease' = [by |-> r, version |-> v, left |-> Full]
       /\ Again(r, v)
  /\ at' = [at EXCEPT ![r] = "created"]
  /\ UNCHANGED <<editions, docs, records, held, etag, plan, hand, writes, short,
                 forget, troubles, met, unread, strayed, broken, passed>>

(* _take_lease() reads the record it made, for its version.  It takes any  *)
(* that is there by then for its own; where none is, it has no version.    *)
ReadLease(r) ==
  /\ at[r] = "created"
  /\ held' = [held EXCEPT ![r] = IF lease.left = Spent THEN NoLease ELSE lease]
  /\ at' = [at EXCEPT ![r] = "leased"]
  /\ unread' = (unread \/ lease.by # r \/ lease.left = Spent)
  /\ UNCHANGED <<editions, docs, records, lease, etag, plan, hand, writes, short,
                 forget, troubles, met, again, strayed, broken, passed>>

(* keep() answers without the store while more than two thirds are left,   *)
(* and for ever when there is no version.                                  *)
NoNeed(r) == held[r].version = None \/ held[r].left = Full

Renew(r) ==
  /\ ~NoNeed(r)
  /\ Mine(r)
  /\ \E v \in Versions :
       /\ NewVersion(v)
       /\ lease' = [lease EXCEPT !.version = v, !.left = Full]
       /\ held' = [held EXCEPT ![r] = [@ EXCEPT !.version = v, !.left = Full]]
       /\ Again(r, v)

Keep(r) == (NoNeed(r) /\ UNCHANGED <<leases, again>>) \/ Renew(r)

Lost(r) == ~NoNeed(r) /\ ~Mine(r)

(* Wrong: a lease is let go whoever holds it. (OneAtOnce)                  *)
LetGoOfAny(r) == NoLease

LetGo(r) == IF held[r].version = None \/ Mine(r) THEN NoLease ELSE lease

(* The lease runs out while a refresh still works under it.                *)
LapsesUnder ==
  /\ lease.left = Some
  /\ \E r \in Refreshes : Working(r) /\ (Mine(r) \/ at[r] = "created")

(* Time passes for the record and for every copy of it.                    *)
Tick ==
  LET older(l) == [l EXCEPT !.left = IF @ = Spent THEN Spent ELSE @ - 1] IN
  /\ IF LapsesUnder
     THEN troubles < MaxTroubles /\ troubles' = troubles + 1
     ELSE troubles' = troubles
  /\ lease' = older(lease)
  /\ held' = [r \in Refreshes |-> older(held[r])]
  /\ leases' # leases
  /\ UNCHANGED <<editions, docs, records, refresh, forget, aux>>

-------------------------------------------------------------------------------
(* A refresh at work                                                       *)

(* A conditional request: 304 when the ETag is the feed's, which one that  *)
(* came with the same entries before may be again.                         *)
NotModified(r) ==
  /\ at[r] = "leased"
  /\ etag[r] # None
  /\ editions[etag[r]] = Feed
  /\ at' = [at EXCEPT ![r] = "settle"]
  /\ passed' = IF etag[r] = Len(editions) THEN passed
               ELSE passed \cup {k \in Keys : items[k] # Feed[k]}
  /\ UNCHANGED <<editions, docs, records, leases, etag, plan, hand, writes, short,
                 forget, troubles, met, unread, again, strayed, broken>>

(* The entries that are not as they were remembered.                       *)
Changed == [k \in Keys |-> IF Feed[k] = items[k] THEN None ELSE Feed[k]]

Read(r) ==
  /\ at[r] = "leased"
  /\ etag[r] # Len(editions)
  /\ etag' = [etag EXCEPT ![r] = Len(editions)]
  /\ plan' = [plan EXCEPT ![r] = Changed]
  /\ at' = [at EXCEPT ![r] = "take"]
  /\ UNCHANGED <<editions, docs, records, leases, hand, writes, short,
                 forget, troubles, aux>>

(* The site does not answer, or asks to be left alone: nothing is kept.    *)
ReadFails(r) ==
  /\ at[r] = "leased"
  /\ troubles < MaxTroubles
  /\ troubles' = troubles + 1
  /\ at' = [at EXCEPT ![r] = "failed"]
  /\ UNCHANGED <<editions, docs, records, leases, etag, plan, hand, writes, short,
                 forget, aux>>

(* The next entry to write, with the lease kept for it.                    *)
Take(r, k) ==
  /\ at[r] = "take"
  /\ plan[r][k] # None
  /\ writes[r] < MaxItems
  /\ Keep(r)
  /\ hand' = [hand EXCEPT ![r] = k]
  /\ at' = [at EXCEPT ![r] = "fetch"]
  /\ strayed' = (strayed \/ (~NoNeed(r) /\ ~Inside(r)))
  /\ UNCHANGED <<editions, docs, records, etag, plan, writes, short,
                 forget, troubles, met, unread, broken, passed>>

(* Over max_items, or past its lease: the rest waits.                      *)
Wait(r) ==
  /\ at[r] = "take"
  /\ plan[r] # Nothing
  /\ writes[r] >= MaxItems \/ Lost(r)
  /\ short' = [short EXCEPT ![r] = TRUE]
  /\ plan' = [plan EXCEPT ![r] = Nothing]
  /\ UNCHANGED <<editions, docs, records, leases, at, etag, hand, writes,
                 forget, troubles, aux>>

(* The store raises as the lease is made longer: it counts as lost.        *)
KeepFails(r) ==
  /\ at[r] = "take"
  /\ plan[r] # Nothing
  /\ writes[r] < MaxItems /\ ~NoNeed(r)
  /\ troubles < MaxTroubles
  /\ troubles' = troubles + 1
  /\ short' = [short EXCEPT ![r] = TRUE]
  /\ plan' = [plan EXCEPT ![r] = Nothing]
  /\ UNCHANGED <<editions, docs, records, leases, at, etag, hand, writes, forget, aux>>

(* Wrong: an entry that failed is not reported as such. (KeptTagIsWhole)   *)
FailedQuietly(r) == UNCHANGED short

Failed(r) == short' = [short EXCEPT ![r] = TRUE]

(* What it has in hand is done with, and the next entry's turn comes.      *)
Done(r) ==
  /\ plan' = [plan EXCEPT ![r][hand[r]] = None]
  /\ hand' = [hand EXCEPT ![r] = None]
  /\ at' = [at EXCEPT ![r] = "take"]

(* _document_of(): the entry's article or recording is not to be had, or   *)
(* has no text.                                                            *)
FetchFails(r) ==
  /\ at[r] = "fetch"
  /\ troubles < MaxTroubles
  /\ troubles' = troubles + 1
  /\ Failed(r)
  /\ Done(r)
  /\ UNCHANGED <<editions, docs, records, leases, etag, writes, forget, aux>>

(* write(): the entry's last document goes,                                *)
Delete(r) ==
  /\ at[r] = "fetch"
  /\ docs' = [docs EXCEPT ![hand[r]] = None]
  /\ at' = [at EXCEPT ![r] = "add"]
  /\ strayed' = (strayed \/ ~Inside(r))
  /\ UNCHANGED <<editions, records, leases, etag, plan, hand, writes, short,
                 forget, troubles, met, unread, again, broken, passed>>

(* and the new one is added.                                               *)
Add(r) ==
  /\ at[r] = "add"
  /\ docs' = [docs EXCEPT ![hand[r]] = plan[r][hand[r]]]
  /\ at' = [at EXCEPT ![r] = "remember"]
  /\ writes' = [writes EXCEPT ![r] = @ + 1]
  /\ strayed' = (strayed \/ ~Inside(r))
  /\ UNCHANGED <<editions, records, leases, etag, plan, hand, short,
                 forget, troubles, met, unread, again, broken, passed>>

(* Wrong: the error is passed over, and the text is remembered as written. *)
(* (RememberedIsIndexed)                                                   *)
AddFailsUnnoticed(r) ==
  /\ at[r] = "add"
  /\ troubles < MaxTroubles
  /\ troubles' = troubles + 1
  /\ at' = [at EXCEPT ![r] = "remember"]
  /\ UNCHANGED <<editions, docs, records, leases, etag, plan, hand, writes, short, forget, aux>>

(* add_document() raises, after the delete.                                *)
AddFails(r) ==
  /\ at[r] = "add"
  /\ troubles < MaxTroubles
  /\ troubles' = troubles + 1
  /\ Failed(r)
  /\ Done(r)
  /\ broken' = broken \cup {hand[r]}
  /\ UNCHANGED <<editions, docs, records, leases, etag, writes, forget,
                 met, unread, again, strayed, passed>>

(* _remember_item()                                                        *)
Remember(r) ==
  /\ at[r] = "remember"
  /\ items' = [items EXCEPT ![hand[r]] = plan[r][hand[r]]]
  /\ Done(r)
  /\ strayed' = (strayed \/ ~Inside(r))
  /\ broken' = broken \ {hand[r]}
  /\ passed' = passed \ {hand[r]}
  /\ UNCHANGED <<editions, docs, here, tag, leases, etag, writes, short,
                 forget, troubles, met, unread, again>>

(* It raises: the refresh is over, and its state is not kept.              *)
RememberFails(r) ==
  /\ at[r] = "remember"
  /\ troubles < MaxTroubles
  /\ troubles' = troubles + 1
  /\ plan' = [plan EXCEPT ![r] = Nothing]
  /\ hand' = [hand EXCEPT ![r] = None]
  /\ at' = [at EXCEPT ![r] = "failed"]
  /\ broken' = broken \cup {hand[r]}
  /\ UNCHANGED <<editions, docs, records, leases, etag, writes, short, forget,
                 met, unread, again, strayed, passed>>


KeptTag(r) == IF short[r] THEN None ELSE etag[r]

Over(r) == at[r] \in {"settle", "failed"} \/ (at[r] = "take" /\ plan[r] = Nothing)

(* Auxiliary: all of the edition it read is written, and its ETag kept.    *)
KeepsWhole(r) == at[r] = "take" /\ ~short[r]

(* _settle(): the state is kept of a refresh that did not fail; of a       *)
(* source removed meanwhile, what was written down goes.                   *)
Settle(r) ==
  /\ Over(r)
  /\ tag' = IF here /\ at[r] # "failed" THEN KeptTag(r) ELSE tag
  /\ items' = IF here THEN items ELSE Nothing
  /\ at' = [at EXCEPT ![r] = "release"]
  /\ strayed' = (strayed \/ (KeepsWhole(r) /\ ~Inside(r)))
  /\ halfway' = (halfway /\ ~KeepsWhole(r))
  /\ UNCHANGED <<editions, docs, here, leases, etag, plan, hand, writes, short,
                 forget, troubles, torn, crossed, unread, again, broken, passed>>

(* Wrong: what was being written is not forgotten. (TypeOK)                *)
ForgetAllButTheHand(r) ==
  /\ at' = [at EXCEPT ![r] = "idle"]
  /\ held' = [held EXCEPT ![r] = NoLease]
  /\ etag' = [etag EXCEPT ![r] = None]
  /\ plan' = [plan EXCEPT ![r] = Nothing]
  /\ writes' = [writes EXCEPT ![r] = 0]
  /\ short' = [short EXCEPT ![r] = FALSE]
  /\ hand' = hand

(* What a refresh leaves in its process when it is over, however it ended. *)
Forget(r) ==
  /\ at' = [at EXCEPT ![r] = "idle"]
  /\ held' = [held EXCEPT ![r] = NoLease]
  /\ etag' = [etag EXCEPT ![r] = None]
  /\ plan' = [plan EXCEPT ![r] = Nothing]
  /\ hand' = [hand EXCEPT ![r] = None]
  /\ writes' = [writes EXCEPT ![r] = 0]
  /\ short' = [short EXCEPT ![r] = FALSE]

Release(r) ==
  /\ at[r] = "release"
  /\ lease' = LetGo(r)
  /\ Forget(r)
  /\ UNCHANGED <<editions, docs, records, forget, troubles, aux>>

(* The process dies, or cannot reach the store to let go of its lease.     *)
Die(r) ==
  /\ Working(r)
  /\ troubles < MaxTroubles
  /\ troubles' = troubles + 1
  /\ Forget(r)
  /\ broken' = (broken \cup {hand[r]}) \ {None}
  /\ UNCHANGED <<editions, docs, records, lease, forget,
                 met, unread, again, strayed, passed>>

-------------------------------------------------------------------------------
(* The feed, and what people do to the source                              *)

Publish(k, t) ==
  /\ Len(editions) < MaxEditions
  /\ Feed[k] # t
  /\ editions' = Append(editions, [Feed EXCEPT ![k] = t])
  /\ UNCHANGED <<docs, records, leases, refresh, forget, troubles, aux>>

AtWork == \E r \in Refreshes : at[r] # "idle"

Removing == forgetting \in {"remove", "purge", "source"}

(* Auxiliary: a step of remove() or reset() that meets a refresh at work.  *)
Meets ==
  /\ torn' = (torn \/ (Removing /\ AtWork))
  /\ crossed' = (crossed \/ (forgetting = "reset" /\ AtWork))

(* remove(), which deletes the documents too when it is asked to ("purge"),*)
(* and reset() each list the items and delete them one by one.             *)
ListItems(how) ==
  /\ here /\ forgetting = "no" /\ troubles < MaxTroubles
  /\ troubles' = troubles + 1
  /\ forgetting' = how
  /\ listed' = {k \in Keys : items[k] # None}
  /\ UNCHANGED <<editions, docs, records, leases, refresh, dropped, aux>>

DropDocument(k) ==
  /\ forgetting = "purge" /\ dropped = None
  /\ k \in listed
  /\ docs' = [docs EXCEPT ![k] = None]
  /\ dropped' = k
  /\ Meets
  /\ UNCHANGED <<editions, records, leases, refresh, forgetting, listed, troubles,
                 halfway, unread, again, strayed, broken, passed>>

DropItem(k) ==
  /\ k \in listed
  /\ forgetting = "purge" => dropped = k
  /\ items' = [items EXCEPT ![k] = None]
  /\ listed' = listed \ {k}
  /\ dropped' = None
  /\ Meets
  /\ UNCHANGED <<editions, docs, here, tag, leases, refresh, forgetting, troubles,
                 halfway, unread, again, strayed, broken, passed>>

RemoveLease ==
  /\ forgetting \in {"remove", "purge"} /\ listed = {}
  /\ lease' = NoLease
  /\ forgetting' = "source"
  /\ Meets
  /\ UNCHANGED <<editions, docs, records, held, refresh, listed, dropped, troubles,
                 halfway, unread, again, strayed, broken, passed>>

RemoveSource ==
  /\ forgetting = "source"
  /\ here' = FALSE /\ tag' = None
  /\ forgetting' = "no"
  /\ Meets
  /\ halfway' = FALSE
  /\ UNCHANGED <<editions, docs, items, leases, refresh, listed, dropped, troubles,
                 unread, again, strayed, broken, passed>>

ResetState ==
  /\ forgetting = "reset" /\ listed = {}
  /\ tag' = None
  /\ forgetting' = "no"
  /\ Meets
  /\ halfway' = FALSE
  /\ UNCHANGED <<editions, docs, here, items, leases, refresh, listed, dropped, troubles,
                 unread, again, strayed, broken, passed>>

(* A request of it raises, or its process dies: nothing takes it up again. *)
ForgetFails ==
  /\ forgetting # "no"
  /\ forgetting' = "no" /\ listed' = {} /\ dropped' = None
  /\ halfway' = TRUE
  /\ broken' = (broken \cup {dropped}) \ {None}
  /\ UNCHANGED <<editions, docs, records, leases, refresh, troubles, torn, crossed,
                 unread, again, strayed, passed>>

AddSource ==
  /\ ~here
  /\ here' = TRUE
  /\ UNCHANGED <<editions, docs, tag, items, leases, refresh, forget, troubles, aux>>

-------------------------------------------------------------------------------
Step(r) ==
  \/ Choose(r) \/ Busy(r) \/ CreateLease(r) \/ ReadLease(r)
  \/ NotModified(r) \/ Read(r)
  \/ \E k \in Keys : Take(r, k)
  \/ Wait(r) \/ Delete(r) \/ Add(r) \/ Remember(r) \/ Settle(r) \/ Release(r)

Fails(r) ==
  \/ ReadFails(r) \/ KeepFails(r) \/ FetchFails(r) \/ AddFails(r) \/ RememberFails(r)
  \/ Die(r)

(* The steps of a remove() or reset() under way.                           *)
Forgets ==
  \/ \E k \in Keys : DropDocument(k) \/ DropItem(k)
  \/ RemoveLease \/ RemoveSource \/ ResetState

People ==
  \/ \E how \in {"remove", "purge", "reset"} : ListItems(how)
  \/ Forgets \/ ForgetFails
  \/ AddSource

Next ==
  \/ \E r \in Refreshes : Step(r) \/ Fails(r)
  \/ \E k \in Keys, t \in Texts : Publish(k, t)
  \/ People
  \/ Tick

Spec == Init /\ [][Next]_vars

(* A scheduler refreshes again and again, a refresh whose calls return     *)
(* goes on, and so does a remove() or reset(); time passes.  What failed   *)
(* is not taken up again.                                                  *)
FairSpec ==
  /\ Spec
  /\ \A r \in Refreshes : WF_vars(Step(r))
  /\ WF_vars(Tick)
  /\ WF_vars(Forgets)

-------------------------------------------------------------------------------
(* Properties                                                              *)

Written == [Keys -> Texts \cup {None}]
Leases == [by : Refreshes \cup {None}, version : Versions \cup {None}, left : {Spent, Some, Full}]
Tags == 1..MaxEditions \cup {None}

(* Every variable has its type; an entry is in hand while it is fetched,   *)
(* added and remembered, and at no other time; items are listed while they *)
(* are deleted.                                                            *)
TypeOK ==
  /\ editions \in Seq([Keys -> Texts]) /\ Len(editions) \in 1..MaxEditions
  /\ docs \in Written /\ items \in Written
  /\ here \in BOOLEAN /\ tag \in Tags
  /\ lease \in Leases /\ held \in [Refreshes -> Leases]
  /\ at \in [Refreshes -> {"idle", "chosen", "created", "leased", "take", "fetch", "add",
                           "remember", "settle", "failed", "release"}]
  /\ etag \in [Refreshes -> Tags] /\ plan \in [Refreshes -> Written]
  /\ hand \in [Refreshes -> Keys \cup {None}]
  /\ \A r \in Refreshes :
       IF at[r] \in {"fetch", "add", "remember"}
       THEN hand[r] \in Keys /\ plan[r][hand[r]] # None
       ELSE hand[r] = None
  /\ writes \in [Refreshes -> 0..MaxItems] /\ short \in [Refreshes -> BOOLEAN]
  /\ forgetting \in {"no", "remove", "purge", "source", "reset"}
  /\ listed \subseteq Keys /\ dropped \in listed \cup {None}
  /\ forgetting \in {"no", "source"} => listed = {}
  /\ dropped # None => forgetting = "purge"
  /\ troubles \in 0..MaxTroubles
  /\ torn \in BOOLEAN /\ crossed \in BOOLEAN /\ halfway \in BOOLEAN
  /\ unread \in BOOLEAN /\ again \in BOOLEAN /\ strayed \in BOOLEAN
  /\ broken \subseteq Keys /\ passed \subseteq Keys

(* keep() would answer a refresh that it may go on.                        *)
Sure(r) ==
  /\ at[r] \in {"leased", "take", "fetch", "add", "remember", "settle", "failed", "release"}
  /\ NoNeed(r) \/ Mine(r)

NeverTwo == \A r, s \in Refreshes : Sure(r) /\ Sure(s) => r = s

(* keep() never tells two refreshes that they may go on, however late      *)
(* either asks: unless a remove() pulled the lease from under one, it had  *)
(* lapsed before it was read back, or the store gave a lease the version   *)
(* of one that a refresh still holds.                                      *)
OneAtOnce == ~torn /\ ~unread /\ ~again => NeverTwo

(* "Two refreshes never work on one source at once" (sources.py), whatever *)
(* versions the store gives.  A store that counts them breaks it.          *)
OneAtOnceOnAnyStore == ~torn /\ ~unread => NeverTwo

(* An ETag is kept only when all that was published under it is: every     *)
(* entry is remembered as it was then or since, through failed entries,    *)
(* entries left waiting, leases lost between two entries, refreshes that   *)
(* died, and ETags that come back.  A refresh that writes past its lease,  *)
(* a remove() or reset() under a refresh, and one that fails half-way are  *)
(* the exceptions.                                                         *)
KeptTagIsWhole ==
  /\ here /\ tag # None /\ forgetting = "no"
  /\ ~torn /\ ~crossed /\ ~halfway /\ ~strayed
  => \A k \in Keys : \E e \in tag..Len(editions) : items[k] = editions[e][k]

InHand(k) == \E r \in Refreshes : hand[r] = k /\ at[r] # "fetch"

(* What is remembered as written is what the collection has, unless its    *)
(* write or its removal is under way or was cut short.                     *)
RememberedIsIndexed ==
  ~torn /\ ~strayed =>
    \A k \in Keys : items[k] # None /\ ~InHand(k) /\ k # dropped /\ k \notin broken =>
      docs[k] = items[k]

===============================================================================
