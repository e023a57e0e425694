----------------------------- MODULE SourcesProofs -----------------------------
(***************************************************************************)
(* For any refreshes, entries, editions and bounds, and any records store: *)
(* that two refreshes never work on one source at once, but for the        *)
(* exceptions OneAtOnce names, that what is remembered is in the           *)
(* collection, and that a kept ETag stands for all that was published      *)
(* under it.  Where the store draws a version that nobody holds, the       *)
(* first needs no exception for versions given again.                      *)
(***************************************************************************)
EXTENDS Sources, TLAPS

Stages == {"idle", "chosen", "created", "leased", "take", "fetch", "add", "remember", "settle", "failed",
           "release"}

Typed == TypeOK /\ \A r \in Refreshes : at[r] \in {"fetch", "add"} => writes[r] < MaxItems

LEMMA TagsOfFeed == ASSUME TypeOK PROVE Len(editions) \in Tags /\ Feed \in [Keys -> Texts]
<1>1. Len(editions) \in 1..MaxEditions /\ editions \in Seq([Keys -> Texts])
  BY DEF TypeOK
<1>2. Len(editions) \in DOMAIN editions
  BY <1>1, BoundsAreNumbers
<1> QED
  BY <1>1, <1>2 DEF Tags, Feed

LEMMA NothingWritten == Nothing \in Written /\ NoLease \in [by : Refreshes \cup {None},
                          version : Versions \cup {None}, left : {Spent, Some, Full}]
  BY DEF Nothing, Written, NoLease

LEMMA TypedInit == Init => Typed
<1> SUFFICES ASSUME Init PROVE Typed
  OBVIOUS
<1> DEFINE first == [k \in Keys |-> CHOOSE t \in Texts : TRUE]
<1>1. first \in [Keys -> Texts]
  BY TextsAreThere
<1>2. editions = <<first>> /\ editions \in Seq([Keys -> Texts]) /\ Len(editions) = 1
  BY <1>1 DEF Init
<1>3. 1 \in 1..MaxEditions /\ 0 \in 0..MaxItems /\ 0 \in 0..MaxTroubles
  BY BoundsAreNumbers, ItemsAreWritten
<1>4. TypeOK
  BY <1>2, <1>3, NothingWritten DEF Init, TypeOK, Leases, Tags
<1> QED
  BY <1>4 DEF Typed, Init

(* Forget() of a refresh leaves it nothing.                                *)
LEMMA ForgetTyped ==
  ASSUME Typed, NEW r \in Refreshes, Forget(r),
         UNCHANGED <<editions, here, tag, forget, met, unread, again, strayed, passed>>,
         docs' \in Written, items' \in Written, lease' \in Leases, troubles' \in 0..MaxTroubles,
         broken' \subseteq Keys
  PROVE  Typed'
<1> USE DEF forget, met
<1>1. /\ at' = [at EXCEPT ![r] = "idle"] /\ held' = [held EXCEPT ![r] = NoLease]
      /\ etag' = [etag EXCEPT ![r] = None] /\ plan' = [plan EXCEPT ![r] = Nothing]
      /\ hand' = [hand EXCEPT ![r] = None] /\ writes' = [writes EXCEPT ![r] = 0]
      /\ short' = [short EXCEPT ![r] = FALSE]
  BY DEF Forget
<1>2. 0 \in 0..MaxItems /\ None \in Tags /\ NoLease \in Leases
  BY ItemsAreWritten, NothingWritten DEF Tags, Leases
<1>3. TypeOK'
  BY <1>1, <1>2, NothingWritten DEF Typed, TypeOK, Tags
<1> QED
  BY <1>1, <1>3 DEF Typed, TypeOK

LEMMA TypedStep == Typed /\ [Next]_vars => Typed'
<1> SUFFICES ASSUME Typed, [Next]_vars PROVE Typed'
  OBVIOUS
<1> USE DEF leases, records, refresh, forget, met, aux
<1>1. Len(editions) \in Tags /\ Feed \in [Keys -> Texts] /\ None \in Tags
  BY TagsOfFeed DEF Typed, Tags
<1>2. ASSUME NEW r \in Refreshes, Choose(r) \/ Busy(r) PROVE Typed'
  <2>1. /\ at' \in [Refreshes -> Stages] /\ etag' \in [Refreshes -> Tags]
        /\ \A s \in Refreshes :
             at'[s] = at[s] \/ (at[s] \in {"idle", "chosen"} /\ at'[s] \in {"idle", "chosen"})
    BY <1>1, <1>2 DEF Choose, Busy, Typed, TypeOK, Tags, Stages
  <2>2. UNCHANGED <<editions, docs, records, leases, plan, hand, writes, short, forget, troubles, aux>>
    BY <1>2 DEF Choose, Busy
  <2>3. ASSUME NEW s \in Refreshes
        PROVE  /\ IF at'[s] \in {"fetch", "add", "remember"}
                  THEN hand'[s] \in Keys /\ plan'[s][hand'[s]] # None
                  ELSE hand'[s] = None
               /\ at'[s] \in {"fetch", "add"} => writes'[s] < MaxItems
    BY <2>1, <2>2 DEF Typed, TypeOK
  <2>4. TypeOK'
    BY <2>1, <2>2, <2>3 DEF Typed, TypeOK, Stages
  <2> QED
    BY <2>3, <2>4 DEF Typed
<1>3. ASSUME NEW r \in Refreshes, CreateLease(r) PROVE Typed'
  <2>1. lease' \in Leases /\ again' \in BOOLEAN
    BY <1>3 DEF CreateLease, Again, Leases, Typed, TypeOK
  <2> QED
    BY <1>3, <2>1 DEF CreateLease, Typed, TypeOK
<1>4. ASSUME NEW r \in Refreshes, ReadLease(r) PROVE Typed'
  <2>1. held' \in [Refreshes -> Leases]
    BY <1>4, NothingWritten DEF ReadLease, Typed, TypeOK, Leases
  <2> QED
    BY <1>4, <2>1 DEF ReadLease, Typed, TypeOK
<1>5. ASSUME NEW r \in Refreshes, NotModified(r) \/ Wait(r) PROVE Typed'
  <2>1. CASE NotModified(r)
    BY <2>1 DEF NotModified, Typed, TypeOK
  <2>2. CASE Wait(r)
    BY <2>2, NothingWritten DEF Wait, Typed, TypeOK
  <2> QED
    BY <1>5, <2>1, <2>2
<1>6. ASSUME NEW r \in Refreshes, Read(r) PROVE Typed'
  <2>1. Changed \in Written
    BY <1>1 DEF Changed, Written
  <2> QED
    BY <1>1, <1>6, <2>1 DEF Read, Typed, TypeOK
<1>7. ASSUME NEW r \in Refreshes, ReadFails(r) PROVE Typed'
  <2>1. troubles' \in 0..MaxTroubles
    BY <1>7, BoundsAreNumbers DEF ReadFails, Typed, TypeOK
  <2> QED
    BY <1>7, <2>1 DEF ReadFails, Typed, TypeOK
<1>8. ASSUME NEW r \in Refreshes, NEW k \in Keys, Take(r, k) PROVE Typed'
  <2>1. /\ lease' \in Leases /\ held' \in [Refreshes -> Leases] /\ again' \in BOOLEAN
    <3>1. CASE UNCHANGED <<leases, again>>
      BY <3>1 DEF Typed, TypeOK
    <3>2. CASE Renew(r)
      <4>1. PICK v \in Versions :
              /\ lease' = [lease EXCEPT !.version = v, !.left = Full]
              /\ held' = [held EXCEPT ![r] = [@ EXCEPT !.version = v, !.left = Full]]
              /\ Again(r, v)
        BY <3>2 DEF Renew
      <4>2. lease \in Leases /\ held \in [Refreshes -> Leases]
        BY DEF Typed, TypeOK
      <4>3. lease' \in Leases /\ held' \in [Refreshes -> Leases]
        BY <4>1, <4>2 DEF Leases
      <4>4. again' \in BOOLEAN
        BY <4>1 DEF Again, Typed, TypeOK
      <4> QED
        BY <4>3, <4>4
    <3> QED
      BY <1>8, <3>1, <3>2 DEF Take, Keep
  <2>2. /\ hand' = [hand EXCEPT ![r] = k] /\ at' = [at EXCEPT ![r] = "fetch"]
        /\ plan[r][k] # None /\ writes[r] < MaxItems
        /\ UNCHANGED <<editions, docs, records, etag, plan, writes, short,
                       forget, troubles, met, unread, broken, passed>>
        /\ strayed' \in BOOLEAN
    BY <1>8 DEF Take, NoNeed, Inside, Mine, Typed, TypeOK
  <2>3. TypeOK'
    BY <2>1, <2>2 DEF Typed, TypeOK
  <2> QED
    BY <2>2, <2>3 DEF Typed, TypeOK
<1>20. ASSUME NEW r \in Refreshes, Delete(r) PROVE Typed'
  <2>1. hand[r] \in Keys
    BY <1>20 DEF Delete, Typed, TypeOK
  <2>2. docs' \in Written
    BY <1>20, <2>1 DEF Delete, Typed, TypeOK, Written
  <2>3. strayed' \in BOOLEAN
    BY <1>20 DEF Delete, Typed, TypeOK, Inside, Mine
  <2> QED
    BY <1>20, <2>1, <2>2, <2>3 DEF Delete, Typed, TypeOK
<1>9. ASSUME NEW r \in Refreshes, Add(r) PROVE Typed'
  <2>1. hand[r] \in Keys /\ plan[r][hand[r]] \in Texts \cup {None} /\ plan[r][hand[r]] # None
    BY <1>9 DEF Add, Typed, TypeOK, Written
  <2>2. docs' \in Written
    BY <1>9, <2>1 DEF Add, Typed, TypeOK, Written
  <2>3. writes' \in [Refreshes -> 0..MaxItems]
    <3>1. writes[r] + 1 \in 0..MaxItems
      BY <1>9, ItemsAreWritten DEF Add, Typed, TypeOK
    <3> QED
      BY <1>9, <3>1 DEF Add, Typed, TypeOK
  <2>4. strayed' \in BOOLEAN
    BY <1>9 DEF Add, Typed, TypeOK, Inside, Mine
  <2> QED
    BY <1>9, <2>1, <2>2, <2>3, <2>4 DEF Add, Typed, TypeOK
<1>10. ASSUME NEW r \in Refreshes, FetchFails(r) \/ AddFails(r) \/ Remember(r) PROVE Typed'
  <2>1. /\ hand[r] \in Keys /\ plan[r] \in Written /\ plan[r][hand[r]] \in Texts \cup {None}
    BY <1>10 DEF FetchFails, AddFails, Remember, Typed, TypeOK, Written
  <2>2. /\ plan' = [plan EXCEPT ![r][hand[r]] = None] /\ hand' = [hand EXCEPT ![r] = None]
        /\ at' = [at EXCEPT ![r] = "take"]
    BY <1>10 DEF FetchFails, AddFails, Remember, Done
  <2>3. plan' \in [Refreshes -> Written] /\ \A s \in Refreshes \ {r} : plan'[s] = plan[s]
    BY <2>1, <2>2 DEF Typed, TypeOK, Written
  <2>4. /\ troubles' \in 0..MaxTroubles /\ short' \in [Refreshes -> BOOLEAN]
        /\ strayed' \in BOOLEAN /\ items' \in Written
        /\ broken' \subseteq Keys /\ passed' \subseteq Keys
    <3>1. CASE FetchFails(r)
      BY <3>1, BoundsAreNumbers DEF FetchFails, Failed, Typed, TypeOK
    <3>2. CASE AddFails(r)
      BY <2>1, <3>2, BoundsAreNumbers DEF AddFails, Failed, Typed, TypeOK
    <3>3. CASE Remember(r)
      <4>1. items' \in Written
        BY <2>1, <3>3 DEF Remember, Typed, TypeOK, Written
      <4>2. strayed' \in BOOLEAN
        BY <3>3 DEF Remember, Typed, TypeOK, Inside, Mine
      <4> QED
        BY <3>3, <4>1, <4>2 DEF Remember, Typed, TypeOK
    <3> QED
      BY <1>10, <3>1, <3>2, <3>3
  <2>5. UNCHANGED <<editions, docs, here, tag, leases, etag, writes, forget, met, unread, again>>
    BY <1>10 DEF FetchFails, AddFails, Remember
  <2>6. TypeOK'
    BY <2>2, <2>3, <2>4, <2>5 DEF Typed, TypeOK
  <2> QED
    BY <2>2, <2>5, <2>6 DEF Typed, TypeOK
<1>11. ASSUME NEW r \in Refreshes, RememberFails(r) \/ KeepFails(r) PROVE Typed'
  <2>1. troubles' \in 0..MaxTroubles /\ plan' = [plan EXCEPT ![r] = Nothing]
    BY <1>11, BoundsAreNumbers DEF RememberFails, KeepFails, Typed, TypeOK
  <2>2. CASE RememberFails(r)
    <3>1. hand[r] \in Keys
      BY <2>2 DEF RememberFails, Typed, TypeOK
    <3> QED
      BY <2>1, <2>2, <3>1, NothingWritten DEF RememberFails, Typed, TypeOK
  <2>3. CASE KeepFails(r)
    BY <2>1, <2>3, NothingWritten DEF KeepFails, Typed, TypeOK
  <2> QED
    BY <1>11, <2>2, <2>3
<1>12. ASSUME NEW r \in Refreshes, Settle(r) PROVE Typed'
  <2>1. tag' \in Tags /\ items' \in Written
    BY <1>1, <1>12, NothingWritten DEF Settle, KeptTag, Typed, TypeOK
  <2>2. strayed' \in BOOLEAN /\ halfway' \in BOOLEAN
    BY <1>12 DEF Settle, KeepsWhole, Typed, TypeOK, Inside, Mine
  <2>3. at[r] \notin {"fetch", "add", "remember"}
    BY <1>12 DEF Settle, Over
  <2> QED
    BY <1>12, <2>1, <2>2, <2>3 DEF Settle, Typed, TypeOK
<1>13. ASSUME NEW r \in Refreshes, Release(r) PROVE Typed'
  <2>1. lease' \in Leases
    BY <1>13, NothingWritten DEF Release, LetGo, Typed, TypeOK, Leases
  <2> QED
    BY <1>13, <2>1, ForgetTyped DEF Release, Typed, TypeOK
<1>14. ASSUME NEW r \in Refreshes, Die(r) PROVE Typed'
  <2>1. troubles' \in 0..MaxTroubles
    BY <1>14, BoundsAreNumbers DEF Die, Typed, TypeOK
  <2>2. broken' \subseteq Keys
    BY <1>14 DEF Die, Typed, TypeOK
  <2> QED
    BY <1>14, <2>1, <2>2, ForgetTyped DEF Die, Typed, TypeOK
<1>15. ASSUME NEW k \in Keys, NEW t \in Texts, Publish(k, t) PROVE Typed'
  <2>1. [Feed EXCEPT ![k] = t] \in [Keys -> Texts]
    BY <1>1
  <2>2. editions' \in Seq([Keys -> Texts]) /\ Len(editions') = Len(editions) + 1
    BY <1>15, <2>1 DEF Publish, Typed, TypeOK
  <2>3. Len(editions') \in 1..MaxEditions
    BY <1>15, <2>2, BoundsAreNumbers DEF Publish, Typed, TypeOK
  <2> QED
    BY <1>15, <2>2, <2>3 DEF Publish, Typed, TypeOK
<1>16. ASSUME NEW how \in {"remove", "purge", "reset"}, ListItems(how) PROVE Typed'
  <2>1. troubles' \in 0..MaxTroubles
    BY <1>16, BoundsAreNumbers DEF ListItems, Typed, TypeOK
  <2>2. dropped = None
    BY <1>16 DEF ListItems, Typed, TypeOK
  <2> QED
    BY <1>16, <2>1, <2>2 DEF ListItems, Typed, TypeOK
<1>21. ASSUME NEW k \in Keys, DropDocument(k) \/ DropItem(k) PROVE Typed'
  <2>1. torn' \in BOOLEAN /\ crossed' \in BOOLEAN
    BY <1>21 DEF DropDocument, DropItem, Meets, Removing, AtWork, Typed, TypeOK
  <2>2. docs' \in Written /\ items' \in Written
    BY <1>21 DEF DropDocument, DropItem, Typed, TypeOK, Written
  <2>3. /\ listed' \subseteq Keys /\ dropped' \in listed' \cup {None}
        /\ forgetting \in {"no", "source"} => listed' = {}
        /\ dropped' # None => forgetting = "purge"
    BY <1>21 DEF DropDocument, DropItem, Typed, TypeOK
  <2>4. UNCHANGED <<editions, here, tag, leases, refresh, forgetting, troubles,
                    halfway, unread, again, strayed, broken, passed>>
    BY <1>21 DEF DropDocument, DropItem
  <2> QED
    BY <2>1, <2>2, <2>3, <2>4 DEF Typed, TypeOK
<1>17. ASSUME RemoveLease \/ RemoveSource \/ ResetState \/ AddSource PROVE Typed'
  <2>1. torn' \in BOOLEAN /\ crossed' \in BOOLEAN
    BY <1>17 DEF RemoveLease, RemoveSource, ResetState, AddSource, Meets, Removing, AtWork, Typed, TypeOK
  <2>2. NoLease \in Leases
    BY NothingWritten DEF Leases
  <2> QED
    BY <1>1, <1>17, <2>1, <2>2
       DEF RemoveLease, RemoveSource, ResetState, AddSource, Typed, TypeOK
<1>22. CASE ForgetFails
  <2>1. broken' \subseteq Keys
    BY <1>22 DEF ForgetFails, Typed, TypeOK
  <2> QED
    BY <1>22, <2>1 DEF ForgetFails, Typed, TypeOK
<1>18. ASSUME Tick PROVE Typed'
  <2> DEFINE older(l) == [l EXCEPT !.left = IF @ = Spent THEN Spent ELSE @ - 1]
  <2>1. \A l \in Leases : older(l) \in Leases
    BY DEF Leases, Spent, Some, Full
  <2>2. lease' = older(lease) /\ held' = [r \in Refreshes |-> older(held[r])]
    BY <1>18 DEF Tick
  <2>3. lease' \in Leases /\ held' \in [Refreshes -> Leases]
    BY <2>1, <2>2 DEF Typed, TypeOK
  <2>4. troubles' \in 0..MaxTroubles
    BY <1>18, BoundsAreNumbers DEF Tick, Typed, TypeOK
  <2> QED
    BY <1>18, <2>3, <2>4 DEF Tick, Typed, TypeOK
<1>19. CASE UNCHANGED vars
  BY <1>19 DEF vars, Typed, TypeOK
<1> QED
  BY <1>2, <1>3, <1>4, <1>5, <1>6, <1>7, <1>8, <1>9, <1>10, <1>11, <1>12, <1>13, <1>14, <1>15,
     <1>16, <1>17, <1>18, <1>19, <1>20, <1>21, <1>22 DEF Next, Step, Fails, People, Forgets

(* Every variable has its type, and an entry is in hand while it is        *)
(* fetched, added and remembered and at no other time.                     *)
THEOREM TypeCorrect == Spec => []TypeOK
<1>1. Typed => TypeOK
  BY DEF Typed
<1> QED
  BY TypedInit, TypedStep, <1>1, PTL DEF Spec

-------------------------------------------------------------------------------
(* One at once                                                             *)

UnderLease(r) ==
  at[r] \in {"leased", "take", "fetch", "add", "remember", "settle", "failed", "release"}

Tidy ==
  /\ \A r \in Refreshes : ~UnderLease(r) => held[r] = NoLease
  /\ lease.version = None => lease = NoLease

(* A refresh at work holds a version that is its own; while it has some    *)
(* of its lease left the row is its own, and lapses when it does.  No      *)
(* other holds the version of a row just made.                             *)
Apart ==
  /\ \A r \in Refreshes : UnderLease(r) =>
       /\ held[r].version # None /\ held[r].by = r
       /\ Mine(r) => lease.left = held[r].left
       /\ held[r].left # Spent => Mine(r)
  /\ \A r, s \in Refreshes :
       UnderLease(r) /\ UnderLease(s) /\ r # s => held[r].version # held[s].version
  /\ \A r \in Refreshes : at[r] = "created" /\ lease.by = r =>
       lease.version # None /\ \A s \in Refreshes : held[s].version # lease.version

(* What OneAtOnce excuses, and for good.                                   *)
Excused == torn \/ unread \/ again

Leased == Typed /\ Tidy /\ (~Excused => Apart)

LEMMA VersionsAreSome == \A v \in Versions : v # None
  BY NoneIsNothing

(* Who holds none, or what it held before, and is no further than it was.  *)
LEMMA QuietLease ==
  ASSUME Leased, UNCHANGED leases,
         \A r \in Refreshes :
           /\ UnderLease(r)' = UnderLease(r)
           /\ at'[r] = "created" => at[r] = "created",
         Excused => Excused'
  PROVE  Tidy' /\ (~Excused' => Apart')
  BY DEF Leased, Tidy, Apart, Mine, leases

(* One refresh forgets what it held, and another's row stays.              *)
LEMMA ForgetLease ==
  ASSUME Leased, NEW r \in Refreshes, Forget(r),
         lease' = lease \/ (lease' = NoLease /\ (Mine(r) \/ held[r].version = None)),
         at[r] # "idle", UNCHANGED <<torn, unread, again>>,
         held[r].version = None /\ lease' # lease => Excused
  PROVE  Tidy' /\ (~Excused' => Apart')
<1>1. /\ at' = [at EXCEPT ![r] = "idle"] /\ held' = [held EXCEPT ![r] = NoLease]
  BY DEF Forget
<1>2. /\ ~UnderLease(r)' /\ held'[r] = NoLease
      /\ \A s \in Refreshes \ {r} : UnderLease(s)' = UnderLease(s) /\ held'[s] = held[s] /\ at'[s] = at[s]
  BY <1>1 DEF Leased, Typed, TypeOK, UnderLease
<1>3. Tidy'
  BY <1>2 DEF Leased, Tidy
<1>4. ASSUME ~Excused PROVE Apart'
  <2>1. Apart
    BY <1>4 DEF Leased
  <2>2. CASE lease' = lease
    <3>1. NoLease.version = None
      BY DEF NoLease
    <3> QED
      <4>1. \A q \in Refreshes \ {r} : Mine(q)' = Mine(q)
        BY <1>2, <2>2 DEF Mine
      <4>2. at'[r] # "created"
        BY <1>1 DEF Leased, Typed, TypeOK
      <4>3. ASSUME NEW q \in Refreshes, UnderLease(q)'
            PROVE  /\ held'[q].version # None /\ held'[q].by = q
                   /\ Mine(q)' => lease'.left = held'[q].left
                   /\ held'[q].left # Spent => Mine(q)'
        BY <1>2, <2>1, <2>2, <4>1, <4>3 DEF Apart
      <4>4. \A q, u \in Refreshes :
              UnderLease(q)' /\ UnderLease(u)' /\ q # u => held'[q].version # held'[u].version
        BY <1>2, <2>1 DEF Apart
      <4>5. ASSUME NEW q \in Refreshes, at'[q] = "created", lease'.by = q
            PROVE  lease'.version # None /\ \A u \in Refreshes : held'[u].version # lease'.version
        BY <1>2, <2>1, <2>2, <3>1, <4>2, <4>5 DEF Apart
      <4> QED
        BY <4>3, <4>4, <4>5 DEF Apart
  <2>3. CASE lease' # lease
    <3>1. lease' = NoLease /\ Mine(r) /\ NoLease.version = None /\ NoLease.by = None
      BY <1>4, <2>3 DEF NoLease
    <3>2. UnderLease(r)
      BY <3>1 DEF Leased, Tidy, Mine
    <3>3. ASSUME NEW s \in Refreshes \ {r}, UnderLease(s)
          PROVE  ~Mine(s) /\ held[s].left = Spent
      BY <2>1, <3>1, <3>2, <3>3 DEF Apart, Mine
    <3>4. \A s \in Refreshes : s # None
      BY NoneRefreshes
    <3> QED
      BY <1>2, <2>1, <3>1, <3>3, <3>4 DEF Apart, Mine
  <2> QED
    BY <2>2, <2>3
<1> QED
  BY <1>3, <1>4 DEF Excused

LEMMA LeasedStep == Leased /\ [Next]_vars => Leased'
<1> SUFFICES ASSUME Leased, [Next]_vars PROVE Leased'
  OBVIOUS
<1>1. Typed' /\ Typed /\ TypeOK
  BY TypedStep DEF Leased, Typed
<1>2. SUFFICES Tidy' /\ (~Excused' => Apart')
  BY <1>1 DEF Leased
<1> USE DEF records, refresh, forget, met, aux
<1>3. ASSUME NEW r \in Refreshes, NEW here0 \in Stages, at' = [at EXCEPT ![r] = here0],
             UNCHANGED <<leases, torn, unread, again>>,
             here0 # "created", UnderLease(r) = (here0 \notin {"idle", "chosen"})
      PROVE  Tidy' /\ (~Excused' => Apart')
  BY <1>1, <1>3, QuietLease DEF TypeOK, UnderLease, Stages, Excused
<1>4. ASSUME NEW r \in Refreshes,
             Choose(r) \/ Busy(r) \/ NotModified(r) \/ Read(r) \/ ReadFails(r) \/ FetchFails(r)
               \/ Delete(r) \/ Add(r) \/ AddFails(r) \/ Remember(r) \/ RememberFails(r) \/ Settle(r)
      PROVE  Tidy' /\ (~Excused' => Apart')
  <2>1. PICK here0 \in Stages : /\ at' = [at EXCEPT ![r] = here0] /\ here0 # "created"
                                /\ UnderLease(r) = (here0 \notin {"idle", "chosen"})
    <3>1. CASE Choose(r) \/ Busy(r)
      BY <3>1 DEF Choose, Busy, UnderLease, Stages
    <3>2. CASE NotModified(r) \/ Read(r) \/ ReadFails(r)
      BY <3>2 DEF NotModified, Read, ReadFails, UnderLease, Stages
    <3>3. CASE FetchFails(r) \/ Delete(r) \/ Add(r) \/ AddFails(r)
      BY <3>3 DEF FetchFails, Delete, Add, AddFails, Done, UnderLease, Stages
    <3>4. CASE Remember(r) \/ RememberFails(r) \/ Settle(r)
      BY <3>4 DEF Remember, RememberFails, Settle, Done, Over, UnderLease, Stages
    <3> QED
      BY <1>4, <3>1, <3>2, <3>3, <3>4
  <2>2. UNCHANGED <<leases, torn, unread, again>>
    BY <1>4 DEF Choose, Busy, NotModified, Read, ReadFails, FetchFails, Delete, Add, AddFails,
                Remember, RememberFails, Settle, leases
  <2> QED
    BY <1>3, <2>1, <2>2
<1>5. ASSUME NEW r \in Refreshes, CreateLease(r)
      PROVE  Tidy' /\ (~Excused' => Apart')
  <2>1. PICK v \in Versions : lease' = [by |-> r, version |-> v, left |-> Full] /\ Again(r, v)
    BY <1>5 DEF CreateLease
  <2>2. /\ at[r] = "chosen" /\ at' = [at EXCEPT ![r] = "created"]
        /\ lease.left = Spent /\ UNCHANGED <<held, torn, unread>>
    BY <1>5 DEF CreateLease, Free
  <2>3. /\ v # None
        /\ Excused => Excused'
        /\ ~Excused' => \A s \in Refreshes : held[s].version # v
    <3>1. v # None /\ held[r].version = None
      BY <2>2, VersionsAreSome DEF Leased, Tidy, UnderLease, NoLease
    <3> QED
      BY <2>1, <2>2, <3>1 DEF Again, Excused
  <2>4. \A s \in Refreshes : UnderLease(s)' = UnderLease(s)
    BY <1>1, <2>2 DEF TypeOK, UnderLease
  <2>5. ~Excused' => \A s \in Refreshes : ~Mine(s)'
    BY <2>1, <2>2, <2>3 DEF Mine
  <2>6. Tidy'
    BY <2>1, <2>2, <2>3, <2>4 DEF Leased, Tidy
  <2>7. ASSUME ~Excused' PROVE Apart'
    <3>1. Apart
      BY <2>3, <2>7 DEF Leased
    <3>2. \A s \in Refreshes : UnderLease(s) => held[s].left = Spent
      BY <2>2, <3>1 DEF Apart
    <3>3. lease'.version = v /\ lease'.by = r
      BY <2>1
    <3> QED
      BY <1>1, <2>2, <2>3, <2>4, <2>5, <2>7, <3>1, <3>2, <3>3 DEF Apart
  <2> QED
    BY <2>6, <2>7
<1>6. ASSUME NEW r \in Refreshes, ReadLease(r)
      PROVE  Tidy' /\ (~Excused' => Apart')
  <2>1. /\ at[r] = "created" /\ at' = [at EXCEPT ![r] = "leased"]
        /\ held' = [held EXCEPT ![r] = IF lease.left = Spent THEN NoLease ELSE lease]
        /\ unread' = (unread \/ lease.by # r \/ lease.left = Spent) /\ UNCHANGED <<lease, torn, again>>
    BY <1>6 DEF ReadLease
  <2>2. /\ UnderLease(r)' /\ ~UnderLease(r)
        /\ \A s \in Refreshes \ {r} : /\ UnderLease(s)' = UnderLease(s) /\ held'[s] = held[s]
                                      /\ at'[s] = at[s]
    BY <1>1, <2>1 DEF TypeOK, UnderLease
  <2>3. Tidy'
    BY <2>1, <2>2 DEF Leased, Tidy
  <2>4. ASSUME ~Excused' PROVE Apart'
    <3>1. Apart /\ lease.by = r /\ held'[r] = lease
      BY <1>1, <2>1, <2>4 DEF Leased, Excused, TypeOK
    <3>2. lease.version # None /\ \A s \in Refreshes : held[s].version # lease.version
      BY <2>1, <3>1 DEF Apart
    <3>3. \A s \in Refreshes \ {r} : Mine(s)' = Mine(s)
      BY <2>1, <2>2 DEF Mine
    <3>4. Mine(r)'
      BY <2>1, <3>1, <3>2 DEF Mine
    <3> QED
      <4>1. ASSUME NEW s \in Refreshes, UnderLease(s)'
            PROVE  /\ held'[s].version # None /\ held'[s].by = s
                   /\ Mine(s)' => lease'.left = held'[s].left
                   /\ held'[s].left # Spent => Mine(s)'
        BY <2>1, <2>2, <3>1, <3>2, <3>3, <3>4, <4>1 DEF Apart
      <4>2. \A s, u \in Refreshes :
              UnderLease(s)' /\ UnderLease(u)' /\ s # u => held'[s].version # held'[u].version
        BY <2>2, <3>1, <3>2 DEF Apart
      <4>3. \A s \in Refreshes : at'[s] = "created" => lease'.by # s
        BY <1>1, <2>1, <2>2, <3>1 DEF TypeOK
      <4> QED
        BY <4>1, <4>2, <4>3 DEF Apart
  <2> QED
    BY <2>3, <2>4
<1>7. ASSUME NEW r \in Refreshes, NEW k \in Keys, Take(r, k)
      PROVE  Tidy' /\ (~Excused' => Apart')
  <2>1. /\ at[r] = "take" /\ at' = [at EXCEPT ![r] = "fetch"] /\ UNCHANGED <<torn, unread>>
    BY <1>7 DEF Take
  <2>2. CASE UNCHANGED <<leases, again>>
    BY <1>3, <2>1, <2>2 DEF UnderLease, Stages
  <2>3. CASE Renew(r)
    <3>1. PICK v \in Versions :
             /\ lease' = [lease EXCEPT !.version = v, !.left = Full] /\ Again(r, v)
             /\ held' = [held EXCEPT ![r] = [@ EXCEPT !.version = v, !.left = Full]]
      BY <2>3 DEF Renew
    <3>2. /\ v # None
          /\ Excused => Excused'
          /\ ~Excused' => \A s \in Refreshes \ {r} : held[s].version # v
      BY <2>1, <3>1, VersionsAreSome DEF Again, Excused
    <3>3. \A s \in Refreshes : UnderLease(s)' = UnderLease(s)
      BY <1>1, <2>1 DEF TypeOK, UnderLease
    <3>4. /\ UnderLease(r) /\ held'[r].version = v /\ held'[r].by = held[r].by /\ held'[r].left = Full
          /\ lease'.version = v /\ lease'.by = lease.by /\ lease'.left = Full
          /\ \A s \in Refreshes \ {r} : held'[s] = held[s] /\ at'[s] = at[s]
      BY <1>1, <2>1, <3>1 DEF TypeOK, UnderLease, Leases
    <3>5. Tidy'
      BY <3>2, <3>3, <3>4 DEF Leased, Tidy
    <3>6. ASSUME ~Excused' PROVE Apart'
      <4>1. Apart
        BY <3>2, <3>6 DEF Leased
      <4>2. ASSUME NEW s \in Refreshes \ {r}, UnderLease(s)
            PROVE  held[s].left = Spent /\ ~Mine(s)'
        BY <2>3, <3>2, <3>4, <3>6, <4>1, <4>2 DEF Renew, Apart, Mine
      <4>3. Mine(r)' /\ held[r].by = r
        BY <3>2, <3>4, <4>1 DEF Mine, Apart
      <4>4. ASSUME NEW s \in Refreshes, at'[s] = "created" PROVE lease'.by # s
        <5>1. at[s] = "created" /\ Mine(r)
          BY <1>1, <2>1, <2>3, <4>4 DEF TypeOK, Renew
        <5> QED
          BY <3>4, <4>1, <5>1 DEF Apart, Mine
      <4> QED
        BY <2>1, <3>2, <3>3, <3>4, <3>6, <4>1, <4>2, <4>3, <4>4 DEF Apart
    <3> QED
      BY <3>5, <3>6
  <2> QED
    BY <1>7, <2>2, <2>3 DEF Take, Keep
<1>8. ASSUME NEW r \in Refreshes, Release(r) \/ Die(r)
      PROVE  Tidy' /\ (~Excused' => Apart')
  <2>1. /\ Forget(r) /\ at[r] # "idle" /\ UNCHANGED <<torn, unread, again>>
        /\ lease' = LetGo(r) \/ lease' = lease
    BY <1>8 DEF Release, Die, Working
  <2>2. ~Excused /\ held[r].version = None => lease' = lease
    <3>1. CASE Die(r)
      BY <3>1 DEF Die
    <3>2. CASE Release(r)
      BY <3>2 DEF Release, Leased, Apart, UnderLease
    <3> QED
      BY <1>8, <3>1, <3>2
  <2> QED
    BY <2>1, <2>2, ForgetLease DEF LetGo
<1>9. ASSUME Tick PROVE Tidy' /\ (~Excused' => Apart')
  <2> DEFINE older(l) == [l EXCEPT !.left = IF @ = Spent THEN Spent ELSE @ - 1]
  <2>1. lease' = older(lease) /\ held' = [r \in Refreshes |-> older(held[r])]
    BY <1>9 DEF Tick
  <2>2. UNCHANGED <<at, torn, unread, again>>
    BY <1>9 DEF Tick
  <2>3. ASSUME NEW l \in Leases
        PROVE  /\ older(l).by = l.by /\ older(l).version = l.version
               /\ older(l).left = IF l.left = Spent THEN Spent ELSE l.left - 1
    BY <2>3 DEF Leases
  <2>4. lease \in Leases /\ \A r \in Refreshes : held[r] \in Leases
    BY <1>1 DEF TypeOK
  <2>5. /\ lease'.by = lease.by /\ lease'.version = lease.version
        /\ lease'.left = IF lease.left = Spent THEN Spent ELSE lease.left - 1
        /\ \A r \in Refreshes :
             /\ held'[r].by = held[r].by /\ held'[r].version = held[r].version
             /\ held'[r].left = IF held[r].left = Spent THEN Spent ELSE held[r].left - 1
    BY <2>1, <2>3, <2>4
  <2>6. older(NoLease) = NoLease
    BY DEF NoLease
  <2>7. Tidy'
    BY <2>1, <2>2, <2>5, <2>6 DEF Leased, Tidy, UnderLease
  <2>8. ASSUME Apart PROVE Apart'
    BY <2>2, <2>5, <2>8 DEF Apart, Mine, UnderLease
  <2> QED
    BY <2>2, <2>7, <2>8 DEF Leased, Excused
<1>10. ASSUME RemoveLease PROVE Tidy' /\ (~Excused' => Apart')
  <2>1. /\ lease' = NoLease /\ torn' = (torn \/ AtWork) /\ UNCHANGED <<held, at>>
    BY <1>10 DEF RemoveLease, Meets, Removing
  <2>2. Tidy'
    BY <2>1 DEF Leased, Tidy, UnderLease
  <2>3. ASSUME ~torn' PROVE Apart'
    BY <2>1, <2>3 DEF AtWork, Apart, UnderLease
  <2> QED
    BY <2>2, <2>3 DEF Excused
<1>11. ASSUME \/ \E r \in Refreshes : Wait(r) \/ KeepFails(r)
              \/ \E k \in Keys, t \in Texts : Publish(k, t)
              \/ \E how \in {"remove", "purge", "reset"} : ListItems(how)
              \/ \E k \in Keys : DropDocument(k) \/ DropItem(k)
              \/ RemoveSource \/ ResetState \/ ForgetFails \/ AddSource \/ UNCHANGED vars
       PROVE  Tidy' /\ (~Excused' => Apart')
  <2>1. UNCHANGED <<leases, at, unread, again>> /\ (torn => torn')
    <3>1. ASSUME NEW r \in Refreshes, Wait(r) \/ KeepFails(r)
          PROVE  UNCHANGED <<leases, at, unread, again, torn>>
      BY <3>1 DEF Wait, KeepFails
    <3>2. ASSUME NEW k \in Keys, NEW t \in Texts, Publish(k, t)
          PROVE  UNCHANGED <<leases, at, unread, again, torn>>
      BY <3>2 DEF Publish
    <3>3. ASSUME NEW how, ListItems(how) PROVE UNCHANGED <<leases, at, unread, again, torn>>
      BY <3>3 DEF ListItems
    <3>4. ASSUME NEW k \in Keys, DropDocument(k) \/ DropItem(k)
          PROVE  UNCHANGED <<leases, at, unread, again>> /\ (torn => torn')
      BY <3>4 DEF DropDocument, DropItem, Meets
    <3>5. RemoveSource \/ ResetState => UNCHANGED <<leases, at, unread, again>> /\ (torn => torn')
      BY DEF RemoveSource, ResetState, Meets
    <3>6. ForgetFails \/ AddSource \/ UNCHANGED vars => UNCHANGED <<leases, at, unread, again, torn>>
      BY DEF ForgetFails, AddSource, vars
    <3> QED
      BY <1>11, <3>1, <3>2, <3>3, <3>4, <3>5, <3>6
  <2> QED
    BY <2>1, QuietLease DEF UnderLease, Excused
<1> QED
  BY <1>4, <1>5, <1>6, <1>7, <1>8, <1>9, <1>10, <1>11 DEF Next, Step, Fails, People, Forgets

(* On any store: unless a remove() pulled the lease from under one, a      *)
(* lease lapsed before it was read back, or a lease got the version of one *)
(* that a refresh still holds, keep() never tells two refreshes that they  *)
(* may go on, whatever time passes and whichever dies.                     *)
THEOREM NeverTwoAtOnce == Spec => []OneAtOnce
<1>1. Init => Leased
  <2>1. Init => Tidy /\ Apart
    BY DEF Init, Tidy, Apart, NoLease, UnderLease
  <2> QED
    BY <2>1, TypedInit DEF Leased
<1>2. Leased => OneAtOnce
  <2> SUFFICES ASSUME Leased, ~Excused, NEW r \in Refreshes, NEW s \in Refreshes,
                      Sure(r), Sure(s), r # s
               PROVE  FALSE
    BY DEF OneAtOnce, NeverTwo, Excused
  <2>1. Apart /\ UnderLease(r) /\ UnderLease(s)
    BY DEF Leased, Sure, UnderLease
  <2>2. ASSUME NEW q \in Refreshes, UnderLease(q), Sure(q) PROVE Mine(q)
    BY <2>1, <2>2 DEF Sure, NoNeed, Apart, Full, Spent
  <2> QED
    BY <2>1, <2>2 DEF Apart, Mine
<1>3. Leased /\ [Next]_vars => Leased'
  BY LeasedStep
<1> QED
  BY <1>1, <1>2, <1>3, PTL DEF Spec

(* On a store that draws versions none gets one that is held, and so two   *)
(* refreshes never work at once whatever lapses: the third excuse is that  *)
(* of the stores that count.                                               *)
THEOREM NeverTwoWhereVersionsAreDrawn == ASSUME ~Counted PROVE Spec => []OneAtOnceOnAnyStore
<1> USE DEF leases, records, refresh, forget, met, aux
<1> DEFINE Anew == again = FALSE
<1>1. Anew /\ [Next]_vars => Anew'
  <2> SUFFICES ASSUME [Next]_vars, again = FALSE PROVE again' = FALSE
    OBVIOUS
  <2>1. ASSUME NEW r \in Refreshes, NEW v, NewVersion(v), Again(r, v) PROVE again' = FALSE
    BY <2>1 DEF NewVersion, Again, InUse
  <2>2. ASSUME NEW r \in Refreshes, CreateLease(r) PROVE again' = FALSE
    BY <2>1, <2>2 DEF CreateLease
  <2>3. ASSUME NEW r \in Refreshes, NEW k \in Keys, Take(r, k) PROVE again' = FALSE
    BY <2>1, <2>3 DEF Take, Keep, Renew
  <2>4. ASSUME NEW r \in Refreshes,
               \/ Choose(r) \/ Busy(r) \/ ReadLease(r) \/ NotModified(r) \/ Read(r) \/ Wait(r)
               \/ Delete(r) \/ Add(r) \/ Remember(r) \/ Settle(r) \/ Release(r) \/ Fails(r)
        PROVE  again' = again
    BY <2>4 DEF Choose, Busy, ReadLease, NotModified, Read, Wait, Delete, Add, Remember, Settle,
                Release, Fails, ReadFails, KeepFails, FetchFails, AddFails, RememberFails, Die
  <2>5. ASSUME (\E k \in Keys, t \in Texts : Publish(k, t)) \/ People \/ Tick \/ UNCHANGED vars
        PROVE  again' = again
    BY <2>5 DEF Publish, People, ListItems, Forgets, DropDocument, DropItem, RemoveLease,
                RemoveSource, ResetState, ForgetFails, AddSource, Tick, vars
  <2> QED
    BY <2>2, <2>3, <2>4, <2>5 DEF Next, Step
<1>2. Init => Anew
  BY DEF Init
<1>3. OneAtOnce /\ Anew => OneAtOnceOnAnyStore
  BY DEF OneAtOnce, OneAtOnceOnAnyStore
<1> HIDE DEF Anew
<1> QED
  BY <1>1, <1>2, <1>3, NeverTwoAtOnce, PTL DEF Spec

-------------------------------------------------------------------------------
(* What is remembered                                                      *)

(* Nobody comes to be inside a lease but by reading it.                    *)
LEMMA InsideBefore ==
  ASSUME Typed, [Next]_vars, ~strayed', NEW r \in Refreshes,
         at[r] \notin {"idle", "chosen", "created"}, Inside(r)'
  PROVE  Inside(r)
<1> USE DEF leases, records, refresh, forget, met, aux
<1>1. NoLease.version = None /\ lease'.by = r /\ Mine(r)'
  BY DEF NoLease, Inside
<1>2. TypeOK
  BY DEF Typed
<1>3. CASE UNCHANGED leases
  BY <1>3 DEF Inside, Mine
<1>4. ASSUME NEW s \in Refreshes, CreateLease(s) PROVE Inside(r)
  BY <1>1, <1>4 DEF CreateLease
<1>5. ASSUME NEW s \in Refreshes, ReadLease(s) PROVE Inside(r)
  <2>1. s # r /\ lease' = lease /\ held'[r] = held[r]
    BY <1>2, <1>5 DEF ReadLease, TypeOK
  <2> QED
    BY <1>1, <2>1 DEF Inside, Mine
<1>6. ASSUME NEW s \in Refreshes, NEW k \in Keys, Take(s, k) PROVE Inside(r)
  <2>1. CASE UNCHANGED leases
    BY <1>3, <2>1
  <2>2. CASE Renew(s)
    <3>1. Inside(s) /\ lease'.by = lease.by
      BY <1>2, <1>6, <2>2 DEF Take, Renew, TypeOK, Leases
    <3> QED
      BY <1>1, <3>1 DEF Inside
  <2> QED
    BY <1>6, <2>1, <2>2 DEF Take, Keep
<1>7. ASSUME NEW s \in Refreshes, Release(s) \/ Die(s) PROVE Inside(r)
  <2>1. held' = [held EXCEPT ![s] = NoLease] /\ lease' \in {lease, NoLease}
    BY <1>7 DEF Release, Die, Forget, LetGo
  <2> QED
    BY <1>1, <1>2, <2>1 DEF Inside, Mine, TypeOK
<1>8. CASE Tick
  <2>1. held[r] \in Leases /\ lease \in Leases
    BY <1>2 DEF TypeOK
  <2>2. /\ lease'.by = lease.by /\ lease'.version = lease.version
        /\ held'[r].version = held[r].version
    BY <1>8, <2>1 DEF Tick, Leases
  <2> QED
    BY <1>1, <2>2 DEF Inside, Mine
<1>9. CASE RemoveLease
  BY <1>1, <1>9 DEF RemoveLease, Mine
<1>10. ASSUME NEW s \in Refreshes,
              \/ Choose(s) \/ Busy(s) \/ NotModified(s) \/ Read(s) \/ ReadFails(s) \/ Wait(s)
              \/ KeepFails(s) \/ FetchFails(s) \/ Delete(s) \/ Add(s) \/ AddFails(s) \/ Remember(s)
              \/ RememberFails(s) \/ Settle(s)
       PROVE  Inside(r)
  <2>1. UNCHANGED leases
    BY <1>10 DEF Choose, Busy, NotModified, Read, ReadFails, Wait, KeepFails, FetchFails, Delete, Add,
                 AddFails, Remember, RememberFails, Settle
  <2> QED
    BY <1>3, <2>1
<1>11. ASSUME \/ \E k \in Keys, t \in Texts : Publish(k, t)
              \/ \E how \in {"remove", "purge", "reset"} : ListItems(how)
              \/ \E k \in Keys : DropDocument(k) \/ DropItem(k)
              \/ RemoveSource \/ ResetState \/ ForgetFails \/ AddSource \/ UNCHANGED vars
       PROVE  Inside(r)
  <2>1. UNCHANGED leases
    BY <1>11 DEF Publish, ListItems, DropDocument, DropItem, RemoveSource, ResetState, ForgetFails,
                 AddSource, vars
  <2> QED
    BY <1>3, <2>1
<1> QED
  BY <1>4, <1>5, <1>6, <1>7, <1>8, <1>9, <1>10, <1>11 DEF Next, Step, Fails, People, Forgets

LEMMA NeverTwoInside ==
  ASSUME NEW r, NEW s, Inside(r), Inside(s) PROVE r = s
  BY DEF Inside

(* Once it strayed, and once torn or crossed, so it stays.                 *)
LEMMA FlagsStay ==
  ASSUME [Next]_vars
  PROVE  (torn => torn') /\ (crossed => crossed') /\ (strayed => strayed')
<1> USE DEF leases, records, refresh, forget, met, aux
<1>1. ASSUME NEW s \in Refreshes,
             \/ Choose(s) \/ Busy(s) \/ CreateLease(s) \/ ReadLease(s) \/ NotModified(s) \/ Read(s)
             \/ Wait(s) \/ Release(s) \/ Fails(s)
      PROVE  UNCHANGED <<torn, crossed, strayed>>
  BY <1>1 DEF Choose, Busy, CreateLease, ReadLease, NotModified, Read, Wait, Release, Fails,
              ReadFails, KeepFails, FetchFails, AddFails, RememberFails, Die
<1>2. ASSUME NEW s \in Refreshes,
             (\E k \in Keys : Take(s, k)) \/ Delete(s) \/ Add(s) \/ Remember(s) \/ Settle(s)
      PROVE  (strayed => strayed') /\ UNCHANGED <<torn, crossed>>
  BY <1>2 DEF Take, Delete, Add, Remember, Settle
<1>3. Forgets => (torn => torn') /\ (crossed => crossed') /\ UNCHANGED strayed
  BY DEF Forgets, DropDocument, DropItem, RemoveLease, RemoveSource, ResetState, Meets
<1>4. ASSUME \/ \E k \in Keys, t \in Texts : Publish(k, t)
             \/ \E how \in {"remove", "purge", "reset"} : ListItems(how)
             \/ ForgetFails \/ AddSource \/ Tick \/ UNCHANGED vars
      PROVE  UNCHANGED <<torn, crossed, strayed>>
  BY <1>4 DEF Publish, ListItems, ForgetFails, AddSource, Tick, vars
<1> QED
  BY <1>1, <1>2, <1>3, <1>4 DEF Next, Step, People

(* What is remembered is what the collection has, and so is what a refresh *)
(* inside its lease has written and not remembered yet.                    *)
Remembered ==
  /\ \A k \in Keys : items[k] # None /\ ~InHand(k) /\ k # dropped /\ k \notin broken =>
       docs[k] = items[k]
  /\ \A r \in Refreshes :
       at[r] = "remember" /\ Inside(r) => docs[hand[r]] = plan[r][hand[r]]

Indexed == Typed /\ (~torn /\ ~strayed => Remembered)

(* Nobody writes, forgets or gets inside a lease.                          *)
LEMMA QuietIndexed ==
  ASSUME Remembered, UNCHANGED <<docs, items, dropped, broken>>,
         \A k \in Keys : InHand(k) => InHand(k)',
         \A r \in Refreshes : at'[r] = "remember" =>
           at[r] = "remember" /\ plan'[r] = plan[r] /\ hand'[r] = hand[r] /\ (Inside(r)' => Inside(r))
  PROVE  Remembered'
  BY DEF Remembered

LEMMA IndexedStep == Indexed /\ [Next]_vars => Indexed'
<1> SUFFICES ASSUME Indexed, [Next]_vars PROVE Indexed'
  OBVIOUS
<1>1. Typed' /\ Typed /\ TypeOK
  BY TypedStep DEF Indexed, Typed
<1> SUFFICES ASSUME ~torn', ~strayed' PROVE Remembered'
  BY <1>1 DEF Indexed
<1> USE DEF leases, records, refresh, forget, met, aux
<1>2. Remembered
  BY FlagsStay DEF Indexed
<1>3. ASSUME NEW r \in Refreshes, at[r] = "remember", Inside(r)' PROVE Inside(r)
  BY <1>1, <1>3, InsideBefore
<1>4. \A r \in Refreshes : hand[r] \in Keys \/ hand[r] = None
  BY <1>1 DEF TypeOK
<1>5. ASSUME NEW r \in Refreshes,
             \/ Choose(r) \/ Busy(r) \/ CreateLease(r) \/ ReadLease(r) \/ NotModified(r) \/ Read(r)
             \/ ReadFails(r) \/ Wait(r) \/ KeepFails(r) \/ FetchFails(r) \/ (\E k \in Keys : Take(r, k))
      PROVE  Remembered'
  <2>1. UNCHANGED <<docs, items, dropped, broken>>
    BY <1>5 DEF Choose, Busy, CreateLease, ReadLease, NotModified, Read, ReadFails, Wait, KeepFails,
                FetchFails, Take
  <2>2. /\ at[r] \notin {"add", "remember"} /\ at'[r] \notin {"add", "remember"}
        /\ \A s \in Refreshes \ {r} : at'[s] = at[s] /\ plan'[s] = plan[s] /\ hand'[s] = hand[s]
    <3>1. CASE Choose(r) \/ Busy(r) \/ CreateLease(r) \/ ReadLease(r)
      BY <1>1, <3>1 DEF Choose, Busy, CreateLease, ReadLease, TypeOK
    <3>2. CASE NotModified(r) \/ Read(r) \/ ReadFails(r) \/ Wait(r) \/ KeepFails(r)
      BY <1>1, <3>2 DEF NotModified, Read, ReadFails, Wait, KeepFails, TypeOK
    <3>3. CASE FetchFails(r) \/ \E k \in Keys : Take(r, k)
      BY <1>1, <3>3 DEF FetchFails, Done, Take, TypeOK
    <3> QED
      BY <1>5, <3>1, <3>2, <3>3
  <2>3. \A k \in Keys : InHand(k) => InHand(k)'
    <3>1. ASSUME NEW k \in Keys, NEW s \in Refreshes, hand[s] = k, at[s] # "fetch"
          PROVE  hand'[s] = k /\ at'[s] # "fetch"
      <4>1. at[s] \in {"add", "remember"}
        BY <1>1, <3>1, NoneIsNothing DEF TypeOK
      <4> QED
        BY <2>2, <3>1, <4>1
    <3> QED
      BY <3>1 DEF InHand
  <2>4. \A s \in Refreshes : at'[s] = "remember" =>
          at[s] = "remember" /\ plan'[s] = plan[s] /\ hand'[s] = hand[s]
    BY <2>2
  <2> QED
    BY <1>2, <1>3, <2>1, <2>3, <2>4, QuietIndexed
<1>6. ASSUME NEW r \in Refreshes, Release(r) PROVE Remembered'
  <2>1. hand' = hand /\ UNCHANGED <<docs, items, dropped, broken>>
    BY <1>1, <1>6 DEF Release, Forget, TypeOK
  <2>2. \A s \in Refreshes : (at'[s] = at[s] /\ plan'[s] = plan[s]) \/ (s = r /\ at'[s] = "idle")
    BY <1>1, <1>6 DEF Release, Forget, TypeOK
  <2>3. \A k \in Keys : InHand(k) => InHand(k)'
    BY <2>1, <2>2 DEF InHand
  <2> QED
    BY <1>2, <1>3, <2>1, <2>2, <2>3, QuietIndexed
<1>7. ASSUME \/ \E k \in Keys, t \in Texts : Publish(k, t)
             \/ \E how \in {"remove", "purge", "reset"} : ListItems(how)
             \/ RemoveLease \/ RemoveSource \/ ResetState \/ AddSource \/ Tick \/ UNCHANGED vars
      PROVE  Remembered'
  <2>1. UNCHANGED <<docs, items, hand, dropped, broken, at, plan>>
    BY <1>7 DEF Publish, ListItems, RemoveLease, RemoveSource, ResetState, AddSource, Tick, vars
  <2> QED
    BY <1>2, <1>3, <2>1, QuietIndexed DEF InHand
<1>8. ASSUME NEW r \in Refreshes, Delete(r) PROVE Remembered'
  <2>1. /\ docs' = [docs EXCEPT ![hand[r]] = None] /\ at[r] = "fetch" /\ at' = [at EXCEPT ![r] = "add"]
        /\ Inside(r) /\ UNCHANGED <<items, plan, broken, dropped, hand, leases>>
    BY <1>8 DEF Delete
  <2>2. ASSUME NEW j \in Keys, ~InHand(j)' PROVE ~InHand(j) /\ docs'[j] = docs[j]
    BY <1>1, <2>1, <2>2 DEF InHand, TypeOK, Written
  <2>3. \A s \in Refreshes : at'[s] = "remember" => ~Inside(s)'
    BY <1>1, <2>1 DEF Inside, Mine, TypeOK
  <2> QED
    BY <1>2, <2>1, <2>2, <2>3 DEF Remembered
<1>9. ASSUME NEW r \in Refreshes, Add(r) PROVE Remembered'
  <2>1. /\ docs' = [docs EXCEPT ![hand[r]] = plan[r][hand[r]]] /\ at' = [at EXCEPT ![r] = "remember"]
        /\ at[r] = "add" /\ Inside(r) /\ UNCHANGED <<items, plan, dropped, broken, hand, leases>>
    BY <1>9 DEF Add
  <2>2. hand[r] \in Keys
    BY <1>1, <2>1 DEF TypeOK
  <2>3. docs'[hand[r]] = plan[r][hand[r]]
    BY <1>1, <2>1, <2>2 DEF TypeOK, Written
  <2>4. ASSUME NEW j \in Keys, ~InHand(j)' PROVE ~InHand(j) /\ docs'[j] = docs[j]
    BY <1>1, <2>1, <2>4 DEF InHand, TypeOK, Written
  <2>5. \A s \in Refreshes \ {r} : ~Inside(s)'
    BY <2>1 DEF Inside, Mine
  <2> QED
    BY <1>2, <2>1, <2>3, <2>4, <2>5 DEF Remembered
<1>10. ASSUME NEW r \in Refreshes, Remember(r) PROVE Remembered'
  <2>1. /\ items' = [items EXCEPT ![hand[r]] = plan[r][hand[r]]] /\ hand' = [hand EXCEPT ![r] = None]
        /\ at[r] = "remember" /\ at' = [at EXCEPT ![r] = "take"] /\ broken' = broken \ {hand[r]}
        /\ Inside(r) /\ UNCHANGED <<docs, dropped, leases>>
    BY <1>10 DEF Remember, Done
  <2>2. hand[r] \in Keys /\ docs[hand[r]] = plan[r][hand[r]] /\ items'[hand[r]] = plan[r][hand[r]]
    BY <1>1, <1>2, <2>1 DEF Remembered, TypeOK, Written
  <2>3. \A j \in Keys \ {hand[r]} : items'[j] = items[j]
    BY <1>1, <2>1 DEF TypeOK, Written
  <2>4. ASSUME NEW j \in Keys \ {hand[r]}, ~InHand(j)' PROVE ~InHand(j)
    BY <1>1, <2>1, <2>4 DEF InHand, TypeOK
  <2>5. \A s \in Refreshes : at'[s] = "remember" => ~Inside(s)'
    BY <1>1, <2>1 DEF Inside, Mine, TypeOK
  <2>6. ASSUME NEW j \in Keys, items'[j] # None, ~InHand(j)', j # dropped, j \notin broken' PROVE docs'[j] = items'[j]
    BY <1>2, <2>1, <2>2, <2>3, <2>4, <2>6 DEF Remembered
  <2> QED
    BY <2>1, <2>5, <2>6 DEF Remembered
<1>11. ASSUME NEW r \in Refreshes, AddFails(r) \/ RememberFails(r) \/ Die(r) PROVE Remembered'
  <2>1. /\ hand' = [hand EXCEPT ![r] = None] /\ UNCHANGED <<docs, items, dropped>>
        /\ at'[r] # "remember" /\ broken' = (broken \cup {hand[r]}) \ {None}
        /\ \A s \in Refreshes \ {r} : at'[s] = at[s] /\ plan'[s] = plan[s]
    <3>1. CASE AddFails(r) \/ RememberFails(r)
      <4>1. hand[r] \in Keys /\ None \notin broken
        BY <1>1, <3>1, NoneIsNothing DEF AddFails, RememberFails, TypeOK
      <4> QED
        BY <1>1, <3>1, <4>1, NoneIsNothing DEF AddFails, RememberFails, Done, TypeOK
    <3>2. CASE Die(r)
      BY <1>1, <3>2 DEF Die, Forget, TypeOK
    <3> QED
      BY <1>11, <3>1, <3>2
  <2>2. \A s \in Refreshes : s # r => hand'[s] = hand[s]
    BY <1>1, <2>1 DEF TypeOK
  <2>3. ASSUME NEW j \in Keys, ~InHand(j)', j \notin broken' PROVE ~InHand(j) /\ j \notin broken
    BY <2>1, <2>2, <2>3, NoneIsNothing DEF InHand
  <2> QED
    BY <1>2, <1>3, <2>1, <2>2, <2>3 DEF Remembered
<1>12. ASSUME NEW r \in Refreshes, Settle(r) PROVE Remembered'
  <2>1. /\ items' = (IF here THEN items ELSE Nothing) /\ at' = [at EXCEPT ![r] = "release"]
        /\ at[r] \notin {"fetch", "add", "remember"} /\ UNCHANGED <<docs, hand, dropped, broken, plan, leases>>
    BY <1>12 DEF Settle, Over
  <2>4. \A k \in Keys : InHand(k) => InHand(k)'
    BY <1>1, <2>1 DEF InHand, TypeOK
  <2>2. CASE here
    <3>1. \A s \in Refreshes : at'[s] = "remember" => at[s] = "remember"
      BY <1>1, <2>1 DEF TypeOK
    <3> QED
      BY <1>2, <1>3, <2>1, <2>2, <2>4, <3>1, QuietIndexed
  <2>3. CASE ~here
    <3>1. \A k \in Keys : items'[k] = None
      BY <2>1, <2>3 DEF Nothing
    <3>2. \A s \in Refreshes : at'[s] = "remember" => at[s] = "remember"
      BY <1>1, <2>1 DEF TypeOK
    <3> QED
      BY <1>2, <1>3, <2>1, <3>1, <3>2 DEF Remembered
  <2> QED
    BY <2>2, <2>3
<1>13. ASSUME NEW k \in Keys, DropDocument(k) PROVE Remembered'
  <2>1. ~AtWork /\ docs' = [docs EXCEPT ![k] = None] /\ dropped = None /\ dropped' = k
        /\ UNCHANGED <<items, broken, at, hand>>
    BY <1>13 DEF DropDocument, Meets, Removing
  <2>2. \A j \in Keys \ {k} : docs'[j] = docs[j]
    BY <1>1, <2>1 DEF TypeOK, Written
  <2> QED
    BY <1>2, <2>1, <2>2, NoneIsNothing DEF Remembered, InHand, AtWork
<1>14. ASSUME NEW k \in Keys, DropItem(k) PROVE Remembered'
  <2>1. /\ items' = [items EXCEPT ![k] = None] /\ dropped' = None /\ dropped \in {None, k}
        /\ UNCHANGED <<docs, broken, at, hand, plan, leases>>
    BY <1>1, <1>14 DEF DropItem, TypeOK
  <2>2. items'[k] = None /\ \A j \in Keys \ {k} : items'[j] = items[j]
    BY <1>1, <2>1 DEF TypeOK, Written
  <2> QED
    BY <1>2, <2>1, <2>2, NoneIsNothing DEF Remembered, InHand, Inside, Mine
<1>15. CASE ForgetFails
  <2>1. /\ UNCHANGED <<docs, items, at, hand, plan, leases>> /\ dropped' = None
        /\ broken' = (broken \cup {dropped}) \ {None}
    BY <1>15 DEF ForgetFails
  <2>2. \A j \in Keys : j # None
    BY NoneIsNothing
  <2>3. \A j \in Keys : j \notin broken' => j \notin broken /\ j # dropped
    BY <2>1, <2>2
  <2> QED
    BY <1>2, <2>1, <2>3 DEF Remembered, InHand, Inside, Mine
<1> QED
  BY <1>5, <1>6, <1>7, <1>8, <1>9, <1>10, <1>11, <1>12, <1>13, <1>14, <1>15
     DEF Next, Step, Fails, People, Forgets

(* What is remembered as written is what the collection has, unless its    *)
(* write or its removal is under way or was cut short: through leases lost *)
(* between two entries, failures, deaths and resets, and removals that no  *)
(* refresh meets.                                                          *)
THEOREM RememberedAlwaysIndexed == Spec => []RememberedIsIndexed
<1>1. Init => Indexed
  BY TypedInit DEF Init, Indexed, Remembered, Nothing
<1>2. Indexed => RememberedIsIndexed
  BY DEF Indexed, Remembered, RememberedIsIndexed
<1> QED
  BY <1>1, <1>2, IndexedStep, PTL DEF Spec

-------------------------------------------------------------------------------
(* What an ETag kept stands for                                            *)

Reading(r) == at[r] \in {"take", "fetch", "add", "remember"}
Copied(r) == at[r] \in {"chosen", "created", "leased", "settle"} /\ etag[r] # None

(* Nobody knows an ETag still to come; what a refresh has to write is of   *)
(* the edition it read; without a source there is no state of it.          *)
Known ==
  /\ tag # None => tag <= Len(editions)
  /\ ~here => tag = None
  /\ ~torn => \A r \in Refreshes : at[r] # "idle" => here
  /\ \A r \in Refreshes :
       /\ etag[r] # None => etag[r] <= Len(editions)
       /\ Reading(r) => /\ etag[r] # None
                        /\ \A k \in Keys : plan[r][k] \in {None, editions[etag[r]][k]}

(* Entry k is remembered as it was at edition v or since.                  *)
AsOf(v, k) == \E e \in v..Len(editions) : items[k] = editions[e][k]

(* The ETag kept stands for what is remembered, and so do the copies of it *)
(* that refreshes took, but after a removal or a reset that failed; one     *)
(* inside its lease has written what it is done with, of an edition no     *)
(* older than any of those, and so what it keeps stands again.             *)
Unspoiled == forgetting = "no" /\ ~halfway

Whole ==
  /\ Unspoiled /\ tag # None => \A k \in Keys : AsOf(tag, k)
  /\ Unspoiled =>
       \A r \in Refreshes : Copied(r) => \A k \in Keys : AsOf(etag[r], k)
  /\ \A r \in Refreshes : Reading(r) /\ Inside(r) =>
       /\ tag # None => tag <= etag[r]
       /\ \A s \in Refreshes : Copied(s) => etag[s] <= etag[r]
       /\ ~short[r] => \A k \in Keys : plan[r][k] = None => AsOf(etag[r], k)

Kept == Typed /\ Known /\ (~torn /\ ~crossed /\ ~strayed => Whole)

(* The feed's editions, and a new one.                                     *)
LEMMA EditionsGrow ==
  ASSUME Typed, NEW k \in Keys, NEW t \in Texts, Publish(k, t)
  PROVE  /\ Len(editions) \in Nat /\ Len(editions') = Len(editions) + 1
         /\ \A e \in 1..Len(editions) : editions'[e] = editions[e]
<1>1. editions \in Seq([Keys -> Texts])
  BY DEF Typed, TypeOK
<1>2. editions' = Append(editions, [Feed EXCEPT ![k] = t])
  BY DEF Publish
<1> QED
  BY <1>1, <1>2

LEMMA NumbersOfEditions ==
  ASSUME Typed
  PROVE  /\ Len(editions) \in Nat /\ Len(editions) >= 1
         /\ tag # None => tag \in Nat /\ tag >= 1
         /\ \A r \in Refreshes : etag[r] # None => etag[r] \in Nat /\ etag[r] >= 1
  BY BoundsAreNumbers DEF Typed, TypeOK, Tags

LEMMA KnownStep == Typed /\ Known /\ [Next]_vars => Known'
<1> SUFFICES ASSUME Typed, Known, [Next]_vars PROVE Known'
  OBVIOUS
<1> USE DEF leases, records, refresh, forget, met, aux
<1>1. TypeOK /\ Len(editions) \in Nat /\ Len(editions) # None /\ None \notin Nat
  BY NumbersOfEditions, NoneIsNothing DEF Typed
<1>2. ASSUME NEW r \in Refreshes, Choose(r) \/ Busy(r) \/ CreateLease(r) PROVE Known'
  <2>1. /\ UNCHANGED <<editions, tag, here, torn, plan>> /\ (here \/ at[r] # "idle")
        /\ at'[r] \in {"idle", "chosen", "created"} /\ etag'[r] \in {tag, None, etag[r]}
        /\ \A s \in Refreshes \ {r} : at'[s] = at[s] /\ etag'[s] = etag[s]
    BY <1>1, <1>2 DEF Choose, Busy, CreateLease, TypeOK
  <2>2. \A s \in Refreshes : Reading(s)' => Reading(s) /\ etag'[s] = etag[s]
    BY <2>1 DEF Reading
  <2>3. ~torn' => \A s \in Refreshes : at'[s] # "idle" => here'
    BY <2>1 DEF Known
  <2>4. \A s \in Refreshes : etag'[s] # None => etag'[s] <= Len(editions)
    BY <2>1 DEF Known
  <2> QED
    BY <2>1, <2>2, <2>3, <2>4 DEF Known
<1>3. ASSUME NEW r \in Refreshes,
             \/ ReadLease(r) \/ NotModified(r) \/ ReadFails(r) \/ (\E k \in Keys : Take(r, k))
             \/ Delete(r) \/ Add(r)
      PROVE  Known'
  <2>1. /\ UNCHANGED <<editions, tag, here, torn, plan, etag>> /\ at[r] # "idle"
        /\ at'[r] \in {"leased", "settle", "failed"} \/ Reading(r)
        /\ \A s \in Refreshes \ {r} : at'[s] = at[s]
    BY <1>1, <1>3 DEF ReadLease, NotModified, ReadFails, Take, Delete, Add, TypeOK, Reading
  <2>2. /\ \A s \in Refreshes : Reading(s)' => Reading(s)
        /\ \A s \in Refreshes : at'[s] # "idle" => at[s] # "idle"
    BY <2>1 DEF Reading
  <2>3. ~torn' => \A s \in Refreshes : at'[s] # "idle" => here'
    BY <2>1, <2>2 DEF Known
  <2> QED
    BY <2>1, <2>2, <2>3 DEF Known
<1>4. ASSUME NEW r \in Refreshes, Read(r) PROVE Known'
  <2>1. /\ UNCHANGED <<editions, tag, here, torn>> /\ at[r] = "leased"
        /\ etag' = [etag EXCEPT ![r] = Len(editions)] /\ plan' = [plan EXCEPT ![r] = Changed]
        /\ at' = [at EXCEPT ![r] = "take"]
    BY <1>4 DEF Read
  <2>2. \A k \in Keys : plan'[r][k] \in {None, editions'[etag'[r]][k]}
    BY <1>1, <2>1 DEF TypeOK, Changed, Feed
  <2>3. /\ etag'[r] = Len(editions)
        /\ \A s \in Refreshes \ {r} : at'[s] = at[s] /\ etag'[s] = etag[s] /\ plan'[s] = plan[s]
    BY <1>1, <2>1 DEF TypeOK
  <2> QED
    BY <1>1, <2>1, <2>2, <2>3 DEF Known, Reading
<1>5. ASSUME NEW r \in Refreshes,
             Wait(r) \/ KeepFails(r) \/ FetchFails(r) \/ AddFails(r) \/ Remember(r)
      PROVE  Known'
  <2>1. /\ UNCHANGED <<editions, tag, here, torn, etag>> /\ Reading(r)
        /\ \A k \in Keys : plan'[r][k] \in {None, plan[r][k]}
        /\ \A s \in Refreshes \ {r} : at'[s] = at[s] /\ plan'[s] = plan[s]
    BY <1>1, <1>5 DEF Wait, KeepFails, FetchFails, AddFails, Remember, Done, TypeOK, Written, Nothing,
                      Reading
  <2>2. at[r] # "idle"
    BY <2>1 DEF Reading
  <2>3. \A k \in Keys : plan'[r][k] \in {None, editions[etag[r]][k]}
    BY <2>1 DEF Known
  <2> QED
    BY <2>1, <2>2, <2>3 DEF Known, Reading
<1>6. ASSUME NEW r \in Refreshes, Settle(r) \/ RememberFails(r) PROVE Known'
  <2>1. /\ UNCHANGED <<editions, here, torn, etag>> /\ at[r] # "idle"
        /\ at'[r] \in {"release", "failed"}
        /\ \A s \in Refreshes \ {r} : plan'[s] = plan[s]
        /\ \A s \in Refreshes \ {r} : at'[s] = at[s]
        /\ tag' \in {tag, None, etag[r]} /\ (~here => tag' = tag)
    BY <1>1, <1>6 DEF Settle, RememberFails, Over, KeptTag, TypeOK
  <2> QED
    BY <2>1 DEF Known, Reading
<1>7. ASSUME NEW r \in Refreshes, Release(r) \/ Die(r) PROVE Known'
  <2>1. /\ UNCHANGED <<editions, tag, here, torn>>
        /\ at'[r] = "idle" /\ etag'[r] = None
        /\ \A s \in Refreshes \ {r} : at'[s] = at[s] /\ etag'[s] = etag[s] /\ plan'[s] = plan[s]
    BY <1>1, <1>7 DEF Release, Die, Forget, TypeOK
  <2> QED
    BY <2>1 DEF Known, Reading
<1>8. ASSUME NEW k \in Keys, NEW t \in Texts, Publish(k, t) PROVE Known'
  <2>1. UNCHANGED <<tag, here, torn, at, etag, plan>>
    BY <1>8 DEF Publish
  <2>2. \A r \in Refreshes : Reading(r) => etag[r] \in 1..Len(editions)
    BY NumbersOfEditions DEF Known
  <2>3. \A r \in Refreshes : etag[r] # None => etag[r] <= Len(editions')
    BY <1>8, EditionsGrow, NumbersOfEditions DEF Known
  <2>4. tag # None => tag <= Len(editions')
    BY <1>8, EditionsGrow, NumbersOfEditions DEF Known
  <2>5. \A r \in Refreshes : Reading(r) => editions'[etag[r]] = editions[etag[r]]
    BY <1>8, <2>2, EditionsGrow
  <2> QED
    BY <2>1, <2>3, <2>4, <2>5 DEF Known, Reading
<1>9. CASE RemoveSource
  <2>1. UNCHANGED <<editions, at, etag, plan>> /\ tag' = None /\ torn' = (torn \/ AtWork)
    BY <1>9 DEF RemoveSource, Meets, Removing
  <2> QED
    BY <1>1, <2>1 DEF Known, Reading, AtWork
<1>10. CASE ResetState
  <2>1. UNCHANGED <<editions, at, etag, plan, here>> /\ tag' = None /\ (torn => torn')
    BY <1>10, FlagsStay DEF ResetState
  <2> QED
    BY <1>1, <2>1 DEF Known, Reading
<1>11. ASSUME \/ \E how \in {"remove", "purge", "reset"} : ListItems(how)
              \/ \E k \in Keys : DropDocument(k) \/ DropItem(k)
              \/ RemoveLease \/ ForgetFails \/ AddSource \/ Tick \/ UNCHANGED vars
       PROVE  Known'
  <2>1. UNCHANGED <<editions, at, etag, plan, tag>> /\ (here' = here \/ here' = TRUE)
    BY <1>11 DEF ListItems, DropDocument, DropItem, RemoveLease, ForgetFails, AddSource, Tick, vars
  <2>3. (torn => torn') /\ here \in BOOLEAN
    BY <1>1, FlagsStay DEF TypeOK
  <2>4. ~torn' => \A r \in Refreshes : at'[r] # "idle" => here'
    BY <2>1, <2>3 DEF Known
  <2>5. ~here' => tag' = None
    BY <2>1, <2>3 DEF Known
  <2> QED
    BY <2>1, <2>4, <2>5 DEF Known, Reading
<1> QED
  BY <1>2, <1>3, <1>4, <1>5, <1>6, <1>7, <1>8, <1>9, <1>10, <1>11
     DEF Next, Step, Fails, People, Forgets

(* Nothing is remembered, read or settled.                                 *)
LEMMA QuietWhole ==
  ASSUME Whole, UNCHANGED <<editions, items, tag>>, Unspoiled' => Unspoiled,
         \A r \in Refreshes : Copied(r)' => Copied(r) /\ etag'[r] = etag[r],
         \A r \in Refreshes : Reading(r)' /\ Inside(r)' =>
           /\ Reading(r) /\ Inside(r) /\ etag'[r] = etag[r]
           /\ ~short'[r] => ~short[r] /\ plan'[r] = plan[r]
  PROVE  Whole'
  BY DEF Whole, AsOf

LEMMA WholeStep ==
  ASSUME Typed, Typed', Known, Known', Whole, [Next]_vars,
         ~torn', ~crossed', ~strayed'
  PROVE  Whole'
<1> USE DEF leases, records, refresh, forget, met, aux
<1>1. /\ TypeOK /\ ~torn /\ Len(editions) \in Nat /\ None \notin Nat
      /\ \A k \in Keys : None # k
  BY FlagsStay, NumbersOfEditions, NoneIsNothing DEF Typed
<1>2. ASSUME NEW r \in Refreshes, Reading(r), Inside(r)' PROVE Inside(r)
  BY <1>2, InsideBefore DEF Reading
<1>3. ASSUME NEW r \in Refreshes, Choose(r) PROVE Whole'
  <2>1. /\ UNCHANGED <<editions, items, tag, forgetting, halfway, plan, short, leases>>
        /\ at' = [at EXCEPT ![r] = "chosen"] /\ etag' = [etag EXCEPT ![r] = tag]
    BY <1>3 DEF Choose
  <2>2. /\ at'[r] = "chosen" /\ etag'[r] = tag
        /\ \A s \in Refreshes \ {r} : at'[s] = at[s] /\ etag'[s] = etag[s]
    BY <1>1, <2>1 DEF TypeOK
  <2>3. \A s \in Refreshes : Reading(s)' => Reading(s) /\ etag'[s] = etag[s]
    BY <2>2 DEF Reading
  <2>4. \A s \in Refreshes : Copied(s)' =>
          (etag'[s] = tag /\ tag # None) \/ (Copied(s) /\ etag'[s] = etag[s])
    BY <2>2 DEF Copied
  <2>5. \A s \in Refreshes : Inside(s)' = Inside(s)
    BY <2>1 DEF Inside, Mine
  <2> QED
    BY <2>1, <2>3, <2>4, <2>5 DEF Whole, Unspoiled, AsOf
<1>4. ASSUME NEW r \in Refreshes,
             \/ Busy(r) \/ CreateLease(r) \/ ReadLease(r) \/ NotModified(r) \/ ReadFails(r)
             \/ RememberFails(r)
      PROVE  Whole'
  <2>1. /\ UNCHANGED <<editions, items, tag, forgetting, halfway, short>>
        /\ ~Reading(r)' /\ (Copied(r)' => Copied(r) /\ etag'[r] = etag[r])
        /\ \A s \in Refreshes \ {r} : at'[s] = at[s] /\ etag'[s] = etag[s] /\ plan'[s] = plan[s]
    BY <1>1, <1>4 DEF Busy, CreateLease, ReadLease, NotModified, ReadFails, RememberFails, Reading,
                      Copied, TypeOK
  <2>2. \A s \in Refreshes : Copied(s)' => Copied(s) /\ etag'[s] = etag[s]
    BY <2>1 DEF Copied
  <2>3. \A s \in Refreshes : Reading(s)' => Reading(s) /\ etag'[s] = etag[s] /\ plan'[s] = plan[s]
    BY <2>1 DEF Reading
  <2> QED
    BY <1>2, <2>1, <2>2, <2>3, QuietWhole DEF Unspoiled
<1>5. ASSUME NEW r \in Refreshes, Read(r) PROVE Whole'
  <2>1. /\ UNCHANGED <<editions, items, tag, forgetting, halfway, short, leases>> /\ at[r] = "leased"
        /\ etag' = [etag EXCEPT ![r] = Len(editions)] /\ plan' = [plan EXCEPT ![r] = Changed]
        /\ at' = [at EXCEPT ![r] = "take"]
    BY <1>5 DEF Read
  <2>2. /\ etag'[r] = Len(editions) /\ plan'[r] = Changed /\ at'[r] = "take"
        /\ \A s \in Refreshes \ {r} : at'[s] = at[s] /\ etag'[s] = etag[s] /\ plan'[s] = plan[s]
    BY <1>1, <2>1 DEF TypeOK
  <2>3. \A s \in Refreshes : Copied(s)' => s # r /\ Copied(s) /\ etag'[s] = etag[s]
    BY <2>2 DEF Copied
  <2>4. \A s \in Refreshes \ {r} : Reading(s)' => Reading(s)
    BY <2>2 DEF Reading
  <2>5. ASSUME NEW k \in Keys, plan'[r][k] = None PROVE AsOf(etag[r], k)'
    <3>1. Feed[k] # None /\ Len(editions) >= 1
      BY NumbersOfEditions, TagsOfFeed, NoneIsNothing DEF Typed
    <3>2. items[k] = editions[Len(editions)][k]
      BY <2>2, <2>5, <3>1 DEF Changed, Feed
    <3> QED
      BY <1>1, <2>1, <2>2, <3>2 DEF AsOf
  <2>6. /\ tag # None => tag <= etag'[r]
        /\ \A s \in Refreshes : Copied(s)' => etag'[s] <= etag'[r]
    BY <2>2, <2>3 DEF Known, Copied
  <2>7. \A s \in Refreshes \ {r} : Inside(s)' = Inside(s)
    BY <2>1 DEF Inside, Mine
  <2>8. ASSUME NEW s \in Refreshes, Reading(s)', Inside(s)'
        PROVE  /\ tag' # None => tag' <= etag'[s]
               /\ \A u \in Refreshes : Copied(u)' => etag'[u] <= etag'[s]
               /\ ~short'[s] => \A k \in Keys : plan'[s][k] = None => AsOf(etag[s], k)'
    <3>1. CASE s = r
      BY <2>1, <2>5, <2>6, <3>1
    <3>2. CASE s # r
      <4>1. Reading(s) /\ Inside(s) /\ etag'[s] = etag[s] /\ plan'[s] = plan[s]
        BY <2>2, <2>4, <2>7, <2>8, <3>2
      <4> QED
        BY <2>1, <2>3, <4>1 DEF Whole, AsOf
    <3> QED
      BY <3>1, <3>2
  <2>9. /\ Unspoiled' /\ tag' # None => \A k \in Keys : AsOf(tag, k)'
        /\ Unspoiled' => \A s \in Refreshes : Copied(s)' => \A k \in Keys : AsOf(etag[s], k)'
    BY <2>1, <2>3 DEF Whole, Unspoiled, AsOf
  <2> QED
    BY <2>8, <2>9 DEF Whole
<1>6. ASSUME NEW r \in Refreshes,
             \/ (\E k \in Keys : Take(r, k)) \/ Wait(r) \/ KeepFails(r) \/ FetchFails(r)
             \/ Delete(r) \/ Add(r) \/ AddFails(r)
      PROVE  Whole'
  <2>1. /\ UNCHANGED <<editions, items, tag, forgetting, halfway, etag>> /\ Reading(r) /\ Reading(r)'
        /\ \A s \in Refreshes \ {r} : at'[s] = at[s] /\ plan'[s] = plan[s] /\ short'[s] = short[s]
        /\ ~short'[r] => ~short[r] /\ plan'[r] = plan[r]
    BY <1>1, <1>6 DEF Take, Wait, KeepFails, FetchFails, Delete, Add, AddFails, Failed, Done,
                      Reading, TypeOK
  <2>2. \A s \in Refreshes : Copied(s)' => Copied(s) /\ etag'[s] = etag[s]
    BY <2>1 DEF Copied, Reading
  <2>3. \A s \in Refreshes : Reading(s)' => Reading(s)
    BY <2>1 DEF Reading
  <2> QED
    BY <1>2, <2>1, <2>2, <2>3, QuietWhole DEF Unspoiled
<1>7. ASSUME NEW r \in Refreshes, Remember(r) PROVE Whole'
  <2> DEFINE h == hand[r]
  <2>1. /\ items' = [items EXCEPT ![h] = plan[r][h]] /\ plan' = [plan EXCEPT ![r][h] = None]
        /\ at[r] = "remember" /\ at' = [at EXCEPT ![r] = "take"] /\ Inside(r)
        /\ UNCHANGED <<editions, tag, forgetting, halfway, etag, short, leases>>
    BY <1>7 DEF Remember, Done
  <2>2. h \in Keys /\ plan[r][h] # None /\ items'[h] = plan[r][h]
        /\ \A k \in Keys \ {h} : items'[k] = items[k] /\ plan'[r][k] = plan[r][k]
    BY <1>1, <2>1 DEF TypeOK, Written
  <2>3. /\ items'[h] = editions[etag[r]][h] /\ etag[r] \in Nat /\ etag[r] <= Len(editions)
        /\ Reading(r) /\ etag[r] >= 1
    BY <2>1, <2>2, NumbersOfEditions DEF Known, Reading
  <2>4. ASSUME NEW v \in Nat, v <= etag[r], NEW k \in Keys, k = h \/ AsOf(v, k) PROVE AsOf(v, k)'
    <3>1. etag[r] \in v..Len(editions)
      BY <1>1, <2>3, <2>4
    <3> QED
      BY <2>1, <2>2, <2>3, <2>4, <3>1 DEF AsOf
  <2>5. \A s \in Refreshes : Copied(s)' => Copied(s)
    BY <1>1, <2>1 DEF Copied, TypeOK
  <2>6. \A s \in Refreshes : Reading(s)' /\ Inside(s)' => s = r
    BY <2>1 DEF Inside, Mine
  <2>7. /\ tag # None => tag \in Nat /\ tag <= etag[r]
        /\ \A s \in Refreshes : Copied(s) => etag[s] \in Nat /\ etag[s] <= etag[r]
    BY <2>1, <2>3, NumbersOfEditions DEF Whole, Copied
  <2>8. ~short[r] => \A k \in Keys : plan'[r][k] = None => AsOf(etag[r], k)'
    <3> SUFFICES ASSUME ~short[r], NEW k \in Keys, plan'[r][k] = None PROVE AsOf(etag[r], k)'
      BY <2>1
    <3>1. k = h \/ AsOf(etag[r], k)
      BY <2>1, <2>2, <2>3 DEF Whole
    <3> QED
      BY <2>1, <2>3, <2>4, <3>1
  <2>9. /\ Unspoiled' /\ tag' # None => \A k \in Keys : AsOf(tag, k)'
        /\ Unspoiled' => \A s \in Refreshes : Copied(s)' => \A k \in Keys : AsOf(etag[s], k)'
    BY <2>1, <2>4, <2>5, <2>7 DEF Whole, Unspoiled
  <2> QED
    BY <2>1, <2>5, <2>6, <2>7, <2>8, <2>9 DEF Whole
<1>8. ASSUME NEW r \in Refreshes, Settle(r) PROVE Whole'
  <2>1. here /\ Over(r) /\ at[r] # "idle" /\ ~Reading(r)'
    BY <1>1, <1>8 DEF Settle, Over, Known, Reading, TypeOK
  <2>2. /\ tag' = (IF at[r] # "failed" THEN KeptTag(r) ELSE tag) /\ items' = items
        /\ at' = [at EXCEPT ![r] = "release"] /\ (KeepsWhole(r) => Inside(r))
        /\ halfway' = (halfway /\ ~KeepsWhole(r))
        /\ UNCHANGED <<editions, forgetting, etag, plan, short, leases>>
    BY <1>8, <2>1 DEF Settle
  <2>3. \A s \in Refreshes : Copied(s)' => Copied(s)
    BY <1>1, <2>2 DEF Copied, TypeOK
  <2>4. \A s \in Refreshes : Reading(s)' => s # r /\ Reading(s)
    BY <1>1, <2>1, <2>2 DEF Reading, TypeOK
  <2>5. \/ tag' \in {None, tag} /\ ~KeepsWhole(r)
        \/ tag' = etag[r] /\ Copied(r) /\ ~KeepsWhole(r)
        \/ tag' = etag[r] /\ KeepsWhole(r)
        \/ tag' = None
    BY <2>1, <2>2 DEF Over, KeptTag, KeepsWhole, Copied
  <2>6. ASSUME KeepsWhole(r)
        PROVE  /\ etag[r] \in Nat /\ \A k \in Keys : AsOf(etag[r], k)
               /\ \A s \in Refreshes : Copied(s) => etag[s] \in Nat /\ etag[s] <= etag[r]
               /\ tag' = etag[r]
    <3>1. Reading(r) /\ Inside(r) /\ ~short[r] /\ plan[r] = Nothing
      BY <2>1, <2>2, <2>6 DEF Reading, KeepsWhole, Over
    <3>2. \A k \in Keys : plan[r][k] = None
      BY <3>1 DEF Nothing
    <3>3. tag' = etag[r]
      BY <2>2, <2>6 DEF KeptTag, KeepsWhole
    <3> QED
      BY <3>1, <3>2, <3>3, NumbersOfEditions DEF Whole, Known, Copied
  <2>7. ASSUME NEW v \in Nat, NEW w \in Nat, v <= w, NEW k \in Keys, AsOf(w, k) PROVE AsOf(v, k)
    BY <1>1, <2>7 DEF AsOf
  <2>8. CASE KeepsWhole(r)
    <3>1. \A k \in Keys : AsOf(tag', k)
      BY <2>6, <2>8
    <3>2. \A s \in Refreshes : Copied(s) => \A k \in Keys : AsOf(etag[s], k)
      BY <2>6, <2>7, <2>8
    <3>3. \A s \in Refreshes : ~(Reading(s)' /\ Inside(s)')
      BY <2>2, <2>4, <2>8 DEF Inside, Mine
    <3> QED
      BY <2>2, <2>3, <3>1, <3>2, <3>3 DEF Whole, AsOf
  <2>9. CASE ~KeepsWhole(r)
    <3>1. tag' \in {None, tag} \/ (tag' = etag[r] /\ Copied(r))
      BY <2>5, <2>9
    <3>2. Unspoiled' = Unspoiled /\ UNCHANGED <<editions, items, etag, plan, short, leases>>
      BY <2>2, <2>9 DEF Unspoiled
    <3>3. Unspoiled' /\ tag' # None => \A k \in Keys : AsOf(tag, k)'
      BY <3>1, <3>2 DEF Whole, AsOf
    <3>4. Unspoiled' => \A s \in Refreshes : Copied(s)' => \A k \in Keys : AsOf(etag[s], k)'
      BY <2>3, <3>2 DEF Whole, AsOf
    <3>5. \A s \in Refreshes : Reading(s)' /\ Inside(s)' => Reading(s) /\ Inside(s)
      BY <2>4, <3>2 DEF Inside, Mine
    <3>6. \A s \in Refreshes : Reading(s) /\ Inside(s) /\ tag' # None => tag' <= etag[s]
      BY <3>1 DEF Whole
    <3> QED
      BY <2>3, <3>2, <3>3, <3>4, <3>5, <3>6 DEF Whole, AsOf
  <2> QED
    BY <2>8, <2>9
<1>9. ASSUME NEW r \in Refreshes, Release(r) \/ Die(r) PROVE Whole'
  <2>1. /\ UNCHANGED <<editions, items, tag, forgetting, halfway>> /\ at'[r] = "idle"
        /\ \A s \in Refreshes \ {r} : /\ at'[s] = at[s] /\ etag'[s] = etag[s]
                                      /\ plan'[s] = plan[s] /\ short'[s] = short[s]
    BY <1>1, <1>9 DEF Release, Die, Forget, TypeOK
  <2>2. \A s \in Refreshes : Copied(s)' => Copied(s) /\ etag'[s] = etag[s]
    BY <2>1 DEF Copied
  <2>3. \A s \in Refreshes : Reading(s)' => Reading(s) /\ s # r
    BY <2>1 DEF Reading
  <2> QED
    BY <1>2, <2>1, <2>2, <2>3, QuietWhole DEF Unspoiled
<1>10. ASSUME NEW k \in Keys, NEW t \in Texts, Publish(k, t) PROVE Whole'
  <2>1. UNCHANGED <<items, tag, forgetting, halfway, at, etag, plan, short, leases>>
    BY <1>10 DEF Publish
  <2>2. ASSUME NEW v \in Nat, v >= 1, NEW j \in Keys, AsOf(v, j) PROVE AsOf(v, j)'
    <3>1. PICK e \in v..Len(editions) : items[j] = editions[e][j]
      BY <2>2 DEF AsOf
    <3>2. e \in v..Len(editions') /\ editions'[e] = editions[e]
      BY <1>10, <2>2, EditionsGrow
    <3> QED
      BY <2>1, <3>1, <3>2 DEF AsOf
  <2>3. \A r \in Refreshes : Copied(r) => etag[r] \in Nat /\ etag[r] >= 1
    BY NumbersOfEditions DEF Copied
  <2>4. \A r \in Refreshes : Reading(r) => etag[r] \in Nat /\ etag[r] >= 1
    BY NumbersOfEditions DEF Known
  <2>5. tag # None => tag \in Nat /\ tag >= 1
    BY NumbersOfEditions
  <2>6. \A r \in Refreshes : /\ Copied(r)' = Copied(r) /\ Reading(r)' = Reading(r)
                            /\ Inside(r)' = Inside(r)
    BY <2>1 DEF Copied, Reading, Inside, Mine
  <2> QED
    BY <2>1, <2>2, <2>3, <2>4, <2>5, <2>6 DEF Whole, Unspoiled
<1>11. ASSUME RemoveSource \/ ResetState \/ \E k \in Keys : DropDocument(k) \/ DropItem(k)
       PROVE  Whole'
  <2>1. UNCHANGED <<editions, at>> /\ (tag' = None \/ forgetting' # "no")
    BY <1>1, <1>11 DEF RemoveSource, ResetState, DropDocument, DropItem, TypeOK
  <2>2. Removing \/ forgetting = "reset"
    BY <1>1, <1>11 DEF RemoveSource, ResetState, DropDocument, DropItem, Removing, TypeOK
  <2>3. Meets
    BY <1>11 DEF RemoveSource, ResetState, DropDocument, DropItem
  <2>4. ~AtWork
    BY <2>2, <2>3 DEF Meets
  <2>5. \A r \in Refreshes : ~Copied(r)' /\ ~Reading(r)'
    BY <2>1, <2>4 DEF AtWork, Copied, Reading
  <2> QED
    BY <2>1, <2>5 DEF Whole, Unspoiled
<1>12. CASE RemoveLease
  <2>1. ~AtWork /\ at' = at /\ forgetting' # "no"
    BY <1>12 DEF RemoveLease, Meets, Removing
  <2> QED
    BY <2>1 DEF Whole, Unspoiled, Copied, Reading, AtWork
<1>13. ASSUME \/ \E how \in {"remove", "purge", "reset"} : ListItems(how)
              \/ ForgetFails \/ AddSource \/ Tick \/ UNCHANGED vars
       PROVE  Whole'
  <2>1. UNCHANGED <<editions, items, tag, at, etag, plan, short>>
    BY <1>13 DEF ListItems, ForgetFails, AddSource, Tick, vars
  <2>2. Unspoiled' => Unspoiled
    BY <1>13 DEF ListItems, ForgetFails, AddSource, Tick, vars, Unspoiled
  <2> QED
    BY <1>2, <2>1, <2>2, QuietWhole DEF Copied, Reading
<1> QED
  BY <1>3, <1>4, <1>5, <1>6, <1>7, <1>8, <1>9, <1>10, <1>11, <1>12, <1>13
     DEF Next, Step, Fails, People, Forgets

(* An ETag is kept only when all that was published under it is            *)
(* remembered, as it was then or since: whatever versions the store gives, *)
(* through failed entries, entries left waiting, leases lost between two   *)
(* entries, refreshes that died and ETags that come back; and after a      *)
(* removal or a reset that failed, once a refresh has written all.         *)
THEOREM TagsAreWhole == Spec => []KeptTagIsWhole
<1>1. Init => Kept
  <2>1. Init => Known /\ Whole
    BY DEF Init, Known, Whole, Reading, Copied
  <2> QED
    BY <2>1, TypedInit DEF Kept
<1>2. Kept /\ [Next]_vars => Kept'
  <2> SUFFICES ASSUME Kept, [Next]_vars PROVE Kept'
    OBVIOUS
  <2>1. Typed /\ Typed' /\ Known /\ Known'
    BY TypedStep, KnownStep DEF Kept
  <2> QED
    BY <2>1, FlagsStay, WholeStep DEF Kept
<1>3. Kept => KeptTagIsWhole
  BY DEF Kept, Whole, Unspoiled, AsOf, KeptTagIsWhole
<1> QED
  BY <1>1, <1>2, <1>3, PTL DEF Spec

===============================================================================
