----------------------------- MODULE IngestProofs -----------------------------
(***************************************************************************)
(* That what is indexed between events is whole, and that what is listed   *)
(* is indexed, for any texts, batches, events and faults.                  *)
(***************************************************************************)
EXTENDS Ingest, TLAPS

Replacing == {"erase", "unfile", "unlist", "erased"}
Adding == {"write", "file", "list", "rows", "touch"}
Resting == {"idle", "check", "fetched", "compare"}

Entries == [text : Texts, source : Sources, sha : Maybe]

(* The first n batches of a text.                                          *)
Batch(t, n) == [p \in Parts |-> IF p <= n THEN t ELSE None]

(* What is there, if anything, is the beginning of one text.               *)
Begun == rows # NoRows => \E t \in Texts, n \in 1..Batches : rows = Batch(t, n)

(* What the worker has in hand, at each of its steps.                      *)
Hand ==
  /\ at # "idle" => event \in Events
  /\ at \in {"check", "fetched", "compare"} \cup Adding => event.kind = "created"
  /\ at = "fetched" => digest \in Texts
  /\ at = "fetched" => source \in Sources
  /\ at \in {"compare"} \cup Adding \/ (at \in Replacing /\ event.kind = "created") =>
       doc \in Texts /\ source \in Sources
  /\ at \in Resting \cup Replacing \cup {"write"} => part = 1
  /\ at \in {"file", "list"} /\ first => part = 1
  /\ at = "rows" => part <= Size(doc)

(* How far the writes are: what went is gone, what came is there.          *)
Progress ==
  /\ at \in {"unfile", "unlist"} => entry # None
  /\ at \in {"unfile", "unlist", "erased", "write"} => rows = NoRows
  /\ at \in {"file", "list"} => rows = IF first THEN NoRows ELSE Whole(doc)
  /\ at = "rows" => rows = Batch(doc, part - 1)
  /\ at = "touch" => rows = Whole(doc)
  /\ at = "erased" => entry = None
  /\ at = "list" => file = doc
  /\ at = "touch" \/ (at = "rows" /\ first) => entry # None
  /\ at = "touch" /\ ~first => file = entry.text /\ entry.text = doc

Typed == TypeOK /\ Begun /\ Hand /\ Progress

(* The two properties, until a write begins.                               *)
StaysWhole ==
  /\ whole /\ ~gap /\ at \in Resting \cup {"erase"} => \E t \in Texts : rows = Whole(t)
  /\ at \in {"unfile", "unlist", "erased"} /\ event.kind = "deleted" => ~whole

StaysIndexed ==
  ~first /\ entry # None /\ ~gap /\ at \in Resting \cup {"erase"} =>
    file = entry.text /\ rows = Whole(entry.text)

IInv == Typed /\ StaysWhole /\ StaysIndexed

Flags == {whole, gap, partial, late, missed, misnamed} \subseteq BOOLEAN

Main ==
  /\ feeder \in Feeders /\ first \in BOOLEAN
  /\ object \in Maybe /\ version \in 0..MaxVersions
  /\ queue \in Seq(Events) /\ seen \in 0..MaxVersions
  /\ rows \in [Parts -> Maybe] /\ file \in Maybe
  /\ entry \in Entries \cup {None}
  /\ at \in Resting \cup Replacing \cup Adding
  /\ event \in Events \cup {NoEvent}
  /\ doc \in Maybe /\ source \in Sources \cup {None} /\ digest \in Maybe
  /\ part \in 1..Batches + 1
  /\ at = "idle" => event = NoEvent /\ doc = None /\ source = None /\ part = 1
  /\ repeats \in 0..MaxRepeats /\ faults \in 0..MaxFaults

LEMMA TypeParts == TypeOK <=> Main /\ Flags
  BY DEF TypeOK, Main, Flags, Entries, Resting, Replacing, Adding

-------------------------------------------------------------------------------
(* Rows                                                                    *)

LEMMA SizeIs == \A t : Size(t) \in 1..Batches /\ Whole(t) = Batch(t, Size(t))
  BY BatchesAreSome DEF Size, Whole, Batch

LEMMA NoneIsNoText == None \notin Texts /\ None \notin Sources
  BY NoneIsNothing DEF Sources

LEMMA RowsBegin == \A t : NoRows = Batch(t, 0)
  BY BatchesAreSome DEF NoRows, Batch, Parts

LEMMA BatchIs ==
  \A t \in Texts, n \in 0..Batches :
    /\ Batch(t, n) \in [Parts -> Maybe]
    /\ n = 0 \/ Batch(t, n)[1] = t
    /\ n = 0 => Batch(t, n) = NoRows
  BY BatchesAreSome DEF Batch, Maybe, Parts, NoRows

(* The first chunk there is, is the first.                                 *)
LEMMA CurrentIs ==
  ASSUME Begun
  PROVE  /\ Current = None <=> rows = NoRows
         /\ rows # NoRows => Current = rows[1]
  <1>1. CASE rows = NoRows BY <1>1 DEF Current
  <1>2. CASE rows # NoRows
    <2>1. PICK t \in Texts, n \in 1..Batches : rows = Batch(t, n)
      BY <1>2 DEF Begun
    <2>2. 1 \in Parts /\ rows[1] = t /\ t # None
      BY <2>1, BatchIs, BatchesAreSome, NoneIsNoText DEF Parts
    <2>3. \A p \in Parts :
            (rows[p] # None /\ \A o \in Parts : o < p => rows[o] = None) <=> p = 1
      BY <2>2, BatchesAreSome DEF Parts
    <2>4. (CHOOSE p \in Parts : rows[p] # None /\ \A o \in Parts : o < p => rows[o] = None) = 1
      BY <2>2, <2>3
    <2> QED BY <1>2, <2>2, <2>4 DEF Current
  <1> QED BY <1>1, <1>2

LEMMA WholeIs ==
  ASSUME NEW t \in Texts, rows = Whole(t)
  PROVE  rows # NoRows
  <1>1. rows[1] = t /\ 1 \in Parts
    BY SizeIs, BatchIs, BatchesAreSome DEF Parts
  <1> QED BY <1>1, NoneIsNoText DEF NoRows

(* One batch more.                                                         *)
LEMMA OneMore ==
  ASSUME NEW t, NEW n \in 1..Batches, rows = Batch(t, n - 1)
  PROVE  [rows EXCEPT ![n] = t] = Batch(t, n)
  BY BatchesAreSome DEF Batch, Parts

-------------------------------------------------------------------------------
(* Types                                                                   *)

LEMMA InitTyped == Init => IInv
  <1> SUFFICES ASSUME Init PROVE IInv OBVIOUS
  <1>1. Flags BY DEF Init, Flags
  <1>2. Main
    BY BatchesAreSome, BoundsAreNumbers
    DEF Init, Main, Maybe, NoRows, Resting, NoEvent
  <1>3. Begun BY DEF Init, Begun
  <1> QED
    BY <1>1, <1>2, <1>3, TypeParts
    DEF IInv, Typed, Hand, Progress, StaysWhole, StaysIndexed, Init, Resting, Replacing, Adding

LEMMA FlagsStep == Flags /\ Main /\ [Next]_vars => Flags'
  <1> SUFFICES ASSUME Flags, Main, [Next]_vars PROVE Flags' OBVIOUS
  <1>1. ASSUME NEW t, NEW k, Change(t, k) PROVE Flags'
    BY <1>1 DEF Change, Flags
  <1>2. ASSUME NEW e, Begin(e) PROVE Flags'
    BY <1>2 DEF Begin, Flags
  <1>3. CASE Fetch BY <1>3 DEF Fetch, Flags
  <1>4. CASE Erase BY <1>4 DEF Erase, Flags
  <1>5. CASE Deleted BY <1>5 DEF Deleted, Flags
  <1>6. CASE AddBatch BY <1>6 DEF AddBatch, Flags
  <1>7. CASE Raise BY <1>7 DEF Raise, Stop, Flags
  <1>8. CASE CannotRead BY <1>8 DEF CannotRead, Stop, Flags
  <1>9. CASE Die BY <1>9 DEF Die, Stop, Flags
  <1>10. ASSUME UNCHANGED aux PROVE Flags' BY <1>10 DEF aux, Flags
  <1> QED
    BY <1>1, <1>2, <1>3, <1>4, <1>5, <1>6, <1>7, <1>8, <1>9, <1>10
    DEF Next, Handle, Write, Withdraw, Receive, Poll, DeadLetter, VersionUnchanged, ReadKept,
        BytesUnchanged, Extract, TextUnchanged, TextChanged, Unfile, Unlist, Replace,
        BeginAdd, File, List, Touch, vars

-------------------------------------------------------------------------------
(* The steps                                                               *)

LEMMA Known ==
  ASSUME IInv
  PROVE  Main /\ Flags /\ Begun /\ Hand /\ Progress /\ StaysWhole /\ StaysIndexed
  BY TypeParts DEF IInv, Typed

LEMMA Together ==
  ASSUME Flags', Main', Begun', Hand', Progress', StaysWhole', StaysIndexed'
  PROVE  IInv'
  <1>1. TypeOK' BY TypeParts, PTL
  <1> QED BY <1>1 DEF IInv, Typed

LEMMA RemovedTyped ==
  ASSUME NEW q \in Seq(Events), NEW i \in DOMAIN q
  PROVE  SE!RemoveAt(q, i) \in Seq(Events)
  <1>1. i \in 1..Len(q) /\ Len(q) \in Nat OBVIOUS
  <1>2. SubSeq(q, 1, i - 1) \in Seq(Events) /\ SubSeq(q, i + 1, Len(q)) \in Seq(Events)
    BY <1>1
  <1> QED BY <1>2 DEF SE!RemoveAt

LEMMA OutsideStep ==
  ASSUME IInv, Flags',
         \/ \E t \in Texts : Write(t)
         \/ Withdraw
         \/ \E i \in DOMAIN queue : DeadLetter(i)
  PROVE  IInv'
  <1>1. Main /\ Begun /\ Hand /\ Progress /\ StaysWhole /\ StaysIndexed BY Known
  <1> DEFINE Outside ==
        /\ UNCHANGED <<fixed, rows, store, at, work, whole, gap, repeats, faults, seen>>
        /\ object' \in Maybe /\ version' \in 0..MaxVersions
        /\ queue' \in Seq(Events)
  <1>2. Outside
    <2>1. ASSUME NEW t \in Maybe, NEW k \in {"created", "deleted"}, Change(t, k)
          PROVE  Outside
      <3>1. version' \in 1..MaxVersions
        BY <1>1, <2>1, BoundsAreNumbers DEF Change, Main
      <3>2. /\ [kind |-> k, version |-> version'] \in Events
            /\ [kind |-> k, version |-> t] \in Events
        BY <3>1 DEF Events, Sources, Maybe
      <3>3. queue' \in Seq(Events)
        BY <1>1, <2>1, <3>2 DEF Change, Main, Feeders
      <3>4. object' \in Maybe /\ version' \in 0..MaxVersions
        BY <2>1, <3>1, BoundsAreNumbers DEF Change
      <3> QED BY <2>1, <3>3, <3>4 DEF Change
    <2>2. ASSUME NEW i \in DOMAIN queue, DeadLetter(i)
          PROVE  Outside
      <3>1. queue' \in Seq(Events) BY <1>1, <2>2, RemovedTyped DEF DeadLetter, Main
      <3> QED BY <1>1, <2>2, <3>1 DEF DeadLetter, Main, aux
    <2> QED BY <2>1, <2>2 DEF Write, Withdraw, Maybe
  <1>3. Main' BY <1>1, <1>2 DEF Main, fixed, store, work
  <1>4. Begun' BY <1>1, <1>2 DEF Begun
  <1>5. Hand' /\ Progress' BY <1>1, <1>2 DEF Hand, Progress, fixed, store, work
  <1>6. StaysWhole' /\ StaysIndexed' BY <1>1, <1>2 DEF StaysWhole, StaysIndexed, fixed, store, work
  <1> QED BY <1>3, <1>4, <1>5, <1>6, Together

LEMMA BeginStep ==
  ASSUME IInv, Flags', (\E i \in DOMAIN queue : Receive(i)) \/ Poll
  PROVE  IInv'
  <1>1. Main /\ Begun /\ Hand /\ Progress /\ StaysWhole /\ StaysIndexed BY Known
  <1>2. PICK e \in Events : Begin(e) /\ queue' \in Seq(Events) /\ seen' \in 0..MaxVersions
    <2>1. ASSUME NEW i \in DOMAIN queue, Receive(i)
          PROVE  /\ queue[i] \in Events /\ Begin(queue[i])
                 /\ queue' \in Seq(Events) /\ seen' \in 0..MaxVersions
      <3>1. queue' \in Seq(Events) BY <1>1, <2>1, RemovedTyped DEF Receive, Main
      <3> QED BY <1>1, <2>1, <3>1 DEF Receive, Main
    <2>2. CASE Poll
      <3>1. \A k \in {"created", "deleted"} : [kind |-> k, version |-> None] \in Events
        BY DEF Events
      <3>2. seen' \in 0..MaxVersions
        BY <1>1, <2>2, BoundsAreNumbers DEF Poll, Main
      <3> QED BY <1>1, <2>2, <3>1, <3>2 DEF Poll, Main
    <2> QED BY <2>1, <2>2
  <1>3. /\ at = "idle" /\ event' = e /\ e.kind \in {"created", "deleted"}
        /\ at' = IF e.kind = "deleted" THEN "erase" ELSE "check"
        /\ UNCHANGED <<fixed, object, version, rows, store, doc, source, digest, part,
                       repeats, faults, whole, gap>>
    BY <1>2 DEF Begin, Events
  <1>4. Main'
    BY <1>1, <1>2, <1>3 DEF Main, fixed, store, Resting, Replacing
  <1>5. Begun' BY <1>1, <1>3 DEF Begun
  <1>6. Hand' /\ Progress'
    BY <1>1, <1>2, <1>3 DEF Hand, Progress, Main, Resting, Replacing, Adding
  <1>7. StaysWhole' /\ StaysIndexed'
    BY <1>1, <1>3 DEF StaysWhole, StaysIndexed, Resting, fixed, store
  <1> QED BY <1>4, <1>5, <1>6, <1>7, Together

(* What is left when an event has been handled, or could not be.           *)
LEMMA RestStep ==
  ASSUME IInv, Flags', AtRest,
         UNCHANGED <<fixed, object, version, rows, file>>,
         queue' \in {queue, Append(queue, event)}, at # "idle" \/ queue' = queue,
         seen' \in 0..MaxVersions, entry' \in Entries \cup {None},
         repeats' \in 0..MaxRepeats, faults' \in 0..MaxFaults,
         whole' /\ ~gap' => \E t \in Texts : rows = Whole(t),
         ~first /\ entry' # None /\ ~gap' => file = entry'.text /\ rows = Whole(entry'.text)
  PROVE  IInv'
  <1>1. Main /\ Begun /\ Hand BY Known
  <1>2. queue' \in Seq(Events)
    <2>1. queue \in Seq(Events) BY <1>1 DEF Main
    <2>2. at # "idle" => event \in Events BY <1>1 DEF Hand
    <2> QED BY <2>1, <2>2
  <1>3. Main' BY <1>1, <1>2, BatchesAreSome DEF Main, AtRest, Resting, Maybe, fixed
  <1>4. Begun' BY <1>1 DEF Begun
  <1>5. Hand' /\ Progress'
    BY DEF Hand, Progress, AtRest, Resting, Replacing, Adding
  <1>6. StaysWhole' /\ StaysIndexed'
    BY DEF StaysWhole, StaysIndexed, AtRest, fixed, Whole, Size, Parts
  <1> QED BY <1>3, <1>4, <1>5, <1>6, Together

LEMMA ReturnStep ==
  ASSUME IInv, Flags',
         VersionUnchanged \/ BytesUnchanged \/ TextUnchanged \/ Deleted \/ Touch
  PROVE  IInv'
  <1>1. Main /\ Hand /\ Progress /\ StaysWhole /\ StaysIndexed BY Known
  <1>2. /\ Return /\ at # "idle"
        /\ UNCHANGED <<fixed, object, version, seen, rows, file, faults>>
    BY DEF VersionUnchanged, BytesUnchanged, TextUnchanged, Deleted, Touch, store
  <1>3. /\ AtRest
        /\ queue' \in {queue, Append(queue, event)}
        /\ repeats' \in 0..MaxRepeats
    BY <1>1, <1>2, BoundsAreNumbers DEF Return, Again, Main
  <1>4. seen' \in 0..MaxVersions /\ faults' \in 0..MaxFaults BY <1>1, <1>2 DEF Main
  <1>5. ASSUME NEW sha \in Maybe, entry # None, source \in Sources
        PROVE  Touched(sha) \in Entries /\ Touched(sha).text = entry.text
    BY <1>1, <1>5 DEF Touched, Main, Entries
  <1>6. None \in Maybe BY DEF Maybe
  <1>7. CASE VersionUnchanged \/ BytesUnchanged \/ TextUnchanged
    <2>1. at \in Resting /\ UNCHANGED <<whole, gap>>
      BY <1>7 DEF VersionUnchanged, BytesUnchanged, TextUnchanged, Resting, aux
    <2>2. /\ entry' \in Entries \cup {None}
          /\ entry' # None => entry # None /\ entry'.text = entry.text
      <3>1. CASE VersionUnchanged BY <1>1, <3>1 DEF VersionUnchanged, store, Main
      <3>2. CASE BytesUnchanged
        <4>1. entry # None /\ source \in Sources /\ digest \in Maybe
          BY <1>1, <3>2 DEF BytesUnchanged, SameBytes, Hand, Main
        <4> QED BY <1>1, <1>5, <3>2, <4>1 DEF BytesUnchanged, Main
      <3>3. CASE TextUnchanged
        <4>1. source \in Sources BY <1>1, <3>3 DEF TextUnchanged, Hand
        <4> QED BY <1>5, <1>6, <3>3, <4>1 DEF TextUnchanged
      <3> QED BY <1>7, <3>1, <3>2, <3>3
    <2>3. /\ whole' /\ ~gap' => \E t \in Texts : rows = Whole(t)
          /\ ~first /\ entry' # None /\ ~gap' => file = entry'.text /\ rows = Whole(entry'.text)
      BY <1>1, <2>1, <2>2 DEF StaysWhole, StaysIndexed
    <2> QED BY <1>2, <1>3, <1>4, <2>2, <2>3, RestStep
  <1>8. CASE Deleted
    <2>1. ~whole /\ UNCHANGED <<whole, entry>> /\ entry = None
      BY <1>1, <1>8 DEF Deleted, StaysWhole, Progress, store
    <2> QED BY <1>2, <1>3, <1>4, <2>1, RestStep
  <1>9. CASE Touch
    <2>1. /\ entry # None /\ rows = Whole(doc) /\ source \in Sources /\ doc \in Texts
          /\ ~first => file = entry.text /\ entry.text = doc
      BY <1>1, <1>9 DEF Touch, Progress, Hand, Adding
    <2>2. digest \in Maybe BY <1>1 DEF Main
    <2>3. entry' \in Entries /\ entry'.text = entry.text
      BY <1>1, <1>5, <1>9, <2>1, <2>2 DEF Touch, Main
    <2> QED BY <1>2, <1>3, <1>4, <2>1, <2>3, RestStep
  <1> QED BY <1>7, <1>8, <1>9

LEMMA StopStep ==
  ASSUME IInv, Flags', Raise \/ CannotRead \/ Die
  PROVE  IInv'
  <1>1. Main /\ Hand /\ Progress /\ StaysWhole /\ StaysIndexed BY Known
  <1>2. Stop /\ seen' \in 0..MaxVersions /\ faults' \in 0..MaxFaults
    BY <1>1, BoundsAreNumbers DEF Raise, CannotRead, Die, Main
  <1>3. /\ AtRest
        /\ UNCHANGED <<fixed, object, version, rows, file, entry, repeats, whole>>
        /\ queue' \in {queue, Append(queue, event)}
        /\ at # "idle" \/ queue' = queue
        /\ gap' = (gap \/ at \in {"unfile", "unlist", "erased", "write", "file", "list", "rows"})
    BY <1>2 DEF Stop, Again, store
  <1>4. entry \in Entries \cup {None} /\ repeats \in 0..MaxRepeats BY <1>1 DEF Main
  <1>5. CASE gap' BY <1>2, <1>3, <1>4, <1>5, RestStep
  <1>6. CASE ~gap' /\ at = "touch"
    <2>1. rows = Whole(doc) /\ doc \in Texts /\ (~first => file = entry.text /\ entry.text = doc)
      BY <1>1, <1>6 DEF Progress, Hand, Adding
    <2> QED BY <1>2, <1>3, <1>4, <1>6, <2>1, RestStep
  <1>7. CASE ~gap' /\ at # "touch"
    <2>1. at \in Resting \cup {"erase"} /\ ~gap
      BY <1>1, <1>3, <1>7 DEF Main, Resting, Replacing, Adding
    <2>2. /\ whole => \E t \in Texts : rows = Whole(t)
          /\ ~first /\ entry # None => file = entry.text /\ rows = Whole(entry.text)
      BY <1>1, <2>1 DEF StaysWhole, StaysIndexed
    <2> QED BY <1>2, <1>3, <1>4, <2>2, RestStep
  <1> QED BY <1>5, <1>6, <1>7

(* The object is looked at, and read.                                      *)
LEMMA LookStep ==
  ASSUME IInv, Flags', ReadKept \/ Fetch \/ Extract
  PROVE  IInv'
  <1>1. Main /\ Begun /\ Hand /\ Progress /\ StaysWhole /\ StaysIndexed BY Known
  <1>2. /\ UNCHANGED <<fixed, object, version, queue, seen, rows, store, event, part,
                       repeats, faults, whole, gap>>
        /\ at \in {"check", "fetched"} /\ at' \in {"fetched", "compare"}
    BY DEF ReadKept, Fetch, Extract, Go, outside, aux
  <1>3. /\ source' \in Sources /\ digest' \in Maybe /\ doc' \in Maybe
        /\ at' = "fetched" => digest' \in Texts
        /\ at' = "compare" => doc' \in Texts
    <2>1. event \in Events /\ {file, object, digest, doc} \subseteq Maybe
      BY <1>1, <1>2 DEF Hand, Main
    <2>2. CASE ReadKept
      <3>1. file \in Texts /\ event.version \in Sources
        BY <2>1, <2>2 DEF ReadKept, SameVersion, Maybe, Events
      <3> QED BY <2>1, <2>2, <3>1 DEF ReadKept, Go, Maybe
    <2>3. CASE Fetch
      <3>1. object \in Texts /\ SourceVersion(object) \in Sources
        BY <2>1, <2>3 DEF Fetch, SourceVersion, Maybe, Events, Sources
      <3> QED BY <2>1, <2>3, <3>1 DEF Fetch, Go, Maybe
    <2>4. CASE Extract
      <3>1. digest \in Texts /\ source \in Sources /\ doc' \in Texts
        BY <1>1, <2>1, <2>4 DEF Extract, Hand, Maybe
      <3> QED BY <2>1, <2>4, <3>1 DEF Extract, Go, Maybe
    <2> QED BY <2>2, <2>3, <2>4
  <1>4. Main' BY <1>1, <1>2, <1>3 DEF Main, Resting, fixed, store
  <1>5. Begun' BY <1>1, <1>2 DEF Begun
  <1>6. Hand' /\ Progress'
    BY <1>1, <1>2, <1>3 DEF Hand, Progress, Resting, Replacing, Adding
  <1>7. StaysWhole' /\ StaysIndexed'
    BY <1>1, <1>2 DEF StaysWhole, StaysIndexed, Resting, fixed, store
  <1> QED BY <1>4, <1>5, <1>6, <1>7, Together

LEMMA TextChangedStep ==
  ASSUME IInv, Flags', TextChanged
  PROVE  IInv'
  <1>1. Main /\ Begun /\ Hand /\ Progress /\ StaysWhole /\ StaysIndexed BY Known
  <1>2. /\ UNCHANGED <<fixed, object, version, queue, seen, rows, store, event, doc, source,
                       digest, part, repeats, faults, whole, gap>>
        /\ at = "compare" /\ at' \in {"write", "erase"}
        /\ at' = "write" => Current = None
    BY DEF TextChanged, NoneThere, Go, outside, aux, work
  <1>3. at' = "write" => rows = NoRows BY <1>1, <1>2, CurrentIs
  <1>4. Main' BY <1>1, <1>2 DEF Main, Replacing, Adding, fixed, store
  <1>5. Begun' BY <1>1, <1>2 DEF Begun
  <1>6. Hand' /\ Progress'
    BY <1>1, <1>2, <1>3 DEF Hand, Progress, Resting, Replacing, Adding
  <1>7. StaysWhole' /\ StaysIndexed'
    BY <1>1, <1>2 DEF StaysWhole, StaysIndexed, Resting, fixed, store
  <1> QED BY <1>4, <1>5, <1>6, <1>7, Together

LEMMA EraseStep ==
  ASSUME IInv, Flags', Erase \/ Unfile \/ Unlist \/ Replace
  PROVE  IInv'
  <1>1. Main /\ Begun /\ Hand /\ Progress /\ StaysWhole BY Known
  <1>2. /\ UNCHANGED <<fixed, object, version, queue, seen, event, doc, source,
                       digest, part, repeats, faults>>
        /\ at \in Replacing /\ at' \in {"unfile", "unlist", "erased", "write"}
        /\ at' = "write" => event.kind = "created"
    BY DEF Erase, Unfile, Unlist, Replace, Go, outside, aux, work, Replacing
  <1>3. /\ rows' = NoRows /\ file' \in {file, None} /\ entry' \in {entry, None}
        /\ at' \in {"unfile", "unlist"} => entry' # None
        /\ at' = "erased" => entry' = None
        /\ at' \in {"unfile", "unlist", "erased"} /\ event.kind = "deleted" => ~whole'
    <2>1. CASE Erase BY <1>1, <2>1 DEF Erase, Go, store
    <2>2. CASE Unfile BY <1>1, <2>2 DEF Unfile, Go, aux, Progress, StaysWhole
    <2>3. CASE Unlist BY <1>1, <2>3 DEF Unlist, Go, aux, Progress, StaysWhole
    <2>4. CASE Replace BY <1>1, <2>4 DEF Replace, Go, aux, store, Progress
    <2> QED BY <2>1, <2>2, <2>3, <2>4
  <1>4. NoRows \in [Parts -> Maybe] BY DEF NoRows, Maybe
  <1>5. Main' BY <1>1, <1>2, <1>3, <1>4 DEF Main, Replacing, Adding, Maybe, fixed
  <1>6. Begun' BY <1>3 DEF Begun
  <1>7. Hand' /\ Progress'
    BY <1>1, <1>2, <1>3 DEF Hand, Progress, Resting, Replacing, Adding
  <1>8. StaysWhole' /\ StaysIndexed'
    BY <1>2, <1>3 DEF StaysWhole, StaysIndexed, Resting
  <1> QED BY <1>5, <1>6, <1>7, <1>8, Together

LEMMA AddStep ==
  ASSUME IInv, Flags', BeginAdd \/ File \/ List
  PROVE  IInv'
  <1>1. Main /\ Begun /\ Hand /\ Progress BY Known
  <1>2. /\ UNCHANGED <<fixed, object, version, queue, seen, rows, event, source,
                       digest, part, repeats, faults>>
        /\ at \in {"write", "file", "list"} /\ at' \in {"file", "list", "rows", "touch"}
        /\ doc \in Texts /\ source \in Sources /\ event.kind = "created"
    BY <1>1 DEF BeginAdd, File, List, Go, outside, work, Adding, Hand
  <1>3. /\ doc' \in Texts /\ file' \in Maybe /\ entry' \in Entries \cup {None}
        /\ at' = "list" => file' = doc'
        /\ at' \in {"file", "list"} => rows = IF first THEN NoRows ELSE Whole(doc')
        /\ at' \in {"file", "list"} /\ first => part = 1
        /\ at' = "rows" => part = 1 /\ rows = NoRows /\ (first => entry' # None)
        /\ at' = "touch" => /\ rows = Whole(doc') /\ entry' # None
                            /\ ~first => file' = entry'.text /\ entry'.text = doc'
    <2>1. CASE BeginAdd
      <3>1. at = "write" /\ rows = NoRows /\ part = 1 /\ UNCHANGED store
        BY <1>1, <2>1 DEF BeginAdd, Progress, Hand
      <3>2. /\ doc' \in Texts
            /\ at' = "file" => first
            /\ at' = "rows" /\ first => entry # None
            /\ at' \in {"file", "rows"}
        BY <1>1, <1>2, <2>1 DEF BeginAdd, Go, KeptAsItIs, Main, Maybe
      <3> QED BY <1>1, <3>1, <3>2 DEF store, Main
    <2>2. CASE File
      <3>1. /\ at = "file" /\ at' = "list" /\ file' = doc /\ UNCHANGED <<doc, entry>>
            /\ rows = IF first THEN NoRows ELSE Whole(doc)
            /\ first => part = 1
        BY <1>1, <2>2 DEF File, Go, work, Progress, Hand
      <3> QED BY <1>1, <1>2, <3>1 DEF Main, Maybe
    <2>3. CASE List
      <3>1. /\ at = "list" /\ at' = (IF first THEN "rows" ELSE "touch") /\ file = doc
            /\ entry' = [text |-> doc, source |-> source, sha |-> None]
            /\ UNCHANGED <<doc, file>>
            /\ rows = IF first THEN NoRows ELSE Whole(doc)
            /\ first => part = 1
        BY <1>1, <2>3 DEF List, Go, work, Progress, Hand
      <3>2. entry' \in Entries /\ entry'.text = doc BY <1>2, <3>1 DEF Entries, Maybe
      <3>3. entry' # None BY <3>2, NoneIsNoEntry DEF Entries, Sources, Maybe
      <3> QED BY <1>1, <1>2, <3>1, <3>2, <3>3 DEF Main, Maybe
    <2> QED BY <2>1, <2>2, <2>3
  <1>4. Main' BY <1>1, <1>2, <1>3 DEF Main, Adding, Maybe, fixed
  <1>5. Begun' BY <1>1, <1>2 DEF Begun
  <1>6. Whole(doc)' = Whole(doc') BY DEF Whole, Size, Parts
  <1>7. Hand'
    BY <1>1, <1>2, <1>3, SizeIs DEF Hand, Resting, Replacing, Adding, fixed, Size
  <1>8. Progress'
    BY <1>1, <1>2, <1>3, <1>6, RowsBegin DEF Progress, fixed
  <1>9. StaysWhole' /\ StaysIndexed'
    BY <1>2 DEF StaysWhole, StaysIndexed, Resting
  <1> QED BY <1>4, <1>5, <1>7, <1>8, <1>9, Together

LEMMA AddBatchStep ==
  ASSUME IInv, Flags', AddBatch
  PROVE  IInv'
  <1>1. Main /\ Begun /\ Hand /\ Progress BY Known
  <1>2. /\ UNCHANGED <<fixed, object, version, queue, seen, store, event, doc, source,
                       digest, repeats, faults>>
        /\ at = "rows" /\ doc \in Texts /\ source \in Sources /\ event.kind = "created"
        /\ part' = part + 1 /\ part \in 1..Size(doc) /\ Size(doc) \in 1..Batches
        /\ rows = Batch(doc, part - 1) /\ rows' = [rows EXCEPT ![part] = doc]
        /\ first => entry # None
    BY <1>1, SizeIs, BatchesAreSome
    DEF AddBatch, outside, store, Adding, Hand, Progress, Main
  <1>3. part \in 1..Batches /\ rows' = Batch(doc, part)
    BY <1>2, OneMore, BatchesAreSome
  <1>4. IF part = Size(doc)
        THEN at' = (IF first THEN "touch" ELSE "file")
        ELSE at' = "rows" /\ part + 1 <= Size(doc)
    BY <1>2, BatchesAreSome DEF AddBatch, LastBatch, Go
  <1>5. rows' \in [Parts -> Maybe]
    <2>1. part \in 0..Batches BY <1>3, BatchesAreSome
    <2>2. Batch(doc, part) \in [Parts -> Maybe] BY <1>2, <2>1, BatchIs
    <2> QED BY <1>3, <2>2
  <1>6. Main'
    BY <1>1, <1>2, <1>3, <1>4, <1>5, BatchesAreSome DEF Main, Adding, fixed, store
  <1>7. Begun' BY <1>2, <1>3 DEF Begun, Batch, Parts
  <1>8. part = Size(doc) => rows' = Whole(doc)
    BY <1>3, SizeIs
  <1>9. Whole(doc)' = Whole(doc) BY <1>2 DEF Whole, Size, Parts
  <1>10. Hand'
    BY <1>1, <1>2, <1>3, <1>4 DEF Hand, Resting, Replacing, Adding, fixed, Size
  <1>11. Progress'
    <2>1. part' - 1 = part BY <1>2, <1>3
    <2>2. Batch(doc, part - 1)' = Batch(doc, part) BY <1>2, <2>1 DEF Batch, Parts
    <2> QED BY <1>2, <1>3, <1>4, <1>8, <1>9, <2>2 DEF Progress, fixed, store
  <1>12. StaysWhole' /\ StaysIndexed'
    BY <1>4 DEF StaysWhole, StaysIndexed, Resting
  <1> QED BY <1>6, <1>7, <1>10, <1>11, <1>12, Together

LEMMA Step == IInv /\ [Next]_vars => IInv'
  <1> SUFFICES ASSUME IInv, [Next]_vars PROVE IInv' OBVIOUS
  <1>1. Flags' BY Known, FlagsStep
  <1>2. CASE UNCHANGED vars
    <2>1. Main' /\ Begun' /\ Hand' /\ Progress' /\ StaysWhole' /\ StaysIndexed'
      BY <1>2, Known
      DEF vars, fixed, outside, store, work, aux, Main, Begun, Hand, Progress, StaysWhole,
          StaysIndexed
    <2> QED BY <1>1, <2>1, Together
  <1> QED
    BY <1>1, <1>2, OutsideStep, BeginStep, ReturnStep, StopStep, LookStep, TextChangedStep,
       EraseStep, AddStep, AddBatchStep
    DEF Next, Handle

-------------------------------------------------------------------------------
(* Every variable keeps its type, and a worker at rest has nothing in      *)
(* hand: TypeOK of the runs, for any texts, batches, events and faults.    *)
THEOREM TypeCorrect == Spec => []TypeOK
  <1>1. IInv => TypeOK BY DEF IInv, Typed
  <1> QED BY InitTyped, Step, <1>1, PTL DEF Spec

(* Between events what was written is whole, and of one text.              *)
THEOREM AlwaysWhole == Spec => []WholeBetweenEvents
  <1>1. IInv => WholeBetweenEvents
    BY DEF IInv, StaysWhole, WholeBetweenEvents, Resting
  <1> QED BY InitTyped, Step, <1>1, PTL DEF Spec

(* Between events what is listed is indexed, all of it, and its file is    *)
(* there, where chunks are written first.                                  *)
THEOREM ListedAreIndexed == Spec => []NeverKeptUnindexed
  <1>1. IInv => NeverKeptUnindexed
    BY DEF IInv, StaysIndexed, NeverKeptUnindexed, Resting
  <1> QED BY InitTyped, Step, <1>1, PTL DEF Spec
===============================================================================
