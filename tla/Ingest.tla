-------------------------------- MODULE Ingest ---------------------------------
(***************************************************************************)
(* worker.py: IngestWorker.handle() and LocalWatcher.poll(), with          *)
(* add_document() and delete_document() of easy.py and the DocumentStore   *)
(* of documents.py, for one object in a bucket or one file in a folder.    *)
(*                                                                         *)
(* The object is written and removed by others.  A queue tells the worker  *)
(* of each change, once or more and in any order, and again when handling  *)
(* raises; a watcher compares the file with what it saw last.  The worker  *)
(* fetches the object as it is then, not as it was when the event was      *)
(* sent.  A document's chunks are written in batches, each in a commit of  *)
(* its own, stamped with its text's version.  The store keeps a Markdown   *)
(* file and lists it in another, after the chunks or, with markdown_first, *)
(* before them.  Any call may raise, and the process may die between any   *)
(* two.                                                                    *)
(*                                                                         *)
(* A text's version and the hash of its bytes are the text.                *)
(***************************************************************************)
EXTENDS Integers, Sequences

SE == INSTANCE SequencesExt

CONSTANTS
  Texts,       \* what the object may say
  Unreadable,  \* those that no extractor reads
  Short,       \* those that are one batch of chunks
  None,        \* no object, text, version or entry
  Batches,     \* how many batches of chunks the others are
  MaxVersions, \* bound: how often the object changes
  MaxRepeats,  \* bound: how often an event that was handled comes again
  MaxFaults    \* bound: how often a call raises or the process dies

ASSUME NoneIsNothing == None \notin Texts \cup Nat
ASSUME NoneIsNoEntry ==
  None \notin [text : Texts, source : Texts \cup 1..MaxVersions, sha : Texts \cup {None}]
ASSUME BatchesAreSome == Batches \in Nat \ {0}
ASSUME BoundsAreNumbers == {MaxVersions, MaxRepeats, MaxFaults} \subseteq Nat

VARIABLES
  feeder,  \* what tells of changes: a queue, whose versions are numbers or
           \* hashes of the text, or a watcher, which knows of no version
  first,   \* markdown_first
  object,  \* the object's text
  version, \* how often it has changed
  queue,   \* the events not yet taken off the queue
  seen,    \* the watcher's snapshot: the version it saw last
  rows,    \* the text that each batch of chunks is stamped with
  file,    \* the text of the Markdown file
  entry,   \* the store's entry: version, source_version and source_sha
  at,      \* where the worker is
  event,   \* the event it handles
  doc,     \* the document it has read
  source,  \* the source_version it will stamp
  digest,  \* the hash of the bytes, when it fetched them
  part,    \* the next batch to write
  repeats, \* how often an event has come again
  faults,  \* how many faults there have been
  whole,   \* auxiliary: a document was written whole, and not deleted since
  gap,     \* auxiliary: a write was cut short, and none done since
  partial, \* auxiliary: it was cut short between two batches
  late,    \* auxiliary: a deletion was told of after the object was back
  missed,  \* auxiliary: a change the watcher saw and nobody handled
  misnamed \* auxiliary: the hash of a text was noted for another text

outside == <<object, version, queue>>
store == <<file, entry>>
work == <<event, doc, source, digest, part>>
aux == <<whole, gap, partial, late, missed, misnamed>>
fixed == <<feeder, first>>

vars == <<fixed, outside, seen, rows, store, at, work, repeats, faults, aux>>

Parts == 1..Batches
NoRows == [p \in Parts |-> None]
NoEvent == [kind |-> None, version |-> None]
Size(t) == IF t \in Short THEN 1 ELSE Batches
Whole(t) == [p \in Parts |-> IF p <= Size(t) THEN t ELSE None]

(* _current_version(): what the first chunk there is is stamped with.      *)
Current ==
  IF rows = NoRows THEN None
  ELSE rows[CHOOSE p \in Parts : rows[p] # None /\ \A o \in Parts : o < p => rows[o] = None]

Feeders == {"numbers", "hashes", "watcher"}

Init ==
  /\ feeder \in Feeders /\ first \in BOOLEAN
  /\ object = None /\ version = 0 /\ queue = <<>> /\ seen = 0
  /\ rows = NoRows /\ file = None /\ entry = None
  /\ at = "idle" /\ event = NoEvent /\ doc = None /\ source = None
  /\ digest = None /\ part = 1
  /\ repeats = 0 /\ faults = 0
  /\ whole = FALSE /\ gap = FALSE /\ partial = FALSE
  /\ late = FALSE /\ missed = FALSE /\ misnamed = FALSE

-------------------------------------------------------------------------------
(* The object, and who tells of it                                         *)

(* Only Fetch and the feeders look at the object: a change during another  *)
(* step is as one after the event it is in.                                *)
Change(text, kind) ==
  /\ at \in {"idle", "check"}
  /\ version < MaxVersions
  /\ version' = version + 1
  /\ object' = text
  /\ queue' = CASE feeder = "numbers" -> Append(queue, [kind |-> kind, version |-> version'])
                [] feeder = "hashes"  -> Append(queue, [kind |-> kind, version |-> text])
                [] feeder = "watcher" -> queue
  /\ missed' = (missed \/ (feeder = "watcher" /\ kind = "deleted" /\ seen = 0 /\ rows # NoRows))
  /\ UNCHANGED <<fixed, seen, rows, store, at, work, repeats, faults,
                 whole, gap, partial, late, misnamed>>

Write(t) == Change(t, "created")
Withdraw == object # None /\ Change(None, "deleted")

Begin(e) ==
  /\ at = "idle"
  /\ event' = e
  /\ at' = IF e.kind = "deleted" THEN "erase" ELSE "check"
  /\ late' = (late \/ (e.kind = "deleted" /\ object # None))
  /\ UNCHANGED <<fixed, object, version, rows, store, doc, source, digest, part,
                 repeats, faults, whole, gap, partial, missed, misnamed>>

(* Any event on the queue.                                                 *)
Receive(i) ==
  /\ Begin(queue[i])
  /\ queue' = SE!RemoveAt(queue, i)
  /\ UNCHANGED seen

(* poll() has it that what it saw is seen before it is handled.            *)
Poll ==
  LET now == IF object = None THEN 0 ELSE version IN
  /\ feeder = "watcher"
  /\ seen # now
  /\ seen' = now
  /\ Begin([kind |-> IF object = None THEN "deleted" ELSE "created", version |-> None])
  /\ UNCHANGED queue

-------------------------------------------------------------------------------
(* handle()                                                                *)

Go(where) == at' = where

(* Wrong: the next document begins at the batch where this one stopped.    *)
(* (TypeOK)                                                                *)
GoesOnAtBatch == /\ event' = NoEvent /\ doc' = None /\ source' = None
                 /\ digest' = None /\ part' = part /\ at' = "idle"

AtRest == /\ event' = NoEvent /\ doc' = None /\ source' = None
          /\ digest' = None /\ part' = 1 /\ at' = "idle"

Again == queue' = IF feeder = "watcher" THEN queue ELSE Append(queue, event)

(* The worker returns, and the event is acknowledged, or will come again.  *)
Return ==
  /\ AtRest
  /\ \/ UNCHANGED <<queue, repeats>>
     \/ /\ feeder # "watcher"
        /\ repeats < MaxRepeats
        /\ repeats' = repeats + 1
        /\ Again


SameVersion == entry # None /\ event.version # None /\ entry.source = event.version

KnownVersion == SameVersion /\ Current # None

(* Stage one: the object's version is the one kept, and it is indexed.     *)
VersionUnchanged ==
  /\ at = "check"
  /\ KnownVersion
  /\ Return
  /\ UNCHANGED <<fixed, object, version, seen, rows, store, faults, aux>>

(* Kept and not indexed: a later step failed last time, and this try       *)
(* starts from the Markdown.                                               *)
ReadKept ==
  /\ at = "check"
  /\ first /\ SameVersion /\ ~KnownVersion
  /\ file # None
  /\ doc' = file
  /\ source' = event.version
  /\ Go("compare")
  /\ UNCHANGED <<fixed, outside, seen, rows, store, event, digest, part, repeats, faults, aux>>

SourceVersion(bytes) == IF event.version # None THEN event.version ELSE bytes

(* The bytes as they are now.                                              *)
Fetch ==
  /\ at = "check"
  /\ ~KnownVersion /\ ~(first /\ SameVersion)
  /\ object # None
  /\ digest' = object
  /\ source' = SourceVersion(object)
  /\ misnamed' = (misnamed \/ (feeder = "hashes" /\ source' # object))
  /\ Go("fetched")
  /\ UNCHANGED <<fixed, outside, seen, rows, store, event, doc, part, repeats, faults,
                 whole, gap, partial, late, missed>>

SameBytes ==
  /\ entry # None
  /\ entry.source = source \/ entry.sha = digest
  /\ Current # None

(* touch()                                                                 *)
Touched(sha) == [entry EXCEPT !.source = source, !.sha = IF sha = None THEN @ ELSE sha]

(* The same bytes under a new version: noted, and not read again.          *)
BytesUnchanged ==
  /\ at = "fetched"
  /\ SameBytes
  /\ entry' = IF entry.source = source THEN entry ELSE Touched(digest)
  /\ entry' # entry => file # None
  /\ Return
  /\ UNCHANGED <<fixed, object, version, seen, rows, file, faults, aux>>

(* Kept under this version and not indexed, as above; else what was        *)
(* fetched is read.                                                        *)
Extract ==
  LET resume == first /\ entry # None /\ entry.source = source IN
  /\ at = "fetched"
  /\ ~SameBytes
  /\ IF resume THEN file # None ELSE digest \notin Unreadable
  /\ doc' = IF resume THEN file ELSE digest
  /\ Go("compare")
  /\ UNCHANGED <<fixed, outside, seen, rows, store, event, source, digest, part,
                 repeats, faults, aux>>

(* Stage two: the text is the one indexed.                                 *)
TextUnchanged ==
  /\ at = "compare"
  /\ Current = doc
  /\ entry # None => file # None
  /\ entry' = IF entry = None THEN None ELSE Touched(None)
  /\ Return
  /\ UNCHANGED <<fixed, object, version, seen, rows, file, faults, aux>>

(* Wrong: what is there is written over, not deleted first.                *)
(* (WholeBetweenEvents)                                                    *)
NothingToErase == TRUE

NoneThere == Current = None

(* What is indexed goes before what is new comes.                          *)
TextChanged ==
  /\ at = "compare"
  /\ Current # doc
  /\ Go(IF NoneThere THEN "write" ELSE "erase")
  /\ UNCHANGED <<fixed, outside, seen, rows, store, work, repeats, faults, aux>>

-------------------------------------------------------------------------------
(* delete_document(): the chunks, the Markdown file, its entry             *)

Erase ==
  /\ at = "erase"
  /\ rows' = NoRows
  /\ whole' = (whole /\ event.kind # "deleted")
  /\ Go(IF entry = None THEN "erased" ELSE "unfile")
  /\ UNCHANGED <<fixed, outside, seen, store, work, repeats, faults,
                 gap, partial, late, missed, misnamed>>

Unfile ==
  /\ at = "unfile"
  /\ file' = None
  /\ Go("unlist")
  /\ UNCHANGED <<fixed, outside, seen, rows, entry, work, repeats, faults, aux>>

Unlist ==
  /\ at = "unlist"
  /\ entry' = None
  /\ Go("erased")
  /\ UNCHANGED <<fixed, outside, seen, rows, file, work, repeats, faults, aux>>

Replace ==
  /\ at = "erased"
  /\ event.kind = "created"
  /\ Go("write")
  /\ UNCHANGED <<fixed, outside, seen, rows, store, work, repeats, faults, aux>>

Deleted ==
  /\ at = "erased"
  /\ event.kind = "deleted"
  /\ gap' = FALSE
  /\ partial' = FALSE
  /\ Return
  /\ UNCHANGED <<fixed, object, version, seen, rows, store, faults, whole, late, missed, misnamed>>

-------------------------------------------------------------------------------
(* add_document(): the Markdown file and its entry, the batches of chunks  *)

(* markdown_first: a document already kept as it is, is not kept again;    *)
(* what is cut is what was kept, read back.                                *)
KeptAsItIs == entry # None /\ entry.text = doc /\ entry.source = source

BeginAdd ==
  /\ at = "write"
  /\ IF first /\ KeptAsItIs
     THEN file # None /\ doc' = file /\ Go("rows")
     ELSE doc' = doc /\ Go(IF first THEN "file" ELSE "rows")
  /\ UNCHANGED <<fixed, outside, seen, rows, store, event, source, digest, part,
                 repeats, faults, aux>>

File ==
  /\ at = "file"
  /\ file' = doc
  /\ Go("list")
  /\ UNCHANGED <<fixed, outside, seen, rows, entry, work, repeats, faults, aux>>

List ==
  /\ at = "list"
  /\ entry' = [text |-> doc, source |-> source, sha |-> None]
  /\ Go(IF first THEN "rows" ELSE "touch")
  /\ UNCHANGED <<fixed, outside, seen, rows, file, work, repeats, faults, aux>>

(* Wrong: the last batch is taken for written when it is begun.            *)
(* (NeverKeptUnindexed)                                                    *)
LastIsBegun == part >= Size(doc) - 1

LastBatch == part = Size(doc)

AddBatch ==
  /\ at = "rows"
  /\ rows' = [rows EXCEPT ![part] = doc]
  /\ part' = part + 1
  /\ IF LastBatch
     THEN /\ Go(IF first THEN "touch" ELSE "file")
          /\ whole' = TRUE /\ gap' = FALSE /\ partial' = FALSE
     ELSE /\ Go("rows")
          /\ UNCHANGED <<whole, gap, partial>>
  /\ UNCHANGED <<fixed, outside, seen, store, event, doc, source, digest,
                 repeats, faults, late, missed, misnamed>>

(* The bytes' own hash beside the version.                                 *)
Touch ==
  /\ at = "touch"
  /\ file # None
  /\ entry' = IF digest = None THEN entry ELSE Touched(digest)
  /\ Return
  /\ UNCHANGED <<fixed, object, version, seen, rows, file, faults, aux>>

-------------------------------------------------------------------------------
(* Handling stops where it is, and the event is on the queue again; the    *)
(* watcher has seen it and will not look again.                            *)
Stop ==
  /\ AtRest
  /\ IF at = "idle" THEN UNCHANGED queue ELSE Again
  /\ gap' = (gap \/ at \in {"unfile", "unlist", "erased", "write", "file", "list", "rows"})
  /\ partial' = (partial \/ (at = "rows" /\ part > 1))
  /\ UNCHANGED <<fixed, object, version, rows, store, repeats, whole, late, misnamed>>

(* A call raises: the store, the model that embeds, the fetch.             *)
Raise ==
  /\ at # "idle"
  /\ faults < MaxFaults
  /\ faults' = faults + 1
  /\ Stop
  /\ missed' = (missed \/ feeder = "watcher")
  /\ UNCHANGED seen

(* No text can be read, or the object or the kept file is gone.            *)
CannotRead ==
  /\ \/ /\ at = "check" /\ ~KnownVersion
        /\ IF first /\ SameVersion THEN file = None ELSE object = None
     \/ /\ at = "fetched" /\ ~SameBytes
        /\ IF first /\ entry # None /\ entry.source = source
           THEN file = None ELSE digest \in Unreadable
     \/ /\ file = None
        /\ \/ at = "fetched" /\ SameBytes /\ entry.source # source
           \/ at = "compare" /\ Current = doc /\ entry # None
           \/ at = "write" /\ first /\ KeptAsItIs
  /\ Stop
  /\ missed' = (missed \/ (feeder = "watcher" /\ object \notin Unreadable \cup {None}))
  /\ UNCHANGED <<seen, faults>>

(* The process dies and another starts; a watcher starts with nothing      *)
(* seen, so it tells again of a file that is there, and of none that went. *)
Die ==
  /\ faults < MaxFaults
  /\ faults' = faults + 1
  /\ Stop
  /\ seen' = 0
  /\ missed' = (missed \/ (feeder = "watcher" /\ object = None))

(* An event that cannot be handled for good goes to the dead letters.      *)
DeadLetter(i) ==
  /\ at = "idle"
  /\ queue[i].kind = "created"
  /\ object \in Unreadable \cup {None}
  /\ queue' = SE!RemoveAt(queue, i)
  /\ UNCHANGED <<fixed, object, version, seen, rows, store, at, work, repeats, faults, aux>>

Handle ==
  \/ VersionUnchanged \/ ReadKept \/ Fetch \/ BytesUnchanged \/ Extract
  \/ TextUnchanged \/ TextChanged
  \/ Erase \/ Unfile \/ Unlist \/ Replace \/ Deleted
  \/ BeginAdd \/ File \/ List \/ AddBatch \/ Touch
  \/ CannotRead

Next ==
  \/ \E t \in Texts : Write(t)
  \/ Withdraw
  \/ \E i \in DOMAIN queue : Receive(i) \/ DeadLetter(i)
  \/ Poll
  \/ Handle
  \/ Raise \/ Die

Spec == Init /\ [][Next]_vars

(* The worker goes on with what it handles, the queue delivers the event   *)
(* that has waited longest, among others, and the watcher polls.           *)
FairSpec ==
  /\ Spec
  /\ WF_vars(Handle)
  /\ SF_vars(queue # <<>> /\ Receive(1))
  /\ WF_vars(Poll)

-------------------------------------------------------------------------------
(* Properties                                                              *)

Maybe == Texts \cup {None}
Sources == Texts \cup 1..MaxVersions
Events == [kind : {"created", "deleted"}, version : Sources \cup {None}]

(* Every variable has its type; at rest, the worker has nothing in hand.   *)
TypeOK ==
  /\ feeder \in Feeders /\ first \in BOOLEAN
  /\ object \in Maybe /\ version \in 0..MaxVersions
  /\ queue \in Seq(Events) /\ seen \in 0..MaxVersions
  /\ rows \in [Parts -> Maybe] /\ file \in Maybe
  /\ entry \in [text : Texts, source : Sources, sha : Maybe] \cup {None}
  /\ at \in {"idle", "check", "fetched", "compare", "erase", "unfile", "unlist",
             "erased", "write", "file", "list", "rows", "touch"}
  /\ event \in Events \cup {NoEvent}
  /\ doc \in Maybe /\ source \in Sources \cup {None} /\ digest \in Maybe
  /\ part \in 1..Batches + 1
  /\ at = "idle" => event = NoEvent /\ doc = None /\ source = None /\ part = 1
  /\ repeats \in 0..MaxRepeats /\ faults \in 0..MaxFaults
  /\ {whole, gap, partial, late, missed, misnamed} \subseteq BOOLEAN

(* "Either way the document's existing chunks are untouched: the old ones  *)
(* are only replaced once there is new text to replace them with", and     *)
(* none of them is left among the new: between events a document that was  *)
(* written is there, whole and of one text, through events that come       *)
(* twice, in any order, or cannot be handled, unless a write was cut       *)
(* short.                                                                  *)
WholeBetweenEvents ==
  whole /\ ~gap /\ at \in {"idle", "check", "fetched", "compare"} =>
    \E t \in Texts : rows = Whole(t)

(* "So the store never holds a document the index refused": without        *)
(* markdown_first, what is listed is what is indexed, all of it, and its   *)
(* file is there, between events and unless a write was cut short.         *)
NeverKeptUnindexed ==
  ~first /\ entry # None /\ ~gap /\ at \in {"idle", "check", "fetched", "compare"} =>
    file = entry.text /\ rows = Whole(entry.text)

===============================================================================
