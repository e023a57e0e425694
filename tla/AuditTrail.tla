------------------------------ MODULE AuditTrail -------------------------------
(***************************************************************************)
(* audit.py: AuditSink.write(), _to_spool() and drain() on an              *)
(* AppendLogSink, and append_log.py: BlobDayLog.append() and lines().      *)
(*                                                                         *)
(* A writer records an answer: a line appended to its day's append blob,   *)
(* which the first to write makes and which, when it is full, goes on in   *)
(* another.  When the blob cannot be written the answer is refused, or     *)
(* with a Spool the record goes to a file on the server, and a writer that *)
(* drains the file appends its records in turn.  Nothing locks the file:   *)
(* others spool, and drain, meanwhile.  A call may fail before or after it *)
(* took effect, and a server may die.                                      *)
(*                                                                         *)
(* A record is its writer and its number; the order of a spool's lines is  *)
(* left out.                                                               *)
(***************************************************************************)
EXTENDS Integers, Sequences

CONSTANTS
  Writers,    \* threads that answer, or drain
  Servers,    \* processes, a spool file each
  None,       \* a blob that is not there, and no call under way
  BlockLimit, \* blocks in an append blob
  MaxParts,   \* append blobs a day may take after its first
  MaxDays,    \* bound: days
  MaxRecords, \* bound: records of one writer
  MaxFaults   \* bound: calls that fail, and servers that die

ASSUME LimitsAreNumbers ==
  MaxDays \in Nat \ {0} /\ {BlockLimit, MaxParts, MaxRecords, MaxFaults} \subseteq Nat
ASSUME NoneIsNoBlob == None \notin Seq(Writers \X (1..MaxRecords))

VARIABLES
  home,      \* each writer's server
  spools,    \* on_failure is a Spool; else it is DENY
  blobs,     \* the lines of each blob, or None
  clock,     \* each server's day
  parts,     \* _parts: where each server's day goes on
  spool,     \* each server's spool file: the records in it
  at,        \* where each writer is
  call,      \* its append(): the record, the day, the part, whether it made the blob
  draining,  \* it replays the spool
  read,      \* what it read in the spool
  left,      \* what of it is not yet replayed
  count,     \* how many records each writer has written
  answered,  \* the records whose write() returned
  faults,    \* how many faults there have been
  names,     \* the reader's blobs still to download
  got,       \* the lines it has
  must,      \* auxiliary: what was in the log when it began
  spooled,   \* auxiliary: the records that went to a spool
  overtaken, \* auxiliary: those put in a spool that a drain had read already
  cut        \* auxiliary: those in memory when a rewrite of the spool died

fixed == <<home, spools>>
log == <<blobs, clock, parts>>
drain == <<draining, read, left>>
reader == <<names, got, must>>
aux == <<spooled, overtaken, cut>>

vars == <<fixed, log, spool, at, call, drain, count, answered, faults, reader, aux>>

Days == 1..MaxDays
Names == Days \X (0..MaxParts)
Records == Writers \X (1..MaxRecords)

Lines(n) == IF blobs[n] = None THEN {} ELSE {blobs[n][i] : i \in DOMAIN blobs[n]}
Present == {n \in Names : blobs[n] # None}
Logged == UNION {Lines(n) : n \in Names}
Spooled == UNION {spool[s] : s \in Servers}

(* What a drain holds between emptying the spool and writing it again.     *)
Rewriting == UNION {left[w] : w \in {v \in Writers : at[v] = "rewritten"}}

Init ==
  /\ home \in [Writers -> Servers] /\ spools \in BOOLEAN
  /\ blobs = [n \in Names |-> None]
  /\ clock = [s \in Servers |-> 1]
  /\ parts = [s \in Servers |-> [d \in Days |-> 0]]
  /\ spool = [s \in Servers |-> {}]
  /\ at = [w \in Writers |-> "idle"] /\ call = [w \in Writers |-> None]
  /\ draining = [w \in Writers |-> FALSE]
  /\ read = [w \in Writers |-> {}] /\ left = [w \in Writers |-> {}]
  /\ count = [w \in Writers |-> 0]
  /\ answered = {} /\ faults = 0
  /\ names = {} /\ got = <<>> /\ must = {}
  /\ spooled = {} /\ overtaken = {} /\ cut = {}

Go(w, where) == at' = [at EXCEPT ![w] = where]

-------------------------------------------------------------------------------
(* append()                                                                *)

(* The server's day, and the part of it that it knows to go on.            *)
BeginAppend(w, r) ==
  LET d == clock[home[w]] IN
  /\ call' = [call EXCEPT ![w] =
                [record |-> r, day |-> d, part |-> parts[home[w]][d], made |-> FALSE]]
  /\ Go(w, "append")

(* Wrong: the append() that has ended stays in hand. (TypeOK)              *)
StaysInHand(w) == call' = call

EndAppend(w) == call' = [call EXCEPT ![w] = None]

Write(w) ==
  /\ at[w] = "idle"
  /\ count[w] < MaxRecords
  /\ count' = [count EXCEPT ![w] = @ + 1]
  /\ BeginAppend(w, <<w, count[w] + 1>>)
  /\ UNCHANGED <<fixed, log, spool, drain, answered, faults, reader, aux>>

Blob(w) == <<call[w].day, call[w].part>>
There(w) == blobs[Blob(w)] # None
Full(w) == There(w) /\ Len(blobs[Blob(w)]) >= BlockLimit

Appended(w) == blobs' = [blobs EXCEPT ![Blob(w)] = Append(@, call[w].record)]

AppendBlock(w) ==
  /\ at[w] = "append"
  /\ There(w) /\ ~Full(w)
  /\ Appended(w)
  /\ Go(w, "wrote")
  /\ UNCHANGED <<fixed, clock, parts, spool, call, drain, count, answered, faults, reader, aux>>

(* The day's first line, here or anywhere.                                 *)
NotThere(w) ==
  /\ at[w] = "append"
  /\ ~There(w) /\ ~call[w].made
  /\ Go(w, "create")
  /\ UNCHANGED <<fixed, log, spool, call, drain, count, answered, faults, reader, aux>>

(* Wrong: the blob is made whether or not one is there. (ReadsAll)         *)
MadeOver(w) == [blobs EXCEPT ![Blob(w)] = <<>>]

(* Somebody made it a moment ago, which is as good as making it.           *)
Made(w) == IF There(w) THEN blobs ELSE [blobs EXCEPT ![Blob(w)] = <<>>]

Create(w) ==
  /\ at[w] = "create"
  /\ blobs' = Made(w)
  /\ call' = [call EXCEPT ![w].made = TRUE]
  /\ Go(w, "append")
  /\ UNCHANGED <<fixed, clock, parts, spool, drain, count, answered, faults, reader, aux>>

(* BlockCountExceedsLimit                                                  *)
NextPart(w) ==
  /\ at[w] = "append"
  /\ Full(w)
  /\ call[w].part < MaxParts
  /\ call' = [call EXCEPT ![w].part = @ + 1, ![w].made = FALSE]
  /\ UNCHANGED <<fixed, log, spool, at, drain, count, answered, faults, reader, aux>>

Rest(w) ==
  /\ Go(w, "idle")
  /\ EndAppend(w)
  /\ draining' = [draining EXCEPT ![w] = FALSE]
  /\ read' = [read EXCEPT ![w] = {}]
  /\ left' = [left EXCEPT ![w] = {}]

(* A ConfigurationError, which no policy takes for an outage.              *)
OutOfParts(w) ==
  /\ at[w] = "append"
  /\ Full(w)
  /\ call[w].part = MaxParts
  /\ Rest(w)
  /\ UNCHANGED <<fixed, log, spool, count, answered, faults, reader, aux>>

(* What a failed append() leaves to do.                                    *)
Failed(w) ==
  IF ~draining[w] /\ ~spools
  THEN Rest(w)
  ELSE /\ Go(w, IF draining[w] THEN "rewrite" ELSE "spool")
       /\ UNCHANGED <<call, drain>>

(* The store cannot be reached, or its answer is lost.                     *)
Fail(w) ==
  /\ at[w] \in {"append", "create"}
  /\ faults < MaxFaults
  /\ faults' = faults + 1
  /\ \/ UNCHANGED blobs
     \/ at[w] = "append" /\ There(w) /\ ~Full(w) /\ Appended(w)
     \/ at[w] = "create" /\ blobs' = Made(w)
  /\ Failed(w)
  /\ UNCHANGED <<fixed, clock, parts, spool, count, answered, reader, aux>>

(* append() returns: an answer's record is written, or a drain goes on.    *)
Return(w) ==
  /\ at[w] = "wrote"
  /\ parts' = [parts EXCEPT ![home[w]][call[w].day] =
                 IF @ < call[w].part THEN call[w].part ELSE @]
  /\ EndAppend(w)
  /\ IF draining[w]
     THEN /\ left' = [left EXCEPT ![w] = @ \ {call[w].record}]
          /\ Go(w, "drain")
          /\ UNCHANGED <<draining, read, answered>>
     ELSE /\ answered' = answered \cup {call[w].record}
          /\ Go(w, "idle")
          /\ UNCHANGED drain
  /\ UNCHANGED <<fixed, blobs, clock, spool, count, faults, reader, aux>>

-------------------------------------------------------------------------------
(* The spool                                                               *)

(* Those of the records that a drain of this spool, other than w's, has    *)
(* not read.                                                               *)
Unread(w, records) ==
  {r \in records : \E v \in Writers \ {w} : home[v] = home[w] /\ draining[v] /\ r \notin read[v]}

(* _to_spool()                                                             *)
ToSpool(w) ==
  /\ at[w] = "spool"
  /\ spool' = [spool EXCEPT ![home[w]] = @ \cup {call[w].record}]
  /\ answered' = answered \cup {call[w].record}
  /\ spooled' = spooled \cup {call[w].record}
  /\ overtaken' = overtaken \cup Unread(w, {call[w].record})
  /\ EndAppend(w)
  /\ Go(w, "idle")
  /\ UNCHANGED <<fixed, log, drain, count, faults, reader, cut>>

(* There is a file, if an empty one.                                       *)
Exists(s) == spool[s] # {} \/ \E w \in Writers : home[w] = s /\ at[w] = "rewritten"

Drain(w) ==
  /\ spools
  /\ at[w] = "idle"
  /\ Exists(home[w])
  /\ draining' = [draining EXCEPT ![w] = TRUE]
  /\ read' = [read EXCEPT ![w] = spool[home[w]]]
  /\ left' = [left EXCEPT ![w] = spool[home[w]]]
  /\ Go(w, "drain")
  /\ UNCHANGED <<fixed, log, spool, call, count, answered, faults, reader, aux>>

Replay(w) ==
  /\ at[w] = "drain"
  /\ \E r \in left[w] : BeginAppend(w, r)
  /\ UNCHANGED <<fixed, log, spool, drain, count, answered, faults, reader, aux>>

(* The file goes, or has gone already.                                     *)
Unlink(w) ==
  /\ at[w] = "drain"
  /\ left[w] = {}
  /\ spool' = [spool EXCEPT ![home[w]] = {}]
  /\ Rest(w)
  /\ UNCHANGED <<fixed, log, count, answered, faults, reader, aux>>

(* write_text(): the file is emptied, then written.                        *)
Truncate(w) ==
  /\ at[w] = "rewrite"
  /\ spool' = [spool EXCEPT ![home[w]] = {}]
  /\ EndAppend(w)
  /\ Go(w, "rewritten")
  /\ UNCHANGED <<fixed, log, drain, count, answered, faults, reader, aux>>

(* Wrong: what is left begins after the record that would not write.       *)
(* (NoneIsLostButOvertaken)                                                *)
AfterTheFirst(w) == IF left[w] = {} THEN {} ELSE left[w] \ {CHOOSE r \in left[w] : TRUE}

(* The first that will not write, and the rest.                            *)
Remaining(w) == left[w]

Rewrite(w) ==
  /\ at[w] = "rewritten"
  /\ spool' = [spool EXCEPT ![home[w]] = Remaining(w)]
  /\ overtaken' = overtaken \cup Unread(w, left[w])
  /\ Rest(w)
  /\ UNCHANGED <<fixed, log, count, answered, faults, reader, spooled, cut>>

-------------------------------------------------------------------------------
(* The servers, and lines()                                                *)

Midnight(s) ==
  /\ clock[s] < MaxDays
  /\ clock' = [clock EXCEPT ![s] = @ + 1]
  /\ UNCHANGED <<fixed, blobs, parts, spool, at, call, drain, count, answered, faults, reader, aux>>

Die(s) ==
  LET here == {w \in Writers : home[w] = s} IN
  /\ faults < MaxFaults
  /\ faults' = faults + 1
  /\ cut' = cut \cup UNION {left[w] : w \in {v \in here : at[v] = "rewritten"}}
  /\ parts' = [parts EXCEPT ![s] = [d \in Days |-> 0]]
  /\ at' = [w \in Writers |-> IF w \in here THEN "idle" ELSE at[w]]
  /\ call' = [w \in Writers |-> IF w \in here THEN None ELSE call[w]]
  /\ draining' = [w \in Writers |-> w \notin here /\ draining[w]]
  /\ read' = [w \in Writers |-> IF w \in here THEN {} ELSE read[w]]
  /\ left' = [w \in Writers |-> IF w \in here THEN {} ELSE left[w]]
  /\ UNCHANGED <<fixed, blobs, clock, spool, count, answered, reader, spooled, overtaken>>

(* _names(): the blobs there are.  The bound is one reading that finds     *)
(* anything.                                                               *)
List ==
  /\ names = {} /\ got = <<>>
  /\ names' = Present
  /\ must' = Logged
  /\ UNCHANGED <<fixed, log, spool, at, call, drain, count, answered, faults, got, aux>>

(* Wrong: a day's parts are taken before its first blob. (OldestFirst)     *)
PartsFirst(n, o) == n[1] < o[1] \/ (n[1] = o[1] /\ n[2] >= o[2])

(* sorted(): by day, then by part.                                         *)
Older(n, o) == n[1] < o[1] \/ (n[1] = o[1] /\ n[2] <= o[2])

Download ==
  \E n \in names :
    /\ \A o \in names : Older(n, o)
    /\ names' = names \ {n}
    /\ got' = got \o blobs[n]
    /\ UNCHANGED <<fixed, log, spool, at, call, drain, count, answered, faults, must, aux>>

Next ==
  \/ \E w \in Writers :
       \/ Write(w) \/ AppendBlock(w) \/ NotThere(w) \/ Create(w) \/ NextPart(w)
       \/ OutOfParts(w) \/ Fail(w) \/ Return(w)
       \/ ToSpool(w) \/ Drain(w) \/ Replay(w) \/ Unlink(w) \/ Truncate(w) \/ Rewrite(w)
  \/ \E s \in Servers : Midnight(s) \/ Die(s)
  \/ List \/ Download

Spec == Init /\ [][Next]_vars

-------------------------------------------------------------------------------
(* Properties                                                              *)

Calls == [record : Records, day : Days, part : 0..MaxParts, made : BOOLEAN]

(* Every variable has its type; a writer has an append() under way in the  *)
(* middle of one, and lines of a spool only while it drains one.           *)
TypeOK ==
  /\ home \in [Writers -> Servers] /\ spools \in BOOLEAN
  /\ blobs \in [Names -> Seq(Records) \cup {None}]
  /\ clock \in [Servers -> Days]
  /\ parts \in [Servers -> [Days -> 0..MaxParts]]
  /\ spool \in [Servers -> SUBSET Records]
  /\ at \in [Writers -> {"idle", "append", "create", "wrote", "spool", "drain",
                         "rewrite", "rewritten"}]
  /\ call \in [Writers -> Calls \cup {None}]
  /\ \A w \in Writers : IF at[w] \in {"append", "create", "wrote", "spool", "rewrite"}
                        THEN call[w] \in Calls ELSE call[w] = None
  /\ draining \in [Writers -> BOOLEAN]
  /\ read \in [Writers -> SUBSET Records] /\ left \in [Writers -> SUBSET Records]
  /\ \A w \in Writers : ~draining[w] => left[w] = {}
  /\ count \in [Writers -> 0..MaxRecords]
  /\ {answered, must, spooled, overtaken, cut} \subseteq SUBSET Records
  /\ faults \in 0..MaxFaults
  /\ names \subseteq Present /\ got \in Seq(Records)

(* "Stops at the first record that will not write and leaves the rest in   *)
(* place, so a sink that is still down does not lose the backlog": the     *)
(* record of every answer that was given is in the log, in a spool, or in  *)
(* the hands of a drain that is about to write it back.                    *)
NoneIsLost == answered \subseteq Logged \cup Spooled \cup Rewriting

(* The same of every answer but those a drain and another writer of the    *)
(* same spool can lose between them: put there after the drain had read    *)
(* it, or in memory when a rewrite of the file died.  Servers that race to *)
(* make a day's blob, parts that fill up, failures and crashes lose none,  *)
(* and without a Spool there is no exception.                              *)
NoneIsLostButOvertaken ==
  answered \subseteq Logged \cup Spooled \cup Rewriting \cup overtaken \cup cut

(* "Every line, oldest first": what lines() returns has every record that  *)
(* was in the log when it began, whatever is appended meanwhile.           *)
ReadsAll ==
  names = {} => must \subseteq {got[i] : i \in DOMAIN got}

(* Records of one writer that went straight to the log are read in the     *)
(* order they were written, over parts, days and restarts.                 *)
OldestFirst ==
  \A i, j \in DOMAIN got :
    i < j /\ got[i][1] = got[j][1] /\ {got[i], got[j]} \cap spooled = {} =>
      got[i][2] <= got[j][2]
===============================================================================
