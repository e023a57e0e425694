--------------------------- MODULE AuditTrailProofs ----------------------------
(***************************************************************************)
(* For any writers, servers, limits and bounds: that no answer's record is *)
(* lost but those a drain of the spool can lose, and that a reader gets    *)
(* all that was there when it began, a writer's records in their order.    *)
(***************************************************************************)
EXTENDS AuditTrail, TLAPS

InAppend == {"append", "create", "wrote", "spool", "rewrite"}

RecordsAreNotNone == None \notin Seq(Records)

LEMMA NoneApart == RecordsAreNotNone
  BY NoneIsNoBlob DEF RecordsAreNotNone, Records

(* A line appended leaves the blobs of their type, and none that was there *)
(* is gone.                                                                *)
LEMMA AppendedType ==
  ASSUME TypeOK, NEW w \in Writers, call[w] \in Calls, There(w), Appended(w)
  PROVE  blobs' \in [Names -> Seq(Records) \cup {None}] /\ Present \subseteq Present'
<1>1. Blob(w) \in Names /\ call[w].record \in Records
  BY DEF Blob, Names, Calls
<1>2. blobs[Blob(w)] \in Seq(Records)
  BY <1>1 DEF TypeOK, There
<1>3. Append(blobs[Blob(w)], call[w].record) \in Seq(Records)
  BY <1>1, <1>2
<1> QED
  BY <1>1, <1>3, NoneApart DEF TypeOK, Appended, Present, RecordsAreNotNone

LEMMA MadeType ==
  ASSUME TypeOK, NEW w \in Writers, blobs' = Made(w)
  PROVE  blobs' \in [Names -> Seq(Records) \cup {None}] /\ Present \subseteq Present'
<1>1. <<>> \in Seq(Records)
  OBVIOUS
<1> QED
  BY <1>1, NoneApart DEF TypeOK, Made, Present, RecordsAreNotNone

LEMMA TypeInit == Init => TypeOK
<1>1. <<>> \in Seq(Records)
  OBVIOUS
<1> QED
  BY <1>1, LimitsAreNumbers DEF Init, TypeOK, Days

LEMMA TypeStep == TypeOK /\ [Next]_vars => TypeOK'
<1> SUFFICES ASSUME TypeOK, [Next]_vars PROVE TypeOK'
  OBVIOUS
<1> USE DEF fixed, log, drain, reader, aux, Go, Rest, EndAppend
<1>1. ASSUME NEW w \in Writers, Write(w) PROVE TypeOK'
  <2>1. <<w, count[w] + 1>> \in Records /\ count' \in [Writers -> 0..MaxRecords]
    BY <1>1, LimitsAreNumbers DEF Write, TypeOK, Records
  <2>2. clock[home[w]] \in Days /\ parts[home[w]][clock[home[w]]] \in 0..MaxParts
    BY DEF TypeOK
  <2> QED
    BY <1>1, <2>1, <2>2 DEF Write, BeginAppend, TypeOK, Calls, Present
<1>2. ASSUME NEW w \in Writers, AppendBlock(w) PROVE TypeOK'
  <2>1. blobs' \in [Names -> Seq(Records) \cup {None}] /\ Present \subseteq Present'
    BY <1>2, AppendedType DEF AppendBlock, TypeOK
  <2> QED
    BY <1>2, <2>1 DEF AppendBlock, TypeOK
<1>3. ASSUME NEW w \in Writers, NotThere(w) PROVE TypeOK'
  BY <1>3 DEF NotThere, TypeOK, Present
<1>4. ASSUME NEW w \in Writers, Create(w) PROVE TypeOK'
  <2>1. blobs' \in [Names -> Seq(Records) \cup {None}] /\ Present \subseteq Present'
    BY <1>4, MadeType DEF Create
  <2>2. call[w] \in Calls
    BY <1>4 DEF Create, TypeOK
  <2>3. call' = [call EXCEPT ![w] = [call[w] EXCEPT !.made = TRUE]]
    BY <1>4 DEF Create, TypeOK
  <2>4. [call[w] EXCEPT !.made = TRUE] \in Calls
    BY <2>2 DEF Calls
  <2> QED
    BY <1>4, <2>1, <2>3, <2>4 DEF Create, TypeOK
<1>5. ASSUME NEW w \in Writers, NextPart(w) PROVE TypeOK'
  <2>1. call[w] \in Calls
    BY <1>5 DEF NextPart, TypeOK
  <2>2. call[w].part + 1 \in 0..MaxParts
    BY <1>5, <2>1, LimitsAreNumbers DEF NextPart, Calls
  <2>3. [call[w] EXCEPT !.part = @ + 1, !.made = FALSE] \in Calls
    BY <2>1, <2>2 DEF Calls
  <2>4. call' = [call EXCEPT ![w] = [call[w] EXCEPT !.part = @ + 1, !.made = FALSE]]
    BY <1>5, <2>1 DEF NextPart, TypeOK
  <2> QED
    BY <1>5, <2>3, <2>4 DEF NextPart, TypeOK, Present
<1>6. ASSUME NEW w \in Writers, OutOfParts(w) PROVE TypeOK'
  BY <1>6 DEF OutOfParts, TypeOK, Present
<1>7. ASSUME NEW w \in Writers, Fail(w) PROVE TypeOK'
  <2>1. blobs' \in [Names -> Seq(Records) \cup {None}] /\ Present \subseteq Present'
    <3>1. CASE UNCHANGED blobs
      BY <3>1 DEF TypeOK, Present
    <3>2. CASE at[w] = "append" /\ There(w) /\ ~Full(w) /\ Appended(w)
      BY <3>2, AppendedType DEF TypeOK
    <3>3. CASE at[w] = "create" /\ blobs' = Made(w)
      BY <3>3, MadeType
    <3> QED
      BY <1>7, <3>1, <3>2, <3>3 DEF Fail
  <2>2. faults' \in 0..MaxFaults
    BY <1>7, LimitsAreNumbers DEF Fail, TypeOK
  <2> QED
    <3>1. CASE ~draining[w] /\ ~spools
      <4>1. Rest(w) /\ UNCHANGED <<home, spools, clock, parts, spool, count, answered,
                                  names, got, must, spooled, overtaken, cut>>
        BY <1>7, <3>1 DEF Fail, Failed
      <4> QED
        BY <2>1, <2>2, <4>1 DEF TypeOK
    <3>2. CASE draining[w]
      BY <1>7, <2>1, <2>2, <3>2 DEF Fail, Failed, TypeOK
    <3>3. CASE ~draining[w] /\ spools
      BY <1>7, <2>1, <2>2, <3>3 DEF Fail, Failed, TypeOK
    <3> QED
      BY <3>1, <3>2, <3>3
<1>8. ASSUME NEW w \in Writers, Return(w) PROVE TypeOK'
  <2>1. call[w] \in Calls
    BY <1>8 DEF Return, TypeOK
  <2>2. parts' \in [Servers -> [Days -> 0..MaxParts]]
    BY <1>8, <2>1 DEF Return, TypeOK, Calls
  <2>3. answered' \subseteq Records
    BY <1>8, <2>1 DEF Return, TypeOK, Calls
  <2>4. call' \in [Writers -> Calls \cup {None}] /\ call'[w] = None
    BY <1>8 DEF Return, TypeOK
  <2> QED
    <3>1. CASE draining[w]
      <4>1. /\ at' = [at EXCEPT ![w] = "drain"] /\ call' = [call EXCEPT ![w] = None]
            /\ left' = [left EXCEPT ![w] = left[w] \ {call[w].record}]
            /\ UNCHANGED <<home, spools, blobs, clock, spool, draining, read, count, faults,
                           names, got, must, spooled, overtaken, cut>>
        BY <1>8, <3>1 DEF Return
      <4> QED
        BY <2>2, <2>3, <4>1, <3>1 DEF TypeOK, Present
    <3>2. CASE ~draining[w]
      <4>1. /\ at' = [at EXCEPT ![w] = "idle"] /\ call' = [call EXCEPT ![w] = None]
            /\ UNCHANGED left
            /\ UNCHANGED <<home, spools, blobs, clock, spool, draining, read, count, faults,
                           names, got, must, spooled, overtaken, cut>>
        BY <1>8, <3>2 DEF Return
      <4> QED
        BY <2>2, <2>3, <4>1, <3>2 DEF TypeOK, Present
    <3> QED
      BY <3>1, <3>2
<1>9. ASSUME NEW w \in Writers, ToSpool(w) PROVE TypeOK'
  <2>1. call[w].record \in Records
    BY <1>9 DEF ToSpool, TypeOK, Calls
  <2> QED
    BY <1>9, <2>1 DEF ToSpool, TypeOK, Unread, Present
<1>10. ASSUME NEW w \in Writers, Drain(w) PROVE TypeOK'
  BY <1>10 DEF Drain, TypeOK, Present
<1>11. ASSUME NEW w \in Writers, Replay(w) PROVE TypeOK'
  <2>1. PICK r \in left[w] : BeginAppend(w, r)
    BY <1>11 DEF Replay
  <2>2. r \in Records
    BY <2>1 DEF TypeOK
  <2>3. clock[home[w]] \in Days /\ parts[home[w]][clock[home[w]]] \in 0..MaxParts
    BY DEF TypeOK
  <2> QED
    BY <1>11, <2>1, <2>2, <2>3 DEF Replay, BeginAppend, TypeOK, Calls, Present
<1>12. ASSUME NEW w \in Writers, Unlink(w) PROVE TypeOK'
  BY <1>12 DEF Unlink, TypeOK, Present
<1>13. ASSUME NEW w \in Writers, Truncate(w) PROVE TypeOK'
  BY <1>13 DEF Truncate, TypeOK, Present
<1>14. ASSUME NEW w \in Writers, Rewrite(w) PROVE TypeOK'
  BY <1>14 DEF Rewrite, Remaining, TypeOK, Unread, Present
<1>15. ASSUME NEW s \in Servers, Midnight(s) PROVE TypeOK'
  <2>1. clock[s] + 1 \in Days
    BY <1>15, LimitsAreNumbers DEF Midnight, TypeOK, Days
  <2>2. clock' \in [Servers -> Days]
    BY <1>15, <2>1 DEF Midnight, TypeOK
  <2> QED
    BY <1>15, <2>2 DEF Midnight, TypeOK, Present
<1>16. ASSUME NEW s \in Servers, Die(s) PROVE TypeOK'
  <2>1. cut' \subseteq Records
    BY <1>16 DEF Die, TypeOK
  <2> QED
    BY <1>16, <2>1, LimitsAreNumbers DEF Die, TypeOK, Present
<1>17. CASE List
  <2>1. Logged \subseteq Records
    BY DEF TypeOK, Logged, Lines
  <2> QED
    BY <1>17, <2>1 DEF List, TypeOK, Present
<1>18. CASE Download
  <2>1. PICK n \in names : got' = got \o blobs[n] /\ names' = names \ {n}
    BY <1>18 DEF Download
  <2>2. got' \in Seq(Records)
    BY <2>1 DEF TypeOK, Present
  <2> QED
    BY <1>18, <2>1, <2>2 DEF Download, TypeOK, Present
<1>19. CASE UNCHANGED vars
  BY <1>19 DEF vars, TypeOK, Present
<1> QED
  BY <1>1, <1>2, <1>3, <1>4, <1>5, <1>6, <1>7, <1>8, <1>9, <1>10, <1>11, <1>12, <1>13,
     <1>14, <1>15, <1>16, <1>17, <1>18, <1>19 DEF Next

(* Every variable has its type, a writer has an append() under way only in *)
(* the middle of one, and what a drain holds is let go of with it.         *)
THEOREM TypeCorrect == Spec => []TypeOK
<1> QED
  BY TypeInit, TypeStep, PTL DEF Spec

-------------------------------------------------------------------------------
(* What is in the log stays there                                          *)

LEMMA AppendedGrows ==
  ASSUME TypeOK, NEW w \in Writers, call[w] \in Calls, There(w), Appended(w)
  PROVE  Logged \cup {call[w].record} \subseteq Logged'
<1>1. PICK b \in Names, r \in Records : b = Blob(w) /\ r = call[w].record
  BY DEF Blob, Names, Calls
<1>2. blobs[b] \in Seq(Records)
  BY <1>1 DEF TypeOK, There
<1>3. blobs'[b] = Append(blobs[b], r) /\ \A n \in Names : n # b => blobs'[n] = blobs[n]
  BY <1>1 DEF TypeOK, Appended
<1>4. blobs'[b] # None
  <2>1. Append(blobs[b], r) \in Seq(Records)
    BY <1>1, <1>2
  <2> QED
    BY <2>1, <1>3, NoneApart DEF RecordsAreNotNone
<1>5. /\ DOMAIN blobs'[b] = 1..(Len(blobs[b]) + 1)
      /\ \A i \in 1..Len(blobs[b]) : blobs'[b][i] = blobs[b][i]
      /\ blobs'[b][Len(blobs[b]) + 1] = r
  BY <1>1, <1>2, <1>3
<1>6. Lines(b)' = {blobs'[b][i] : i \in DOMAIN blobs'[b]}
  BY <1>4 DEF Lines
<1>7. Lines(b) \subseteq {blobs[b][i] : i \in DOMAIN blobs[b]} /\ DOMAIN blobs[b] = 1..Len(blobs[b])
  BY <1>2 DEF Lines
<1>8. Len(blobs[b]) \in Nat
  BY <1>2
<1>9. r \in Lines(b)'
  BY <1>5, <1>6, <1>8
<1>10. Lines(b) \subseteq Lines(b)'
  <2>1. ASSUME NEW x \in Lines(b) PROVE x \in Lines(b)'
    <3>1. PICK i \in 1..Len(blobs[b]) : x = blobs[b][i]
      BY <1>7
    <3>2. i \in DOMAIN blobs'[b] /\ blobs'[b][i] = x
      BY <3>1, <1>5, <1>8
    <3> QED
      BY <3>2, <1>6
  <2> QED
    BY <2>1
<1>11. \A n \in Names : Lines(n) \subseteq Lines(n)'
  <2>1. ASSUME NEW n \in Names, n # b PROVE Lines(n) \subseteq Lines(n)'
    BY <2>1, <1>3 DEF Lines
  <2> QED
    BY <2>1, <1>10
<1> QED
  BY <1>1, <1>9, <1>11 DEF Logged

LEMMA MadeGrows ==
  ASSUME TypeOK, NEW w \in Writers, blobs' = Made(w)
  PROVE  Logged \subseteq Logged'
<1>1. \A n \in Names : blobs[n] # None => blobs'[n] = blobs[n]
  BY DEF Made, There, TypeOK
<1>2. \A n \in Names : Lines(n) \subseteq Lines(n)'
  BY <1>1 DEF Lines
<1> QED
  BY <1>2 DEF Logged

LEMMA LoggedGrows == TypeOK /\ [Next]_vars => Logged \subseteq Logged'
<1> SUFFICES ASSUME TypeOK, [Next]_vars PROVE Logged \subseteq Logged'
  OBVIOUS
<1>1. CASE UNCHANGED blobs
  BY <1>1 DEF Logged, Lines
<1>2. ASSUME NEW w \in Writers, There(w), Appended(w), at[w] = "append"
      PROVE  Logged \subseteq Logged'
  BY <1>2, AppendedGrows DEF TypeOK
<1>3. ASSUME NEW w \in Writers, blobs' = Made(w) PROVE Logged \subseteq Logged'
  BY <1>3, MadeGrows
<1>4. ASSUME NEW w \in Writers, Fail(w) PROVE Logged \subseteq Logged'
  BY <1>1, <1>2, <1>3, <1>4 DEF Fail
<1>5. \/ UNCHANGED blobs
      \/ \E w \in Writers : AppendBlock(w) \/ Create(w) \/ Fail(w)
  BY DEF Next, vars, fixed, log, drain, reader, aux, Write, NotThere, NextPart, OutOfParts,
         Return, ToSpool, Drain, Replay, Unlink, Truncate, Rewrite, Midnight, Die, List, Download
<1> QED
  BY <1>1, <1>2, <1>3, <1>4, <1>5 DEF AppendBlock, Create

-------------------------------------------------------------------------------
(* No answer's record is lost                                              *)

(* What append() returns from is written.                                  *)
WrittenIsLogged == \A w \in Writers : at[w] = "wrote" => call[w].record \in Logged

(* A drain has replayed what it read, or has it still to replay; and what  *)
(* is in its spool it has read, or was put there too late for it.          *)
DrainKnows ==
  \A w \in Writers : draining[w] =>
    /\ read[w] \subseteq left[w] \cup Logged
    /\ spool[home[w]] \subseteq read[w] \cup overtaken

DrainsWhere ==
  \A w \in Writers :
    /\ at[w] \in {"drain", "rewrite", "rewritten"} => draining[w]
    /\ at[w] \in {"idle", "spool"} => ~draining[w]

Safe == TypeOK /\ NoneIsLostButOvertaken /\ WrittenIsLogged /\ DrainKnows /\ DrainsWhere

LEMMA SafeInit == Init => Safe
  BY TypeInit DEF Init, Safe, NoneIsLostButOvertaken, WrittenIsLogged, DrainKnows, DrainsWhere

LEMMA SafeStep == Safe /\ [Next]_vars => Safe'
<1> SUFFICES ASSUME Safe, [Next]_vars PROVE Safe'
  OBVIOUS
<1>1. TypeOK' /\ Logged \subseteq Logged' /\ TypeOK
  BY TypeStep, LoggedGrows DEF Safe
<1> USE DEF fixed, log, drain, reader, aux, Go, Rest, EndAppend
<1>2. SUFFICES /\ NoneIsLostButOvertaken' /\ WrittenIsLogged' /\ DrainKnows' /\ DrainsWhere'
  BY <1>1 DEF Safe
<1>3. ASSUME NEW w \in Writers, at[w] # "wrote", at'[w] \notin {"wrote", "rewritten"},
             \A v \in Writers \ {w} : at'[v] = at[v] /\ call'[v] = call[v]
      PROVE  WrittenIsLogged'
  BY <1>1, <1>3 DEF Safe, WrittenIsLogged
<1>4. ASSUME NEW w \in Writers, UNCHANGED <<home, spool, draining, read, left, answered, aux>>,
             at[w] # "rewritten", at'[w] # "rewritten", \A v \in Writers \ {w} : at'[v] = at[v]
      PROVE  NoneIsLostButOvertaken' /\ DrainKnows'
  <2>1. Rewriting' = Rewriting /\ Spooled' = Spooled
    BY <1>4 DEF Rewriting, Spooled
  <2> QED
    BY <1>1, <1>4, <2>1 DEF Safe, NoneIsLostButOvertaken, DrainKnows, TypeOK
<1>5. ASSUME NEW w \in Writers, Rest(w), UNCHANGED <<home, spool, answered, aux>>,
             at[w] # "rewritten", at[w] # "wrote"
      PROVE  NoneIsLostButOvertaken' /\ WrittenIsLogged' /\ DrainKnows' /\ DrainsWhere'
  <2>1. /\ at' = [at EXCEPT ![w] = "idle"] /\ call' = [call EXCEPT ![w] = None]
        /\ draining' = [draining EXCEPT ![w] = FALSE]
        /\ read' = [read EXCEPT ![w] = {}] /\ left' = [left EXCEPT ![w] = {}]
    BY <1>5
  <2>2. Rewriting' = Rewriting /\ Spooled' = Spooled
    BY <1>1, <1>5, <2>1 DEF Rewriting, Spooled, TypeOK
  <2>3. NoneIsLostButOvertaken'
    BY <1>1, <1>5, <2>2 DEF Safe, NoneIsLostButOvertaken
  <2>4. WrittenIsLogged'
    BY <1>1, <1>5, <2>1 DEF Safe, WrittenIsLogged, TypeOK
  <2>5. DrainKnows'
    <3>5. SUFFICES ASSUME NEW v \in Writers, draining'[v]
                   PROVE  /\ read'[v] \subseteq left'[v] \cup Logged'
                          /\ spool'[home'[v]] \subseteq read'[v] \cup overtaken'
      BY DEF DrainKnows
    <3>6. home[v] \in Servers /\ home[w] \in Servers /\ home'[v] = home[v]
      BY <1>1, <1>5, <2>1 DEF TypeOK
    <3>7. CASE v = w
      BY <1>1, <1>5, <2>1, <3>5, <3>6, <3>7 DEF Safe, DrainKnows, TypeOK
    <3>8. CASE v # w
      <4>1. draining[v] /\ read'[v] = read[v] /\ left'[v] = left[v]
        BY <1>1, <1>5, <2>1, <3>5, <3>8 DEF TypeOK
      <4>2. spool[home[v]] \subseteq read[v] \cup overtaken /\ read[v] \subseteq left[v] \cup Logged
        BY <4>1 DEF Safe, DrainKnows
      <4>3. spool'[home[v]] \subseteq read[v] \cup overtaken'
        BY <1>1, <1>5, <2>1, <3>6, <3>8, <4>1, <4>2 DEF TypeOK
      <4> QED
        BY <1>1, <3>6, <4>1, <4>2, <4>3
    <3> QED
      BY <3>7, <3>8
  <2>6. DrainsWhere'
    BY <1>1, <2>1 DEF Safe, DrainsWhere, TypeOK
  <2> QED
    BY <2>3, <2>4, <2>5, <2>6
<1>6. ASSUME NEW w \in Writers, NEW r \in Records, BeginAppend(w, r),
             at[w] = "idle" \/ at[w] = "drain",
             UNCHANGED <<home, spool, draining, read, left, answered, aux>>
      PROVE  NoneIsLostButOvertaken' /\ WrittenIsLogged' /\ DrainKnows' /\ DrainsWhere'
  <2>1. at' = [at EXCEPT ![w] = "append"] /\ \A v \in Writers \ {w} : call'[v] = call[v]
    BY <1>1, <1>6 DEF BeginAppend, TypeOK
  <2>2. NoneIsLostButOvertaken' /\ DrainKnows'
    BY <1>1, <1>4, <1>6, <2>1 DEF TypeOK
  <2>3. WrittenIsLogged'
    BY <1>1, <1>3, <1>6, <2>1 DEF TypeOK
  <2>4. DrainsWhere'
    BY <1>1, <1>6, <2>1 DEF Safe, DrainsWhere, TypeOK
  <2> QED
    BY <2>2, <2>3, <2>4
<1>7. ASSUME NEW w \in Writers, Write(w)
      PROVE  NoneIsLostButOvertaken' /\ WrittenIsLogged' /\ DrainKnows' /\ DrainsWhere'
  <2>1. <<w, count[w] + 1>> \in Records
    BY <1>1, <1>7, LimitsAreNumbers DEF Write, TypeOK, Records
  <2> QED
    BY <1>6, <1>7, <2>1 DEF Write
<1>8. ASSUME NEW w \in Writers, AppendBlock(w)
      PROVE  NoneIsLostButOvertaken' /\ WrittenIsLogged' /\ DrainKnows' /\ DrainsWhere'
  <2>1. /\ at' = [at EXCEPT ![w] = "wrote"] /\ UNCHANGED call /\ call[w] \in Calls
        /\ at[w] = "append" /\ UNCHANGED <<home, spool, draining, read, left, answered, aux>>
    BY <1>1, <1>8 DEF AppendBlock, TypeOK
  <2>2. call[w].record \in Logged'
    BY <1>1, <1>8, <2>1, AppendedGrows DEF AppendBlock
  <2>3. WrittenIsLogged'
    BY <1>1, <2>1, <2>2 DEF Safe, WrittenIsLogged, TypeOK
  <2>4. NoneIsLostButOvertaken' /\ DrainKnows'
    BY <1>1, <1>4, <2>1 DEF TypeOK
  <2>5. DrainsWhere'
    BY <1>1, <2>1 DEF Safe, DrainsWhere, TypeOK
  <2> QED
    BY <2>3, <2>4, <2>5
<1>9. ASSUME NEW w \in Writers, NotThere(w) \/ Create(w) \/ NextPart(w)
      PROVE  NoneIsLostButOvertaken' /\ WrittenIsLogged' /\ DrainKnows' /\ DrainsWhere'
  <2>1. /\ at[w] \in {"append", "create"}
        /\ at' = [at EXCEPT ![w] = "append"] \/ at' = [at EXCEPT ![w] = "create"]
        /\ \A v \in Writers \ {w} : call'[v] = call[v]
        /\ UNCHANGED <<home, spool, draining, read, left, answered, aux>>
    BY <1>1, <1>9 DEF NotThere, Create, NextPart, TypeOK
  <2>2. NoneIsLostButOvertaken' /\ DrainKnows'
    BY <1>1, <1>4, <2>1 DEF TypeOK
  <2>3. WrittenIsLogged'
    BY <1>1, <1>3, <2>1 DEF TypeOK
  <2>4. DrainsWhere'
    <3>1. CASE at' = [at EXCEPT ![w] = "append"]
      BY <1>1, <2>1, <3>1 DEF Safe, DrainsWhere, TypeOK
    <3>2. CASE at' = [at EXCEPT ![w] = "create"]
      BY <1>1, <2>1, <3>2 DEF Safe, DrainsWhere, TypeOK
    <3> QED
      BY <2>1, <3>1, <3>2
  <2> QED
    BY <2>2, <2>3, <2>4
<1>10. ASSUME NEW w \in Writers, OutOfParts(w)
      PROVE  NoneIsLostButOvertaken' /\ WrittenIsLogged' /\ DrainKnows' /\ DrainsWhere'
  BY <1>5, <1>10 DEF OutOfParts
<1>11. ASSUME NEW w \in Writers, Fail(w)
      PROVE  NoneIsLostButOvertaken' /\ WrittenIsLogged' /\ DrainKnows' /\ DrainsWhere'
  <2>1. CASE ~draining[w] /\ ~spools
    BY <1>5, <1>11, <2>1 DEF Fail, Failed
  <2>2. CASE draining[w] \/ spools
    <3>1. /\ at[w] \in {"append", "create"}
          /\ at' = [at EXCEPT ![w] = IF draining[w] THEN "rewrite" ELSE "spool"]
          /\ UNCHANGED <<call, home, spool, draining, read, left, answered, aux>>
      BY <1>11, <2>2 DEF Fail, Failed
    <3>2. NoneIsLostButOvertaken' /\ DrainKnows'
      BY <1>1, <1>4, <3>1 DEF TypeOK
    <3>3. WrittenIsLogged'
      BY <1>1, <1>3, <3>1 DEF TypeOK
    <3>4. DrainsWhere'
      <4>1. CASE draining[w]
        BY <1>1, <3>1, <4>1 DEF Safe, DrainsWhere, TypeOK
      <4>2. CASE ~draining[w]
        BY <1>1, <3>1, <4>2 DEF Safe, DrainsWhere, TypeOK
      <4> QED
        BY <4>1, <4>2
    <3> QED
      BY <3>2, <3>3, <3>4
  <2> QED
    BY <2>1, <2>2
<1>12. ASSUME NEW w \in Writers, Return(w)
      PROVE  NoneIsLostButOvertaken' /\ WrittenIsLogged' /\ DrainKnows' /\ DrainsWhere'
  <2>1. /\ at[w] = "wrote" /\ call[w].record \in Logged'
        /\ \A v \in Writers \ {w} : call'[v] = call[v]
        /\ UNCHANGED <<home, spool, read, draining, aux>>
    BY <1>1, <1>12 DEF Return, Safe, WrittenIsLogged
  <2>2. CASE draining[w]
    <3>1. /\ at' = [at EXCEPT ![w] = "drain"] /\ UNCHANGED answered
          /\ left' = [left EXCEPT ![w] = left[w] \ {call[w].record}]
      BY <1>12, <2>2 DEF Return
    <3>2. Rewriting' = Rewriting /\ Spooled' = Spooled
      BY <1>1, <2>1, <3>1 DEF Rewriting, Spooled, TypeOK
    <3>3. NoneIsLostButOvertaken'
      BY <1>1, <2>1, <3>1, <3>2 DEF Safe, NoneIsLostButOvertaken
    <3>4. WrittenIsLogged'
      BY <1>1, <2>1, <3>1 DEF Safe, WrittenIsLogged, TypeOK
    <3>5. DrainKnows'
      BY <1>1, <2>1, <3>1 DEF Safe, DrainKnows, TypeOK
    <3>6. DrainsWhere'
      BY <1>1, <2>1, <2>2, <3>1 DEF Safe, DrainsWhere, TypeOK
    <3> QED
      BY <3>3, <3>4, <3>5, <3>6
  <2>3. CASE ~draining[w]
    <3>1. /\ at' = [at EXCEPT ![w] = "idle"] /\ UNCHANGED left
          /\ answered' = answered \cup {call[w].record}
      BY <1>12, <2>3 DEF Return
    <3>2. Rewriting' = Rewriting /\ Spooled' = Spooled
      BY <1>1, <2>1, <3>1 DEF Rewriting, Spooled, TypeOK
    <3>3. NoneIsLostButOvertaken'
      BY <1>1, <2>1, <3>1, <3>2 DEF Safe, NoneIsLostButOvertaken
    <3>4. WrittenIsLogged'
      BY <1>1, <2>1, <3>1 DEF Safe, WrittenIsLogged, TypeOK
    <3>5. DrainKnows'
      BY <1>1, <2>1, <3>1 DEF Safe, DrainKnows, TypeOK
    <3>6. DrainsWhere'
      BY <1>1, <2>1, <2>3, <3>1 DEF Safe, DrainsWhere, TypeOK
    <3> QED
      BY <3>3, <3>4, <3>5, <3>6
  <2> QED
    BY <2>2, <2>3
<1>13. ASSUME NEW w \in Writers, ToSpool(w)
      PROVE  NoneIsLostButOvertaken' /\ WrittenIsLogged' /\ DrainKnows' /\ DrainsWhere'
  <2>1. /\ at[w] = "spool" /\ at' = [at EXCEPT ![w] = "idle"] /\ ~draining[w]
        /\ call' = [call EXCEPT ![w] = None]
        /\ spool' = [spool EXCEPT ![home[w]] = spool[home[w]] \cup {call[w].record}]
        /\ answered' = answered \cup {call[w].record}
        /\ overtaken' = overtaken \cup Unread(w, {call[w].record})
        /\ UNCHANGED <<home, draining, read, left, cut>>
    BY <1>13 DEF ToSpool, Safe, DrainsWhere
  <2>2. Rewriting' = Rewriting
    BY <1>1, <2>1 DEF Rewriting, TypeOK
  <2>3. Spooled \cup {call[w].record} \subseteq Spooled'
    BY <1>1, <2>1 DEF Spooled, TypeOK
  <2>4. NoneIsLostButOvertaken'
    BY <1>1, <2>1, <2>2, <2>3 DEF Safe, NoneIsLostButOvertaken
  <2>5. WrittenIsLogged'
    BY <1>1, <2>1 DEF Safe, WrittenIsLogged, TypeOK
  <2>6. DrainKnows'
    <3>1. \A v \in Writers : draining[v] /\ home[v] = home[w] =>
            call[w].record \in read[v] \cup overtaken'
      BY <2>1 DEF Unread
    <3>2. SUFFICES ASSUME NEW v \in Writers, draining'[v]
                   PROVE  /\ read'[v] \subseteq left'[v] \cup Logged'
                          /\ spool'[home'[v]] \subseteq read'[v] \cup overtaken'
      BY DEF DrainKnows
    <3>3. home[v] \in Servers /\ home[w] \in Servers /\ home'[v] = home[v]
      BY <1>1, <2>1 DEF TypeOK
    <3>4. CASE v = w
      BY <1>1, <2>1, <3>2, <3>3, <3>4, <3>1 DEF Safe, DrainKnows, TypeOK
    <3>5. CASE v # w
      <4>1. draining[v] /\ read'[v] = read[v] /\ left'[v] = left[v]
        BY <1>1, <2>1, <3>2, <3>5 DEF TypeOK
      <4>2. spool[home[v]] \subseteq read[v] \cup overtaken /\ read[v] \subseteq left[v] \cup Logged
        BY <4>1 DEF Safe, DrainKnows
      <4>3. spool'[home[v]] \subseteq read[v] \cup overtaken'
        <5>1. CASE home[v] = home[w]
          <6>1. spool'[home[v]] = spool[home[v]] \cup {call[w].record}
            BY <1>1, <2>1, <3>3, <5>1 DEF TypeOK
          <6>2. call[w].record \in read[v] \cup overtaken' /\ overtaken \subseteq overtaken'
            BY <2>1, <3>1, <4>1, <5>1
          <6> QED
            BY <4>2, <6>1, <6>2
        <5>2. CASE home[v] # home[w]
          BY <1>1, <2>1, <3>3, <4>1, <4>2, <5>2 DEF TypeOK
        <5> QED
          BY <5>1, <5>2
      <4> QED
        BY <1>1, <3>3, <4>1, <4>2, <4>3
    <3> QED
      BY <3>4, <3>5
  <2>7. DrainsWhere'
    BY <1>1, <2>1 DEF Safe, DrainsWhere, TypeOK
  <2> QED
    BY <2>4, <2>5, <2>6, <2>7
<1>14. ASSUME NEW w \in Writers, Drain(w)
      PROVE  NoneIsLostButOvertaken' /\ WrittenIsLogged' /\ DrainKnows' /\ DrainsWhere'
  <2>1. /\ at[w] = "idle" /\ at' = [at EXCEPT ![w] = "drain"]
        /\ draining' = [draining EXCEPT ![w] = TRUE]
        /\ read' = [read EXCEPT ![w] = spool[home[w]]]
        /\ left' = [left EXCEPT ![w] = spool[home[w]]]
        /\ UNCHANGED <<home, spool, call, answered, overtaken, cut>>
    BY <1>14 DEF Drain
  <2>2. Rewriting' = Rewriting /\ Spooled' = Spooled
    BY <1>1, <2>1 DEF Rewriting, Spooled, TypeOK
  <2>3. NoneIsLostButOvertaken'
    BY <1>1, <2>1, <2>2 DEF Safe, NoneIsLostButOvertaken
  <2>4. WrittenIsLogged'
    BY <1>1, <2>1 DEF Safe, WrittenIsLogged, TypeOK
  <2>5. DrainKnows'
    <3>5. SUFFICES ASSUME NEW v \in Writers, draining'[v]
                   PROVE  /\ read'[v] \subseteq left'[v] \cup Logged'
                          /\ spool'[home'[v]] \subseteq read'[v] \cup overtaken'
      BY DEF DrainKnows
    <3>6. home[v] \in Servers /\ home[w] \in Servers /\ home'[v] = home[v]
      BY <1>1, <2>1 DEF TypeOK
    <3>7. CASE v = w
      BY <1>1, <2>1, <3>5, <3>6, <3>7 DEF Safe, DrainKnows, TypeOK
    <3>8. CASE v # w
      <4>1. draining[v] /\ read'[v] = read[v] /\ left'[v] = left[v]
        BY <1>1, <2>1, <3>5, <3>8 DEF TypeOK
      <4>2. spool[home[v]] \subseteq read[v] \cup overtaken /\ read[v] \subseteq left[v] \cup Logged
        BY <4>1 DEF Safe, DrainKnows
      <4>3. spool'[home[v]] \subseteq read[v] \cup overtaken'
        BY <1>1, <2>1, <3>6, <3>8, <4>1, <4>2 DEF TypeOK
      <4> QED
        BY <1>1, <3>6, <4>1, <4>2, <4>3
    <3> QED
      BY <3>7, <3>8
  <2>6. DrainsWhere'
    BY <1>1, <2>1 DEF Safe, DrainsWhere, TypeOK
  <2> QED
    BY <2>3, <2>4, <2>5, <2>6
<1>15. ASSUME NEW w \in Writers, Replay(w)
      PROVE  NoneIsLostButOvertaken' /\ WrittenIsLogged' /\ DrainKnows' /\ DrainsWhere'
  <2>1. PICK r \in left[w] : BeginAppend(w, r)
    BY <1>15 DEF Replay
  <2>2. r \in Records
    BY <1>1, <2>1 DEF TypeOK
  <2> QED
    BY <1>6, <1>15, <2>1, <2>2 DEF Replay
(* What the spool loses when w's drain empties or replaces it.             *)
<1>16. ASSUME NEW w \in Writers, at[w] \in {"drain", "rewrite", "rewritten"}
       PROVE  spool[home[w]] \subseteq left[w] \cup Logged \cup overtaken
  BY <1>16 DEF Safe, DrainsWhere, DrainKnows
<1>17. ASSUME NEW w \in Writers, Unlink(w)
      PROVE  NoneIsLostButOvertaken' /\ WrittenIsLogged' /\ DrainKnows' /\ DrainsWhere'
  <2>1. /\ at[w] = "drain" /\ left[w] = {} /\ at' = [at EXCEPT ![w] = "idle"]
        /\ call' = [call EXCEPT ![w] = None]
        /\ draining' = [draining EXCEPT ![w] = FALSE]
        /\ read' = [read EXCEPT ![w] = {}] /\ left' = [left EXCEPT ![w] = {}]
        /\ spool' = [spool EXCEPT ![home[w]] = {}]
        /\ UNCHANGED <<home, answered, overtaken, cut>>
    BY <1>17 DEF Unlink
  <2>2. Rewriting' = Rewriting
    BY <1>1, <2>1 DEF Rewriting, TypeOK
  <2>3. Spooled \subseteq Spooled' \cup Logged' \cup overtaken'
    BY <1>1, <1>16, <2>1 DEF Spooled, TypeOK
  <2>4. NoneIsLostButOvertaken'
    BY <1>1, <2>1, <2>2, <2>3 DEF Safe, NoneIsLostButOvertaken
  <2>5. WrittenIsLogged'
    BY <1>1, <2>1 DEF Safe, WrittenIsLogged, TypeOK
  <2>6. DrainKnows'
    <3>5. SUFFICES ASSUME NEW v \in Writers, draining'[v]
                   PROVE  /\ read'[v] \subseteq left'[v] \cup Logged'
                          /\ spool'[home'[v]] \subseteq read'[v] \cup overtaken'
      BY DEF DrainKnows
    <3>6. home[v] \in Servers /\ home[w] \in Servers /\ home'[v] = home[v]
      BY <1>1, <2>1 DEF TypeOK
    <3>7. CASE v = w
      BY <1>1, <2>1, <3>5, <3>6, <3>7 DEF Safe, DrainKnows, TypeOK
    <3>8. CASE v # w
      <4>1. draining[v] /\ read'[v] = read[v] /\ left'[v] = left[v]
        BY <1>1, <2>1, <3>5, <3>8 DEF TypeOK
      <4>2. spool[home[v]] \subseteq read[v] \cup overtaken /\ read[v] \subseteq left[v] \cup Logged
        BY <4>1 DEF Safe, DrainKnows
      <4>3. spool'[home[v]] \subseteq read[v] \cup overtaken'
        BY <1>1, <2>1, <3>6, <3>8, <4>1, <4>2 DEF TypeOK
      <4> QED
        BY <1>1, <3>6, <4>1, <4>2, <4>3
    <3> QED
      BY <3>7, <3>8
  <2>7. DrainsWhere'
    BY <1>1, <2>1 DEF Safe, DrainsWhere, TypeOK
  <2> QED
    BY <2>4, <2>5, <2>6, <2>7
<1>18. ASSUME NEW w \in Writers, Truncate(w)
      PROVE  NoneIsLostButOvertaken' /\ WrittenIsLogged' /\ DrainKnows' /\ DrainsWhere'
  <2>1. /\ at[w] = "rewrite" /\ at' = [at EXCEPT ![w] = "rewritten"]
        /\ call' = [call EXCEPT ![w] = None]
        /\ spool' = [spool EXCEPT ![home[w]] = {}]
        /\ UNCHANGED <<home, answered, overtaken, cut, draining, read, left>>
    BY <1>18 DEF Truncate
  <2>2. Rewriting \cup left[w] \subseteq Rewriting'
    BY <1>1, <2>1 DEF Rewriting, TypeOK
  <2>3. Spooled \subseteq Spooled' \cup Logged' \cup overtaken' \cup Rewriting'
    BY <1>1, <1>16, <2>1, <2>2 DEF Spooled, TypeOK
  <2>4. NoneIsLostButOvertaken'
    BY <1>1, <2>1, <2>2, <2>3 DEF Safe, NoneIsLostButOvertaken
  <2>5. WrittenIsLogged'
    BY <1>1, <2>1 DEF Safe, WrittenIsLogged, TypeOK
  <2>6. DrainKnows'
    BY <1>1, <2>1 DEF Safe, DrainKnows, TypeOK
  <2>7. DrainsWhere'
    BY <1>1, <2>1 DEF Safe, DrainsWhere, TypeOK
  <2> QED
    BY <2>4, <2>5, <2>6, <2>7
<1>19. ASSUME NEW w \in Writers, Rewrite(w)
      PROVE  NoneIsLostButOvertaken' /\ WrittenIsLogged' /\ DrainKnows' /\ DrainsWhere'
  <2>1. /\ at[w] = "rewritten" /\ at' = [at EXCEPT ![w] = "idle"]
        /\ call' = [call EXCEPT ![w] = None]
        /\ draining' = [draining EXCEPT ![w] = FALSE]
        /\ read' = [read EXCEPT ![w] = {}] /\ left' = [left EXCEPT ![w] = {}]
        /\ spool' = [spool EXCEPT ![home[w]] = left[w]]
        /\ overtaken' = overtaken \cup Unread(w, left[w])
        /\ UNCHANGED <<home, answered, cut>>
    BY <1>19 DEF Rewrite, Remaining
  <2>2. left[w] \subseteq Spooled'
    BY <1>1, <2>1 DEF Spooled, TypeOK
  <2>3. Rewriting \subseteq Rewriting' \cup Spooled'
    BY <1>1, <2>1, <2>2 DEF Rewriting, TypeOK
  <2>4. Spooled \subseteq Spooled' \cup Logged' \cup overtaken'
    <3>1. \A s \in Servers : s # home[w] => spool'[s] = spool[s]
      BY <1>1, <2>1 DEF TypeOK
    <3> QED
      BY <1>1, <1>16, <2>1, <2>2, <3>1 DEF Spooled
  <2>5. NoneIsLostButOvertaken'
    BY <1>1, <2>1, <2>3, <2>4 DEF Safe, NoneIsLostButOvertaken
  <2>6. WrittenIsLogged'
    BY <1>1, <2>1 DEF Safe, WrittenIsLogged, TypeOK
  <2>7. DrainKnows'
    <3>1. \A v \in Writers \ {w} : draining[v] /\ home[v] = home[w] =>
            left[w] \subseteq read[v] \cup overtaken'
      BY <2>1 DEF Unread
    <3>2. SUFFICES ASSUME NEW v \in Writers, draining'[v]
                   PROVE  /\ read'[v] \subseteq left'[v] \cup Logged'
                          /\ spool'[home'[v]] \subseteq read'[v] \cup overtaken'
      BY DEF DrainKnows
    <3>3. home[v] \in Servers /\ home[w] \in Servers /\ home'[v] = home[v]
      BY <1>1, <2>1 DEF TypeOK
    <3>4. CASE v = w
      BY <1>1, <2>1, <3>2, <3>3, <3>4, <3>1 DEF Safe, DrainKnows, TypeOK
    <3>5. CASE v # w
      <4>1. draining[v] /\ read'[v] = read[v] /\ left'[v] = left[v]
        BY <1>1, <2>1, <3>2, <3>5 DEF TypeOK
      <4>2. spool[home[v]] \subseteq read[v] \cup overtaken /\ read[v] \subseteq left[v] \cup Logged
        BY <4>1 DEF Safe, DrainKnows
      <4>3. spool'[home[v]] \subseteq read[v] \cup overtaken'
        BY <1>1, <2>1, <3>3, <3>5, <4>1, <4>2, <3>1 DEF TypeOK
      <4> QED
        BY <1>1, <3>3, <4>1, <4>2, <4>3
    <3> QED
      BY <3>4, <3>5
  <2>8. DrainsWhere'
    BY <1>1, <2>1 DEF Safe, DrainsWhere, TypeOK
  <2> QED
    BY <2>5, <2>6, <2>7, <2>8
<1>20. ASSUME NEW s \in Servers, Die(s)
      PROVE  NoneIsLostButOvertaken' /\ WrittenIsLogged' /\ DrainKnows' /\ DrainsWhere'
  <2>1. Rewriting \subseteq Rewriting' \cup cut' /\ Spooled' = Spooled /\ cut \subseteq cut'
    BY <1>1, <1>20 DEF Die, Rewriting, Spooled, TypeOK
  <2>2. NoneIsLostButOvertaken'
    BY <1>1, <1>20, <2>1 DEF Die, Safe, NoneIsLostButOvertaken
  <2>3. WrittenIsLogged'
    BY <1>1, <1>20 DEF Die, Safe, WrittenIsLogged, TypeOK
  <2>4. DrainKnows'
    BY <1>1, <1>20 DEF Die, Safe, DrainKnows, TypeOK
  <2>5. DrainsWhere'
    BY <1>1, <1>20 DEF Die, Safe, DrainsWhere, TypeOK
  <2> QED
    BY <2>2, <2>3, <2>4, <2>5
<1>21. ASSUME UNCHANGED <<home, spool, at, call, drain, answered, aux>>
       PROVE  NoneIsLostButOvertaken' /\ WrittenIsLogged' /\ DrainKnows' /\ DrainsWhere'
  <2>1. Rewriting' = Rewriting /\ Spooled' = Spooled
    BY <1>21 DEF Rewriting, Spooled
  <2> QED
    BY <1>1, <1>21, <2>1
       DEF Safe, NoneIsLostButOvertaken, WrittenIsLogged, DrainKnows, DrainsWhere
<1>22. (\E s \in Servers : Midnight(s)) \/ List \/ Download \/ UNCHANGED vars =>
         UNCHANGED <<home, spool, at, call, drain, answered, aux>>
  BY DEF Midnight, List, Download, vars
<1> QED
  BY <1>7, <1>8, <1>9, <1>10, <1>11, <1>12, <1>13, <1>14, <1>15, <1>17, <1>18, <1>19,
     <1>20, <1>21, <1>22 DEF Next

(* The record of every answer that was given is in the log, in a spool or  *)
(* in a drain's hands, but for those put in a spool that a drain had read, *)
(* or held by a rewrite that died: whatever fails, and however the day's   *)
(* blobs are made and filled.                                              *)
THEOREM NothingElseIsLost == Spec => []NoneIsLostButOvertaken
<1>1. Safe => NoneIsLostButOvertaken
  BY DEF Safe
<1> QED
  BY SafeInit, SafeStep, <1>1, PTL DEF Spec

-------------------------------------------------------------------------------
(* What the reader gets                                                    *)

(* The blob of a writer's call takes its record's line.                    *)
TakesLine(w) ==
  /\ at[w] = "append" /\ Blob(w) \in Present /\ ~(Len(blobs[Blob(w)]) >= BlockLimit)
  /\ Present' = Present
  /\ blobs'[Blob(w)] = Append(blobs[Blob(w)], call[w].record)
  /\ \A n \in Names \ {Blob(w)} : blobs'[n] = blobs[n]

NoLineTaken ==
  /\ \A n \in Present : n \in Present' /\ blobs'[n] = blobs[n]
  /\ \A n \in Present' \ Present :
       blobs'[n] = <<>> /\ \E w \in Writers : at[w] = "create" /\ n = Blob(w)

LEMMA BlobsAre ==
  ASSUME TypeOK, NEW n \in Present
  PROVE  /\ n \in Names /\ n[1] \in Days /\ n[2] \in 0..MaxParts /\ n = <<n[1], n[2]>>
         /\ blobs[n] \in Seq(Records) /\ Len(blobs[n]) \in Nat
         /\ DOMAIN blobs[n] = 1..Len(blobs[n])
<1>1. n \in Names /\ blobs[n] \in Seq(Records)
  BY DEF TypeOK, Present
<1> QED
  BY <1>1 DEF Names

LEMMA LineTaken ==
  ASSUME TypeOK, NEW w \in Writers, at[w] = "append", There(w), ~Full(w), Appended(w)
  PROVE  TakesLine(w)
<1>1. call[w] \in Calls /\ Blob(w) \in Names /\ call[w].record \in Records
  BY DEF TypeOK, Calls, Blob, Names
<1>2. blobs[Blob(w)] \in Seq(Records)
  BY <1>1 DEF TypeOK, There
<1>3. /\ blobs'[Blob(w)] = Append(blobs[Blob(w)], call[w].record)
      /\ \A n \in Names \ {Blob(w)} : blobs'[n] = blobs[n]
  BY <1>1 DEF Appended, TypeOK
<1>4. Append(blobs[Blob(w)], call[w].record) \in Seq(Records)
  BY <1>1, <1>2
<1>5. Present' = Present
  BY <1>1, <1>2, <1>3, <1>4, NoneApart DEF Present, RecordsAreNotNone
<1> QED
  BY <1>1, <1>3, <1>5 DEF TakesLine, There, Full, Present

LEMMA BlobMade ==
  ASSUME TypeOK, NEW w \in Writers, at[w] = "create", blobs' = Made(w)
  PROVE  NoLineTaken
<1>1. call[w] \in Calls /\ Blob(w) \in Names
  BY DEF TypeOK, Calls, Blob, Names
<1>2. CASE There(w)
  BY <1>2 DEF Made, NoLineTaken, Present
<1>3. CASE ~There(w)
  <2>1. blobs' = [blobs EXCEPT ![Blob(w)] = <<>>] /\ blobs[Blob(w)] = None
    BY <1>3 DEF Made, There
  <2>2. /\ blobs'[Blob(w)] = <<>>
        /\ \A n \in Names \ {Blob(w)} : blobs'[n] = blobs[n]
    BY <1>1, <2>1 DEF TypeOK
  <2> QED
    BY <2>1, <2>2 DEF NoLineTaken, Present
<1> QED
  BY <1>2, <1>3

LEMMA BlobsStep ==
  ASSUME TypeOK, [Next]_vars PROVE NoLineTaken \/ \E w \in Writers : TakesLine(w)
<1>1. CASE UNCHANGED blobs
  BY <1>1 DEF NoLineTaken, Present
<1>2. \/ UNCHANGED blobs
      \/ \E w \in Writers : AppendBlock(w) \/ Create(w) \/ Fail(w)
  BY DEF Next, vars, fixed, log, drain, reader, aux, Write, NotThere, NextPart, OutOfParts,
         Return, ToSpool, Drain, Replay, Unlink, Truncate, Rewrite, Midnight, Die, List, Download
<1>3. ASSUME NEW w \in Writers, AppendBlock(w) \/ Create(w) \/ Fail(w)
      PROVE  \/ UNCHANGED blobs
             \/ at[w] = "append" /\ There(w) /\ ~Full(w) /\ Appended(w)
             \/ at[w] = "create" /\ blobs' = Made(w)
  BY <1>3 DEF AppendBlock, Create, Fail
<1> QED
  BY <1>1, <1>2, <1>3, LineTaken, BlobMade

(* No line moves.                                                          *)
LEMMA LinesStay ==
  ASSUME TypeOK, TypeOK', [Next]_vars, NEW n \in Present
  PROVE  /\ n \in Present' /\ Lines(n) \subseteq Lines(n)' /\ Len(blobs[n]) <= Len(blobs'[n])
         /\ \A x \in DOMAIN blobs[n] : x \in DOMAIN blobs'[n] /\ blobs'[n][x] = blobs[n][x]
<1>1. blobs[n] \in Seq(Records) /\ n \in Names
  BY BlobsAre
<1>2. CASE n \in Present' /\ blobs'[n] = blobs[n]
  BY <1>1, <1>2 DEF Lines
<1>3. ASSUME NEW w \in Writers, TakesLine(w), n = Blob(w)
      PROVE  /\ n \in Present' /\ Len(blobs[n]) <= Len(blobs'[n])
             /\ \A x \in DOMAIN blobs[n] : x \in DOMAIN blobs'[n] /\ blobs'[n][x] = blobs[n][x]
  <2>1. n \in Present' /\ blobs'[n] = Append(blobs[n], call[w].record)
    BY <1>3 DEF TakesLine
  <2>2. call[w].record \in Records
    BY <1>3 DEF TakesLine, TypeOK, Calls
  <2> QED
    BY <1>1, <2>1, <2>2
<1>4. \/ n \in Present' /\ blobs'[n] = blobs[n]
      \/ \E w \in Writers : TakesLine(w) /\ n = Blob(w)
  BY <1>1, BlobsStep DEF NoLineTaken, TakesLine
<1>5. /\ n \in Present' /\ Len(blobs[n]) <= Len(blobs'[n])
      /\ \A x \in DOMAIN blobs[n] : x \in DOMAIN blobs'[n] /\ blobs'[n][x] = blobs[n][x]
  BY <1>1, <1>2, <1>3, <1>4
<1>6. Lines(n) \subseteq Lines(n)'
  BY <1>5 DEF Lines, Present
<1> QED
  BY <1>5, <1>6

(* What the log had when the reader began it has, or will come to.         *)
Reads == must \subseteq {got[i] : i \in DOMAIN got} \cup UNION {Lines(n) : n \in names}

(* Where it has downloaded a blob.                                         *)
LEMMA Downloaded ==
  ASSUME TypeOK, Download
  PROVE  \E n \in names :
           /\ n \in Present /\ \A o \in names : Older(n, o)
           /\ names' = names \ {n} /\ must' = must
           /\ DOMAIN got = 1..Len(got) /\ Len(got) \in Nat
           /\ DOMAIN got' = 1..(Len(got) + Len(blobs[n]))
           /\ \A i \in 1..Len(got) : got'[i] = got[i]
           /\ \A i \in 1..Len(blobs[n]) : got'[Len(got) + i] = blobs[n][i]
<1>1. PICK n \in names : /\ \A o \in names : Older(n, o)
                         /\ names' = names \ {n} /\ got' = got \o blobs[n] /\ must' = must
  BY DEF Download, reader
<1>2. n \in Present /\ blobs[n] \in Seq(Records) /\ got \in Seq(Records)
  BY <1>1, BlobsAre DEF TypeOK
<1>3. /\ DOMAIN got = 1..Len(got) /\ Len(got) \in Nat
      /\ DOMAIN got' = 1..(Len(got) + Len(blobs[n]))
      /\ \A i \in 1..Len(got) : got'[i] = got[i]
      /\ \A i \in 1..Len(blobs[n]) : got'[Len(got) + i] = blobs[n][i]
  BY <1>1, <1>2
<1> QED
  BY <1>1, <1>2, <1>3

LEMMA ReaderStays ==
  ASSUME [Next]_vars PROVE UNCHANGED reader \/ List \/ Download
  BY DEF Next, vars, Write, AppendBlock, NotThere, Create, NextPart, OutOfParts, Fail, Return,
         ToSpool, Drain, Replay, Unlink, Truncate, Rewrite, Midnight, Die

LEMMA ReadsStep == TypeOK /\ Reads /\ [Next]_vars => Reads'
<1> SUFFICES ASSUME TypeOK, Reads, [Next]_vars PROVE Reads'
  OBVIOUS
<1>1. TypeOK'
  BY TypeStep
<1>2. \A n \in names : n \in Present /\ Lines(n) \subseteq Lines(n)'
  BY <1>1, LinesStay DEF TypeOK
<1>3. CASE UNCHANGED reader
  <2>1. names' = names /\ must' = must /\ got' = got
    BY <1>3 DEF reader
  <2> QED
    BY <1>2, <2>1 DEF Reads
<1>4. CASE List
  <2>1. names' = Present /\ must' = Logged /\ UNCHANGED <<got, blobs>>
    BY <1>4 DEF List, log
  <2>2. Logged \subseteq UNION {Lines(n) : n \in Present}
    BY DEF Logged, Present, Lines
  <2>3. \A n \in Names : Lines(n)' = Lines(n)
    BY <2>1 DEF Lines
  <2>4. Present \subseteq Names
    BY DEF Present
  <2> QED
    BY <2>1, <2>2, <2>3, <2>4 DEF Reads
<1>5. CASE Download
  <2>1. PICK n \in names :
           /\ n \in Present /\ names' = names \ {n} /\ must' = must
           /\ DOMAIN got = 1..Len(got) /\ Len(got) \in Nat
           /\ DOMAIN got' = 1..(Len(got) + Len(blobs[n]))
           /\ \A i \in 1..Len(got) : got'[i] = got[i]
           /\ \A i \in 1..Len(blobs[n]) : got'[Len(got) + i] = blobs[n][i]
    BY <1>5, Downloaded
  <2>2. Len(blobs[n]) \in Nat /\ DOMAIN blobs[n] = 1..Len(blobs[n]) /\ blobs[n] # None
    BY <2>1, BlobsAre DEF Present
  <2>3. \A i \in DOMAIN got : i \in DOMAIN got' /\ got'[i] = got[i]
    BY <2>1, <2>2
  <2>4. ASSUME NEW r \in Lines(n) PROVE \E i \in DOMAIN got' : got'[i] = r
    <3>1. PICK x \in 1..Len(blobs[n]) : r = blobs[n][x]
      BY <2>2 DEF Lines
    <3>2. Len(got) + x \in DOMAIN got' /\ got'[Len(got) + x] = r
      BY <2>1, <2>2, <3>1
    <3> QED
      BY <3>2
  <2>5. ASSUME NEW r \in must
        PROVE  (\E i \in DOMAIN got' : got'[i] = r) \/ (\E m \in names' : r \in Lines(m)')
    <3>1. CASE \E i \in DOMAIN got : got[i] = r
      BY <2>3, <3>1
    <3>2. CASE \E m \in names : r \in Lines(m)
      BY <1>2, <2>1, <2>4, <3>2
    <3> QED
      BY <3>1, <3>2 DEF Reads
  <2> QED
    BY <2>1, <2>5 DEF Reads
<1> QED
  BY <1>3, <1>4, <1>5, ReaderStays

(* What lines() returns has every record that was in the log when it       *)
(* began, whatever is appended, made and filled meanwhile.                 *)
THEOREM ReaderReadsAll == Spec => []ReadsAll
<1>1. Init => TypeOK /\ Reads
  BY TypeInit DEF Init, Reads
<1>2. TypeOK /\ [Next]_vars => TypeOK'
  BY TypeStep
<1>3. Reads => ReadsAll
  BY DEF Reads, ReadsAll
<1> QED
  BY <1>1, <1>2, <1>3, ReadsStep, PTL DEF Spec

-------------------------------------------------------------------------------
(* The order of the lines                                                  *)

Calling(w) == at[w] \in InAppend

(* Every part of day d before part p is there, and full.                   *)
Filled(d, p) ==
  \A q \in 0..(p - 1) : blobs[<<d, q>>] # None /\ Len(blobs[<<d, q>>]) >= BlockLimit

(* A part is there, known or written to only when those before it are full.*)
PartsInTurn ==
  /\ \A n \in Present : Filled(n[1], n[2])
  /\ \A s \in Servers, d \in Days : Filled(d, parts[s][d])
  /\ \A w \in Writers : Calling(w) => Filled(call[w].day, call[w].part)

(* A writer writes its last record, or replays one of a spool.             *)
Hands ==
  /\ \A w \in Writers : Calling(w) =>
       /\ IF draining[w] THEN call[w].record \in spooled ELSE call[w].record = <<w, count[w]>>
       /\ call[w].day <= clock[home[w]]
  /\ \A w \in Writers : left[w] \subseteq spooled
  /\ \A s \in Servers : spool[s] \subseteq spooled

(* A line in the log that went there straight is none of its writer's next *)
(* records, and of no later day than the record it is writing.             *)
Written(n, r) ==
  /\ r[2] <= count[r[1]]
  /\ n[1] <= clock[home[r[1]]]
  /\ Calling(r[1]) /\ ~draining[r[1]] => n[1] <= call[r[1]].day

AllWritten ==
  \A n \in Present : \A x \in DOMAIN blobs[n] :
    blobs[n][x] \notin spooled => Written(n, blobs[n][x])

Before(n, m) == Older(n, m) /\ n # m

InTurn(r, o) == r[1] = o[1] /\ {r, o} \cap spooled = {} => r[2] <= o[2]

(* The log has each writer's records in turn.                              *)
LogInTurn ==
  \A n, m \in Present : \A x \in DOMAIN blobs[n], y \in DOMAIN blobs[m] :
    Before(n, m) \/ (n = m /\ x < y) => InTurn(blobs[n][x], blobs[m][y])

(* What was read is from blobs before those still to read.                 *)
ReadInTurn ==
  \A i \in DOMAIN got : \E m \in Present :
    got[i] \in Lines(m) /\ \A n \in names : Before(m, n)

Ordered ==
  /\ TypeOK /\ DrainsWhere /\ PartsInTurn /\ Hands /\ AllWritten /\ LogInTurn /\ ReadInTurn
  /\ OldestFirst

(* A call that goes on, perhaps in the next part; and one that has begun.  *)
GoesOn(v) ==
  /\ Calling(v) /\ draining'[v] = draining[v] /\ count'[v] = count[v]
  /\ call'[v].record = call[v].record /\ call'[v].day = call[v].day
  /\ \/ call'[v].part = call[v].part
     \/ Full(v) /\ call'[v].part = call[v].part + 1 /\ UNCHANGED blobs

Begun(v) ==
  /\ draining'[v] = draining[v] /\ call'[v].day = clock[home[v]]
  /\ call'[v].part = parts[home[v]][clock[home[v]]]
  /\ IF draining[v] THEN call'[v].record \in left[v] ELSE call'[v].record = <<v, count'[v]>>

LEMMA CallStep ==
  ASSUME TypeOK, DrainsWhere, [Next]_vars, NEW v \in Writers, Calling(v)'
  PROVE  GoesOn(v) \/ Begun(v)
<1> USE DEF fixed, log, drain, reader, aux, Go, Rest, EndAppend, Calling, InAppend, GoesOn, Begun
<1>1. ASSUME NEW w \in Writers, Write(w) PROVE GoesOn(v) \/ Begun(v)
  BY <1>1 DEF Write, BeginAppend, TypeOK, DrainsWhere
<1>2. ASSUME NEW w \in Writers, Replay(w) PROVE GoesOn(v) \/ Begun(v)
  BY <1>2 DEF Replay, BeginAppend, TypeOK, DrainsWhere
<1>3. ASSUME NEW w \in Writers, NextPart(w) PROVE GoesOn(v) \/ Begun(v)
  <2>1. call[w] \in Calls
    BY <1>3 DEF NextPart, TypeOK
  <2>2. call' = [call EXCEPT ![w] = [call[w] EXCEPT !.part = @ + 1, !.made = FALSE]]
    BY <1>3, <2>1 DEF NextPart, TypeOK
  <2> QED
    BY <1>3, <2>1, <2>2 DEF NextPart, TypeOK, Calls
<1>4. ASSUME NEW w \in Writers, Create(w) PROVE GoesOn(v) \/ Begun(v)
  <2>1. call[w] \in Calls
    BY <1>4 DEF Create, TypeOK
  <2>2. call' = [call EXCEPT ![w] = [call[w] EXCEPT !.made = TRUE]]
    BY <1>4 DEF Create, TypeOK
  <2> QED
    BY <1>4, <2>1, <2>2 DEF Create, TypeOK, Calls
<1>5. ASSUME NEW w \in Writers, Fail(w) PROVE GoesOn(v) \/ Begun(v)
  <2>1. CASE ~draining[w] /\ ~spools
    BY <1>5, <2>1 DEF Fail, Failed, TypeOK
  <2>2. CASE ~(~draining[w] /\ ~spools)
    BY <1>5, <2>2 DEF Fail, Failed, TypeOK
  <2> QED
    BY <2>1, <2>2
<1>6. ASSUME NEW w \in Writers, Return(w) PROVE GoesOn(v) \/ Begun(v)
  <2>1. CASE draining[w]
    BY <1>6, <2>1 DEF Return, TypeOK
  <2>2. CASE ~draining[w]
    BY <1>6, <2>2 DEF Return, TypeOK
  <2> QED
    BY <2>1, <2>2
<1>7. ASSUME NEW w \in Writers, AppendBlock(w) \/ NotThere(w) PROVE GoesOn(v) \/ Begun(v)
  BY <1>7 DEF AppendBlock, NotThere, TypeOK
<1>8. ASSUME NEW w \in Writers,
             OutOfParts(w) \/ ToSpool(w) \/ Drain(w) \/ Unlink(w) \/ Truncate(w) \/ Rewrite(w)
      PROVE  GoesOn(v) \/ Begun(v)
  BY <1>8 DEF OutOfParts, ToSpool, Drain, Unlink, Truncate, Rewrite, TypeOK
<1>9. ASSUME NEW s \in Servers, Midnight(s) PROVE GoesOn(v) \/ Begun(v)
  BY <1>9 DEF Midnight
<1>10. ASSUME NEW s \in Servers, Die(s) PROVE GoesOn(v) \/ Begun(v)
  BY <1>10 DEF Die, TypeOK
<1>11. CASE List \/ Download \/ UNCHANGED vars
  BY <1>11 DEF List, Download, vars
<1> QED
  BY <1>1, <1>2, <1>3, <1>4, <1>5, <1>6, <1>7, <1>8, <1>9, <1>10, <1>11 DEF Next

(* Days pass, records are counted, and what was spooled stays so.          *)
LEMMA CountsGrow ==
  ASSUME TypeOK, [Next]_vars
  PROVE  /\ home' = home /\ spooled \subseteq spooled'
         /\ \A s \in Servers : clock[s] <= clock'[s]
         /\ \A v \in Writers : count[v] <= count'[v]
<1> USE DEF fixed, log, drain, reader, aux
<1>0. clock \in [Servers -> Int] /\ count \in [Writers -> Int]
  BY LimitsAreNumbers DEF TypeOK, Days
<1>1. ASSUME NEW w \in Writers, Write(w)
      PROVE  /\ home' = home /\ spooled \subseteq spooled'
             /\ \A s \in Servers : clock[s] <= clock'[s]
             /\ \A v \in Writers : count[v] <= count'[v]
  <2>1. /\ count' = [count EXCEPT ![w] = @ + 1]
        /\ home' = home /\ spooled' = spooled /\ clock' = clock
    BY <1>1 DEF Write
  <2> QED
    BY <1>0, <2>1
<1>2. ASSUME NEW s \in Servers, Midnight(s)
      PROVE  /\ home' = home /\ spooled \subseteq spooled'
             /\ \A t \in Servers : clock[t] <= clock'[t]
             /\ \A v \in Writers : count[v] <= count'[v]
  <2>1. /\ clock' = [clock EXCEPT ![s] = @ + 1]
        /\ home' = home /\ spooled' = spooled /\ count' = count
    BY <1>2 DEF Midnight
  <2> QED
    BY <1>0, <2>1
<1>3. CASE home' = home /\ spooled \subseteq spooled' /\ UNCHANGED <<clock, count>>
  BY <1>0, <1>3
<1>4. \/ \E w \in Writers : Write(w)
      \/ \E s \in Servers : Midnight(s)
      \/ home' = home /\ spooled \subseteq spooled' /\ UNCHANGED <<clock, count>>
  BY DEF Next, vars, AppendBlock, NotThere, Create, NextPart, OutOfParts, Fail, Return,
         ToSpool, Drain, Replay, Unlink, Truncate, Rewrite, Die, List, Download
<1> QED
  BY <1>1, <1>2, <1>3, <1>4

LEMMA FilledStays ==
  ASSUME TypeOK, TypeOK', [Next]_vars, NEW d \in Days, NEW p \in 0..MaxParts, Filled(d, p)
  PROVE  Filled(d, p)'
<1> SUFFICES ASSUME NEW q \in 0..(p - 1)
             PROVE  blobs'[<<d, q>>] # None /\ Len(blobs'[<<d, q>>]) >= BlockLimit
  BY DEF Filled
<1>1. <<d, q>> \in Present /\ Len(blobs[<<d, q>>]) >= BlockLimit
  BY LimitsAreNumbers DEF Filled, Present, Names
<1>2. <<d, q>> \in Present' /\ Len(blobs[<<d, q>>]) <= Len(blobs'[<<d, q>>])
  BY <1>1, LinesStay
<1>3. Len(blobs[<<d, q>>]) \in Nat /\ Len(blobs'[<<d, q>>]) \in Nat
  <2>1. blobs[<<d, q>>] \in Seq(Records)
    BY <1>1, BlobsAre
  <2>2. blobs'[<<d, q>>] \in Seq(Records)
    BY <1>2 DEF TypeOK, Present
  <2> QED
    BY <2>1, <2>2
<1> QED
  BY <1>1, <1>2, <1>3, LimitsAreNumbers DEF Present

LEMMA PartsStep ==
  ASSUME TypeOK, [Next]_vars, NEW s \in Servers, NEW d \in Days
  PROVE  \/ parts'[s][d] = parts[s][d]
         \/ parts'[s][d] = 0
         \/ \E w \in Writers :
              Calling(w) /\ call[w].day = d /\ parts'[s][d] = call[w].part
<1> USE DEF fixed, log, drain, reader, aux
<1>1. ASSUME NEW w \in Writers, Return(w)
      PROVE  \/ parts'[s][d] = parts[s][d]
             \/ Calling(w) /\ call[w].day = d /\ parts'[s][d] = call[w].part
  <2>1. call[w] \in Calls /\ Calling(w)
    BY <1>1 DEF Return, TypeOK, Calling, InAppend
  <2>2. CASE home[w] = s /\ call[w].day = d
    BY <1>1, <2>1, <2>2 DEF Return, TypeOK, Calls
  <2>3. CASE ~(home[w] = s /\ call[w].day = d)
    BY <1>1, <2>1, <2>3 DEF Return, TypeOK, Calls
  <2> QED
    BY <2>1, <2>2, <2>3
<1>2. ASSUME NEW t \in Servers, Die(t) PROVE parts'[s][d] = parts[s][d] \/ parts'[s][d] = 0
  BY <1>2 DEF Die, TypeOK
<1>3. \/ \E w \in Writers : Return(w)
      \/ \E t \in Servers : Die(t)
      \/ UNCHANGED parts
  BY DEF Next, vars, Write, AppendBlock, NotThere, Create, NextPart, OutOfParts, Fail,
         ToSpool, Drain, Replay, Unlink, Truncate, Rewrite, Midnight, List, Download
<1> QED
  BY <1>1, <1>2, <1>3

LEMMA PartsInTurnStep ==
  ASSUME TypeOK, TypeOK', DrainsWhere, PartsInTurn, [Next]_vars PROVE PartsInTurn'
<1>1. ASSUME NEW w \in Writers, Calling(w)
      PROVE  \E d \in Days, p \in 0..MaxParts :
               d = call[w].day /\ p = call[w].part /\ Filled(d, p) /\ Filled(d, p)'
  <2>1. call[w] \in Calls /\ call[w].day \in Days /\ call[w].part \in 0..MaxParts
    BY <1>1 DEF Calling, InAppend, TypeOK, Calls
  <2>2. Filled(call[w].day, call[w].part)
    BY <1>1 DEF PartsInTurn
  <2> QED
    BY <2>1, <2>2, FilledStays
<1>2. ASSUME NEW d \in Days PROVE Filled(d, 0)'
  BY DEF Filled
<1>3. ASSUME NEW n \in Present' PROVE Filled(n[1], n[2])'
  <2>1. CASE n \in Present
    BY <2>1, BlobsAre, FilledStays DEF PartsInTurn
  <2>2. CASE n \notin Present
    <3>1. PICK w \in Writers : at[w] = "create" /\ n = Blob(w)
      BY <2>2, BlobsStep DEF NoLineTaken, TakesLine
    <3>2. PICK d \in Days, p \in 0..MaxParts :
             d = call[w].day /\ p = call[w].part /\ Filled(d, p)'
      BY <1>1, <3>1 DEF Calling, InAppend
    <3> QED
      BY <3>1, <3>2 DEF Blob
  <2> QED
    BY <2>1, <2>2
<1>4. ASSUME NEW s \in Servers, NEW d \in Days
      PROVE  \E p \in 0..MaxParts : p = parts'[s][d] /\ Filled(d, p)'
  <2>1. CASE parts'[s][d] = parts[s][d]
    <3>1. PICK p \in 0..MaxParts : p = parts[s][d]
      BY DEF TypeOK
    <3>2. Filled(d, p)'
      BY <3>1, FilledStays DEF PartsInTurn
    <3> QED
      BY <2>1, <3>1, <3>2
  <2>2. CASE parts'[s][d] = 0
    BY <1>2, <2>2, LimitsAreNumbers
  <2>3. ASSUME NEW w \in Writers, Calling(w), call[w].day = d, parts'[s][d] = call[w].part
        PROVE  \E p \in 0..MaxParts : p = parts'[s][d] /\ Filled(d, p)'
    <3>1. PICK e \in Days, p \in 0..MaxParts :
             e = call[w].day /\ p = call[w].part /\ Filled(e, p)'
      BY <1>1, <2>3
    <3> QED
      BY <2>3, <3>1
  <2> QED
    BY <2>1, <2>2, <2>3, PartsStep
<1>5. ASSUME NEW v \in Writers, Calling(v)'
      PROVE  \E d \in Days, p \in 0..MaxParts :
               d = call'[v].day /\ p = call'[v].part /\ Filled(d, p)'
  <2>1. CASE GoesOn(v)
    <3>1. PICK d \in Days, p \in 0..MaxParts :
             d = call[v].day /\ p = call[v].part /\ Filled(d, p)'
      BY <1>1, <2>1 DEF GoesOn
    <3>2. CASE call'[v].part = p
      BY <2>1, <3>1, <3>2 DEF GoesOn
    <3>0. p \in Nat /\ call'[v].part \in 0..MaxParts
      <4>1. call'[v] \in Calls
        BY <1>5 DEF Calling, InAppend, TypeOK
      <4>2. call'[v].part \in 0..MaxParts
        BY <4>1 DEF Calls
      <4> QED
        BY <3>1, <4>2
    <3>3. CASE Full(v) /\ call'[v].part = p + 1 /\ UNCHANGED blobs
      <4>1. blobs'[<<d, p>>] # None /\ Len(blobs'[<<d, p>>]) >= BlockLimit
        BY <3>1, <3>3 DEF Full, There, Blob
      <4>2. \A q \in 0..((p + 1) - 1) : q = p \/ q \in 0..(p - 1)
        BY LimitsAreNumbers
      <4>3. Filled(d, p + 1)'
        BY <3>1, <4>1, <4>2 DEF Filled
      <4>4. p + 1 \in 0..MaxParts
        BY <3>0, <3>3
      <4>5. d = call'[v].day
        BY <2>1, <3>1 DEF GoesOn
      <4> QED
        BY <3>3, <4>3, <4>4, <4>5
    <3> QED
      BY <2>1, <3>1, <3>2, <3>3 DEF GoesOn
  <2>2. CASE Begun(v)
    <3>0. home[v] \in Servers
      BY DEF TypeOK
    <3>1. PICK d \in Days, p \in 0..MaxParts : d = clock[home[v]] /\ p = parts[home[v]][d]
      BY <3>0 DEF TypeOK
    <3>2. Filled(d, p)
      BY <3>1 DEF PartsInTurn, TypeOK
    <3>3. Filled(d, p)'
      BY <3>2, FilledStays
    <3> QED
      BY <2>2, <3>1, <3>3 DEF Begun
  <2> QED
    BY <1>5, <2>1, <2>2, CallStep
<1>6. (\A s \in Servers, d \in Days : Filled(d, parts[s][d]))'
  BY <1>4
<1>7. (\A w \in Writers : Calling(w) => Filled(call[w].day, call[w].part))'
  BY <1>5
<1> QED
  BY <1>3, <1>6, <1>7 DEF PartsInTurn

LEMMA HandsStep ==
  ASSUME TypeOK, TypeOK', DrainsWhere, Hands, [Next]_vars PROVE Hands'
<1>1. ASSUME NEW v \in Writers, Calling(v)'
      PROVE  /\ IF draining'[v] THEN call'[v].record \in spooled'
                ELSE call'[v].record = <<v, count'[v]>>
             /\ call'[v].day <= clock'[home'[v]]
  <2>1. home[v] \in Servers /\ home'[v] = home[v] /\ spooled \subseteq spooled'
    BY CountsGrow DEF TypeOK
  <2>2. clock[home[v]] \in Int /\ clock'[home[v]] \in Int /\ clock[home[v]] <= clock'[home[v]]
    <3>1. clock[home[v]] \in Days /\ clock'[home[v]] \in Days
      BY <2>1 DEF TypeOK
    <3> QED
      BY <2>1, <3>1, CountsGrow, LimitsAreNumbers DEF Days
  <2>3. CASE GoesOn(v)
    <3>0. call[v] \in Calls
      BY <2>3 DEF GoesOn, Calling, InAppend, TypeOK
    <3>1. call[v].day \in Int
      BY <3>0, LimitsAreNumbers DEF Calls, Days
    <3> QED
      BY <2>1, <2>2, <2>3, <3>1 DEF GoesOn, Hands
  <2>4. CASE Begun(v)
    BY <2>1, <2>2, <2>4 DEF Begun, Hands
  <2> QED
    BY <1>1, <2>3, <2>4, CallStep
<1> USE DEF fixed, log, drain, reader, aux, Go, Rest, EndAppend
<1>2. /\ \A v \in Writers : left'[v] \subseteq spooled'
      /\ \A s \in Servers : spool'[s] \subseteq spooled'
  <2>1. ASSUME NEW w \in Writers, NEW S, S \subseteq spooled,
               left' = [left EXCEPT ![w] = S], UNCHANGED <<spool, spooled>>
        PROVE  /\ \A v \in Writers : left'[v] \subseteq spooled'
               /\ \A s \in Servers : spool'[s] \subseteq spooled'
    BY <2>1 DEF Hands, TypeOK
  <2>2. ASSUME NEW w \in Writers, NEW S, S \subseteq spooled,
               spool' = [spool EXCEPT ![home[w]] = S], UNCHANGED spooled,
               UNCHANGED left \/ left' = [left EXCEPT ![w] = {}]
        PROVE  /\ \A v \in Writers : left'[v] \subseteq spooled'
               /\ \A s \in Servers : spool'[s] \subseteq spooled'
    BY <2>2 DEF Hands, TypeOK
  <2>3. CASE UNCHANGED <<spool, left, spooled>>
    BY <2>3 DEF Hands
  <2>4. ASSUME NEW w \in Writers, Return(w) \/ Fail(w) \/ OutOfParts(w)
        PROVE  /\ UNCHANGED <<spool, spooled>>
               /\ UNCHANGED left \/ \E S : S \subseteq left[w] /\ left' = [left EXCEPT ![w] = S]
    <3>1. CASE Return(w)
      BY <3>1 DEF Return
    <3>2. CASE Fail(w)
      BY <3>2 DEF Fail, Failed
    <3>3. CASE OutOfParts(w)
      BY <3>3 DEF OutOfParts
    <3> QED
      BY <2>4, <3>1, <3>2, <3>3
  <2>5. ASSUME NEW w \in Writers, Drain(w)
        PROVE  left' = [left EXCEPT ![w] = spool[home[w]]] /\ UNCHANGED <<spool, spooled>>
    BY <2>5 DEF Drain
  <2>6. ASSUME NEW w \in Writers, Unlink(w) \/ Truncate(w) \/ Rewrite(w)
        PROVE  /\ UNCHANGED left \/ left' = [left EXCEPT ![w] = {}]
               /\ UNCHANGED spooled
               /\ \E S : S \subseteq left[w] /\ spool' = [spool EXCEPT ![home[w]] = S]
    BY <2>6 DEF Unlink, Truncate, Rewrite, Remaining
  <2>7. ASSUME NEW w \in Writers, ToSpool(w)
        PROVE  /\ \A v \in Writers : left'[v] \subseteq spooled'
               /\ \A s \in Servers : spool'[s] \subseteq spooled'
    <3>1. /\ spool' = [spool EXCEPT ![home[w]] = @ \cup {call[w].record}]
          /\ spooled' = spooled \cup {call[w].record} /\ UNCHANGED left
      BY <2>7 DEF ToSpool
    <3> QED
      BY <3>1 DEF Hands, TypeOK
  <2>8. ASSUME NEW s \in Servers, Die(s)
        PROVE  /\ \A v \in Writers : left'[v] \subseteq spooled'
               /\ \A t \in Servers : spool'[t] \subseteq spooled'
    BY <2>8 DEF Die, Hands, TypeOK
  <2>9. \/ UNCHANGED <<spool, left, spooled>>
        \/ \E w \in Writers : \/ Return(w) \/ Fail(w) \/ OutOfParts(w) \/ Drain(w) \/ Unlink(w)
                              \/ Truncate(w) \/ Rewrite(w) \/ ToSpool(w)
        \/ \E s \in Servers : Die(s)
    BY DEF Next, vars, Write, AppendBlock, NotThere, Create, NextPart, Replay, Midnight, List,
           Download
  <2>10. \A w \in Writers : left[w] \subseteq spooled /\ spool[home[w]] \subseteq spooled
    BY DEF Hands, TypeOK
  <2> QED
    BY <2>1, <2>2, <2>3, <2>4, <2>5, <2>6, <2>7, <2>8, <2>9, <2>10
<1> QED
  BY <1>1, <1>2 DEF Hands

Old(n, x) == n \in Present /\ x \in DOMAIN blobs[n] /\ blobs'[n][x] = blobs[n][x]

LEMMA NoLineIsNew ==
  ASSUME NoLineTaken, NEW n \in Present', NEW x \in DOMAIN blobs'[n] PROVE Old(n, x)
<1>1. CASE n \in Present
  BY <1>1 DEF NoLineTaken, Old
<1>2. CASE n \notin Present
  <2>1. blobs'[n] = <<>>
    BY <1>2 DEF NoLineTaken
  <2> QED
    BY <2>1
<1> QED
  BY <1>1, <1>2

LEMMA OneLineIsNew ==
  ASSUME TypeOK, NEW w \in Writers, TakesLine(w), NEW n \in Present', NEW x \in DOMAIN blobs'[n]
  PROVE  \/ Old(n, x)
         \/ n = Blob(w) /\ x = Len(blobs[n]) + 1 /\ blobs'[n][x] = call[w].record
<1>1. n \in Present /\ blobs[n] \in Seq(Records) /\ n \in Names
  BY BlobsAre DEF TakesLine
<1>2. CASE n # Blob(w)
  BY <1>1, <1>2 DEF TakesLine, Old
<1>3. CASE n = Blob(w)
  <2>1. blobs'[n] = Append(blobs[n], call[w].record)
    BY <1>3 DEF TakesLine
  <2>2. call[w].record \in Records
    BY DEF TakesLine, TypeOK, Calls
  <2> QED
    BY <1>1, <1>3, <2>1, <2>2 DEF Old
<1> QED
  BY <1>2, <1>3

LEMMA CallsAre ==
  ASSUME TypeOK, NEW w \in Writers, Calling(w)
  PROVE  /\ call[w].record \in Records /\ call[w].day \in Days /\ call[w].part \in 0..MaxParts
         /\ call[w].day \in Int /\ call[w].part \in Int
         /\ Blob(w) = <<call[w].day, call[w].part>>
<1>1. call[w] \in Calls
  BY DEF Calling, InAppend, TypeOK
<1>2. call[w].record \in Records /\ call[w].day \in Days /\ call[w].part \in 0..MaxParts
  BY <1>1 DEF Calls
<1> QED
  BY <1>2, LimitsAreNumbers DEF Blob, Days

LEMMA WrittenStays ==
  ASSUME TypeOK, TypeOK', DrainsWhere, [Next]_vars, NEW n \in Present, NEW r \in Records,
         Written(n, r)
  PROVE  Written(n, r)'
<1>1. PICK v \in Writers : v = r[1]
  BY DEF Records
<1>2. r[2] \in Int /\ n[1] \in Int
  BY LimitsAreNumbers, BlobsAre DEF Records, Days
<1>3. home[v] \in Servers /\ home'[v] = home[v] /\ count[v] <= count'[v]
      /\ clock[home[v]] <= clock'[home[v]]
  <2>1. home[v] \in Servers
    BY DEF TypeOK
  <2> QED
    BY <2>1, CountsGrow
<1>4. /\ count[v] \in Int /\ count'[v] \in Int
      /\ clock[home[v]] \in Int /\ clock'[home[v]] \in Int
  <2>1. /\ count[v] \in 0..MaxRecords /\ count'[v] \in 0..MaxRecords
        /\ clock[home[v]] \in Days /\ clock'[home[v]] \in Days
    BY <1>3 DEF TypeOK
  <2> QED
    BY <2>1, LimitsAreNumbers DEF Days
<1>5. ASSUME Calling(v)', ~draining'[v] PROVE n[1] <= call'[v].day
  <2>1. CASE GoesOn(v)
    BY <1>1, <1>5, <2>1 DEF GoesOn, Written
  <2>2. CASE Begun(v)
    BY <1>1, <2>2 DEF Begun, Written
  <2> QED
    BY <1>5, <2>1, <2>2, CallStep
<1> QED
  BY <1>1, <1>2, <1>3, <1>4, <1>5 DEF Written

(* The line a writer adds is its last record, or a spool's.                *)
LEMMA NewIsWritten ==
  ASSUME TypeOK, Hands, NEW w \in Writers, TakesLine(w), call[w].record \notin spooled
  PROVE  ~draining[w] /\ call[w].record = <<w, count[w]>> /\ Written(Blob(w), call[w].record)
<1>1. Calling(w)
  BY DEF TakesLine, Calling, InAppend
<1>2. ~draining[w] /\ call[w].record = <<w, count[w]>> /\ call[w].day <= clock[home[w]]
  BY <1>1 DEF Hands
<1>3. Blob(w)[1] = call[w].day /\ call[w].day \in Int /\ count[w] \in Int
  BY <1>1, CallsAre, LimitsAreNumbers DEF TypeOK
<1> QED
  BY <1>2, <1>3 DEF Written

LEMMA AllWrittenStep ==
  ASSUME TypeOK, TypeOK', DrainsWhere, Hands, AllWritten, [Next]_vars PROVE AllWritten'
<1> SUFFICES ASSUME NEW n \in Present', NEW x \in DOMAIN blobs'[n], blobs'[n][x] \notin spooled'
             PROVE  Written(n, blobs[n][x])'
  BY DEF AllWritten
<1>1. blobs'[n][x] \notin spooled
  BY CountsGrow
<1>2. CASE Old(n, x)
  <2>1. PICK r : r = blobs[n][x]
    OBVIOUS
  <2>2. n \in Present /\ r \in Records /\ r = blobs'[n][x]
    BY <1>2, <2>1, BlobsAre DEF Old
  <2>3. Written(n, r)
    BY <1>1, <1>2, <2>1, <2>2 DEF Old, AllWritten
  <2>4. Written(n, r)'
    BY <2>2, <2>3, WrittenStays
  <2> QED
    BY <2>2, <2>4 DEF Written
<1>3. ASSUME NEW w \in Writers, TakesLine(w), n = Blob(w), blobs'[n][x] = call[w].record
      PROVE  Written(n, blobs[n][x])'
  <2>1. PICK r : r = call[w].record
    OBVIOUS
  <2>2. n \in Present /\ r \in Records
    BY <1>3, <2>1 DEF TakesLine, TypeOK, Calls
  <2>3. Written(n, r)
    BY <1>1, <1>3, <2>1, NewIsWritten
  <2>4. Written(n, r)'
    BY <2>2, <2>3, WrittenStays
  <2> QED
    BY <1>3, <2>1, <2>4 DEF Written
<1> QED
  BY <1>2, <1>3, BlobsStep, NoLineIsNew, OneLineIsNew

LEMMA LogInTurnStep ==
  ASSUME TypeOK, TypeOK', PartsInTurn, Hands, AllWritten, LogInTurn, [Next]_vars
  PROVE  LogInTurn'
<1> SUFFICES ASSUME NEW n \in Present', NEW m \in Present',
                    NEW x \in DOMAIN blobs'[n], NEW y \in DOMAIN blobs'[m],
                    Before(n, m) \/ (n = m /\ x < y),
                    blobs'[n][x][1] = blobs'[m][y][1],
                    blobs'[n][x] \notin spooled', blobs'[m][y] \notin spooled'
             PROVE  blobs'[n][x][2] <= blobs'[m][y][2]
  BY DEF LogInTurn, InTurn, Before, Older
<1>1. blobs'[n][x] \notin spooled /\ blobs'[m][y] \notin spooled
  BY CountsGrow
<1>2. CASE Old(n, x) /\ Old(m, y)
  BY <1>1, <1>2 DEF Old, LogInTurn, InTurn
<1>3. ASSUME NEW w \in Writers, TakesLine(w)
      PROVE  blobs'[n][x][2] <= blobs'[m][y][2]
  <2>1. /\ Blob(w) = <<call[w].day, call[w].part>> /\ Blob(w) \in Present
        /\ call[w].day \in Int /\ call[w].part \in Int /\ Calling(w)
    BY <1>3, CallsAre DEF TakesLine, Calling, InAppend
  <2>2. CASE Old(n, x) /\ m = Blob(w) /\ blobs'[m][y] = call[w].record
    <3>1. blobs'[m][y] = <<w, count[w]>>
      BY <1>1, <1>3, <2>2, NewIsWritten
    <3>2. Written(n, blobs[n][x]) /\ blobs'[n][x] = blobs[n][x]
      BY <1>1, <2>2 DEF Old, AllWritten
    <3> QED
      BY <3>1, <3>2 DEF Written
  <2>3. CASE /\ n = Blob(w) /\ x = Len(blobs[n]) + 1 /\ blobs'[n][x] = call[w].record
             /\ Old(m, y)
    <3>1. blobs'[n][x] = <<w, count[w]>> /\ ~draining[w]
      BY <1>1, <1>3, <2>3, NewIsWritten
    <3>2. Written(m, blobs[m][y]) /\ blobs'[m][y] = blobs[m][y]
      BY <1>1, <2>3 DEF Old, AllWritten
    <3>3. m[1] <= call[w].day
      BY <2>1, <3>1, <3>2 DEF Written
    <3>4. /\ m \in Present /\ m = <<m[1], m[2]>> /\ m[1] \in Int /\ m[2] \in Int
          /\ y \in 1..Len(blobs[m]) /\ Len(blobs[m]) \in Nat
      BY <2>3, BlobsAre, LimitsAreNumbers DEF Old, Days
    <3>5. ~(n = m /\ x < y)
      BY <2>3, <3>4
    <3>6. m[1] = call[w].day /\ call[w].part < m[2]
      BY <2>1, <2>3, <3>3, <3>4, <3>5 DEF Before, Older
    <3>7. Filled(m[1], m[2]) /\ call[w].part \in 0..(m[2] - 1)
      <4>1. call[w].part \in 0..MaxParts
        BY <2>1, CallsAre
      <4> QED
        BY <3>4, <3>6, <4>1, LimitsAreNumbers DEF PartsInTurn
    <3>8. Len(blobs[Blob(w)]) >= BlockLimit
      BY <2>1, <3>6, <3>7 DEF Filled
    <3> QED
      BY <1>3, <3>8 DEF TakesLine
  <2>4. CASE /\ n = Blob(w) /\ x = Len(blobs[n]) + 1
             /\ m = Blob(w) /\ y = Len(blobs[m]) + 1
    <3>1. Len(blobs[n]) \in Nat
      BY <2>1, <2>4, BlobsAre
    <3> QED
      BY <2>4, <3>1 DEF Before
  <2> QED
    BY <1>2, <1>3, <2>2, <2>3, <2>4, OneLineIsNew
<1> QED
  BY <1>2, <1>3, BlobsStep, NoLineIsNew

LEMMA ReadInTurnStep ==
  ASSUME TypeOK, TypeOK', LogInTurn, ReadInTurn, OldestFirst, [Next]_vars
  PROVE  ReadInTurn' /\ OldestFirst'
<1>1. spooled \subseteq spooled'
  BY CountsGrow
<1>2. \A m \in Present : m \in Present' /\ Lines(m) \subseteq Lines(m)'
  BY LinesStay
<1>3. CASE UNCHANGED reader
  <2>1. got' = got /\ names' = names
    BY <1>3 DEF reader
  <2>2. ReadInTurn'
    BY <1>2, <2>1 DEF ReadInTurn, Before, Older
  <2>3. OldestFirst'
    BY <1>1, <2>1 DEF OldestFirst
  <2> QED
    BY <2>2, <2>3
<1>4. CASE List
  <2>1. got' = <<>>
    BY <1>4 DEF List
  <2> QED
    BY <2>1 DEF ReadInTurn, OldestFirst
<1>5. CASE Download
  <2>1. PICK n \in names :
           /\ n \in Present /\ \A o \in names : Older(n, o)
           /\ names' = names \ {n}
           /\ DOMAIN got = 1..Len(got) /\ Len(got) \in Nat
           /\ DOMAIN got' = 1..(Len(got) + Len(blobs[n]))
           /\ \A i \in 1..Len(got) : got'[i] = got[i]
           /\ \A i \in 1..Len(blobs[n]) : got'[Len(got) + i] = blobs[n][i]
    BY <1>5, Downloaded
  <2>2. /\ Len(blobs[n]) \in Nat /\ DOMAIN blobs[n] = 1..Len(blobs[n])
        /\ Lines(n) = {blobs[n][i] : i \in DOMAIN blobs[n]}
    BY <2>1, BlobsAre DEF Present, Lines
  <2>3. ASSUME NEW i \in DOMAIN got'
        PROVE  \/ i \in DOMAIN got /\ got'[i] = got[i]
               \/ /\ i > Len(got) /\ i - Len(got) \in DOMAIN blobs[n]
                  /\ got'[i] = blobs[n][i - Len(got)]
    <3>1. CASE i \in 1..Len(got)
      BY <2>1, <3>1
    <3>2. CASE i \notin 1..Len(got)
      <4>1. i - Len(got) \in 1..Len(blobs[n]) /\ i > Len(got) /\ i = Len(got) + (i - Len(got))
        BY <2>1, <2>2, <3>2
      <4> QED
        BY <2>1, <2>2, <4>1
    <3> QED
      BY <3>1, <3>2
  <2>4. ReadInTurn'
    <3>1. SUFFICES ASSUME NEW i \in DOMAIN got'
                   PROVE  \E m \in Present' :
                            got'[i] \in Lines(m)' /\ \A o \in names' : Before(m, o)
      BY DEF ReadInTurn, Before, Older
    <3>2. CASE i \in DOMAIN got /\ got'[i] = got[i]
      BY <1>2, <2>1, <3>2 DEF ReadInTurn
    <3>3. CASE i - Len(got) \in DOMAIN blobs[n] /\ got'[i] = blobs[n][i - Len(got)]
      <4>1. got'[i] \in Lines(n)
        BY <2>2, <3>3
      <4> QED
        BY <1>2, <2>1, <4>1 DEF Before
    <3> QED
      BY <2>3, <3>2, <3>3
  <2>5. OldestFirst'
    <3>1. SUFFICES ASSUME NEW i \in DOMAIN got', NEW j \in DOMAIN got', i < j,
                          got'[i][1] = got'[j][1],
                          got'[i] \notin spooled, got'[j] \notin spooled
                   PROVE  got'[i][2] <= got'[j][2]
      BY <1>1 DEF OldestFirst
    <3>2. CASE i \in DOMAIN got /\ got'[i] = got[i] /\ j \in DOMAIN got /\ got'[j] = got[j]
      BY <3>1, <3>2 DEF OldestFirst
    <3>3. CASE /\ i \in DOMAIN got /\ got'[i] = got[i]
               /\ j - Len(got) \in DOMAIN blobs[n] /\ got'[j] = blobs[n][j - Len(got)]
      <4>1. PICK m \in Present : got[i] \in Lines(m) /\ \A o \in names : Before(m, o)
        BY <3>3 DEF ReadInTurn
      <4>2. PICK x \in DOMAIN blobs[m] : got[i] = blobs[m][x]
        BY <4>1 DEF Lines, Present
      <4>3. InTurn(blobs[m][x], blobs[n][j - Len(got)])
        BY <2>1, <3>3, <4>1, <4>2 DEF LogInTurn
      <4> QED
        BY <3>1, <3>3, <4>2, <4>3 DEF InTurn
    <3>4. CASE /\ i - Len(got) \in DOMAIN blobs[n] /\ got'[i] = blobs[n][i - Len(got)]
               /\ j - Len(got) \in DOMAIN blobs[n] /\ got'[j] = blobs[n][j - Len(got)]
      <4>1. i - Len(got) < j - Len(got)
        BY <2>1, <2>2, <3>1
      <4>2. InTurn(blobs[n][i - Len(got)], blobs[n][j - Len(got)])
        BY <2>1, <3>4, <4>1 DEF LogInTurn
      <4> QED
        BY <3>1, <3>4, <4>2 DEF InTurn
    <3>5. i > Len(got) /\ j \in DOMAIN got => FALSE
      BY <2>1, <2>2, <3>1
    <3> QED
      BY <2>3, <3>2, <3>3, <3>4, <3>5
  <2> QED
    BY <2>4, <2>5
<1> QED
  BY <1>3, <1>4, <1>5, ReaderStays

(* Records of one writer that went straight to the log are read in the     *)
(* order they were written, over parts, days and restarts, and whoever     *)
(* makes a blob, fills it, or fails to write to it.                        *)
THEOREM ReadInOrder == Spec => []OldestFirst
<1>1. Init => Ordered
  <2> SUFFICES ASSUME Init PROVE Ordered
    OBVIOUS
  <2>1. TypeOK /\ DrainsWhere
    BY TypeInit DEF Init, DrainsWhere
  <2>2. Present = {}
    BY DEF Init, Present
  <2>3. PartsInTurn
    BY <2>2, LimitsAreNumbers DEF Init, PartsInTurn, Filled, Calling, InAppend
  <2> QED
    BY <2>1, <2>2, <2>3
       DEF Init, Ordered, Hands, AllWritten, LogInTurn, ReadInTurn, OldestFirst, Calling, InAppend
<1>2. Safe /\ Ordered /\ [Next]_vars => Safe' /\ Ordered'
  <2> SUFFICES ASSUME Safe, Ordered, [Next]_vars PROVE Safe' /\ Ordered'
    OBVIOUS
  <2>1. Safe'
    BY SafeStep
  <2> QED
    BY <2>1, PartsInTurnStep, HandsStep, AllWrittenStep, LogInTurnStep, ReadInTurnStep
       DEF Safe, Ordered
<1>3. Ordered => OldestFirst
  BY DEF Ordered
<1> QED
  BY <1>1, <1>2, <1>3, SafeInit, PTL DEF Spec

===============================================================================
