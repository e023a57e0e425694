--------------------------- MODULE SearchCacheProofs ---------------------------
(***************************************************************************)
(* That no search is answered from before a write that had returned when   *)
(* it began, until Redis could not be told or a promotion came late: for   *)
(* any threads, queries, sizes and bounds.                                 *)
(***************************************************************************)
EXTENDS SearchCache, TLAPS

Entry == [query : Queries, of : Answer]

(* No two entries of one query.                                            *)
Single(s) == \A m, n \in 1..Len(s) : s[m].query = s[n].query => m = n

-------------------------------------------------------------------------------
(* The memory tier                                                         *)

(* What is left without a query's entry is of what there was.              *)
LEMMA WithoutIs ==
  ASSUME NEW s \in Seq(Entry), Single(s), NEW q \in Queries
  PROVE  /\ Without(s, q) \in Seq(Entry) /\ Single(Without(s, q))
         /\ Len(Without(s, q)) <= Len(s)
         /\ (\E n \in 1..Len(s) : s[n].query = q) => Len(Without(s, q)) < Len(s)
         /\ \A n \in 1..Len(Without(s, q)) : Without(s, q)[n].query # q
         /\ \A n \in 1..Len(Without(s, q)) : \E m \in 1..Len(s) : Without(s, q)[n] = s[m]
<1> DEFINE kept == {n \in 1..Len(s) : s[n].query = q}
           w == Without(s, q)
<1>1. CASE kept = {}
  <2>1. Without(s, q) = s
    BY <1>1 DEF Without
  <2>2. \A n \in 1..Len(s) : s[n].query # q
    BY <1>1
  <2> QED
    BY <2>1, <2>2
<1>2. CASE kept # {}
  <2>1. PICK k \in 1..Len(s) :
           s[k].query = q /\ w = SubSeq(s, 1, k - 1) \o SubSeq(s, k + 1, Len(s))
    BY <1>2 DEF Without
  <2> DEFINE a == SubSeq(s, 1, k - 1)
             b == SubSeq(s, k + 1, Len(s))
  <2>2. Len(s) \in Nat /\ k \in Nat
    OBVIOUS
  <2>3. /\ a \in Seq(Entry) /\ Len(a) = k - 1 /\ \A n \in 1..(k - 1) : a[n] = s[n]
    BY <2>2
  <2>4. /\ b \in Seq(Entry) /\ Len(b) = Len(s) - k
        /\ \A n \in 1..(Len(s) - k) : b[n] = s[n + k]
    BY <2>2
  <2>5. /\ w \in Seq(Entry) /\ Len(w) = Len(s) - 1
        /\ \A n \in 1..(Len(s) - 1) : w[n] = IF n < k THEN s[n] ELSE s[n + 1]
    <3>1. w = a \o b
      BY <2>1
    <3> HIDE DEF a, b, w
    <3>2. ASSUME NEW x \in Seq(Entry), NEW y \in Seq(Entry)
          PROVE  /\ x \o y \in Seq(Entry) /\ Len(x \o y) = Len(x) + Len(y)
                 /\ \A n \in 1..(Len(x) + Len(y)) :
                      (x \o y)[n] = IF n <= Len(x) THEN x[n] ELSE y[n - Len(x)]
      OBVIOUS
    <3>3. /\ w \in Seq(Entry) /\ Len(w) = Len(a) + Len(b)
          /\ \A n \in 1..(Len(a) + Len(b)) : w[n] = IF n <= Len(a) THEN a[n] ELSE b[n - Len(a)]
      BY <2>3, <2>4, <3>1, <3>2
    <3>4. Len(a) + Len(b) = Len(s) - 1
      BY <2>2, <2>3, <2>4
    <3>5. ASSUME NEW n \in 1..(Len(s) - 1) PROVE w[n] = IF n < k THEN s[n] ELSE s[n + 1]
      <4>1. CASE n < k
        BY <2>2, <2>3, <3>3, <3>4, <4>1
      <4>2. CASE ~(n < k)
        <5>1. w[n] = b[n - (k - 1)] /\ n - (k - 1) \in 1..(Len(s) - k)
          BY <2>2, <2>3, <3>3, <3>4, <4>2
        <5>2. n - (k - 1) + k = n + 1
          BY <2>2
        <5> QED
          BY <2>4, <4>2, <5>1, <5>2
      <4> QED
        BY <4>1, <4>2
    <3> QED
      BY <3>3, <3>4, <3>5
  <2> HIDE DEF w
  <2>6. ASSUME NEW n \in 1..(Len(s) - 1)
        PROVE  \E m \in 1..Len(s) : w[n] = s[m] /\ m # k /\ m = IF n < k THEN n ELSE n + 1
    BY <2>2, <2>5, <2>6
  <2>7. Single(w)
    BY <2>2, <2>5 DEF Single
  <2>8. \A n \in 1..Len(w) : w[n].query # q
    <3> SUFFICES ASSUME NEW n \in 1..(Len(s) - 1) PROVE w[n].query # q
      BY <2>5
    <3>1. PICK m \in 1..Len(s) : w[n] = s[m] /\ m # k
      BY <2>6
    <3> QED
      BY <2>1, <3>1 DEF Single
  <2> QED
    BY <2>2, <2>5, <2>6, <2>7, <2>8 DEF w
<1> QED
  BY <1>1, <1>2

(* What the memory tier may become: of its size, an entry a query.         *)
Fits(s) == s \in Seq(Entry) /\ Len(s) <= MaxSize /\ Single(s)

(* Whose answers are it had, or one more.                                  *)
Beside(s, of) == \A n \in 1..Len(s) : s[n].of = of \/ \E m \in 1..Len(l1) : s[n].of = l1[m].of

LEMMA AppendFits ==
  ASSUME NEW s \in Seq(Entry), Single(s), Len(s) < MaxSize, NEW e \in Entry,
         \A n \in 1..Len(s) : s[n].query # e.query
  PROVE  /\ Fits(Append(s, e)) /\ Len(Append(s, e)) = Len(s) + 1
         /\ Append(s, e)[Len(s) + 1] = e /\ \A n \in 1..Len(s) : Append(s, e)[n] = s[n]
<1>1. Len(s) \in Nat /\ MaxSize \in Nat
  BY RoomForOne
<1> DEFINE a == Append(s, e)
<1>2. /\ a \in Seq(Entry) /\ Len(a) = Len(s) + 1 /\ a[Len(s) + 1] = e
      /\ \A n \in 1..Len(s) : a[n] = s[n]
  OBVIOUS
<1> HIDE DEF a
<1>3. Single(a)
  <2> SUFFICES ASSUME NEW m \in 1..(Len(s) + 1), NEW n \in 1..(Len(s) + 1), a[m].query = a[n].query
               PROVE  m = n
    BY <1>2 DEF Single
  <2>1. CASE m = Len(s) + 1
    BY <1>1, <1>2, <2>1
  <2>2. CASE n = Len(s) + 1
    BY <1>1, <1>2, <2>2
  <2>3. CASE m # Len(s) + 1 /\ n # Len(s) + 1
    BY <1>1, <1>2, <2>3 DEF Single
  <2> QED
    BY <2>1, <2>2, <2>3
<1> QED
  BY <1>1, <1>2, <1>3 DEF Fits, a

LEMMA TailFits ==
  ASSUME NEW s \in Seq(Entry), Single(s), Len(s) >= MaxSize
  PROVE  /\ Tail(s) \in Seq(Entry) /\ Single(Tail(s)) /\ Len(Tail(s)) = Len(s) - 1
         /\ \A n \in 1..Len(Tail(s)) : \E m \in 1..Len(s) : Tail(s)[n] = s[m]
<1>1. Len(s) \in Nat /\ Len(s) >= 1 /\ s # <<>>
  BY RoomForOne
<1> DEFINE a == Tail(s)
<1>2. /\ a \in Seq(Entry) /\ Len(a) = Len(s) - 1 /\ \A n \in 1..(Len(s) - 1) : a[n] = s[n + 1]
  BY <1>1
<1> HIDE DEF a
<1>3. Single(a)
  BY <1>1, <1>2 DEF Single
<1>4. \A n \in 1..Len(a) : \E m \in 1..Len(s) : a[n] = s[m]
  <2> SUFFICES ASSUME NEW n \in 1..(Len(s) - 1) PROVE \E m \in 1..Len(s) : a[n] = s[m]
    BY <1>2
  <2>1. n + 1 \in 1..Len(s) /\ a[n] = s[n + 1]
    BY <1>1, <1>2
  <2> QED
    BY <2>1
<1> QED
  BY <1>2, <1>3, <1>4 DEF a

LEMMA WithFits ==
  ASSUME TypeOK, NEW q \in Queries, NEW of \in Answer
  PROVE  Fits(With(q, of)) /\ Beside(With(q, of), of)
<1> DEFINE left == IF Len(l1) >= MaxSize THEN Tail(l1) ELSE l1
           w == Without(left, q)
           e == [query |-> q, of |-> of]
<1>1. l1 \in Seq(Entry) /\ Single(l1) /\ Len(l1) <= MaxSize /\ Len(l1) \in Nat /\ MaxSize \in Nat
  BY RoomForOne DEF TypeOK, Entry, Single
<1>2. /\ left \in Seq(Entry) /\ Single(left) /\ Len(left) < MaxSize
      /\ \A n \in 1..Len(left) : \E m \in 1..Len(l1) : left[n] = l1[m]
  <2>1. CASE Len(l1) >= MaxSize
    BY <1>1, <2>1, TailFits
  <2>2. CASE ~(Len(l1) >= MaxSize)
    BY <1>1, <2>2
  <2> QED
    BY <2>1, <2>2
<1> HIDE DEF left
<1>3. /\ w \in Seq(Entry) /\ Single(w) /\ Len(w) <= Len(left)
      /\ \A n \in 1..Len(w) : w[n].query # q
      /\ \A n \in 1..Len(w) : \E m \in 1..Len(left) : w[n] = left[m]
  BY <1>2, WithoutIs
<1> HIDE DEF w
<1>4. e \in Entry /\ e.of = of /\ e.query = q
  BY DEF Entry
<1>5. With(q, of) = Append(w, e)
  BY DEF With, w, left
<1> HIDE DEF e
<1>6. Len(w) < MaxSize /\ Len(w) \in Nat
  BY <1>1, <1>2, <1>3
<1>7. /\ Fits(Append(w, e)) /\ Len(Append(w, e)) = Len(w) + 1
      /\ Append(w, e)[Len(w) + 1] = e /\ \A n \in 1..Len(w) : Append(w, e)[n] = w[n]
  BY <1>3, <1>4, <1>6, AppendFits
<1>8. ASSUME NEW n \in 1..(Len(w) + 1)
      PROVE  Append(w, e)[n].of = of \/ \E m \in 1..Len(l1) : Append(w, e)[n].of = l1[m].of
  <2>1. CASE n = Len(w) + 1
    BY <1>4, <1>7, <2>1
  <2>2. CASE n # Len(w) + 1
    <3>1. n \in 1..Len(w)
      BY <1>6, <2>2
    <3>2. PICK j \in 1..Len(left) : w[n] = left[j]
      BY <1>3, <3>1
    <3>3. PICK m \in 1..Len(l1) : left[j] = l1[m]
      BY <1>2
    <3> QED
      BY <1>7, <3>1, <3>2, <3>3
  <2> QED
    BY <2>1, <2>2
<1> QED
  BY <1>5, <1>7, <1>8 DEF Beside

LEMMA TouchedFits ==
  ASSUME TypeOK, NEW q \in Queries, Hit(q)
  PROVE  /\ Fits(Touched(q)) /\ Beside(Touched(q), InL1(q)) /\ InL1(q) \in Answer
         /\ \E m \in 1..Len(l1) : InL1(q) = l1[m].of
<1> DEFINE w == Without(l1, q)
           e == [query |-> q, of |-> InL1(q)]
<1>1. l1 \in Seq(Entry) /\ Single(l1) /\ Len(l1) <= MaxSize /\ Len(l1) \in Nat /\ MaxSize \in Nat
  BY RoomForOne DEF TypeOK, Entry, Single
<1>2. PICK k \in 1..Len(l1) : l1[k].query = q /\ InL1(q) = l1[k].of
  BY DEF Hit, Kept, InL1
<1>3. InL1(q) \in Answer
  <2>1. l1[k] \in Entry
    BY <1>1
  <2> QED
    BY <1>2, <2>1 DEF Entry
<1>4. /\ w \in Seq(Entry) /\ Single(w) /\ Len(w) < Len(l1)
      /\ \A n \in 1..Len(w) : w[n].query # q
      /\ \A n \in 1..Len(w) : \E m \in 1..Len(l1) : w[n] = l1[m]
  BY <1>1, <1>2, WithoutIs
<1> HIDE DEF w
<1>5. e \in Entry /\ e.of = InL1(q) /\ e.query = q
  BY <1>3 DEF Entry
<1>6. Touched(q) = Append(w, e)
  BY DEF Touched, w
<1> HIDE DEF e
<1>7. Len(w) < MaxSize /\ Len(w) \in Nat
  BY <1>1, <1>4
<1>8. /\ Fits(Append(w, e)) /\ Len(Append(w, e)) = Len(w) + 1
      /\ Append(w, e)[Len(w) + 1] = e /\ \A n \in 1..Len(w) : Append(w, e)[n] = w[n]
  BY <1>4, <1>5, <1>7, AppendFits
<1>9. ASSUME NEW n \in 1..(Len(w) + 1)
      PROVE  Append(w, e)[n].of = InL1(q) \/ \E m \in 1..Len(l1) : Append(w, e)[n].of = l1[m].of
  <2>1. CASE n = Len(w) + 1
    BY <1>5, <1>8, <2>1
  <2>2. CASE n # Len(w) + 1
    <3>1. n \in 1..Len(w)
      BY <1>7, <2>2
    <3> QED
      BY <1>4, <1>8, <3>1
  <2> QED
    BY <2>1, <2>2
<1> QED
  BY <1>2, <1>3, <1>6, <1>8, <1>9 DEF Beside

LEMMA WithoutFits ==
  ASSUME TypeOK, NEW q \in Queries
  PROVE  /\ Fits(Without(l1, q))
         /\ \A n \in 1..Len(Without(l1, q)) : \E m \in 1..Len(l1) : Without(l1, q)[n].of = l1[m].of
<1>1. l1 \in Seq(Entry) /\ Single(l1) /\ Len(l1) <= MaxSize /\ Len(l1) \in Nat /\ MaxSize \in Nat
  BY RoomForOne DEF TypeOK, Entry, Single
<1> DEFINE w == Without(l1, q)
<1>2. /\ w \in Seq(Entry) /\ Single(w) /\ Len(w) <= Len(l1)
      /\ \A n \in 1..Len(w) : \E m \in 1..Len(l1) : w[n] = l1[m]
  BY <1>1, WithoutIs
<1> HIDE DEF w
<1>3. Len(w) \in Nat /\ \A n \in 1..Len(w) : \E m \in 1..Len(l1) : w[n].of = l1[m].of
  BY <1>2
<1>4. Fits(w)
  BY <1>1, <1>2, <1>3 DEF Fits
<1> QED
  BY <1>3, <1>4 DEF w

-------------------------------------------------------------------------------
(* Types                                                                   *)

(* What a thread knows where it is.                                        *)
Knows(t) ==
  /\ at[t] \in {"look", "promote", "compute", "keep"} => query[t] \in Queries
  /\ at[t] = "promote" => value[t] \in 0..commits
  /\ at[t] = "keep" => value[t] = commits /\ Redis
  /\ at[t] = "adding" => commits < MaxWrites
  /\ at[t] \in {"deleted", "forgetting"} => value[t] \in 0..commits
  /\ at[t] = "answered" => answer[t] \in 0..commits
  /\ since[t] <= told

(* No answer is from after the last commit; memory alone keeps none in     *)
(* Redis.                                                                  *)
Known ==
  /\ \A n \in 1..Len(l1) : l1[n].of \in 0..commits
  /\ \A q \in Queries : l2[q] # None => l2[q] \in 0..commits
  /\ ~Redis => \A q \in Queries : l2[q] = None

Typed == TypeOK /\ Known /\ \A t \in Threads : Knows(t)

Places ==
  {"idle", "look", "promote", "compute", "keep", "answered", "adding", "deleted", "forgetting"}

(* The lock and the places of threads, where one goes elsewhere.           *)
LEMMA LockTyped ==
  ASSUME TypeOK, NEW t \in Threads, NEW where \in Places,
         at' = [at EXCEPT ![t] = where],
         \/ lock' = lock /\ (where \in {"keep", "adding"}) = (at[t] \in {"keep", "adding"})
         \/ lock = None /\ lock' = t /\ where \in {"keep", "adding"}
         \/ lock = t /\ lock' = None /\ where \notin {"keep", "adding"}
  PROVE  /\ at' \in [Threads -> Places] /\ lock' \in Threads \cup {None}
         /\ \A u \in Threads : lock' = u <=> at'[u] \in {"keep", "adding"}
<1>1. \A u \in Threads : u # None
  BY NoneIsNothing
<1> QED
  BY <1>1 DEF TypeOK, Places

LEMMA TypedInit == Init => Typed
<1> SUFFICES ASSUME Init PROVE Typed
  OBVIOUS
<1>1. /\ l1 = <<>> /\ l1 \in Seq([query : Queries, of : Answer]) /\ Len(l1) = 0
  BY DEF Init
<1>2. \A t \in Threads : t # None
  BY NoneIsNothing
<1>3. 0 \in Answer /\ 0 \in 0..MaxFaults /\ 0 <= MaxSize /\ 1..0 = {}
  BY RoomForOne, BoundsAreNumbers DEF Answer
<1>4. TypeOK
  <2>1. commits \in Answer /\ told \in 0..commits /\ faults \in 0..MaxFaults /\ lock = None
    BY <1>3 DEF Init
  <2>2. \A t \in Threads : lock = t <=> at[t] \in {"keep", "adding"}
    BY <1>2 DEF Init
  <2>3. /\ Len(l1) <= MaxSize
        /\ \A m, n \in 1..Len(l1) : l1[m].query = l1[n].query => m = n
    BY <1>1, <1>3
  <2> QED
    BY <1>1, <1>3, <2>1, <2>2, <2>3 DEF Init, TypeOK, Maybe
<1> QED
  BY <1>1, <1>3, <1>4 DEF Init, Typed, Known, Knows

(* A thread goes elsewhere, and takes the lock or lets it go on the way.   *)
Turn(t, where) ==
  /\ at' = [at EXCEPT ![t] = where] /\ where \in Places
  /\ \/ lock' = lock /\ (where \in {"keep", "adding"}) = (at[t] \in {"keep", "adding"})
     \/ lock = None /\ lock' = t /\ where \in {"keep", "adding"}
     \/ lock = t /\ lock' = None /\ where \notin {"keep", "adding"}
  /\ commits' = commits \/ lock \in {None, t}

(* What is kept is as the types say, and no write is taken back.           *)
Stores ==
  /\ Fits(l1') /\ \A n \in 1..Len(l1') : l1'[n].of \in 0..commits'
  /\ l2' \in [Queries -> Maybe] /\ \A q \in Queries : l2'[q] # None => l2'[q] \in 0..commits'
  /\ ~Redis => \A q \in Queries : l2'[q] = None
  /\ tier' = tier /\ commits' \in Answer /\ commits <= commits'
  /\ told' \in 0..commits' /\ told <= told'
  /\ doomed' \in [Threads -> SUBSET Queries] /\ faults' \in 0..MaxFaults
  /\ late' \in BOOLEAN /\ unheard' \in BOOLEAN

(* What the thread knows then.                                             *)
Learns(t, where, qry, snc, val, ans) ==
  /\ query' = [query EXCEPT ![t] = qry] /\ qry \in Queries \cup {None}
  /\ since' = [since EXCEPT ![t] = snc] /\ snc \in 0..told'
  /\ value' = [value EXCEPT ![t] = val] /\ val \in Maybe
  /\ answer' = [answer EXCEPT ![t] = ans] /\ ans \in Maybe
  /\ where \in {"look", "promote", "compute", "keep"} => qry \in Queries
  /\ where \in {"promote", "deleted", "forgetting"} => val \in 0..commits'
  /\ where = "keep" => val = commits' /\ Redis
  /\ where = "adding" => commits' < MaxWrites
  /\ where = "answered" => ans \in 0..commits'

(* Such a step keeps the types: what the other threads know stands, as     *)
(* commits and `told' only grow.                                           *)
LEMMA StepTyped ==
  ASSUME Typed, NEW t \in Threads, NEW where, Turn(t, where), Stores,
         NEW qry, NEW snc, NEW val, NEW ans, Learns(t, where, qry, snc, val, ans)
  PROVE  Typed'
<1> USE DEF Turn, Stores, Learns
<1>1. TypeOK
  BY DEF Typed
<1>2. /\ at' \in [Threads -> Places] /\ lock' \in Threads \cup {None}
      /\ \A u \in Threads : lock' = u <=> at'[u] \in {"keep", "adding"}
  BY <1>1, LockTyped
<1>3. snc \in Answer
  <2>1. commits' \in 0..MaxWrites /\ told' \in 0..commits' /\ snc \in 0..told' /\ MaxWrites \in Nat
    BY BoundsAreNumbers DEF Answer
  <2> QED
    BY <2>1 DEF Answer
<1>4. /\ query' \in [Threads -> Queries \cup {None}] /\ since' \in [Threads -> Answer]
      /\ value' \in [Threads -> Maybe] /\ answer' \in [Threads -> Maybe]
  BY <1>1, <1>3 DEF TypeOK
<1>5. TypeOK'
  BY <1>1, <1>2, <1>4 DEF TypeOK, Fits, Entry, Single, Places
<1>6. Known'
  BY DEF Known, Redis
<1>7. Knows(t)'
  BY <1>1 DEF Knows, TypeOK, Redis
<1>8. ASSUME NEW u \in Threads \ {t} PROVE Knows(u)'
  <2>1. /\ at'[u] = at[u] /\ query'[u] = query[u] /\ value'[u] = value[u] /\ answer'[u] = answer[u]
        /\ since'[u] = since[u]
    BY <1>1 DEF TypeOK
  <2>2. Knows(u) /\ (at[u] \in {"keep", "adding"} => commits' = commits)
    <3>1. at[u] \in {"keep", "adding"} => lock = u
      BY <1>1 DEF TypeOK
    <3>2. u # t /\ u # None
      BY NoneIsNothing
    <3> QED
      BY <3>1, <3>2 DEF Typed
  <2>3. 0..commits \subseteq 0..commits' /\ since[u] \in Nat /\ told \in Nat /\ told' \in Nat
    BY <1>1 DEF TypeOK, Answer
  <2> QED
    BY <2>1, <2>2, <2>3 DEF Knows, Redis
<1> QED
  BY <1>5, <1>6, <1>7, <1>8 DEF Typed

(* The facts that the steps share.                                         *)
LEMMA Facts ==
  ASSUME Typed
  PROVE  /\ TypeOK /\ Fits(l1) /\ None \notin Threads \cup Queries \cup Nat
         /\ commits \in Nat /\ told \in 0..commits /\ commits \in Maybe /\ 0 \in 0..told
         /\ 0..commits \subseteq Answer /\ Answer \subseteq Maybe /\ None \in Maybe
         /\ faults < MaxFaults => faults + 1 \in 0..MaxFaults
         /\ commits < MaxWrites => commits + 1 \in Answer
         /\ \A t \in Threads :
              /\ query' = query => query' = [query EXCEPT ![t] = query[t]]
              /\ since' = since => since' = [since EXCEPT ![t] = since[t]]
              /\ value' = value => value' = [value EXCEPT ![t] = value[t]]
              /\ answer' = answer => answer' = [answer EXCEPT ![t] = answer[t]]
              /\ at' = at => at' = [at EXCEPT ![t] = at[t]]
         /\ \A t \in Threads :
              /\ query[t] \in Queries \cup {None} /\ since[t] \in 0..told /\ value[t] \in Maybe
              /\ answer[t] \in Maybe /\ at[t] \in Places
<1>1. TypeOK
  BY DEF Typed
<1>2. None \notin Threads \cup Queries \cup Nat
  BY NoneIsNothing
<1>3. Fits(l1)
  BY <1>1 DEF TypeOK, Fits, Entry, Single
<1>4. /\ commits \in Nat /\ told \in 0..commits /\ commits \in Maybe /\ 0 \in 0..told
      /\ 0..commits \subseteq Answer /\ Answer \subseteq Maybe /\ None \in Maybe
  BY <1>1, BoundsAreNumbers DEF TypeOK, Answer, Maybe
<1>5. /\ faults < MaxFaults => faults + 1 \in 0..MaxFaults
      /\ commits < MaxWrites => commits + 1 \in Answer
  BY <1>1, BoundsAreNumbers DEF TypeOK, Answer
<1>6. ASSUME NEW t \in Threads
      PROVE  /\ query' = query => query' = [query EXCEPT ![t] = query[t]]
             /\ since' = since => since' = [since EXCEPT ![t] = since[t]]
             /\ value' = value => value' = [value EXCEPT ![t] = value[t]]
             /\ answer' = answer => answer' = [answer EXCEPT ![t] = answer[t]]
             /\ at' = at => at' = [at EXCEPT ![t] = at[t]]
  BY <1>1 DEF TypeOK
<1>7. ASSUME NEW t \in Threads
      PROVE  /\ query[t] \in Queries \cup {None} /\ since[t] \in 0..told /\ value[t] \in Maybe
             /\ answer[t] \in Maybe /\ at[t] \in Places
  BY <1>1, <1>4 DEF TypeOK, Typed, Knows, Answer, Places
<1> QED
  BY <1>1, <1>2, <1>3, <1>4, <1>5, <1>6, <1>7

(* What a step may do to the tiers, to the writes and to the rest.         *)
MemoryMoves ==
  l1' = l1 \/ (Fits(l1') /\ \A n \in 1..Len(l1') : l1'[n].of \in 0..commits)

RedisMoves ==
  \/ l2' = l2
  \/ \E q \in Queries : l2' = [l2 EXCEPT ![q] = None]
  \/ Redis /\ \E q \in Queries, a \in 0..commits : l2' = [l2 EXCEPT ![q] = a]

WritesMove ==
  /\ tier' = tier
  /\ commits' = commits \/ (commits < MaxWrites /\ commits' = commits + 1)
  /\ told <= told' /\ told' \in 0..commits'

RestMoves ==
  /\ doomed' \in [Threads -> SUBSET Queries]
  /\ faults' = faults \/ (faults < MaxFaults /\ faults' = faults + 1)
  /\ late' \in BOOLEAN /\ unheard' \in BOOLEAN

LEMMA StillStores ==
  ASSUME Typed, MemoryMoves, RedisMoves, WritesMove, RestMoves
  PROVE  Stores
<1> USE DEF MemoryMoves, RedisMoves, WritesMove, RestMoves
<1>1. /\ TypeOK /\ Known /\ Fits(l1) /\ None \notin Nat /\ commits \in Nat /\ told \in 0..commits
      /\ 0..commits \subseteq Answer /\ Answer \subseteq Maybe /\ None \in Maybe
      /\ faults < MaxFaults => faults + 1 \in 0..MaxFaults
      /\ commits < MaxWrites => commits + 1 \in Answer
  BY Facts DEF Typed
<1>2. /\ commits' \in Answer /\ commits <= commits' /\ told' \in 0..commits' /\ told <= told'
      /\ 0..commits \subseteq 0..commits'
  BY <1>1 DEF TypeOK
<1>3. Fits(l1') /\ \A n \in 1..Len(l1') : l1'[n].of \in 0..commits'
  BY <1>1, <1>2 DEF Known
<1>4. /\ l2' \in [Queries -> Maybe] /\ \A q \in Queries : l2'[q] # None => l2'[q] \in 0..commits'
      /\ ~Redis => \A q \in Queries : l2'[q] = None
  <2>0. l2 \in [Queries -> Maybe]
    BY <1>1 DEF TypeOK
  <2>1. CASE l2' = l2
    BY <1>1, <1>2, <2>0, <2>1 DEF Known
  <2>2. CASE \E q \in Queries : l2' = [l2 EXCEPT ![q] = None]
    BY <1>1, <1>2, <2>0, <2>2 DEF Known
  <2>3. CASE Redis /\ \E q \in Queries, a \in 0..commits : l2' = [l2 EXCEPT ![q] = a]
    BY <1>1, <1>2, <2>0, <2>3 DEF Known
  <2> QED
    BY <2>1, <2>2, <2>3
<1>5. doomed' \in [Threads -> SUBSET Queries] /\ faults' \in 0..MaxFaults
  BY <1>1 DEF TypeOK
<1> QED
  BY <1>2, <1>3, <1>4, <1>5 DEF Stores

(* The types, in the memory tier after a hit, a newcomer or an expiry.     *)
LEMMA TiersTyped ==
  ASSUME Typed
  PROVE  /\ \A q \in Queries : Hit(q) =>
              Fits(Touched(q)) /\ InL1(q) \in 0..commits
              /\ \A n \in 1..Len(Touched(q)) : Touched(q)[n].of \in 0..commits
         /\ \A q \in Queries, of \in 0..commits :
              Fits(With(q, of)) /\ \A n \in 1..Len(With(q, of)) : With(q, of)[n].of \in 0..commits
         /\ \A q \in Queries :
              Fits(Without(l1, q))
              /\ \A n \in 1..Len(Without(l1, q)) : Without(l1, q)[n].of \in 0..commits
         /\ Fits(<<>>) /\ \A n \in 1..Len(<<>>) : <<>>[n].of \in 0..commits
<1>1. TypeOK /\ Known /\ 0..commits \subseteq Answer
  BY Facts DEF Typed
<1>2. ASSUME NEW q \in Queries, Hit(q)
      PROVE  Fits(Touched(q)) /\ InL1(q) \in 0..commits
             /\ \A n \in 1..Len(Touched(q)) : Touched(q)[n].of \in 0..commits
  BY <1>1, <1>2, TouchedFits DEF Known, Beside
<1>3. ASSUME NEW q \in Queries, NEW of \in 0..commits
      PROVE  Fits(With(q, of)) /\ \A n \in 1..Len(With(q, of)) : With(q, of)[n].of \in 0..commits
  BY <1>1, WithFits DEF Known, Beside
<1>4. ASSUME NEW q \in Queries
      PROVE  Fits(Without(l1, q))
             /\ \A n \in 1..Len(Without(l1, q)) : Without(l1, q)[n].of \in 0..commits
  BY <1>1, WithoutFits DEF Known
<1>5. Fits(<<>>) /\ \A n \in 1..Len(<<>>) : <<>>[n].of \in 0..commits
  BY RoomForOne DEF Fits, Single
<1> QED
  BY <1>2, <1>3, <1>4, <1>5

(* A step of a thread keeps the types: where it goes and what it learns   *)
(* there, an action at a time.                                             *)
LEMMA ThreadTyped ==
  ASSUME Typed, NEW t \in Threads, NEW q
  PROVE
    \/ q \in Queries /\ (LookInMemory(t, q) \/ LookInRedis(t, q) \/ ForgetInRedis(t, q))
    \/ LookBehind(t) \/ Promote(t) \/ Compute(t) \/ KeepInRedis(t) \/ TakeAnswer(t)
    \/ ForgetFails(t) \/ BeginAdd(t) \/ CommitAdd(t)
    \/ CommitDelete(t) \/ ForgetAfter(t) \/ DeleteReturns(t)
    => Typed'
<1>1. /\ TypeOK /\ Known /\ Knows(t)
      /\ at[t] \in Places /\ query[t] \in Queries \cup {None} /\ since[t] \in 0..told
      /\ value[t] \in Maybe /\ answer[t] \in Maybe /\ None \in Maybe
      /\ commits \in Nat /\ told \in 0..commits /\ 0..commits \subseteq Maybe /\ 0 \in 0..told
      /\ 0..commits \subseteq 0..(commits + 1)
      /\ commits < MaxWrites => commits + 1 \in Maybe
  BY Facts DEF Typed
<1>2. /\ query' = query => query' = [query EXCEPT ![t] = query[t]]
      /\ since' = since => since' = [since EXCEPT ![t] = since[t]]
      /\ value' = value => value' = [value EXCEPT ![t] = value[t]]
      /\ answer' = answer => answer' = [answer EXCEPT ![t] = answer[t]]
      /\ at' = at => at' = [at EXCEPT ![t] = at[t]]
  BY Facts
<1>3. lock = t <=> at[t] \in {"keep", "adding"}
  BY <1>1 DEF TypeOK
<1>4. \A where, qry, snc, val, ans :
        Turn(t, where) /\ Stores /\ Learns(t, where, qry, snc, val, ans) => Typed'
  BY StepTyped
<1>5. told \in Nat /\ commits \in Nat /\ told <= commits /\ told \in 0..commits
      /\ (at[t] = "forgetting" => value[t] \in 0..commits)
      /\ (at[t] = "adding" => commits < MaxWrites)
  BY <1>1 DEF Knows
<1>6. /\ doomed \in [Threads -> SUBSET Queries] /\ late \in BOOLEAN /\ unheard \in BOOLEAN
      /\ l2 \in [Queries -> Maybe]
  BY <1>1 DEF TypeOK
<1>7. ASSUME q \in Queries, LookInMemory(t, q) PROVE Typed'
  <2> USE <1>7 DEF LookInMemory, Go, Answers, shared, thread, aux, Promoted, ForgetBegins
  <2>1. Stores
    <3>1. MemoryMoves
      BY <1>1, TiersTyped DEF MemoryMoves, Knows, Known, Redis, Memory
    <3>2. RedisMoves
      BY <1>1, <1>6 DEF RedisMoves, Knows, Known, Redis, Memory
    <3>3. WritesMove
      BY <1>5 DEF WritesMove
    <3>4. RestMoves
      BY <1>6 DEF RestMoves
    <3> QED
      BY <3>1, <3>2, <3>3, <3>4, StillStores
  <2>2. CASE Hit(q)
    <3>1. Turn(t, "answered")
      BY <1>1, <1>2, <1>3, <2>2 DEF Turn, Places, Redis, Memory
    <3>2. Learns(t, "answered", q, told, value[t], InL1(q))
      BY <1>1, <1>2, <2>2, TiersTyped DEF Learns, Knows, Known, Redis, Memory
    <3> QED
      BY <1>4, <2>1, <3>1, <3>2
  <2>3. CASE ~Hit(q) /\ tier = "hybrid"
    <3>1. Turn(t, "look")
      BY <1>1, <1>2, <1>3, <2>3 DEF Turn, Places, Redis, Memory
    <3>2. Learns(t, "look", q, told, value[t], answer[t])
      BY <1>1, <1>2, <2>3, TiersTyped DEF Learns, Knows, Known, Redis, Memory
    <3> QED
      BY <1>4, <2>1, <3>1, <3>2
  <2>4. CASE ~Hit(q) /\ tier # "hybrid"
    <3>1. Turn(t, "compute")
      BY <1>1, <1>2, <1>3, <2>4 DEF Turn, Places, Redis, Memory
    <3>2. Learns(t, "compute", q, told, value[t], answer[t])
      BY <1>1, <1>2, <2>4, TiersTyped DEF Learns, Knows, Known, Redis, Memory
    <3> QED
      BY <1>4, <2>1, <3>1, <3>2
  <2> QED
    BY <2>2, <2>3, <2>4
<1>8. ASSUME q \in Queries, LookInRedis(t, q) PROVE Typed'
  <2> USE <1>8 DEF LookInRedis, Go, Answers, shared, thread, aux, Promoted, ForgetBegins
  <2>1. Stores
    <3>1. MemoryMoves
      BY <1>1, TiersTyped DEF MemoryMoves, Knows, Known, Redis, Memory
    <3>2. RedisMoves
      BY <1>1, <1>6 DEF RedisMoves, Knows, Known, Redis, Memory
    <3>3. WritesMove
      BY <1>5 DEF WritesMove
    <3>4. RestMoves
      BY <1>6 DEF RestMoves
    <3> QED
      BY <3>1, <3>2, <3>3, <3>4, StillStores
  <2>2. CASE l2[q] # None
    <3>1. Turn(t, "answered")
      BY <1>1, <1>2, <1>3, <2>2 DEF Turn, Places, Redis, Memory
    <3>2. Learns(t, "answered", q, told, value[t], l2[q])
      BY <1>1, <1>2, <2>2, TiersTyped DEF Learns, Knows, Known, Redis, Memory
    <3> QED
      BY <1>4, <2>1, <3>1, <3>2
  <2>3. CASE l2[q] = None
    <3>1. Turn(t, "compute")
      BY <1>1, <1>2, <1>3, <2>3 DEF Turn, Places, Redis, Memory
    <3>2. Learns(t, "compute", q, told, value[t], answer[t])
      BY <1>1, <1>2, <2>3, TiersTyped DEF Learns, Knows, Known, Redis, Memory
    <3> QED
      BY <1>4, <2>1, <3>1, <3>2
  <2> QED
    BY <2>2, <2>3
<1>9. ASSUME LookBehind(t) PROVE Typed'
  <2> USE <1>9 DEF LookBehind, Go, Answers, shared, thread, aux, Promoted, ForgetBegins
  <2>1. Stores
    <3>1. MemoryMoves
      BY <1>1, TiersTyped DEF MemoryMoves, Knows, Known, Redis, Memory
    <3>2. RedisMoves
      BY <1>1, <1>6 DEF RedisMoves, Knows, Known, Redis, Memory
    <3>3. WritesMove
      BY <1>5 DEF WritesMove
    <3>4. RestMoves
      BY <1>6 DEF RestMoves
    <3> QED
      BY <3>1, <3>2, <3>3, <3>4, StillStores
  <2>2. CASE l2[query[t]] # None
    <3>1. Turn(t, "promote")
      BY <1>1, <1>2, <1>3, <2>2 DEF Turn, Places, Redis, Memory
    <3>2. Learns(t, "promote", query[t], since[t], l2[query[t]], answer[t])
      BY <1>1, <1>2, <2>2, TiersTyped DEF Learns, Knows, Known, Redis, Memory
    <3> QED
      BY <1>4, <2>1, <3>1, <3>2
  <2>3. CASE l2[query[t]] = None
    <3>1. Turn(t, "compute")
      BY <1>1, <1>2, <1>3, <2>3 DEF Turn, Places, Redis, Memory
    <3>2. Learns(t, "compute", query[t], since[t], value[t], answer[t])
      BY <1>1, <1>2, <2>3, TiersTyped DEF Learns, Knows, Known, Redis, Memory
    <3> QED
      BY <1>4, <2>1, <3>1, <3>2
  <2> QED
    BY <2>2, <2>3
<1>10. ASSUME Promote(t) PROVE Typed'
  <2> USE <1>10 DEF Promote, Go, Answers, shared, thread, aux, Promoted, ForgetBegins
  <2>1. Stores
    <3>1. MemoryMoves
      BY <1>1, TiersTyped DEF MemoryMoves, Knows, Known, Redis, Memory
    <3>2. RedisMoves
      BY <1>1, <1>6 DEF RedisMoves, Knows, Known, Redis, Memory
    <3>3. WritesMove
      BY <1>5 DEF WritesMove
    <3>4. RestMoves
      BY <1>6 DEF RestMoves
    <3> QED
      BY <3>1, <3>2, <3>3, <3>4, StillStores
  <2>2. Turn(t, "answered")
    BY <1>1, <1>2, <1>3 DEF Turn, Places
  <2>3. Learns(t, "answered", query[t], since[t], None, value[t])
    BY <1>1, <1>2, TiersTyped DEF Learns, Knows, Known
  <2> QED
    BY <1>4, <2>1, <2>2, <2>3
<1>11. ASSUME Compute(t) PROVE Typed'
  <2> USE <1>11 DEF Compute, Go, Answers, shared, thread, aux, Promoted, ForgetBegins
  <2>1. Stores
    <3>1. MemoryMoves
      BY <1>1, TiersTyped DEF MemoryMoves, Knows, Known, Redis, Memory
    <3>2. RedisMoves
      BY <1>1, <1>6 DEF RedisMoves, Knows, Known, Redis, Memory
    <3>3. WritesMove
      BY <1>5 DEF WritesMove
    <3>4. RestMoves
      BY <1>6 DEF RestMoves
    <3> QED
      BY <3>1, <3>2, <3>3, <3>4, StillStores
  <2>2. CASE Redis
    <3>1. Turn(t, "keep")
      BY <1>1, <1>2, <1>3, <2>2 DEF Turn, Places, Redis, Memory
    <3>2. Learns(t, "keep", query[t], since[t], commits, answer[t])
      BY <1>1, <1>2, <2>2, TiersTyped DEF Learns, Knows, Known, Redis, Memory
    <3> QED
      BY <1>4, <2>1, <3>1, <3>2
  <2>3. CASE ~Redis
    <3>1. Turn(t, "answered")
      BY <1>1, <1>2, <1>3, <2>3 DEF Turn, Places, Redis, Memory
    <3>2. Learns(t, "answered", query[t], since[t], value[t], commits)
      BY <1>1, <1>2, <2>3, TiersTyped DEF Learns, Knows, Known, Redis, Memory
    <3> QED
      BY <1>4, <2>1, <3>1, <3>2
  <2> QED
    BY <2>2, <2>3
<1>12. ASSUME KeepInRedis(t) PROVE Typed'
  <2> USE <1>12 DEF KeepInRedis, Go, Answers, shared, thread, aux, Promoted, ForgetBegins
  <2>1. Stores
    <3>1. MemoryMoves
      BY <1>1, TiersTyped DEF MemoryMoves, Knows, Known, Redis, Memory
    <3>2. RedisMoves
      <4>1. query[t] \in Queries /\ value[t] \in 0..commits /\ Redis
        BY <1>1 DEF Knows
      <4> QED
        BY <4>1 DEF RedisMoves
    <3>3. WritesMove
      BY <1>5 DEF WritesMove
    <3>4. RestMoves
      BY <1>6 DEF RestMoves
    <3> QED
      BY <3>1, <3>2, <3>3, <3>4, StillStores
  <2>2. Turn(t, "answered")
    BY <1>1, <1>2, <1>3 DEF Turn, Places
  <2>3. Learns(t, "answered", query[t], since[t], None, value[t])
    BY <1>1, <1>2, TiersTyped DEF Learns, Knows, Known
  <2> QED
    BY <1>4, <2>1, <2>2, <2>3
<1>13. ASSUME TakeAnswer(t) PROVE Typed'
  <2> USE <1>13 DEF TakeAnswer, Go, Answers, shared, thread, aux, Promoted, ForgetBegins
  <2>1. Stores
    <3>1. MemoryMoves
      BY <1>1, TiersTyped DEF MemoryMoves, Knows, Known, Redis, Memory
    <3>2. RedisMoves
      BY <1>1, <1>6 DEF RedisMoves, Knows, Known, Redis, Memory
    <3>3. WritesMove
      BY <1>5 DEF WritesMove
    <3>4. RestMoves
      BY <1>6 DEF RestMoves
    <3> QED
      BY <3>1, <3>2, <3>3, <3>4, StillStores
  <2>2. Turn(t, "idle")
    BY <1>1, <1>2, <1>3 DEF Turn, Places
  <2>3. Learns(t, "idle", None, 0, value[t], None)
    BY <1>1, <1>2, TiersTyped DEF Learns, Knows, Known
  <2> QED
    BY <1>4, <2>1, <2>2, <2>3
<1>14. ASSUME q \in Queries, ForgetInRedis(t, q) PROVE Typed'
  <2> USE <1>14 DEF ForgetInRedis, Go, Answers, shared, thread, aux, Promoted, ForgetBegins
  <2>1. Stores
    <3>1. MemoryMoves
      BY <1>1, TiersTyped DEF MemoryMoves, Knows, Known, Redis, Memory
    <3>2. RedisMoves
      BY <1>1, <1>6 DEF RedisMoves, Knows, Known, Redis, Memory
    <3>3. WritesMove
      BY <1>5 DEF WritesMove
    <3>4. RestMoves
      BY <1>6 DEF RestMoves
    <3> QED
      BY <3>1, <3>2, <3>3, <3>4, StillStores
  <2>2. Turn(t, at[t])
    BY <1>1, <1>2, <1>3 DEF Turn, Places
  <2>3. Learns(t, at[t], query[t], since[t], value[t], answer[t])
    BY <1>1, <1>2, TiersTyped DEF Learns, Knows, Known
  <2> QED
    BY <1>4, <2>1, <2>2, <2>3
<1>15. ASSUME ForgetFails(t) PROVE Typed'
  <2> USE <1>15 DEF ForgetFails, Go, Answers, shared, thread, aux, Promoted, ForgetBegins
  <2>1. Stores
    <3>1. MemoryMoves
      BY <1>1, TiersTyped DEF MemoryMoves, Knows, Known, Redis, Memory
    <3>2. RedisMoves
      BY <1>1, <1>6 DEF RedisMoves, Knows, Known, Redis, Memory
    <3>3. WritesMove
      BY <1>5 DEF WritesMove
    <3>4. RestMoves
      BY <1>6 DEF RestMoves
    <3> QED
      BY <3>1, <3>2, <3>3, <3>4, StillStores
  <2>2. Turn(t, at[t])
    BY <1>1, <1>2, <1>3 DEF Turn, Places
  <2>3. Learns(t, at[t], query[t], since[t], value[t], answer[t])
    BY <1>1, <1>2, TiersTyped DEF Learns, Knows, Known
  <2> QED
    BY <1>4, <2>1, <2>2, <2>3
<1>16. ASSUME BeginAdd(t) PROVE Typed'
  <2> USE <1>16 DEF BeginAdd, Go, Answers, shared, thread, aux, Promoted, ForgetBegins
  <2>1. Stores
    <3>1. MemoryMoves
      BY <1>1, TiersTyped DEF MemoryMoves, Knows, Known, Redis, Memory
    <3>2. RedisMoves
      BY <1>1, <1>6 DEF RedisMoves, Knows, Known, Redis, Memory
    <3>3. WritesMove
      BY <1>5 DEF WritesMove
    <3>4. RestMoves
      BY <1>6 DEF RestMoves
    <3> QED
      BY <3>1, <3>2, <3>3, <3>4, StillStores
  <2>2. Turn(t, "adding")
    BY <1>1, <1>2, <1>3 DEF Turn, Places
  <2>3. Learns(t, "adding", query[t], since[t], value[t], answer[t])
    BY <1>1, <1>2, TiersTyped DEF Learns, Knows, Known
  <2> QED
    BY <1>4, <2>1, <2>2, <2>3
<1>17. ASSUME CommitAdd(t) PROVE Typed'
  <2> USE <1>17 DEF CommitAdd, Go, Answers, shared, thread, aux, Promoted, ForgetBegins
  <2>1. Stores
    <3>1. MemoryMoves
      BY <1>1, TiersTyped DEF MemoryMoves, Knows, Known, Redis, Memory
    <3>2. RedisMoves
      BY <1>1, <1>6 DEF RedisMoves, Knows, Known, Redis, Memory
    <3>3. WritesMove
      BY <1>5 DEF WritesMove
    <3>4. RestMoves
      BY <1>6 DEF RestMoves
    <3> QED
      BY <3>1, <3>2, <3>3, <3>4, StillStores
  <2>2. Turn(t, "idle")
    BY <1>1, <1>2, <1>3 DEF Turn, Places
  <2>3. Learns(t, "idle", query[t], since[t], value[t], answer[t])
    BY <1>1, <1>2, TiersTyped DEF Learns, Knows, Known
  <2> QED
    BY <1>4, <2>1, <2>2, <2>3
<1>18. ASSUME CommitDelete(t) PROVE Typed'
  <2> USE <1>18 DEF CommitDelete, Go, Answers, shared, thread, aux, Promoted, ForgetBegins
  <2>1. Stores
    <3>1. MemoryMoves
      BY <1>1, TiersTyped DEF MemoryMoves, Knows, Known, Redis, Memory
    <3>2. RedisMoves
      BY <1>1, <1>6 DEF RedisMoves, Knows, Known, Redis, Memory
    <3>3. WritesMove
      BY <1>5 DEF WritesMove
    <3>4. RestMoves
      BY <1>6 DEF RestMoves
    <3> QED
      BY <3>1, <3>2, <3>3, <3>4, StillStores
  <2>2. Turn(t, "deleted")
    BY <1>1, <1>2, <1>3 DEF Turn, Places
  <2>3. Learns(t, "deleted", query[t], since[t], commits + 1, answer[t])
    BY <1>1, <1>2, TiersTyped DEF Learns, Knows, Known
  <2> QED
    BY <1>4, <2>1, <2>2, <2>3
<1>19. ASSUME ForgetAfter(t) PROVE Typed'
  <2> USE <1>19 DEF ForgetAfter, Go, Answers, shared, thread, aux, Promoted, ForgetBegins
  <2>1. Stores
    <3>1. MemoryMoves
      BY <1>1, TiersTyped DEF MemoryMoves, Knows, Known, Redis, Memory
    <3>2. RedisMoves
      BY <1>1, <1>6 DEF RedisMoves, Knows, Known, Redis, Memory
    <3>3. WritesMove
      BY <1>5 DEF WritesMove
    <3>4. RestMoves
      BY <1>6 DEF RestMoves
    <3> QED
      BY <3>1, <3>2, <3>3, <3>4, StillStores
  <2>2. Turn(t, "forgetting")
    BY <1>1, <1>2, <1>3 DEF Turn, Places
  <2>3. Learns(t, "forgetting", query[t], since[t], value[t], answer[t])
    BY <1>1, <1>2, TiersTyped DEF Learns, Knows, Known
  <2> QED
    BY <1>4, <2>1, <2>2, <2>3
<1>20. ASSUME DeleteReturns(t) PROVE Typed'
  <2> USE <1>20 DEF DeleteReturns, Go, Answers, shared, thread, aux, Promoted, ForgetBegins
  <2>1. Stores
    <3>1. MemoryMoves
      BY <1>1, TiersTyped DEF MemoryMoves, Knows, Known, Redis, Memory
    <3>2. RedisMoves
      BY <1>1, <1>6 DEF RedisMoves, Knows, Known, Redis, Memory
    <3>3. WritesMove
      BY <1>5 DEF WritesMove, Knows
    <3>4. RestMoves
      BY <1>6 DEF RestMoves
    <3> QED
      BY <3>1, <3>2, <3>3, <3>4, StillStores
  <2>2. Turn(t, "idle")
    BY <1>1, <1>2, <1>3 DEF Turn, Places
  <2>3. Learns(t, "idle", query[t], since[t], None, answer[t])
    BY <1>1, <1>2, TiersTyped DEF Learns, Knows, Known
  <2> QED
    BY <1>4, <2>1, <2>2, <2>3
<1> QED
  BY <1>7, <1>8, <1>9, <1>10, <1>11, <1>12, <1>13, <1>14, <1>15, <1>16, <1>17, <1>18, <1>19, <1>20

(* An entry that runs out keeps them too.                                  *)
LEMMA QuietTyped ==
  ASSUME Typed, MemoryMoves, RedisMoves,
         UNCHANGED <<tier, commits, told, lock, at, query, since, value, answer, doomed, faults,
                     late, unheard>>
  PROVE  Typed'
<1>1. TypeOK /\ told \in 0..commits /\ commits \in Nat
  BY Facts
<1>2. Stores
  BY <1>1, StillStores DEF WritesMove, RestMoves, TypeOK
<1>3. TypeOK'
  BY <1>1, <1>2 DEF TypeOK, Stores, Fits, Entry, Single
<1>4. Known'
  BY <1>2 DEF Known, Stores, Redis
<1>5. ASSUME NEW t \in Threads PROVE Knows(t)'
  <2>1. Knows(t)
    BY DEF Typed
  <2> QED
    BY <2>1 DEF Knows, Redis
<1> QED
  BY <1>3, <1>4, <1>5 DEF Typed

LEMMA RestartTyped == Typed /\ Restart => Typed'
<1> SUFFICES ASSUME Typed, Restart PROVE Typed'
  OBVIOUS
<1>1. TypeOK /\ Known /\ commits \in Nat /\ told \in 0..commits /\ None \notin Threads
      /\ (faults < MaxFaults => faults + 1 \in 0..MaxFaults)
  BY Facts DEF Typed
<1>2. /\ tier' = tier /\ l1' = <<>> /\ l2' = l2 /\ commits' = commits /\ told' = told /\ lock' = None
      /\ faults' = faults + 1 /\ faults < MaxFaults /\ late' = late /\ unheard' = unheard
  BY DEF Restart, aux
<1>3. Fits(<<>>) /\ \A n \in 1..Len(<<>>) : <<>>[n].of \in 0..commits
  BY TiersTyped
<1>4. \A u \in Threads : lock' = u <=> at'[u] \in {"keep", "adding"}
  BY <1>1, <1>2 DEF Restart
<1>5. /\ at' \in [Threads -> Places] /\ query' \in [Threads -> Queries \cup {None}]
      /\ since' \in [Threads -> Answer] /\ value' \in [Threads -> Maybe]
      /\ answer' \in [Threads -> Maybe] /\ doomed' \in [Threads -> SUBSET Queries]
  BY BoundsAreNumbers DEF Restart, Places, Answer, Maybe
<1>6. TypeOK'
  BY <1>1, <1>2, <1>3, <1>4, <1>5 DEF TypeOK, Fits, Entry, Single, Places
<1>7. Known'
  BY <1>1, <1>2, <1>3 DEF Known, Redis
<1>8. \A t \in Threads : Knows(t)'
  BY <1>1, <1>2 DEF Knows, Restart
<1> QED
  BY <1>6, <1>7, <1>8 DEF Typed

LEMMA TypedStep == Typed /\ [Next]_vars => Typed'
<1> SUFFICES ASSUME Typed, [Next]_vars PROVE Typed'
  OBVIOUS
<1>1. ASSUME NEW t \in Threads, NEW q \in Queries, LookInMemory(t, q) \/ LookInRedis(t, q)
      PROVE  Typed'
  BY <1>1, ThreadTyped
<1>2. ASSUME NEW t \in Threads, SearchStep(t) PROVE Typed'
  BY <1>2, ThreadTyped DEF SearchStep
<1>3. ASSUME NEW t \in Threads, WriteStep(t) PROVE Typed'
  BY <1>3, ThreadTyped DEF WriteStep
<1>4. ASSUME NEW t \in Threads, BeginAdd(t) \/ CommitDelete(t) \/ ForgetFails(t) PROVE Typed'
  BY <1>4, ThreadTyped
<1>5. ASSUME NEW q \in Queries, ExpireInMemory(q) PROVE Typed'
  <2>1. MemoryMoves
    BY <1>5, TiersTyped DEF ExpireInMemory, MemoryMoves
  <2> QED
    BY <1>5, <2>1, QuietTyped DEF ExpireInMemory, RedisMoves, thread, aux
<1>6. ASSUME NEW q \in Queries, ExpireInRedis(q) PROVE Typed'
  <2>1. MemoryMoves
    BY <1>6 DEF ExpireInRedis, MemoryMoves
  <2> QED
    BY <1>6, <2>1, QuietTyped DEF ExpireInRedis, RedisMoves, thread, aux
<1>7. CASE Restart
  BY <1>7, RestartTyped
<1>8. CASE UNCHANGED vars
  BY <1>8, QuietTyped DEF vars, shared, thread, aux, MemoryMoves, RedisMoves
<1> QED
  BY <1>1, <1>2, <1>3, <1>4, <1>5, <1>6, <1>7, <1>8 DEF Next

(* Every variable of the cache, its threads and its tiers has its type;    *)
(* memory keeps to its size and to one entry a query, and the lock is with *)
(* who says so.                                                            *)
THEOREM TypeCorrect == Spec => []TypeOK
<1>1. Typed => TypeOK
  BY DEF Typed
<1> QED
  BY <1>1, TypedInit, TypedStep, PTL DEF Spec

-------------------------------------------------------------------------------
(* Staleness                                                               *)

(* No entry is from before commit v, in Redis under these keys.            *)
From(v, keys) ==
  /\ \A n \in 1..Len(l1) : v <= l1[n].of
  /\ \A q \in keys : l2[q] # None => v <= l2[q]

FromThen(v, keys) ==
  /\ \A n \in 1..Len(l1') : v <= l1'[n].of
  /\ \A q \in keys : l2'[q] # None => v <= l2'[q]

(* What a writer has already forgotten nobody has kept since; an answer    *)
(* found is no older than what its search may see.                         *)
FreshOf(t) ==
  /\ at[t] = "adding" => From(commits + 1, Queries \ doomed[t])
  /\ at[t] = "forgetting" => From(value[t], Queries \ doomed[t])
  /\ at[t] = "promote" => since[t] <= value[t]
  /\ at[t] = "answered" => since[t] <= answer[t]

Fresh == From(told, Queries) /\ \A t \in Threads : FreshOf(t)

FreshInv == Typed /\ (~late /\ ~unheard => Fresh)

Adders == {t \in Threads : at[t] = "adding"}

(* How entries come and go: what is kept anew is as of the last commit,    *)
(* and none is while an add is under way.                                  *)
Ages ==
  /\ \A n \in 1..Len(l1') :
       \/ \E m \in 1..Len(l1) : l1'[n].of = l1[m].of
       \/ Adders = {} /\ l1'[n].of = commits
  /\ \A q \in Queries : l2'[q] \in {None, l2[q]} \/ (Adders = {} /\ l2'[q] = commits)

LEMMA StillFrom ==
  ASSUME Typed, Ages, NEW v \in Nat, NEW keys \in SUBSET Queries, From(v, keys),
         v <= commits \/ Adders # {}
  PROVE  FromThen(v, keys)
<1>1. ASSUME NEW n \in 1..Len(l1') PROVE v <= l1'[n].of
  BY DEF Ages, From
<1>2. ASSUME NEW q \in keys, l2'[q] # None PROVE v <= l2'[q]
  BY <1>2 DEF Ages, From
<1> QED
  BY <1>1, <1>2 DEF FromThen

(* What the threads that do not move rely on stands.                       *)
LEMMA OthersFresh ==
  ASSUME Typed, Typed', Fresh, Ages, NEW u \in Threads,
         at'[u] = at[u], value'[u] = value[u], since'[u] = since[u], answer'[u] = answer[u],
         doomed'[u] = doomed[u], commits' = commits \/ lock # u
  PROVE  FreshOf(u)'
<1>1. TypeOK /\ commits \in Nat /\ Knows(u) /\ FreshOf(u) /\ None \notin Nat
  BY Facts DEF Typed, Fresh
<1>2. doomed[u] \in SUBSET Queries
  BY <1>1 DEF TypeOK
<1>3. CASE at[u] = "adding"
  <2>1. commits' = commits
    BY <1>1, <1>3 DEF TypeOK
  <2>2. Adders # {} /\ commits + 1 \in Nat /\ From(commits + 1, Queries \ doomed[u])
    BY <1>1, <1>3 DEF Adders, FreshOf
  <2>3. FromThen(commits + 1, Queries \ doomed[u])
    BY <1>2, <2>2, StillFrom
  <2> QED
    BY <1>3, <2>1, <2>3 DEF FreshOf, From, FromThen
<1>4. CASE at[u] = "forgetting"
  <2>1. value[u] \in 0..commits /\ From(value[u], Queries \ doomed[u])
    BY <1>1, <1>4 DEF Knows, FreshOf
  <2>2. FromThen(value[u], Queries \ doomed[u])
    BY <1>1, <1>2, <2>1, StillFrom
  <2> QED
    BY <1>4, <2>2 DEF FreshOf, From, FromThen
<1>5. CASE at[u] \notin {"adding", "forgetting"}
  BY <1>1, <1>5 DEF FreshOf
<1> QED
  BY <1>3, <1>4, <1>5

(* As long as no write returns, what it would be stale to find is as it    *)
(* was.                                                                    *)
LEMMA ToldFresh ==
  ASSUME Typed, Fresh, Ages, told' = told
  PROVE  From(told, Queries)'
<1>1. told \in Nat /\ told <= commits
  BY Facts
<1>2. FromThen(told, Queries)
  BY <1>1, StillFrom DEF Fresh
<1> QED
  BY <1>2 DEF From, FromThen

(* So a thread's step has to answer for itself, and for what it returns.   *)
LEMMA TurnFresh ==
  ASSUME Typed, Typed', Fresh, Ages, NEW t \in Threads,
         at' = [at EXCEPT ![t] = at'[t]], value' = [value EXCEPT ![t] = value'[t]],
         since' = [since EXCEPT ![t] = since'[t]], answer' = [answer EXCEPT ![t] = answer'[t]],
         doomed' = [doomed EXCEPT ![t] = doomed'[t]],
         commits' = commits \/ lock \in {None, t},
         told' = told \/ From(told, Queries)', FreshOf(t)'
  PROVE  Fresh'
<1>1. TypeOK
  BY DEF Typed
<1>2. ASSUME NEW u \in Threads \ {t} PROVE FreshOf(u)'
  <2>1. u # None
    BY NoneIsNothing
  <2>2. /\ at'[u] = at[u] /\ value'[u] = value[u] /\ since'[u] = since[u] /\ answer'[u] = answer[u]
        /\ doomed'[u] = doomed[u]
    BY <1>1 DEF TypeOK
  <2> QED
    BY <2>1, <2>2, OthersFresh
<1> QED
  BY <1>2, ToldFresh DEF Fresh

(* Every step keeps fresh what it finds fresh, unless a promotion comes late *)
(* or a write's forgetting fails.                                          *)
LEMMA FreshStep ==
  ASSUME Typed, Typed', Fresh, ~late', ~unheard', NEW t \in Threads, NEW q
  PROVE
    \/ q \in Queries /\ (LookInMemory(t, q) \/ LookInRedis(t, q) \/ ForgetInRedis(t, q))
    \/ LookBehind(t) \/ Promote(t) \/ Compute(t) \/ KeepInRedis(t) \/ TakeAnswer(t)
    \/ ForgetFails(t) \/ BeginAdd(t) \/ CommitAdd(t)
    \/ CommitDelete(t) \/ ForgetAfter(t) \/ DeleteReturns(t)
    => Fresh'
<1>1. /\ TypeOK /\ Known /\ Knows(t) /\ FreshOf(t) /\ From(told, Queries)
      /\ commits \in Nat /\ told \in Nat /\ told <= commits /\ None \notin Nat
  BY Facts DEF Typed, Fresh
<1>2. /\ at \in [Threads -> Places] /\ value \in [Threads -> Maybe] /\ since \in [Threads -> Answer]
      /\ answer \in [Threads -> Maybe] /\ doomed \in [Threads -> SUBSET Queries]
      /\ l2 \in [Queries -> Maybe]
      /\ (lock = t <=> at[t] \in {"keep", "adding"})
  BY <1>1 DEF TypeOK, Places
<1>3. lock \in {None, t} /\ at[t] # "adding" => Adders = {}
  <2>1. \A u \in Threads : u # None
    BY NoneIsNothing
  <2> QED
    BY <1>1, <2>1 DEF TypeOK, Adders
<1>4. ASSUME q \in Queries, LookInMemory(t, q) PROVE Fresh'
  <2> USE <1>4 DEF LookInMemory, Go, Answers, ForgetBegins
  <2>1. Ages
    <3>1. CASE Hit(q)
      <4>1. Beside(Touched(q), InL1(q)) /\ \E m \in 1..Len(l1) : InL1(q) = l1[m].of
        BY <1>1, <3>1, TouchedFits
      <4> QED
        BY <3>1, <4>1 DEF Ages, Beside
    <3>2. CASE ~Hit(q)
      BY <3>2 DEF Ages
    <3> QED
      BY <3>1, <3>2
  <2>2. FreshOf(t)'
    <3>1. CASE Hit(q)
      <4>1. told <= InL1(q)
        BY <1>1, <3>1, TouchedFits DEF From
      <4> QED
        BY <1>2, <3>1, <4>1 DEF FreshOf
    <3>2. CASE ~Hit(q)
      BY <1>2, <3>2 DEF FreshOf
    <3> QED
      BY <3>1, <3>2
  <2>3. told' = told \/ From(told, Queries)'
    BY DEF shared
  <2>4. /\ at' = [at EXCEPT ![t] = at'[t]] /\ value' = [value EXCEPT ![t] = value'[t]]
        /\ since' = [since EXCEPT ![t] = since'[t]] /\ answer' = [answer EXCEPT ![t] = answer'[t]]
        /\ doomed' = [doomed EXCEPT ![t] = doomed'[t]]
        /\ commits' = commits \/ lock \in {None, t}
    BY <1>2 DEF shared
  <2> QED
    BY <2>1, <2>2, <2>3, <2>4, TurnFresh
<1>5. ASSUME q \in Queries, LookInRedis(t, q) PROVE Fresh'
  <2> USE <1>5 DEF LookInRedis, Go, Answers, ForgetBegins
  <2>1. Ages
    BY DEF Ages, shared
  <2>2. FreshOf(t)'
    BY <1>1, <1>2 DEF FreshOf, From, shared
  <2>3. told' = told \/ From(told, Queries)'
    BY DEF shared
  <2>4. /\ at' = [at EXCEPT ![t] = at'[t]] /\ value' = [value EXCEPT ![t] = value'[t]]
        /\ since' = [since EXCEPT ![t] = since'[t]] /\ answer' = [answer EXCEPT ![t] = answer'[t]]
        /\ doomed' = [doomed EXCEPT ![t] = doomed'[t]]
        /\ commits' = commits \/ lock \in {None, t}
    BY <1>2 DEF shared
  <2> QED
    BY <2>1, <2>2, <2>3, <2>4, TurnFresh
<1>6. ASSUME LookBehind(t) PROVE Fresh'
  <2> USE <1>6 DEF LookBehind, Go, Answers, ForgetBegins
  <2>1. Ages
    BY DEF Ages, shared
  <2>2. FreshOf(t)'
    <3>1. query[t] \in Queries /\ since[t] <= told /\ since[t] \in Nat
      BY <1>1, <1>2 DEF Knows, Answer
    <3>2. l2[query[t]] # None => l2[query[t]] \in Nat /\ told <= l2[query[t]]
      BY <1>1, <3>1 DEF From, Known
    <3> QED
      BY <1>1, <1>2, <3>1, <3>2 DEF FreshOf
  <2>3. told' = told \/ From(told, Queries)'
    BY DEF shared
  <2>4. /\ at' = [at EXCEPT ![t] = at'[t]] /\ value' = [value EXCEPT ![t] = value'[t]]
        /\ since' = [since EXCEPT ![t] = since'[t]] /\ answer' = [answer EXCEPT ![t] = answer'[t]]
        /\ doomed' = [doomed EXCEPT ![t] = doomed'[t]]
        /\ commits' = commits \/ lock \in {None, t}
    BY <1>2 DEF shared
  <2> QED
    BY <2>1, <2>2, <2>3, <2>4, TurnFresh
<1>7. ASSUME Promote(t) PROVE Fresh'
  <2> USE <1>7 DEF Promote, Go, Answers, ForgetBegins
  <2>1. Ages
    <3>1. Adders = {} /\ value[t] = commits /\ query[t] \in Queries
      <4>1. value[t] \in 0..commits /\ query[t] \in Queries
        BY <1>1 DEF Knows
      <4>2. ~(value[t] < commits) /\ ~Cleared
        OBVIOUS
      <4> QED
        BY <1>1, <4>1, <4>2 DEF Cleared, Adders
    <3>2. Beside(With(query[t], commits), commits)
      BY <1>1, <3>1, WithFits DEF TypeOK
    <3> QED
      BY <3>1, <3>2 DEF Ages, Beside, Promoted
  <2>2. FreshOf(t)'
    BY <1>1, <1>2 DEF FreshOf
  <2>3. told' = told \/ From(told, Queries)'
    BY DEF shared
  <2>4. /\ at' = [at EXCEPT ![t] = at'[t]] /\ value' = [value EXCEPT ![t] = value'[t]]
        /\ since' = [since EXCEPT ![t] = since'[t]] /\ answer' = [answer EXCEPT ![t] = answer'[t]]
        /\ doomed' = [doomed EXCEPT ![t] = doomed'[t]]
        /\ commits' = commits \/ lock \in {None, t}
    BY <1>2 DEF shared
  <2> QED
    BY <2>1, <2>2, <2>3, <2>4, TurnFresh
<1>8. ASSUME Compute(t) PROVE Fresh'
  <2> USE <1>8 DEF Compute, Go, Answers, ForgetBegins
  <2>1. Ages
    <3>1. Adders = {} /\ query[t] \in Queries
      BY <1>1, <1>3 DEF Knows
    <3>2. Beside(With(query[t], commits), commits)
      BY <1>1, <3>1, WithFits DEF TypeOK
    <3> QED
      BY <3>1, <3>2 DEF Ages, Beside
  <2>2. FreshOf(t)'
    <3>1. since[t] <= commits
      BY <1>1, <1>2 DEF Knows, Answer
    <3> QED
      BY <1>2, <3>1 DEF FreshOf
  <2>3. told' = told \/ From(told, Queries)'
    BY DEF shared
  <2>4. /\ at' = [at EXCEPT ![t] = at'[t]] /\ value' = [value EXCEPT ![t] = value'[t]]
        /\ since' = [since EXCEPT ![t] = since'[t]] /\ answer' = [answer EXCEPT ![t] = answer'[t]]
        /\ doomed' = [doomed EXCEPT ![t] = doomed'[t]]
        /\ commits' = commits \/ lock \in {None, t}
    BY <1>2 DEF shared
  <2> QED
    BY <2>1, <2>2, <2>3, <2>4, TurnFresh
<1>9. ASSUME KeepInRedis(t) PROVE Fresh'
  <2> USE <1>9 DEF KeepInRedis, Go, Answers, ForgetBegins
  <2>1. Ages
    <3>1. Adders = {} /\ value[t] = commits /\ query[t] \in Queries
      BY <1>1, <1>2, <1>3 DEF Knows
    <3> QED
      BY <1>2, <3>1 DEF Ages
  <2>2. FreshOf(t)'
    <3>1. since[t] <= commits /\ value[t] = commits
      BY <1>1, <1>2 DEF Knows, Answer
    <3> QED
      BY <1>2, <3>1 DEF FreshOf
  <2>3. told' = told \/ From(told, Queries)'
    BY DEF shared
  <2>4. /\ at' = [at EXCEPT ![t] = at'[t]] /\ value' = [value EXCEPT ![t] = value'[t]]
        /\ since' = [since EXCEPT ![t] = since'[t]] /\ answer' = [answer EXCEPT ![t] = answer'[t]]
        /\ doomed' = [doomed EXCEPT ![t] = doomed'[t]]
        /\ commits' = commits \/ lock \in {None, t}
    BY <1>2 DEF shared
  <2> QED
    BY <2>1, <2>2, <2>3, <2>4, TurnFresh
<1>10. ASSUME TakeAnswer(t) PROVE Fresh'
  <2> USE <1>10 DEF TakeAnswer, Go, Answers, ForgetBegins
  <2>1. Ages
    BY DEF Ages, shared
  <2>2. FreshOf(t)'
    BY <1>2 DEF FreshOf
  <2>3. told' = told \/ From(told, Queries)'
    BY DEF shared
  <2>4. /\ at' = [at EXCEPT ![t] = at'[t]] /\ value' = [value EXCEPT ![t] = value'[t]]
        /\ since' = [since EXCEPT ![t] = since'[t]] /\ answer' = [answer EXCEPT ![t] = answer'[t]]
        /\ doomed' = [doomed EXCEPT ![t] = doomed'[t]]
        /\ commits' = commits \/ lock \in {None, t}
    BY <1>2 DEF shared
  <2> QED
    BY <2>1, <2>2, <2>3, <2>4, TurnFresh
<1>11. ASSUME q \in Queries, ForgetInRedis(t, q) PROVE Fresh'
  <2> USE <1>11 DEF ForgetInRedis, Go, Answers, ForgetBegins
  <2>1. Ages
    BY <1>2 DEF Ages
  <2>2. FreshOf(t)'
    BY <1>1, <1>2 DEF FreshOf, From
  <2>3. told' = told \/ From(told, Queries)'
    BY DEF shared
  <2>4. /\ at' = [at EXCEPT ![t] = at'[t]] /\ value' = [value EXCEPT ![t] = value'[t]]
        /\ since' = [since EXCEPT ![t] = since'[t]] /\ answer' = [answer EXCEPT ![t] = answer'[t]]
        /\ doomed' = [doomed EXCEPT ![t] = doomed'[t]]
        /\ commits' = commits \/ lock \in {None, t}
    BY <1>2 DEF shared
  <2> QED
    BY <2>1, <2>2, <2>3, <2>4, TurnFresh
<1>12. ASSUME BeginAdd(t) PROVE Fresh'
  <2> USE <1>12 DEF BeginAdd, Go, Answers, ForgetBegins
  <2>1. Ages
    BY DEF Ages
  <2>2. FreshOf(t)'
    <3>1. Redis \/ \A k \in Queries : l2[k] = None
      BY <1>1 DEF Known
    <3> QED
      BY <1>2, <3>1 DEF FreshOf, From
  <2>3. told' = told \/ From(told, Queries)'
    BY DEF shared
  <2>4. /\ at' = [at EXCEPT ![t] = at'[t]] /\ value' = [value EXCEPT ![t] = value'[t]]
        /\ since' = [since EXCEPT ![t] = since'[t]] /\ answer' = [answer EXCEPT ![t] = answer'[t]]
        /\ doomed' = [doomed EXCEPT ![t] = doomed'[t]]
        /\ commits' = commits \/ lock \in {None, t}
    BY <1>2 DEF shared
  <2> QED
    BY <2>1, <2>2, <2>3, <2>4, TurnFresh
<1>13. ASSUME CommitAdd(t) PROVE Fresh'
  <2> USE <1>13 DEF CommitAdd, Go, Answers, ForgetBegins
  <2>1. Ages
    BY DEF Ages
  <2>2. FreshOf(t)'
    BY <1>2 DEF FreshOf
  <2>3. told' = told \/ From(told, Queries)'
    <3>1. From(commits + 1, Queries)
      BY <1>1 DEF FreshOf
    <3> QED
      BY <3>1 DEF From
  <2>4. /\ at' = [at EXCEPT ![t] = at'[t]] /\ value' = [value EXCEPT ![t] = value'[t]]
        /\ since' = [since EXCEPT ![t] = since'[t]] /\ answer' = [answer EXCEPT ![t] = answer'[t]]
        /\ doomed' = [doomed EXCEPT ![t] = doomed'[t]]
        /\ commits' = commits \/ lock \in {None, t}
    BY <1>2 DEF shared
  <2> QED
    BY <2>1, <2>2, <2>3, <2>4, TurnFresh
<1>14. ASSUME CommitDelete(t) PROVE Fresh'
  <2> USE <1>14 DEF CommitDelete, Go, Answers, ForgetBegins
  <2>1. Ages
    BY DEF Ages
  <2>2. FreshOf(t)'
    BY <1>2 DEF FreshOf
  <2>3. told' = told \/ From(told, Queries)'
    BY DEF shared
  <2>4. /\ at' = [at EXCEPT ![t] = at'[t]] /\ value' = [value EXCEPT ![t] = value'[t]]
        /\ since' = [since EXCEPT ![t] = since'[t]] /\ answer' = [answer EXCEPT ![t] = answer'[t]]
        /\ doomed' = [doomed EXCEPT ![t] = doomed'[t]]
        /\ commits' = commits \/ lock \in {None, t}
    BY <1>2 DEF shared
  <2> QED
    BY <2>1, <2>2, <2>3, <2>4, TurnFresh
<1>15. ASSUME ForgetAfter(t) PROVE Fresh'
  <2> USE <1>15 DEF ForgetAfter, Go, Answers, ForgetBegins
  <2>1. Ages
    BY DEF Ages
  <2>2. FreshOf(t)'
    <3>1. Redis \/ \A k \in Queries : l2[k] = None
      BY <1>1 DEF Known
    <3> QED
      BY <1>2, <3>1 DEF FreshOf, From
  <2>3. told' = told \/ From(told, Queries)'
    BY DEF shared
  <2>4. /\ at' = [at EXCEPT ![t] = at'[t]] /\ value' = [value EXCEPT ![t] = value'[t]]
        /\ since' = [since EXCEPT ![t] = since'[t]] /\ answer' = [answer EXCEPT ![t] = answer'[t]]
        /\ doomed' = [doomed EXCEPT ![t] = doomed'[t]]
        /\ commits' = commits \/ lock \in {None, t}
    BY <1>2 DEF shared
  <2> QED
    BY <2>1, <2>2, <2>3, <2>4, TurnFresh
<1>16. ASSUME DeleteReturns(t) PROVE Fresh'
  <2> USE <1>16 DEF DeleteReturns, Go, Answers, ForgetBegins
  <2>1. Ages
    BY DEF Ages
  <2>2. FreshOf(t)'
    BY <1>2 DEF FreshOf
  <2>3. told' = told \/ From(told, Queries)'
    <3>1. From(value[t], Queries)
      BY <1>1 DEF FreshOf
    <3> QED
      BY <1>1, <3>1 DEF From
  <2>4. /\ at' = [at EXCEPT ![t] = at'[t]] /\ value' = [value EXCEPT ![t] = value'[t]]
        /\ since' = [since EXCEPT ![t] = since'[t]] /\ answer' = [answer EXCEPT ![t] = answer'[t]]
        /\ doomed' = [doomed EXCEPT ![t] = doomed'[t]]
        /\ commits' = commits \/ lock \in {None, t}
    BY <1>2 DEF shared
  <2> QED
    BY <2>1, <2>2, <2>3, <2>4, TurnFresh
<1>17. ~ForgetFails(t)
  BY DEF ForgetFails
<1> QED
  BY <1>4, <1>5, <1>6, <1>7, <1>8, <1>9, <1>10, <1>11, <1>12, <1>13, <1>14, <1>15, <1>16, <1>17

LEMMA FreshInvStep == FreshInv /\ [Next]_vars => FreshInv'
<1> SUFFICES ASSUME FreshInv, [Next]_vars, ~late', ~unheard' PROVE Fresh'
  BY TypedStep DEF FreshInv
<1>1. Typed /\ Typed' /\ TypeOK
  BY TypedStep DEF FreshInv, Typed
<1>2. (late => late') /\ (unheard => unheard')
  <2>1. ASSUME NEW t \in Threads, NEW q \in Queries, LookInMemory(t, q) \/ LookInRedis(t, q)
        PROVE  UNCHANGED aux
    BY <2>1 DEF LookInMemory, LookInRedis, aux
  <2>2. ASSUME NEW t \in Threads, SearchStep(t) PROVE (late => late') /\ unheard' = unheard
    <3>1. LookBehind(t) \/ Compute(t) \/ KeepInRedis(t) \/ TakeAnswer(t) => UNCHANGED aux
      BY DEF LookBehind, Compute, KeepInRedis, TakeAnswer, aux
    <3>2. Promote(t) => (late => late') /\ unheard' = unheard
      BY DEF Promote
    <3> QED
      BY <2>2, <3>1, <3>2 DEF SearchStep, aux
  <2>3. ASSUME NEW t \in Threads, WriteStep(t) PROVE UNCHANGED aux
    BY <2>3 DEF WriteStep, ForgetInRedis, CommitAdd, ForgetAfter, DeleteReturns, aux
  <2>4. ASSUME NEW t \in Threads, BeginAdd(t) \/ CommitDelete(t) PROVE UNCHANGED aux
    BY <2>4 DEF BeginAdd, CommitDelete, aux
  <2>5. ASSUME NEW t \in Threads, ForgetFails(t) PROVE FALSE
    BY <2>5 DEF ForgetFails
  <2>6. ASSUME NEW q \in Queries, ExpireInMemory(q) \/ ExpireInRedis(q) PROVE UNCHANGED aux
    BY <2>6 DEF ExpireInMemory, ExpireInRedis, aux
  <2>7. Restart \/ UNCHANGED vars => UNCHANGED aux
    BY DEF Restart, vars, aux
  <2> QED
    BY <2>1, <2>2, <2>3, <2>4, <2>5, <2>6, <2>7 DEF Next, aux
<1>3. Fresh
  BY <1>2 DEF FreshInv
<1>4. ASSUME NEW t \in Threads, NEW q \in Queries, LookInMemory(t, q) \/ LookInRedis(t, q)
      PROVE  Fresh'
  BY <1>1, <1>3, <1>4, FreshStep
<1>5. ASSUME NEW t \in Threads, SearchStep(t) PROVE Fresh'
  BY <1>1, <1>3, <1>5, FreshStep DEF SearchStep
<1>6. ASSUME NEW t \in Threads, WriteStep(t) PROVE Fresh'
  BY <1>1, <1>3, <1>6, FreshStep DEF WriteStep
<1>7. ASSUME NEW t \in Threads, BeginAdd(t) \/ CommitDelete(t) \/ ForgetFails(t) PROVE Fresh'
  BY <1>1, <1>3, <1>7, FreshStep
<1>8. ASSUME Ages, UNCHANGED <<told, commits, at, value, since, answer, doomed>> PROVE Fresh'
  BY <1>1, <1>3, <1>8, OthersFresh, ToldFresh DEF Fresh
<1>9. ASSUME NEW q \in Queries, ExpireInMemory(q) PROVE Fresh'
  <2>1. Ages
    BY <1>1, <1>9, WithoutFits DEF Ages, ExpireInMemory
  <2> QED
    BY <1>8, <1>9, <2>1 DEF ExpireInMemory, thread
<1>10. ASSUME NEW q \in Queries, ExpireInRedis(q) PROVE Fresh'
  <2>1. Ages
    BY <1>1, <1>10 DEF Ages, ExpireInRedis, TypeOK
  <2> QED
    BY <1>8, <1>10, <2>1 DEF ExpireInRedis, thread
<1>11. CASE Restart
  <2>1. Ages
    BY <1>11 DEF Ages, Restart
  <2>2. From(told, Queries)'
    BY <1>1, <1>3, <1>11, <2>1, ToldFresh DEF Restart
  <2> QED
    BY <1>11, <2>2 DEF Fresh, FreshOf, Restart
<1>12. CASE UNCHANGED vars
  <2>1. Ages
    BY <1>12 DEF Ages, vars, shared
  <2> QED
    BY <1>8, <1>12, <2>1 DEF vars, shared, thread
<1> QED
  BY <1>4, <1>5, <1>6, <1>7, <1>9, <1>10, <1>11, <1>12 DEF Next

(* No search that begins after a write has returned is answered from       *)
(* before it, whichever tiers there are, however the threads interleave    *)
(* and wherever the process restarts, until Redis could not be told or a   *)
(* promotion came late.                                                    *)
THEOREM AnswersAreFresh == Spec => []NoStaleAnswer
<1>1. Init => FreshInv
  <2>1. Init => Typed
    BY TypedInit
  <2>2. Init => Fresh
    BY DEF Init, Fresh, From, FreshOf
  <2> QED
    BY <2>1, <2>2 DEF FreshInv
<1>2. FreshInv => NoStaleAnswer
  BY DEF FreshInv, Fresh, FreshOf, NoStaleAnswer
<1> QED
  BY <1>1, <1>2, FreshInvStep, PTL DEF Spec

===============================================================================
