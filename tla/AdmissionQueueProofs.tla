------------------------ MODULE AdmissionQueueProofs ------------------------
(***************************************************************************)
(* The safety properties of AdmissionQueue, for every finite set of        *)
(* requests, every depth and every number of slots, and the proof that the *)
(* queue implements ModelPermits.                                          *)
(***************************************************************************)
EXTENDS AdmissionQueue, FiniteSetTheorems, SequenceTheorems, TLAPS

(***************************************************************************)
(* The inductive invariant.  SlotsExact counts the line by the cardinality *)
(* of its range; the steps are about places in it, so the induction says   *)
(* instead that nobody stands in line twice.                               *)
(***************************************************************************)
Running == {r \in Request : pc[r] = "running"}
InLine == {r \in Request : pc[r] \in {"parked", "back", "leaving"}}

Once(s) == \A i, j \in 1 .. Len(s) : s[i] = s[j] => i = j
RunningCounted == running = Cardinality(Running)
LineIsWaiters == Range(waiting) = InLine /\ Once(waiting)
LineIsShort == Len(waiting) <= Depth

QueueInv ==
  TypeOK /\ RunningCounted /\ LineIsWaiters /\ LineIsShort /\ FirstIsWoken

----------------------------------------------------------------------------
(* Counting and sequences.                                                 *)

LEMMA CountType ==
  ASSUME NEW S \in SUBSET Request
  PROVE  IsFiniteSet(S) /\ Cardinality(S) \in Nat
  BY QueueAssumption, FS_Subset, FS_CardinalityType

LEMMA CountAdd ==
  ASSUME NEW S \in SUBSET Request, NEW r \in Request \ S
  PROVE  Cardinality(S \cup {r}) = Cardinality(S) + 1
  BY CountType, FS_AddElement

LEMMA CountRemove ==
  ASSUME NEW S \in SUBSET Request, NEW r \in S
  PROVE  Cardinality(S \ {r}) = Cardinality(S) - 1
  BY CountType, FS_RemoveElement

(* A sequence without repetitions is as long as its range is large.        *)
LEMMA OnceCounts ==
  ASSUME NEW S, NEW s \in Seq(S), Once(s)
  PROVE  Len(s) = Cardinality(Range(s))
  <1>1. Len(s) \in Nat /\ s \in [1 .. Len(s) -> S] /\ DOMAIN s = 1 .. Len(s)
    BY LenProperties
  <1>2. s \in Bijection(1 .. Len(s), Range(s))
    BY <1>1 DEF Once, Bijection, Injection, Surjection, IsInjective, Range
  <1>3. IsFiniteSet(1 .. Len(s)) /\ Cardinality(1 .. Len(s)) = Len(s)
    BY <1>1, FS_Interval
  <1> QED BY <1>2, <1>3, FS_Bijection DEF ExistsBijection

(* t is s without its element at place i.                                  *)
Drops(s, i, t) ==
  /\ Len(t) = Len(s) - 1
  /\ \A j \in 1 .. Len(s) - 1 : t[j] = IF j < i THEN s[j] ELSE s[j + 1]

(* What is left when the element at one place of a sequence is removed.    *)
LEMMA RemoveAtProperties ==
  ASSUME NEW S, NEW s \in Seq(S), NEW i \in 1 .. Len(s)
  PROVE  RemoveAt(s, i) \in Seq(S) /\ Drops(s, i, RemoveAt(s, i))
  <1> DEFINE front == SubSeq(s, 1, i - 1)
             back == SubSeq(s, i + 1, Len(s))
  <1>1. Len(s) \in Nat /\ \A j \in 1 .. Len(s) : s[j] \in S
    BY LenProperties, ElementOfSeq
  <1>2. /\ front \in Seq(S) /\ Len(front) = i - 1
        /\ \A j \in 1 .. i - 1 : front[j] = s[j]
    BY <1>1, SubSeqProperties
  <1>3. /\ back \in Seq(S) /\ Len(back) = Len(s) - i
        /\ \A j \in 1 .. Len(s) - i : back[j] = s[i + j]
    BY <1>1, SubSeqProperties
  <1> HIDE DEF front, back
  <1>4. /\ front \o back \in Seq(S)
        /\ Len(front \o back) = Len(front) + Len(back)
        /\ \A j \in 1 .. Len(front) + Len(back) : (front \o back)[j] =
             IF j <= Len(front) THEN front[j] ELSE back[j - Len(front)]
    BY <1>2, <1>3, ConcatProperties
  <1>5. RemoveAt(s, i) = front \o back
    BY DEF RemoveAt, front, back
  <1>6. Len(front \o back) = Len(s) - 1
    BY <1>1, <1>2, <1>3, <1>4
  <1>7. ASSUME NEW j \in 1 .. Len(s) - 1
        PROVE  (front \o back)[j] = IF j < i THEN s[j] ELSE s[j + 1]
    <2>1. CASE j < i
      <3>1. j \in 1 .. i - 1 /\ j \in 1 .. Len(front) + Len(back) /\ j <= Len(front)
        BY <1>1, <1>2, <1>3, <2>1
      <3>2. (front \o back)[j] = front[j]
        BY <1>4, <3>1
      <3> QED BY <1>2, <2>1, <3>1, <3>2
    <2>2. CASE j >= i
      <3> DEFINE k == j - (i - 1)
      <3>1. /\ k \in 1 .. Len(s) - i /\ i + k = j + 1
            /\ j \in 1 .. Len(front) + Len(back) /\ ~(j <= Len(front)) /\ j - Len(front) = k
        BY <1>1, <1>2, <1>3, <2>2
      <3>2. (front \o back)[j] = back[k]
        BY <1>4, <3>1
      <3>3. back[k] = s[i + k]
        BY <1>3, <3>1
      <3> QED BY <2>2, <3>1, <3>2, <3>3
    <2>3. j < i \/ j >= i
      BY <1>1
    <2> QED BY <2>1, <2>2, <2>3
  <1> QED BY <1>4, <1>5, <1>6, <1>7 DEF Drops

(* A line from which the holder of one place is taken out.                 *)
LEMMA DropPlace ==
  ASSUME NEW S, NEW s \in Seq(S), NEW t \in Seq(S), Once(s),
         NEW i \in 1 .. Len(s), Drops(s, i, t)
  PROVE  Once(t) /\ Range(t) = Range(s) \ {s[i]}
  <1> USE DEF Drops
  <1>1. Len(s) \in Nat /\ DOMAIN s = 1 .. Len(s) /\ DOMAIN t = 1 .. Len(s) - 1
    BY LenProperties
  <1>2. Once(t)
    BY <1>1 DEF Once
  <1>3. ASSUME NEW j \in 1 .. Len(s) - 1
        PROVE  t[j] \in Range(s) \ {s[i]}
    BY <1>1, SMTT(30) DEF Once, Range
  <1>4. ASSUME NEW j \in 1 .. Len(s), j # i
        PROVE  s[j] \in Range(t)
    <2>1. CASE j < i
      <3>1. j \in 1 .. Len(s) - 1
        BY <1>1, <2>1
      <3> QED BY <1>1, <2>1, <3>1 DEF Range
    <2>2. CASE j > i
      <3>1. j - 1 \in 1 .. Len(s) - 1 /\ ~(j - 1 < i) /\ (j - 1) + 1 = j
        BY <1>1, <2>2
      <3> QED BY <1>1, <3>1 DEF Range
    <2> QED BY <1>1, <1>4, <2>1, <2>2
  <1>5. Range(t) = Range(s) \ {s[i]}
    BY <1>1, <1>3, <1>4 DEF Range
  <1> QED BY <1>2, <1>5

(* The line without a request that waits in it: the others, in their order. *)
LEMMA WithoutProperties ==
  ASSUME TypeOK, LineIsWaiters, NEW r \in InLine
  PROVE  /\ Without(r) \in Seq(Request)
         /\ Len(Without(r)) = Len(waiting) - 1
         /\ Once(Without(r))
         /\ Range(Without(r)) = InLine \ {r}
  <1>1. waiting \in Seq(Request) /\ DOMAIN waiting = 1 .. Len(waiting)
    BY LenProperties DEF TypeOK
  <1>2. Place(r) \in 1 .. Len(waiting) /\ waiting[Place(r)] = r
    BY <1>1 DEF LineIsWaiters, Range, Place
  <1>3. Without(r) = RemoveAt(waiting, Place(r))
    BY DEF Without
  <1>4. Without(r) \in Seq(Request) /\ Drops(waiting, Place(r), Without(r))
    BY <1>1, <1>2, <1>3, RemoveAtProperties
  <1>5. Once(waiting) /\ Range(waiting) = InLine
    BY DEF LineIsWaiters
  <1>6. Once(Without(r)) /\ Range(Without(r)) = Range(waiting) \ {waiting[Place(r)]}
    BY <1>1, <1>2, <1>4, <1>5, DropPlace
  <1>7. Len(Without(r)) = Len(waiting) - 1
    BY <1>4 DEF Drops
  <1> QED BY <1>2, <1>4, <1>5, <1>6, <1>7

(* The line without its first.                                             *)
LEMMA TailProperties ==
  ASSUME TypeOK, LineIsWaiters, waiting # <<>>
  PROVE  /\ Head(waiting) = waiting[1] /\ Head(waiting) \in InLine
         /\ Tail(waiting) \in Seq(Request)
         /\ Len(Tail(waiting)) = Len(waiting) - 1
         /\ Once(Tail(waiting))
         /\ Range(Tail(waiting)) = InLine \ {Head(waiting)}
  <1>1. waiting \in Seq(Request) /\ DOMAIN waiting = 1 .. Len(waiting)
        /\ Len(waiting) \in Nat \ {0}
    BY LenProperties, EmptySeq DEF TypeOK
  <1>2. /\ Tail(waiting) \in Seq(Request) /\ Len(Tail(waiting)) = Len(waiting) - 1
        /\ \A j \in 1 .. Len(waiting) - 1 : Tail(waiting)[j] = waiting[j + 1]
    BY <1>1, HeadTailProperties
  <1>3. Head(waiting) = waiting[1] /\ 1 \in 1 .. Len(waiting)
    BY <1>1
  <1>4. Drops(waiting, 1, Tail(waiting))
    BY <1>1, <1>2 DEF Drops
  <1>5. Once(waiting) /\ Range(waiting) = InLine
    BY DEF LineIsWaiters
  <1>6. Once(Tail(waiting)) /\ Range(Tail(waiting)) = Range(waiting) \ {waiting[1]}
    <2> DEFINE t == Tail(waiting)
    <2>1. t \in Seq(Request) /\ Drops(waiting, 1, t)
      BY <1>2, <1>4
    <2> HIDE DEF t
    <2>2. Once(t) /\ Range(t) = Range(waiting) \ {waiting[1]}
      BY <1>1, <1>3, <1>5, <2>1, DropPlace
    <2> QED BY <2>2 DEF t
  <1>7. waiting[1] \in Range(waiting)
    BY <1>1, <1>3 DEF Range
  <1>8. Range(Tail(waiting)) = InLine \ {Head(waiting)} /\ Head(waiting) \in InLine
    BY ONLY <1>3, <1>5, <1>6, <1>7, Zenon
  <1> QED BY <1>2, <1>3, <1>6, <1>8

(* The line with a newcomer at its end.                                    *)
LEMMA AppendKeepsOnce ==
  ASSUME TypeOK, LineIsWaiters, NEW r \in Request \ InLine
  PROVE  /\ Append(waiting, r) \in Seq(Request)
         /\ Len(Append(waiting, r)) = Len(waiting) + 1
         /\ waiting # <<>> => Head(Append(waiting, r)) = Head(waiting)
         /\ Once(Append(waiting, r))
         /\ Range(Append(waiting, r)) = InLine \cup {r}
  <1> DEFINE t == Append(waiting, r)
             n == Len(waiting)
  <1>1. n \in Nat /\ DOMAIN waiting = 1 .. n /\ waiting \in Seq(Request)
    BY LenProperties DEF TypeOK
  <1>2. t \in Seq(Request) /\ Len(t) = n + 1 /\ t[n + 1] = r
        /\ \A i \in 1 .. n : t[i] = waiting[i]
    BY <1>1, AppendProperties
  <1>3. waiting # <<>> => Head(t) = Head(waiting)
    BY <1>1, HeadTailAppend
  <1> HIDE DEF t, n
  <1>4. DOMAIN t = 1 .. n + 1
    BY <1>2, LenProperties
  <1>5. \A i \in 1 .. n : t[i] \in InLine
    BY <1>1, <1>2 DEF LineIsWaiters, Range
  <1>6. \A i \in 1 .. n + 1 : i \in 1 .. n \/ i = n + 1
    BY <1>1
  <1>7. Once(t)
    <2> SUFFICES ASSUME NEW i \in 1 .. n + 1, NEW j \in 1 .. n + 1, t[i] = t[j]
                 PROVE  i = j
      BY <1>2 DEF Once
    <2>1. CASE i \in 1 .. n /\ j \in 1 .. n
      <3>1. waiting[i] = waiting[j]
        BY <1>2, <2>1
      <3> QED BY <2>1, <3>1 DEF LineIsWaiters, Once, n
    <2> QED BY <1>2, <1>5, <1>6, <2>1
  <1>8. Range(t) = InLine \cup {r}
    <2>1. \A x \in InLine : \E i \in 1 .. n : x = waiting[i]
      BY <1>1 DEF LineIsWaiters, Range
    <2>2. n + 1 \in 1 .. n + 1 /\ \A i \in 1 .. n : i \in 1 .. n + 1
      BY <1>1
    <2> QED BY <1>2, <1>4, <1>5, <1>6, <2>1, <2>2 DEF Range
  <1> QED BY <1>2, <1>3, <1>7, <1>8 DEF t, n

----------------------------------------------------------------------------
(* The invariant holds initially and every step keeps it.                  *)

LEMMA QueueInit == Init => QueueInv
  <1> SUFFICES ASSUME Init PROVE QueueInv OBVIOUS
  <1> USE QueueAssumption DEF Init
  <1>1. waiting \in Seq(Request) /\ Len(waiting) = 0 /\ DOMAIN waiting = {}
    BY EmptySeq, LenProperties
  <1>2. Running = {} /\ InLine = {}
    BY DEF Running, InLine
  <1>3. TypeOK
    BY <1>1 DEF TypeOK
  <1>4. RunningCounted
    BY <1>2, FS_EmptySet DEF RunningCounted
  <1>5. LineIsWaiters
    BY <1>1, <1>2 DEF LineIsWaiters, Once, Range
  <1> QED BY <1>1, <1>3, <1>4, <1>5 DEF QueueInv, LineIsShort, FirstIsWoken

(* admit grants at once.                                                   *)
LEMMA StartNowKeeps ==
  ASSUME QueueInv, NEW r \in Request, StartNow(r)
  PROVE  QueueInv'
  <1> USE QueueAssumption DEF QueueInv, StartNow, CanStartNow
  <1>1. running \in Nat /\ r \notin Running /\ r \notin InLine
    BY DEF TypeOK, Running, InLine
  <1>2. Running' = Running \cup {r} /\ InLine' = InLine
    BY DEF TypeOK, Running, InLine
  <1>3. TypeOK'
    BY DEF TypeOK
  <1>4. RunningCounted'
    BY <1>1, <1>2, CountAdd DEF RunningCounted, Running
  <1>5. LineIsWaiters' /\ LineIsShort'
    BY <1>2 DEF LineIsWaiters, LineIsShort, Once
  <1>6. FirstIsWoken'
    BY <1>1 DEF FirstIsWoken
  <1> QED BY <1>3, <1>4, <1>5, <1>6

(* A newcomer that cannot start joins the line; if it is the first, all    *)
(* slots are taken.                                                        *)
LEMMA EnqueueKeeps ==
  ASSUME QueueInv, NEW r \in Request, Enqueue(r)
  PROVE  QueueInv'
  <1> USE QueueAssumption DEF QueueInv, Enqueue
  <1>1. r \notin Running /\ r \notin InLine
    BY DEF TypeOK, Running, InLine
  <1>2. Running' = Running /\ InLine' = InLine \cup {r}
    BY DEF TypeOK, Running, InLine
  <1>3. /\ waiting' \in Seq(Request) /\ Len(waiting') = Len(waiting) + 1
        /\ waiting # <<>> => Head(waiting') = Head(waiting)
        /\ Once(waiting') /\ Range(waiting') = InLine \cup {r}
    BY <1>1, AppendKeepsOnce
  <1>4. TypeOK'
    BY <1>3 DEF TypeOK
  <1>5. RunningCounted'
    BY <1>2 DEF RunningCounted
  <1>6. LineIsWaiters'
    BY <1>2, <1>3 DEF LineIsWaiters
  <1>7. LineIsShort'
    <2>1. Len(waiting) \in Nat
      BY LenProperties DEF TypeOK
    <2> QED BY <1>3, <2>1 DEF LineIsShort
  <1>8. FirstIsWoken'
    <2>1. CASE waiting = <<>>
      BY <2>1 DEF CanStartNow, FirstIsWoken, TypeOK
    <2>2. CASE waiting # <<>>
      <3>1. Head(waiting) \in InLine
        BY <2>2, TailProperties
      <3>2. pc'[Head(waiting)] = pc[Head(waiting)]
        BY <1>1, <3>1 DEF TypeOK, InLine
      <3>3. \A x \in Request : pc[x] \in DOMAIN After => pc'[x] = pc[x]
        BY DEF TypeOK, After
      <3> QED BY <1>3, <2>2, <3>2, <3>3 DEF FirstIsWoken
    <2> QED BY <2>1, <2>2
  <1> QED BY <1>4, <1>5, <1>6, <1>7, <1>8

(* A refusal at arrival changes nothing but the requester.                 *)
LEMMA RefuseFullKeeps ==
  ASSUME QueueInv, NEW r \in Request, RefuseFull(r)
  PROVE  QueueInv'
  <1> USE QueueAssumption DEF QueueInv, RefuseFull
  <1>1. Running' = Running /\ InLine' = InLine /\ r \notin InLine
    BY DEF TypeOK, Running, InLine
  <1>2. TypeOK'
    BY DEF TypeOK, Refusals
  <1>3. RunningCounted' /\ LineIsWaiters' /\ LineIsShort'
    BY <1>1 DEF RunningCounted, LineIsWaiters, LineIsShort, Once
  <1>4. FirstIsWoken'
    <2>1. ASSUME waiting # <<>> PROVE pc'[Head(waiting)] = pc[Head(waiting)]
      BY <1>1, <2>1, TailProperties DEF TypeOK, InLine
    <2>2. \A x \in Request : pc[x] \in DOMAIN After => pc'[x] = pc[x]
      BY DEF TypeOK, After
    <2> QED BY <2>1, <2>2 DEF FirstIsWoken
  <1> QED BY <1>2, <1>3, <1>4

(* Waking moves a thread within the line, and off the condition variable.  *)
LEMMA WakeKeeps ==
  ASSUME QueueInv, NEW r \in Request, Wake(r)
  PROVE  QueueInv'
  <1> USE QueueAssumption DEF QueueInv, Wake
  <1>1. Running' = Running /\ InLine' = InLine
    BY DEF TypeOK, Running, InLine
  <1>2. TypeOK'
    BY DEF TypeOK
  <1>3. RunningCounted' /\ LineIsWaiters' /\ LineIsShort'
    BY <1>1 DEF RunningCounted, LineIsWaiters, LineIsShort, Once
  <1>4. FirstIsWoken'
    <2>1. pc'[r] # "parked" /\ \A x \in Request \ {r} : pc'[x] = pc[x] /\ (x \in notified => x \in notified')
      BY DEF TypeOK
    <2>2. pc[r] \notin DOMAIN After
      BY DEF After
    <2>3. ASSUME waiting # <<>> PROVE Head(waiting) \in Request
      BY <2>3, TailProperties DEF InLine
    <2> QED BY <2>1, <2>2, <2>3 DEF FirstIsWoken
  <1> QED BY <1>2, <1>3, <1>4

(* The first takes a free slot.                                            *)
LEMMA TryStartKeeps ==
  ASSUME QueueInv, NEW r \in Request, TryStart(r)
  PROVE  QueueInv'
  <1> USE QueueAssumption DEF QueueInv, TryStart, CanStart, Return
  <1>1. running \in Nat /\ r \notin Running /\ r \in InLine
    BY DEF TypeOK, Running, InLine
  <1>2. Running' = Running \cup {r} /\ InLine' = InLine \ {r}
    BY DEF TypeOK, Running, InLine
  <1>3. /\ waiting' \in Seq(Request) /\ Len(waiting') = Len(waiting) - 1
        /\ Once(waiting') /\ Range(waiting') = InLine \ {r}
    BY TailProperties
  <1>4. TypeOK'
    BY <1>3 DEF TypeOK
  <1>5. RunningCounted'
    BY <1>1, <1>2, CountAdd DEF RunningCounted, Running
  <1>6. LineIsWaiters'
    BY <1>2, <1>3 DEF LineIsWaiters
  <1>7. LineIsShort'
    <2>1. Len(waiting) \in Nat
      BY LenProperties DEF TypeOK
    <2> QED BY <1>3, <2>1 DEF LineIsShort
  <1>8. FirstIsWoken'
    BY <1>1 DEF FirstIsWoken
  <1> QED BY <1>4, <1>5, <1>6, <1>7, <1>8

(* A thread that finds itself not first parks again; the first parks only  *)
(* when every slot is taken.                                               *)
LEMMA ParkKeeps ==
  ASSUME QueueInv, NEW r \in Request, Park(r)
  PROVE  QueueInv'
  <1> USE QueueAssumption DEF QueueInv, Park
  <1>1. Running' = Running /\ InLine' = InLine
    BY DEF TypeOK, Running, InLine
  <1>2. TypeOK'
    BY DEF TypeOK
  <1>3. RunningCounted' /\ LineIsWaiters' /\ LineIsShort'
    BY <1>1 DEF RunningCounted, LineIsWaiters, LineIsShort, Once
  <1>4. FirstIsWoken'
    <2> SUFFICES ASSUME running = 0, waiting # <<>>
                 PROVE  \/ pc'[Head(waiting)] # "parked"
                        \/ Head(waiting) \in notified
                        \/ \E x \in Request : pc'[x] \in DOMAIN After
      BY DEF FirstIsWoken
    <2>1. Head(waiting) # r
      BY DEF CanStart
    <2>2. Head(waiting) \in Request
      BY TailProperties DEF InLine
    <2>3. \A x \in Request : x # r => pc'[x] = pc[x]
      BY DEF TypeOK
    <2>4. pc[r] \notin DOMAIN After
      BY DEF After
    <2> QED BY <2>1, <2>2, <2>3, <2>4 DEF FirstIsWoken
  <1> QED BY <1>2, <1>3, <1>4

(* Scheduler::cancel takes a waiting request out of the line, whichever    *)
(* place it has, and a notification is due.                                *)
LEMMA CancelKeeps ==
  ASSUME QueueInv, NEW r \in InLine, NEW place \in DOMAIN After,
         waiting' = Without(r), Return(r, place), UNCHANGED <<running, notified>>
  PROVE  QueueInv'
  <1> USE QueueAssumption DEF QueueInv, Return
  <1>1. r \in Request /\ place \notin {"running", "parked", "back", "leaving"}
    BY DEF InLine, After
  <1>2. Running' = Running /\ InLine' = InLine \ {r}
    BY <1>1 DEF TypeOK, Running, InLine
  <1>3. /\ waiting' \in Seq(Request) /\ Len(waiting') = Len(waiting) - 1
        /\ Once(waiting') /\ Range(waiting') = InLine \ {r}
    BY WithoutProperties
  <1>4. TypeOK'
    BY <1>1, <1>3 DEF TypeOK
  <1>5. RunningCounted'
    BY <1>2 DEF RunningCounted
  <1>6. LineIsWaiters'
    BY <1>2, <1>3 DEF LineIsWaiters
  <1>7. LineIsShort'
    <2>1. Len(waiting) \in Nat
      BY LenProperties DEF TypeOK
    <2> QED BY <1>3, <2>1 DEF LineIsShort
  <1>8. FirstIsWoken'
    <2>1. pc'[r] = place
      BY <1>1 DEF TypeOK
    <2> QED BY <1>1, <2>1 DEF FirstIsWoken
  <1> QED BY <1>4, <1>5, <1>6, <1>7, <1>8

LEMMA ExpireKeeps ==
  ASSUME QueueInv, NEW r \in Request, Expire(r)
  PROVE  QueueInv'
  <1>1. r \in InLine /\ "notifying expired" \in DOMAIN After
    BY DEF Expire, InLine, After
  <1> QED BY <1>1, CancelKeeps DEF Expire

LEMMA LeaveKeeps ==
  ASSUME QueueInv, NEW r \in Request, Leave(r)
  PROVE  QueueInv'
  <1>1. r \in InLine /\ "notifying gone" \in DOMAIN After
    BY DEF Leave, InLine, After
  <1> QED BY <1>1, CancelKeeps DEF Leave

(* A dropped Admitted gives back exactly the slot it held.                 *)
LEMMA FinishKeeps ==
  ASSUME QueueInv, NEW r \in Request, Finish(r)
  PROVE  QueueInv'
  <1> USE QueueAssumption DEF QueueInv, Finish
  <1>1. r \in Running
    BY DEF Running
  <1>2. Running' = Running \ {r} /\ InLine' = InLine
    BY DEF TypeOK, Running, InLine
  <1>3. Cardinality(Running') = running - 1 /\ Cardinality(Running') \in Nat
    BY <1>1, <1>2, CountRemove, CountType DEF RunningCounted, Running
  <1>4. TypeOK'
    <2>1. running' \in 0 .. MaxRunning
      <3>1. running \in 0 .. MaxRunning /\ running' = running - 1 /\ MaxRunning \in Nat
        BY DEF TypeOK
      <3>2. running - 1 \in Nat
        BY ONLY <1>3
      <3> QED BY ONLY <3>1, <3>2
    <2>2. "notifying done" \in DOMAIN After
      BY DEF After
    <2> QED BY <2>1, <2>2 DEF TypeOK
  <1>5. RunningCounted'
    BY <1>3 DEF RunningCounted
  <1>6. LineIsWaiters' /\ LineIsShort'
    BY <1>2 DEF LineIsWaiters, LineIsShort, Once
  <1>7. FirstIsWoken'
    <2>1. pc'[r] \in DOMAIN After
      BY DEF TypeOK, After
    <2> QED BY <2>1 DEF FirstIsWoken
  <1> QED BY <1>4, <1>5, <1>6, <1>7

(* notify_all reaches every parked thread.                                 *)
LEMMA NotifyAllKeeps ==
  ASSUME QueueInv, NEW r \in Request, NotifyAll(r)
  PROVE  QueueInv'
  <1> USE QueueAssumption DEF QueueInv, NotifyAll
  <1>1. After[pc[r]] \in {"expired", "gone", "done"}
    BY DEF After
  <1>2. Running' = Running /\ InLine' = InLine
    BY <1>1 DEF TypeOK, Running, InLine, After
  <1>3. TypeOK'
    BY <1>1 DEF TypeOK, Parked, Refusals
  <1>4. RunningCounted' /\ LineIsWaiters' /\ LineIsShort'
    BY <1>2 DEF RunningCounted, LineIsWaiters, LineIsShort, Once
  <1>5. FirstIsWoken'
    <2> SUFFICES ASSUME waiting # <<>>, pc'[Head(waiting)] = "parked"
                 PROVE  Head(waiting) \in Parked
      BY DEF FirstIsWoken
    <2>1. Head(waiting) \in Request
      BY TailProperties DEF InLine
    <2>2. Head(waiting) # r
      <3>1. pc'[r] = After[pc[r]]
        BY DEF TypeOK
      <3> QED BY <1>1, <3>1
    <2>3. pc'[Head(waiting)] = pc[Head(waiting)]
      BY <2>1, <2>2 DEF TypeOK
    <2> QED BY <2>1, <2>3 DEF Parked
  <1> QED BY <1>3, <1>4, <1>5

(* Time and clients touch neither line nor slots.                          *)
LEMMA OutsideKeeps ==
  ASSUME QueueInv, NEW r \in Request, Deadline(r) \/ Disconnect(r)
  PROVE  QueueInv'
  <1> USE QueueAssumption DEF QueueInv, Deadline, Disconnect
  <1>1. TypeOK'
    BY DEF TypeOK
  <1>2. Running' = Running /\ InLine' = InLine
    BY DEF Running, InLine
  <1>3. RunningCounted' /\ LineIsWaiters' /\ LineIsShort' /\ FirstIsWoken'
    BY <1>2 DEF RunningCounted, LineIsWaiters, LineIsShort, Once, FirstIsWoken
  <1> QED BY <1>1, <1>3

LEMMA QueueStep == QueueInv /\ [Next]_vars => QueueInv'
  <1> SUFFICES ASSUME QueueInv, [Next]_vars PROVE QueueInv' OBVIOUS
  <1>1. ASSUME NEW r \in Request, Arrive(r) PROVE QueueInv'
    BY <1>1, StartNowKeeps, EnqueueKeeps, RefuseFullKeeps DEF Arrive
  <1>2. ASSUME NEW r \in Request, Back(r) PROVE QueueInv'
    BY <1>2, TryStartKeeps, ParkKeeps, ExpireKeeps, LeaveKeeps DEF Back
  <1>3. ASSUME NEW r \in Request, Wake(r) \/ Finish(r) \/ NotifyAll(r) PROVE QueueInv'
    BY <1>3, WakeKeeps, FinishKeeps, NotifyAllKeeps
  <1>4. ASSUME NEW r \in Request, Deadline(r) \/ Disconnect(r) PROVE QueueInv'
    BY <1>4, OutsideKeeps
  <1>5. CASE UNCHANGED vars
    <2>1. Running' = Running /\ InLine' = InLine
      BY <1>5 DEF vars, Running, InLine
    <2> QED BY <1>5, <2>1 DEF vars, QueueInv, TypeOK, RunningCounted, LineIsWaiters,
                              LineIsShort, Once, FirstIsWoken
  <1> QED BY <1>1, <1>2, <1>3, <1>4, <1>5 DEF Next

THEOREM QueueInvariant == Spec => []QueueInv
  BY QueueInit, QueueStep, PTL DEF Spec

----------------------------------------------------------------------------
(* The properties.                                                         *)

(***************************************************************************)
(* The count of running requests is the number of those that hold an       *)
(* Admitted, each waiting thread is in the line once and nobody else is,   *)
(* the line is no longer than its depth, and while nothing runs its head   *)
(* has been woken or is about to be (Scheduler and ModelQueue::admit).     *)
(***************************************************************************)
THEOREM LineSound == Spec => []LineIsSound
  <1>1. QueueInv => LineIsSound
    <2> SUFFICES ASSUME QueueInv PROVE SlotsExact
      BY DEF QueueInv, LineIsSound
    <2>1. Len(waiting) = Cardinality(Range(waiting))
      BY OnceCounts DEF QueueInv, TypeOK, LineIsWaiters
    <2> QED BY <2>1 DEF QueueInv, SlotsExact, RunningCounted, LineIsWaiters, LineIsShort,
                        Running, InLine
  <1> QED BY <1>1, QueueInvariant, PTL

(***************************************************************************)
(* First come, first served: whoever starts leaves nobody waiting that was *)
(* in line before it (Scheduler::start_now and Scheduler::try_start).      *)
(***************************************************************************)
THEOREM FirstComeFirstServed == Spec => NoOvertaking
  <1> DEFINE Ahead(r, s) == \E i, j \in DOMAIN waiting : i < j /\ waiting[i] = r /\ waiting[j] = s
             InOrder ==
               \A r, s \in Request :
                 (pc[r] # "running" /\ pc'[r] = "running" /\ s \in Range(waiting) \ {r}) => Ahead(r, s)
  <1>1. QueueInv /\ [Next]_vars => [InOrder]_vars
    <2> SUFFICES ASSUME QueueInv, Next, NEW r \in Request, NEW s \in Range(waiting) \ {r},
                        pc[r] # "running", pc'[r] = "running"
                 PROVE  Ahead(r, s)
      OBVIOUS
    <2> USE DEF QueueInv
    <2>1. StartNow(r) \/ TryStart(r)
      <3>1. PICK q \in Request : Arrive(q) \/ Wake(q) \/ Back(q) \/ Finish(q) \/ NotifyAll(q)
                                   \/ Deadline(q) \/ Disconnect(q)
        BY DEF Next
      <3>2. q = r
        BY <3>1 DEF TypeOK, Arrive, StartNow, Enqueue, RefuseFull, Wake, Back, TryStart, Park,
                    Expire, Leave, Return, Finish, NotifyAll, Deadline, Disconnect
      <3>3. ~(Enqueue(r) \/ RefuseFull(r) \/ Wake(r) \/ Park(r) \/ Expire(r) \/ Leave(r))
        BY DEF TypeOK, Enqueue, RefuseFull, Wake, Park, Expire, Leave, Return
      <3>4. ~(Finish(r) \/ NotifyAll(r) \/ Deadline(r) \/ Disconnect(r))
        BY DEF TypeOK, Finish, NotifyAll, After, Deadline, Disconnect
      <3> QED BY <3>1, <3>2, <3>3, <3>4 DEF Arrive, Back
    <2>2. waiting # <<>>
      BY EmptySeq, LenProperties DEF Range
    <2>3. CanStart(r)
      BY <2>1, <2>2 DEF StartNow, CanStartNow, TryStart
    <2>4. DOMAIN waiting = 1 .. Len(waiting) /\ Len(waiting) \in Nat \ {0}
      BY <2>2, EmptySeq, LenProperties DEF TypeOK
    <2>5. 1 \in DOMAIN waiting /\ waiting[1] = r
      BY <2>2, <2>3, <2>4, TailProperties DEF CanStart
    <2>6. PICK j \in DOMAIN waiting : waiting[j] = s
      BY DEF Range
    <2>7. 1 < j
      BY <2>4, <2>5, <2>6
    <2> QED BY <2>5, <2>6, <2>7
  <1>2. [][InOrder]_vars => NoOvertaking
    BY PTL DEF NoOvertaking
  <1> QED BY <1>1, <1>2, QueueInvariant, PTL DEF Spec

(***************************************************************************)
(* The queue implements the permits the front's forward threads rely on:   *)
(* an Admitted is handed to at most max_running requests at a time, and to *)
(* a request at most once.                                                 *)
(***************************************************************************)
THEOREM QueueImplementsPermits == Spec => ImplementsPermits
  <1> DEFINE view == [r \in Request |->
                 CASE pc[r] \in {"start", "parked", "back", "leaving"} -> "asking"
                   [] pc[r] = "running" -> "held"
                   [] pc[r] \in {"notifying done", "done"} -> "returned"
                   [] OTHER -> "refused"]
  <1>1. Init => Permits!PermitInit
    BY DEF Init, Permits!PermitInit
  <1>2. QueueInv /\ [Next]_vars => [Permits!PermitNext]_view
    <2> SUFFICES ASSUME QueueInv, [Next]_vars
                 PROVE  Permits!PermitNext \/ UNCHANGED view
      OBVIOUS
    <2> USE DEF QueueInv, TypeOK
    <2>1. ASSUME NEW r \in Request, StartNow(r) \/ TryStart(r)
          PROVE  Permits!Grant(r)
      <3>1. view[r] = "asking" /\ view' = [view EXCEPT ![r] = "held"]
        BY <2>1 DEF StartNow, TryStart, Return
      <3>2. Permits!Holders(1) = Running
        BY DEF Permits!Holders, Running
      <3>3. running < MaxRunning
        BY <2>1 DEF StartNow, CanStartNow, TryStart, CanStart
      <3>4. Permits!Cardinality(Running) = Cardinality(Running)
        BY DEF Permits!Cardinality, Cardinality
      <3> QED BY <3>1, <3>2, <3>3, <3>4 DEF Permits!Grant, RunningCounted
    <2>2. ASSUME NEW r \in Request, RefuseFull(r) \/ Expire(r) \/ Leave(r)
          PROVE  Permits!Refuse(r)
      BY <2>2 DEF RefuseFull, Expire, Leave, Return, Permits!Refuse
    <2>3. ASSUME NEW r \in Request, Finish(r)
          PROVE  Permits!GiveBack(r)
      BY <2>3 DEF Finish, Permits!GiveBack
    <2>4. ASSUME NEW r \in Request, Enqueue(r) \/ Wake(r) \/ Park(r)
          PROVE  UNCHANGED view
      BY <2>4 DEF Enqueue, Wake, Park
    <2>5. ASSUME NEW r \in Request, NotifyAll(r)
          PROVE  UNCHANGED view
      BY <2>5 DEF NotifyAll, After
    <2>6. ASSUME NEW r \in Request, Deadline(r) \/ Disconnect(r)
          PROVE  UNCHANGED view
      BY <2>6 DEF Deadline, Disconnect
    <2>7. CASE UNCHANGED vars
      BY <2>7 DEF vars
    <2> QED BY <2>1, <2>2, <2>3, <2>4, <2>5, <2>6, <2>7
            DEF Next, Arrive, Back, Permits!PermitNext
  <1> QED BY <1>1, <1>2, QueueInvariant, PTL DEF Spec, ImplementsPermits, Permits!PermitSpec

=============================================================================
