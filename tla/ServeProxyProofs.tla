-------------------------- MODULE ServeProxyProofs --------------------------
(***************************************************************************)
(* The safety properties of ServeProxy, for every registry, budget, set of *)
(* requests and bound on the starts, whatever may die, stall or fail.      *)
(***************************************************************************)
EXTENDS ServeProxy, CollectionTheorems

(* Places in which a request holds a permit, and those of them in which it *)
(* has the address of a process.                                           *)
Connected == {"connecting", "relaying", "cancelling gone", "cancelling failed"}
Inside == {"acquiring", "locking", "clearing", "starting"} \cup Connected

Running == {m \in Model : child[m] # 0}
Counted == {r \in Request : pc[r] # "start" /\ pc[r] # "done"}
CountedOf(m) == {r \in Counted : Wants[r] = m}
HasFault(m) == \E n \in 1 .. MaxStarts : <<m, n>> \in faulty

(***************************************************************************)
(* The inductive invariant, in the order in which its parts are proved.    *)
(***************************************************************************)
ThreadsTyped ==
  /\ pc \in [Request -> Places] /\ answer \in [Request -> Answers \cup {None}]
  /\ permit \in [Request -> Permits!PermitStates]

ProcessesTyped ==
  /\ child \in [Model -> 0 .. MaxStarts] /\ starts \in [Model -> 0 .. MaxStarts]
  /\ \A m \in Model : child[m] <= starts[m]
  /\ alive \subseteq Running
  /\ faulty \subseteq Model \X (1 .. MaxStarts)

RoomTyped ==
  /\ residency \in Request \cup {None}
  /\ todo \in Seq(Model) /\ Range(todo) \subseteq Model \ Resident

ConnectionsTyped ==
  /\ address \in [Request -> 0 .. MaxStarts]
  /\ inChild \in [Request -> {"none", "backlog", "working", "released", "busy", "closed"}]
  /\ occupied \in [Model -> SUBSET Request]

Typed ==
  /\ ThreadsTyped /\ ProcessesTyped /\ RoomTyped /\ ConnectionsTyped
  /\ inFlight \in [Model -> Int]

Recency == recent \in Seq(Model) /\ Range(recent) = Model /\ Once(recent)

Counts ==
  /\ routed = Cardinality(Counted)
  /\ \A m \in Model : inFlight[m] = Cardinality(CountedOf(m))

\* Whoever has left the queue holds a permit, and there are never too many.
PermitsHeld ==
  /\ \A m \in Model : Cardinality(Permits!Holders(m)) <= Limit[m]
  /\ \A r \in Request : pc[r] \in Inside => permit[r] = "held"

\* One thread makes room or starts a child, and nobody else starts that one.
OneStarts ==
  \A r \in Request : pc[r] \in {"clearing", "starting"} => residency = r /\ child[Wants[r]] = 0

\* Once the victims are stopped there is room, and it is not taken meanwhile.
RoomIsMade ==
  /\ MemoryOf(Running) <= Budget
  /\ \A r \in Request : pc[r] = "clearing" =>
       MemoryOf(Running \ Range(todo)) + Memory[Wants[r]] <= Budget
  /\ \A r \in Request : pc[r] = "starting" => MemoryOf(Running) + Memory[Wants[r]] <= Budget

\* A process that is starting has a number nobody has seen yet, and one that
\* turned a request away is not listed any more.
Addresses ==
  /\ \A r \in Request : address[r] <= starts[Wants[r]]
  /\ \A r \in Request : pc[r] \in Connected \/ inChild[r] # "none" => address[r] # 0
  /\ \A q, r \in Request : pc[q] = "starting" /\ Wants[r] = Wants[q] => address[r] < starts[Wants[q]]
  /\ \A r \in Request : answer[r] = "unavailable" =>
       pc[r] \in {"leaving", "done"} /\ address[r] # 0 /\ address[r] # child[Wants[r]]

\* A process that is gone under a request was faulty.
Faults ==
  /\ \A r \in Request : pc[r] \in Connected /\ Broken(r) => HasFault(Wants[r])
  /\ \A m \in Model : child[m] # 0 /\ m \notin alive => HasFault(m)
  /\ \A r \in Request : pc[r] = "cancelling failed" \/ answer[r] \in {"unavailable", "failed"}
                           => HasFault(Wants[r])

\* A child works for requests whose threads still hold their permits.
Admissions ==
  /\ \A m \in Model : \A r \in occupied[m] :
       Wants[r] = m /\ inChild[r] = "working" /\ ~Broken(r)
  /\ \A r \in Request : inChild[r] \notin {"none", "closed"} /\ ~Broken(r)
                           => pc[r] \in Connected \ {"connecting"}
  /\ \A r \in Request : inChild[r] # "none"
                           => pc[r] \in (Connected \ {"connecting"}) \cup {"leaving", "done"}

Core == Typed /\ Recency /\ Counts /\ PermitsHeld /\ OneStarts
ProxyInv == Core /\ RoomIsMade /\ Addresses /\ Faults /\ Admissions

----------------------------------------------------------------------------
(* Which steps change what.                                                *)

(* Only Acquire reorders the models by use.                                *)
LEMMA RecentChanges ==
  ASSUME ProxyNext
  PROVE  recent' = recent \/ \E m \in Model : recent' = Touched(m)
  <1>1. ASSUME NEW r \in Request, Acquire(r)
        PROVE  \E m \in Model : recent' = Touched(m)
    BY <1>1, ProxyAssumption DEF Acquire
  <1> QED
    BY <1>1 DEF ProxyNext, Thread, Queue, Residency, MakeRoom, Forward, Child, poolVars,
         Route, RouteFull, Admit, RefuseQueued, Recheck, LockResidency, NoRoom, StopVictim,
         VictimBecameBusy, StartChild, Started, StartFails, Connect, ConnectFails, Relayed,
         ClientLeaves, RelayFails, Cancelled, CancelFails, GiveBackPermit, Leave,
         ChildAccepts, ChildReleases, ChildCloses, ChildDies

(* Only Route and Leave change who is counted.                             *)
LEMMA CountChanges ==
  ASSUME ProxyInv, ProxyNext
  PROVE  \/ countVars' = countVars /\ Counted' = Counted
         \/ \E r \in Request : Route(r) \/ Leave(r)
  <1> SUFFICES ASSUME \A r \in Request : ~Route(r) /\ ~Leave(r)
               PROVE  countVars' = countVars /\ Counted' = Counted
    OBVIOUS
  <1>1. countVars' = countVars
    BY DEF ProxyNext, Thread, Queue, Residency, MakeRoom, Forward, Child, countVars,
         RouteFull, Admit, RefuseQueued, Acquire, Recheck, LockResidency, NoRoom, StopVictim,
         VictimBecameBusy, StartChild, Started, StartFails, Connect, ConnectFails, Relayed,
         ClientLeaves, RelayFails, Cancelled, CancelFails, GiveBackPermit,
         ChildAccepts, ChildReleases, ChildCloses, ChildDies
  <1>2. \A q \in Request : pc'[q] \in {"start", "done"} <=> pc[q] \in {"start", "done"}
    <2> USE DEF ProxyInv, Core, Typed, ThreadsTyped, Go, Answer
    <2>1. ASSUME NEW r \in Request, RouteFull(r) \/ Queue(r)
          PROVE  \A q \in Request : pc'[q] \in {"start", "done"} <=> pc[q] \in {"start", "done"}
      BY <2>1 DEF RouteFull, Queue, Admit, RefuseQueued
    <2>2. ASSUME NEW r \in Request, Acquire(r) \/ Residency(r)
          PROVE  \A q \in Request : pc'[q] \in {"start", "done"} <=> pc[q] \in {"start", "done"}
      BY <2>2 DEF Acquire, Residency, Recheck, LockResidency, NoRoom, MakeRoom, StopVictim,
           VictimBecameBusy, StartChild, Started, StartFails, threadVars
    <2>3. ASSUME NEW r \in Request, Forward(r) \/ ClientLeaves(r)
          PROVE  \A q \in Request : pc'[q] \in {"start", "done"} <=> pc[q] \in {"start", "done"}
      BY <2>3 DEF Forward, ClientLeaves, Connect, ConnectFails, Relayed, RelayFails, Cancelled,
           CancelFails, Cancelling
    <2>4. ASSUME NEW r \in Request, GiveBackPermit(r) \/ Child(r)
          PROVE  pc' = pc
      BY <2>4 DEF GiveBackPermit, Child, ChildAccepts, ChildReleases, ChildCloses, threadVars
    <2>5. ASSUME NEW m \in Model, ChildDies(m)
          PROVE  pc' = pc
      BY <2>5 DEF ChildDies, threadVars
    <2> QED BY <2>1, <2>2, <2>3, <2>4, <2>5 DEF ProxyNext, Thread
  <1>3. Counted' = Counted
    BY <1>2 DEF Counted
  <1> QED BY <1>1, <1>3

(* The counts are those of the requests between routing and end.           *)
LEMMA CountsStep ==
  ASSUME ProxyInv, ProxyNext
  PROVE  Counts' /\ routed' \in Int /\ inFlight' \in [Model -> Int]
  <1> USE DEF ProxyInv, Core, Typed, ThreadsTyped, Counts
  <1>1. IsFiniteSet(Counted) /\ \A m \in Model : CountedOf(m) \in SUBSET Counted
    BY FS_Subset, ProxyAssumption DEF Counted, CountedOf
  <1>2. /\ Cardinality(Counted) \in Nat
        /\ \A m \in Model : IsFiniteSet(CountedOf(m)) /\ Cardinality(CountedOf(m)) \in Nat
    BY <1>1, FS_Subset, FS_CardinalityType
  <1>3. CASE countVars' = countVars /\ Counted' = Counted
    <2>1. \A m \in Model : CountedOf(m)' = CountedOf(m)
      BY <1>3 DEF CountedOf
    <2> QED BY <1>2, <1>3, <2>1 DEF countVars
  <1>4. ASSUME NEW r \in Request, Route(r)
        PROVE  Counts' /\ routed' \in Int /\ inFlight' \in [Model -> Int]
    <2>1. Counted' = Counted \cup {r} /\ r \notin Counted
      BY <1>4 DEF Counted, Route, Go
    <2>2. Cardinality(Counted') = Cardinality(Counted) + 1
      BY <1>1, <2>1, FS_AddElement
    <2>3. \A m \in Model \ {Wants[r]} : CountedOf(m)' = CountedOf(m)
      BY <2>1 DEF CountedOf
    <2>4. CountedOf(Wants[r])' = CountedOf(Wants[r]) \cup {r} /\ r \notin CountedOf(Wants[r])
      BY <2>1 DEF CountedOf
    <2>5. Wants[r] \in Model /\ IsFiniteSet(CountedOf(Wants[r]))
      BY <1>2, ProxyAssumption
    <2>6. Cardinality(CountedOf(Wants[r])') = Cardinality(CountedOf(Wants[r])) + 1
      BY <2>4, <2>5, FS_AddElement
    <2>7. routed' = routed + 1 /\ inFlight' = [inFlight EXCEPT ![Wants[r]] = @ + 1]
      BY <1>4 DEF Route
    <2>8. ASSUME NEW m \in Model PROVE inFlight'[m] = Cardinality(CountedOf(m)')
      <3>1. CASE m = Wants[r]
        BY <2>5, <2>6, <2>7, <3>1
      <3>2. CASE m # Wants[r]
        <4>1. CountedOf(m)' = CountedOf(m)
          BY <2>3, <3>2
        <4> QED BY <2>7, <3>2, <4>1
      <3> QED BY <3>1, <3>2
    <2>9. routed' \in Int /\ inFlight' \in [Model -> Int]
      BY <1>2, <2>5, <2>7
    <2> QED BY <1>2, <2>2, <2>7, <2>8, <2>9
  <1>5. ASSUME NEW r \in Request, Leave(r)
        PROVE  Counts' /\ routed' \in Int /\ inFlight' \in [Model -> Int]
    <2>1. Counted' = Counted \ {r} /\ r \in Counted
      BY <1>5 DEF Counted, Leave, Go
    <2>2. Cardinality(Counted') = Cardinality(Counted) - 1
      BY <1>1, <2>1, FS_RemoveElement
    <2>3. \A m \in Model \ {Wants[r]} : CountedOf(m)' = CountedOf(m)
      BY <2>1 DEF CountedOf
    <2>4. CountedOf(Wants[r])' = CountedOf(Wants[r]) \ {r} /\ r \in CountedOf(Wants[r])
      BY <2>1 DEF CountedOf
    <2>5. Wants[r] \in Model /\ IsFiniteSet(CountedOf(Wants[r]))
      BY <1>2, ProxyAssumption
    <2>6. Cardinality(CountedOf(Wants[r])') = Cardinality(CountedOf(Wants[r])) - 1
      <3> DEFINE mine == CountedOf(Wants[r])
      <3> HIDE DEF mine
      <3>1. Cardinality(mine \ {r}) = Cardinality(mine) - 1
        BY <2>4, <2>5, FS_RemoveElement DEF mine
      <3> QED BY <2>4, <3>1 DEF mine
    <2>7. routed' = routed - 1 /\ inFlight' = [inFlight EXCEPT ![Wants[r]] = @ - 1]
      BY <1>5 DEF Leave
    <2>8. ASSUME NEW m \in Model PROVE inFlight'[m] = Cardinality(CountedOf(m)')
      <3>1. CASE m = Wants[r]
        BY <2>5, <2>6, <2>7, <3>1
      <3>2. CASE m # Wants[r]
        <4>1. CountedOf(m)' = CountedOf(m)
          BY <2>3, <3>2
        <4> QED BY <2>7, <3>2, <4>1
      <3> QED BY <3>1, <3>2
    <2>9. routed' \in Int /\ inFlight' \in [Model -> Int]
      BY <1>2, <2>5, <2>7
    <2> QED BY <1>2, <2>2, <2>7, <2>8, <2>9
  <1> QED BY <1>3, <1>4, <1>5, CountChanges

(* A request that is counted keeps its model's count from being zero.      *)
LEMMA CountedIsBusy ==
  ASSUME ProxyInv, NEW r \in Counted
  PROVE  inFlight[Wants[r]] # 0
  <1>1. Wants[r] \in Model /\ IsFiniteSet(Counted) /\ CountedOf(Wants[r]) \in SUBSET Counted
    BY FS_Subset, ProxyAssumption DEF Counted, CountedOf
  <1>2. IsFiniteSet(CountedOf(Wants[r])) /\ r \in CountedOf(Wants[r])
    BY <1>1, FS_Subset DEF CountedOf
  <1>3. Cardinality(CountedOf(Wants[r])) # 0
    BY <1>2, FS_EmptySet
  <1> QED BY <1>1, <1>3 DEF ProxyInv, Core, Counts

(* The order of use names every model once.                                *)
LEMMA RecencyStep ==
  ASSUME ProxyInv, ProxyNext
  PROVE  Recency'
  <1> USE DEF ProxyInv, Core, Recency
  <1>1. ASSUME NEW m \in Model
        PROVE  Touched(m) \in Seq(Model) /\ Range(Touched(m)) = Model /\ Once(Touched(m))
    <2> DEFINE rest == Keep(recent, Model \ {m})
    <2>1. rest \in Seq(Model) /\ Range(rest) = Model \ {m} /\ Once(rest)
      BY KeepProperties
    <2>2. Touched(m) = Append(rest, m)
      BY DEF Touched
    <2> HIDE DEF rest
    <2>3. /\ Len(rest) \in Nat /\ Touched(m) \in Seq(Model) /\ Len(Touched(m)) = Len(rest) + 1
          /\ \A i \in 1 .. Len(rest) : Touched(m)[i] = rest[i]
          /\ Touched(m)[Len(rest) + 1] = m
          /\ DOMAIN Touched(m) = 1 .. Len(rest) + 1
      BY <2>1, <2>2, AppendProperties, LenProperties
    <2>4. \A i \in 1 .. Len(rest) : rest[i] \in Range(rest) /\ rest[i] # m
      BY <2>1, LenProperties DEF Range
    <2>5. Once(Touched(m))
      BY <2>1, <2>3, <2>4 DEF Once
    <2>6. Range(Touched(m)) = Model
      <3>1. ASSUME NEW n \in Model \ {m} PROVE n \in Range(Touched(m))
        <4>1. PICK i \in 1 .. Len(rest) : rest[i] = n
          BY <2>1, LenProperties DEF Range
        <4>2. i \in 1 .. Len(rest) + 1
          BY <2>3
        <4> QED BY <2>3, <4>1, <4>2 DEF Range
      <3>2. m \in Range(Touched(m))
        <4>1. Len(rest) + 1 \in DOMAIN Touched(m)
          BY <2>3
        <4> QED BY <2>3, <4>1 DEF Range
      <3>3. Range(Touched(m)) \subseteq Model
        BY <2>3, ElementOfSeq DEF Range
      <3> QED BY <3>1, <3>2, <3>3
    <2> QED BY <2>3, <2>5, <2>6
  <1>2. CASE recent' = recent
    BY <1>2
  <1>3. CASE \E m \in Model : recent' = Touched(m)
    BY <1>1, <1>3
  <1> QED BY <1>2, <1>3, RecentChanges

----------------------------------------------------------------------------
(* Making room.                                                            *)

(* The first of a line that is not empty, and the others.                  *)
LEMMA HeadAndTail ==
  ASSUME NEW S, NEW s \in Seq(S), s # <<>>
  PROVE  /\ Head(s) \in S /\ Tail(s) \in Seq(S)
         /\ Range(s) = Range(Tail(s)) \cup {Head(s)}
  <1>1. /\ Len(s) \in Nat \ {0} /\ DOMAIN s = 1 .. Len(s) /\ \A i \in 1 .. Len(s) : s[i] \in S
        /\ Head(s) = s[1] /\ Tail(s) \in Seq(S) /\ Len(Tail(s)) = Len(s) - 1
        /\ DOMAIN Tail(s) = 1 .. Len(s) - 1
        /\ \A i \in 1 .. Len(s) - 1 : Tail(s)[i] = s[i + 1]
    BY HeadTailProperties, LenProperties, ElementOfSeq, EmptySeq
  <1>2. ASSUME NEW x \in Range(s) PROVE x \in Range(Tail(s)) \cup {Head(s)}
    <2>1. PICK i \in 1 .. Len(s) : x = s[i]
      BY <1>1 DEF Range
    <2>2. CASE i = 1
      BY <1>1, <2>1, <2>2
    <2>3. CASE i # 1
      <3>1. i - 1 \in 1 .. Len(s) - 1 /\ (i - 1) + 1 = i
        BY <1>1, <2>1, <2>3
      <3>2. Tail(s)[i - 1] = x
        BY <1>1, <2>1, <3>1
      <3> QED BY <1>1, <3>1, <3>2 DEF Range
    <2> QED BY <2>2, <2>3
  <1>3. Head(s) \in Range(s)
    BY <1>1 DEF Range
  <1>4. ASSUME NEW x \in Range(Tail(s)) PROVE x \in Range(s)
    <2>1. PICK i \in 1 .. Len(s) - 1 : x = Tail(s)[i]
      BY <1>1 DEF Range
    <2>2. i + 1 \in 1 .. Len(s)
      BY <1>1, <2>1
    <2> QED BY <1>1, <2>1, <2>2 DEF Range
  <1> QED BY <1>1, <1>2, <1>3, <1>4

(* The victims can be stopped when they are chosen, and without them there *)
(* is room for the model that is to start.                                 *)
LEMMA VictimsMakeRoom ==
  ASSUME ProxyInv, NEW m \in Model, Enough(m) # {}
  PROVE  /\ Victims(m) \in Seq(Model)
         /\ \A n \in Range(Victims(m)) : n \in Model \ {m} /\ Evictable(n)
         /\ MemoryOf(Others(m)) - MemoryOf(Range(Victims(m))) + Memory[m] <= Budget
  <1> DEFINE left == {n \in Model \ {m} : Evictable(n)}
             line == Candidates(m)
  <1>1. line \in Seq(Model) /\ Range(line) = left
    <2>1. Keep(recent, left) \in Seq(Model) /\ Range(Keep(recent, left)) = Range(recent) \cap left
      <3> HIDE DEF left
      <3> QED BY KeepProperties DEF ProxyInv, Core, Recency
    <2> QED BY <2>1 DEF Candidates, ProxyInv, Core, Recency
  <1>2. Enough(m) \subseteq Nat
    BY <1>1, LenProperties DEF Enough
  <1>3. PICK n \in Enough(m) : n = Min(Enough(m))
    <2>1. \E n \in Enough(m) : \A k \in Enough(m) : n <= k
      BY <1>2, LeastNatural
    <2> QED BY <2>1 DEF Min
  <1>4. n \in 0 .. Len(line) /\ FitsWithout(m, n) /\ Victims(m) = SubSeq(line, 1, n)
    BY <1>3 DEF Enough, Victims
  <1> HIDE DEF line, left
  <1>5. Len(line) \in Nat /\ DOMAIN line = 1 .. Len(line) /\ \A i \in 1 .. Len(line) : line[i] \in Range(line)
    BY <1>1, LenProperties DEF Range
  <1>6. /\ Victims(m) \in Seq(Model)
        /\ DOMAIN Victims(m) = 1 .. n /\ \A i \in 1 .. n : Victims(m)[i] = line[i]
    <2>1. SubSeq(line, 1, n) \in Seq(Model)
      BY <1>1, <1>4, <1>5, SubSeqProperties
    <2>2. Len(SubSeq(line, 1, n)) = n /\ \A i \in 1 .. n : SubSeq(line, 1, n)[i] = line[i]
      BY <1>1, <1>4, <1>5, SubSeqProperties
    <2> QED BY <1>4, <2>1, <2>2, LenProperties
  <1>7. ASSUME NEW x \in Range(Victims(m)) PROVE x \in left
    <2>1. PICK i \in 1 .. n : x = Victims(m)[i]
      BY <1>6 DEF Range
    <2>2. i \in 1 .. Len(line)
      BY <1>4, <1>5, <2>1
    <2> QED BY <1>1, <1>5, <1>6, <2>1, <2>2
  <1>8. MemoryOf(Others(m)) - MemoryOf(Range(Victims(m))) + Memory[m] <= Budget
    BY <1>4 DEF FitsWithout, line
  <1> QED BY <1>6, <1>7, <1>8 DEF left


----------------------------------------------------------------------------
(* Each part is kept by every step.                                        *)

LEMMA WantsModel == \A r \in Request : Wants[r] \in Model
  BY ProxyAssumption

LEMMA ThreadsTypedStep ==
  ASSUME ThreadsTyped, ProxyNext
  PROVE  ThreadsTyped'
  <1> USE DEF ThreadsTyped, Go, Answer, Places, Answers, Permits!PermitStates, threadVars
  <1>1. ASSUME NEW r \in Request, Route(r) \/ RouteFull(r) \/ Queue(r) \/ GiveBackPermit(r) \/ Leave(r)
        PROVE  ThreadsTyped'
    BY <1>1 DEF Route, RouteFull, Queue, Admit, RefuseQueued, GiveBackPermit, Leave,
         Permits!Grant, Permits!Refuse, Permits!GiveBack
  <1>2. ASSUME NEW r \in Request, Acquire(r) \/ Residency(r)
        PROVE  ThreadsTyped'
    BY <1>2 DEF Acquire, Residency, Recheck, LockResidency, NoRoom, MakeRoom, StopVictim,
           VictimBecameBusy, StartChild, Started, StartFails
  <1>3. ASSUME NEW r \in Request, Forward(r) \/ ClientLeaves(r)
        PROVE  ThreadsTyped'
    BY <1>3 DEF Forward, ClientLeaves, Connect, ConnectFails, Relayed, RelayFails, Cancelled,
           CancelFails, Cancelling, Outcome
  <1>4. ASSUME (\E r \in Request : Child(r)) \/ (\E m \in Model : ChildDies(m))
        PROVE  ThreadsTyped'
    BY <1>4 DEF Child, ChildAccepts, ChildReleases, ChildCloses, ChildDies
  <1> QED BY <1>1, <1>2, <1>3, <1>4 DEF ProxyNext, Thread

(* Which steps change the processes: those that stop, number or announce   *)
(* one, and those that record a fault.                                     *)
LEMMA ProcessChanges ==
  ASSUME ProxyNext
  PROVE  \/ child' = child /\ alive' = alive /\ starts' = starts /\ faulty' = faulty
         \/ \E r \in Request : \/ StopVictim(r) \/ StartChild(r) \/ Started(r)
                               \/ ConnectFails(r) \/ RelayFails(r) \/ CancelFails(r)
         \/ \E m \in Model : ChildDies(m)
  <1> SUFFICES ASSUME \A r \in Request : ~StopVictim(r) /\ ~StartChild(r) /\ ~Started(r)
                        /\ ~ConnectFails(r) /\ ~RelayFails(r) /\ ~CancelFails(r),
                      \A m \in Model : ~ChildDies(m)
               PROVE  child' = child /\ alive' = alive /\ starts' = starts /\ faulty' = faulty
    OBVIOUS
  <1> QED
    BY DEF ProxyNext, Thread, Queue, Residency, MakeRoom, Forward, Child, poolVars, processVars,
         Route, RouteFull, Admit, RefuseQueued, Acquire, Recheck, LockResidency, NoRoom,
         VictimBecameBusy, StartFails, Connect, Relayed, ClientLeaves, Cancelled, GiveBackPermit,
         Leave, ChildAccepts, ChildReleases, ChildCloses

LEMMA StopKeepsTypes ==
  ASSUME ProcessesTyped, NEW m, Stop(m)
  PROVE  /\ child' \in [Model -> 0 .. MaxStarts] /\ alive' \subseteq Running'
         /\ \A n \in Model : child'[n] <= child[n]
  <1>1. /\ child \in [Model -> 0 .. MaxStarts] /\ alive \subseteq Running
        /\ MaxStarts \in Nat \ {0}
    BY ProxyAssumption DEF ProcessesTyped
  <1>2. child' = [child EXCEPT ![m] = 0] /\ alive' = alive \ {m}
    BY DEF Stop
  <1>3. \A n \in Model : child'[n] = IF n = m THEN 0 ELSE child[n]
    BY <1>1, <1>2
  <1>4. \A n \in Model : child[n] \in 0 .. MaxStarts
    BY <1>1
  <1>5. child' \in [Model -> 0 .. MaxStarts]
    <2>1. 0 \in 0 .. MaxStarts
      BY <1>1
    <2>2. child' = [n \in Model |-> IF n = m THEN 0 ELSE child[n]]
      BY <1>1, <1>2
    <2> QED BY <1>4, <2>1, <2>2
  <1>6. \A n \in Model : child'[n] <= child[n]
    BY <1>1, <1>3, <1>4
  <1>7. alive' \subseteq Running'
    BY <1>1, <1>2, <1>3 DEF Running
  <1> QED BY <1>5, <1>6, <1>7

LEMMA ProcessesTypedStep ==
  ASSUME ProxyInv, ProxyNext
  PROVE  ProcessesTyped'
  <1>1. ProcessesTyped /\ MaxStarts \in Nat \ {0}
    BY ProxyAssumption DEF ProxyInv, Core, Typed
  <1>2. \A r \in Request : Wants[r] \in Model
    BY WantsModel
  <1>3. \A r \in Request : pc[r] \in Connected => Process(r) \in Model \X (1 .. MaxStarts)
    BY <1>2 DEF ProxyInv, Core, Typed, ConnectionsTyped, Addresses, Process
  <1>4. \A m \in Model : child[m] \in 0 .. MaxStarts /\ starts[m] \in 0 .. MaxStarts
    BY <1>1 DEF ProcessesTyped
  <1>5. CASE child' = child /\ alive' = alive /\ starts' = starts /\ faulty' = faulty
    BY <1>1, <1>5 DEF ProcessesTyped, Running
  <1>6. ASSUME NEW r \in Request, StopVictim(r) \/ ConnectFails(r)
        PROVE  ProcessesTyped'
    <2>1. PICK m : Stop(m)
      BY <1>6 DEF StopVictim, ConnectFails, Fail
    <2>2. starts' = starts /\ faulty' = faulty
      BY <1>6 DEF StopVictim, ConnectFails, processVars
    <2> QED BY <1>1, <1>4, <2>1, <2>2, StopKeepsTypes DEF ProcessesTyped
  <1>7. ASSUME NEW r \in Request, RelayFails(r)
        PROVE  ProcessesTyped'
    <2>1. faulty' = faulty \/ faulty' = faulty \cup {Process(r)}
      BY <1>7 DEF RelayFails
    <2>2. Process(r) \in Model \X (1 .. MaxStarts)
      BY <1>3, <1>7 DEF RelayFails, Connected
    <2>3. child' = child /\ alive' = alive /\ starts' = starts
      BY <1>7 DEF RelayFails
    <2> QED BY <1>1, <2>1, <2>2, <2>3 DEF ProcessesTyped, Running
  <1>8. ASSUME NEW r \in Request, CancelFails(r)
        PROVE  ProcessesTyped'
    <2>1. faulty' = faulty \/ faulty' = faulty \cup {Process(r)}
      BY <1>8 DEF CancelFails
    <2>2. Process(r) \in Model \X (1 .. MaxStarts)
      BY <1>3, <1>8 DEF CancelFails, Cancelling, Connected
    <2>3. Stop(Wants[r]) /\ starts' = starts
      BY <1>8 DEF CancelFails, Fail
    <2> QED BY <1>1, <1>4, <2>1, <2>2, <2>3, StopKeepsTypes DEF ProcessesTyped
  <1>9. ASSUME NEW r \in Request, StartChild(r)
        PROVE  ProcessesTyped'
    BY <1>1, <1>2, <1>9 DEF StartChild, ProcessesTyped, Running
  <1>10. ASSUME NEW r \in Request, Started(r)
         PROVE  ProcessesTyped'
    <2>1. starts[Wants[r]] # 0
      BY <1>2, <1>4, <1>10 DEF Started, ProxyInv, Core, Typed, ConnectionsTyped, Addresses
    <2>2. Wants[r] \in Model
      BY <1>2
    <2>3. /\ child' = [child EXCEPT ![Wants[r]] = starts[Wants[r]]]
          /\ alive' = alive \cup {Wants[r]} /\ starts' = starts /\ faulty' = faulty
      BY <1>10 DEF Started, processVars
    <2> QED BY <1>1, <2>1, <2>2, <2>3 DEF ProcessesTyped, Running
  <1>11. ASSUME NEW m \in Model, ChildDies(m)
         PROVE  ProcessesTyped'
    <2>1. child[m] \in 1 .. MaxStarts
      BY <1>1, <1>4, <1>11 DEF ChildDies, ProcessesTyped, Running
    <2> QED BY <1>1, <1>11, <2>1 DEF ChildDies, ProcessesTyped, Running
  <1> QED BY <1>5, <1>6, <1>7, <1>8, <1>9, <1>10, <1>11, ProcessChanges

LEMMA RoomTypedStep ==
  ASSUME ProxyInv, ProxyNext
  PROVE  RoomTyped'
  <1>1. RoomTyped
    BY DEF ProxyInv, Core, Typed
  <1>2. \A r \in Request : Wants[r] \in Model
    BY WantsModel
  <1>3. ASSUME NEW r \in Request, LockResidency(r)
        PROVE  RoomTyped'
    <2>1. todo' = Victims(Wants[r]) /\ residency' = r /\ Enough(Wants[r]) # {}
      BY <1>3 DEF LockResidency
    <2>2. todo' \in Seq(Model) /\ Range(todo') \subseteq Model \ Resident
      BY <1>2, <2>1, VictimsMakeRoom DEF Evictable
    <2> QED BY <2>1, <2>2 DEF RoomTyped
  <1>4. ASSUME NEW r \in Request, StopVictim(r)
        PROVE  RoomTyped'
    BY <1>1, <1>4, HeadAndTail DEF StopVictim, RoomTyped
  <1>5. ASSUME NEW r \in Request, VictimBecameBusy(r)
        PROVE  RoomTyped'
    <2>1. <<>> \in Seq(Model) /\ Range(<<>>) = {}
      BY EmptySeq DEF Range
    <2> QED BY <1>5, <2>1 DEF VictimBecameBusy, RoomTyped
  <1>6. ASSUME UNCHANGED todo, residency' \in {residency, None}
        PROVE  RoomTyped'
    BY <1>1, <1>6 DEF RoomTyped
  <1>7. \/ UNCHANGED todo /\ residency' \in {residency, None}
        \/ \E r \in Request : LockResidency(r) \/ StopVictim(r) \/ VictimBecameBusy(r)
    BY ZenonT(30) DEF ProxyNext, Thread, Queue, Residency, MakeRoom, Forward, Child, poolVars,
       Route, RouteFull, Admit, RefuseQueued, Acquire, Recheck, NoRoom, StartChild, Started,
       StartFails, Connect, ConnectFails, Relayed, RelayFails, ClientLeaves, Cancelled, CancelFails,
       GiveBackPermit, Leave, ChildAccepts, ChildReleases, ChildCloses, ChildDies
  <1> QED BY <1>3, <1>4, <1>5, <1>6, <1>7


LEMMA ConnectionsTypedStep ==
  ASSUME ProxyInv, ProxyNext
  PROVE  ConnectionsTyped'
  <1>1. /\ ConnectionsTyped /\ \A r \in Request : Wants[r] \in Model
        /\ \A m \in Model : child[m] \in 0 .. MaxStarts /\ starts[m] \in 0 .. MaxStarts
    BY WantsModel DEF ProxyInv, Core, Typed, ProcessesTyped
  <1> USE <1>1 DEF ConnectionsTyped
  <1>2. address' \in [Request -> 0 .. MaxStarts]
    <2>1. ASSUME NEW r \in Request, Acquire(r) \/ Recheck(r) \/ Started(r)
          PROVE  address' \in [Request -> 0 .. MaxStarts]
      BY <2>1 DEF Acquire, Recheck, Started
    <2>2. address' = address \/ \E r \in Request : Acquire(r) \/ Recheck(r) \/ Started(r)
      BY DEF ProxyNext, Thread, Queue, Residency, MakeRoom, Forward, Child,
           Route, RouteFull, Admit, RefuseQueued, LockResidency, NoRoom, StopVictim,
           VictimBecameBusy, StartChild, StartFails, Connect, ConnectFails, Relayed, RelayFails,
           ClientLeaves, Cancelled, CancelFails, GiveBackPermit, Leave, ChildAccepts,
           ChildReleases, ChildCloses, ChildDies
    <2> QED BY <2>1, <2>2
  <1>3. inChild' \in [Request -> {"none", "backlog", "working", "released", "busy", "closed"}]
    <2>1. ASSUME NEW r \in Request, Connect(r) \/ Child(r)
          PROVE  inChild' \in [Request -> {"none", "backlog", "working", "released", "busy", "closed"}]
      BY <2>1 DEF Connect, Child, ChildAccepts, ChildReleases, ChildCloses
    <2>2. inChild' = inChild \/ \E r \in Request : Connect(r) \/ Child(r)
      BY DEF ProxyNext, Thread, Queue, Acquire, Recheck, Started, Residency, MakeRoom, Forward,
           Route, RouteFull, Admit, RefuseQueued, LockResidency, NoRoom, StopVictim,
           VictimBecameBusy, StartChild, StartFails, ConnectFails, Relayed, RelayFails,
           ClientLeaves, Cancelled, CancelFails, GiveBackPermit, Leave, ChildDies, childVars
    <2> QED BY <2>1, <2>2
  <1>4. occupied' \in [Model -> SUBSET Request]
    <2>1. ASSUME NEW m, occupied' = [occupied EXCEPT ![m] = {}]
          PROVE  occupied' \in [Model -> SUBSET Request]
      BY <2>1
    <2>2. ASSUME NEW r \in Request, ChildAccepts(r) \/ ChildReleases(r)
          PROVE  occupied' \in [Model -> SUBSET Request]
      BY <2>2 DEF ChildAccepts, ChildReleases
    <2>3. \/ occupied' = occupied \/ \E r \in Request : ChildAccepts(r) \/ ChildReleases(r)
          \/ \E m : occupied' = [occupied EXCEPT ![m] = {}]
      <3>1. ASSUME NEW r \in Request, StopVictim(r) \/ ConnectFails(r) \/ CancelFails(r)
            PROVE  \E m : occupied' = [occupied EXCEPT ![m] = {}]
        BY <3>1 DEF StopVictim, ConnectFails, CancelFails, Fail, Stop
      <3>2. ASSUME NEW m \in Model, ChildDies(m)
            PROVE  occupied' = [occupied EXCEPT ![m] = {}]
        BY <3>2 DEF ChildDies
      <3> SUFFICES ASSUME \A r \in Request : ~ChildAccepts(r) /\ ~ChildReleases(r) /\ ~StopVictim(r)
                                               /\ ~ConnectFails(r) /\ ~CancelFails(r),
                          \A m \in Model : ~ChildDies(m)
                   PROVE  occupied' = occupied
        BY <3>1, <3>2
      <3> QED
        BY DEF ProxyNext, Thread, Queue, Acquire, Recheck, Started, Residency, MakeRoom, Forward,
           Route, RouteFull, Admit, RefuseQueued, LockResidency, NoRoom, Connect, Child, ChildCloses,
           VictimBecameBusy, StartChild, StartFails, Relayed, RelayFails,
           ClientLeaves, Cancelled, GiveBackPermit, Leave, childVars
    <2> QED BY <2>1, <2>2, <2>3
  <1> QED BY <1>2, <1>3, <1>4

LEMMA TypedStep ==
  ASSUME ProxyInv, ProxyNext
  PROVE  Typed'
  BY ThreadsTypedStep, ProcessesTypedStep, RoomTypedStep, ConnectionsTypedStep, CountsStep
     DEF ProxyInv, Core, Typed

(***************************************************************************)
(* Permits and the residency lock.                                         *)
(***************************************************************************)
LEMMA OneStartsStep ==
  ASSUME ProxyInv, ProxyNext
  PROVE  OneStarts'
  <1>1. ThreadsTyped /\ OneStarts /\ child \in [Model -> 0 .. MaxStarts]
        /\ \A r \in Request : Wants[r] \in Model
    BY WantsModel DEF ProxyInv, Core, Typed, ProcessesTyped
  <1> USE <1>1 DEF ThreadsTyped, OneStarts, Go, Answer, poolVars, threadVars
  <1>2. ASSUME NEW r \in Request, Route(r) \/ RouteFull(r) \/ Queue(r) \/ GiveBackPermit(r) \/ Leave(r)
        PROVE  OneStarts'
    BY <1>2 DEF Route, RouteFull, Queue, Admit, RefuseQueued, GiveBackPermit, Leave
  <1>3. ASSUME NEW r \in Request, Acquire(r) \/ Recheck(r) \/ NoRoom(r) \/ LockResidency(r)
        PROVE  OneStarts'
    BY <1>3, ProxyAssumption DEF Acquire, Recheck, NoRoom, LockResidency
  <1>4. ASSUME NEW r \in Request, VictimBecameBusy(r) \/ StartFails(r) \/ StartChild(r)
        PROVE  OneStarts'
    BY <1>4 DEF VictimBecameBusy, StartFails, StartChild
  <1>5. ASSUME NEW r \in Request, StopVictim(r)
        PROVE  OneStarts'
    BY <1>5 DEF StopVictim, Stop
  <1>6. ASSUME NEW r \in Request, Started(r)
        PROVE  OneStarts'
    BY <1>6 DEF Started
  <1>7. ASSUME NEW r \in Request, Forward(r) \/ ClientLeaves(r)
        PROVE  OneStarts'
    BY <1>7 DEF Forward, Connect, ConnectFails, Relayed, RelayFails, Cancelled, CancelFails,
         ClientLeaves, Cancelling, Fail, Stop
  <1>8. ASSUME NEW r \in Request, Child(r)
        PROVE  OneStarts'
    BY <1>8 DEF Child, ChildAccepts, ChildReleases, ChildCloses
  <1>9. ASSUME NEW m \in Model, ChildDies(m)
        PROVE  OneStarts'
    BY <1>9 DEF ChildDies
  <1> QED BY <1>2, <1>3, <1>4, <1>5, <1>6, <1>7, <1>8, <1>9 DEF ProxyNext, Thread, Residency, MakeRoom


LEMMA PermitsHeldStep ==
  ASSUME ProxyInv, ProxyNext
  PROVE  PermitsHeld'
  <1>1. /\ ThreadsTyped /\ PermitsHeld /\ \A r \in Request : Wants[r] \in Model
        /\ \A m \in Model : Limit[m] \in Nat \ {0}
    BY WantsModel, ProxyAssumption DEF ProxyInv, Core, Typed, Limit
  <1>2. ASSUME NEW m \in Model
        PROVE  /\ IsFiniteSet(Permits!Holders(m))
               /\ Cardinality(Permits!Holders(m)) \in Nat
               /\ Permits!Cardinality(Permits!Holders(m)) = Cardinality(Permits!Holders(m))
    <2>1. IsFiniteSet(Permits!Holders(m))
      BY FS_Subset, ProxyAssumption DEF Permits!Holders
    <2>2. Permits!Cardinality(Permits!Holders(m)) = Cardinality(Permits!Holders(m))
      BY DEF Permits!Cardinality, Cardinality
    <2> QED BY <2>1, <2>2, FS_CardinalityType
  <1> USE <1>1 DEF ThreadsTyped, Go, Answer, threadVars
  <1>3. ASSUME permit' = permit, \A q \in Request : pc'[q] \in Inside => pc[q] \in Inside
        PROVE  PermitsHeld'
    <2>1. \A m \in Model : Permits!Holders(m)' = Permits!Holders(m)
      BY <1>3 DEF Permits!Holders
    <2> QED BY <1>3, <2>1 DEF PermitsHeld
  <1>4. ASSUME NEW r \in Request, Admit(r)
        PROVE  PermitsHeld'
    <2>1. \A q \in Request : pc'[q] \in Inside => permit'[q] = "held"
      BY <1>4 DEF Admit, Permits!Grant, PermitsHeld
    <2>2. Permits!Holders(Wants[r])' = Permits!Holders(Wants[r]) \cup {r} /\ r \notin Permits!Holders(Wants[r])
      BY <1>4 DEF Admit, Permits!Grant, Permits!Holders
    <2>3. \A m \in Model \ {Wants[r]} : Permits!Holders(m)' = Permits!Holders(m)
      BY <1>4 DEF Admit, Permits!Grant, Permits!Holders
    <2>4. Cardinality(Permits!Holders(Wants[r])) < Limit[Wants[r]]
      BY <1>2, <1>4 DEF Admit, Permits!Grant
    <2>5. Cardinality(Permits!Holders(Wants[r])') = Cardinality(Permits!Holders(Wants[r])) + 1
      <3> DEFINE held == Permits!Holders(Wants[r])
      <3>1. IsFiniteSet(held) /\ r \notin held
        BY <1>2, <2>2
      <3> HIDE DEF held
      <3>2. Cardinality(held \cup {r}) = Cardinality(held) + 1
        BY <3>1, FS_AddElement
      <3> QED BY <2>2, <3>2 DEF held
    <2>6. ASSUME NEW m \in Model PROVE Cardinality(Permits!Holders(m)') <= Limit[m]
      <3>1. CASE m = Wants[r]
        BY <1>2, <2>4, <2>5, <3>1
      <3>2. CASE m # Wants[r]
        <4>1. Permits!Holders(m)' = Permits!Holders(m)
          BY <2>3, <3>2
        <4> QED BY <4>1 DEF PermitsHeld
      <3> QED BY <3>1, <3>2
    <2> QED BY <2>1, <2>6 DEF PermitsHeld
  <1>5. ASSUME NEW r \in Request, RefuseQueued(r) \/ GiveBackPermit(r)
        PROVE  PermitsHeld'
    <2>1. \A q \in Request : pc'[q] \in Inside => permit'[q] = "held"
      BY <1>5 DEF RefuseQueued, GiveBackPermit, Permits!Refuse, Permits!GiveBack, PermitsHeld,
           Inside, Connected
    <2>2. ASSUME NEW m \in Model PROVE Cardinality(Permits!Holders(m)') <= Limit[m]
      <3>1. Permits!Holders(m)' \in SUBSET Permits!Holders(m)
        BY <1>5 DEF RefuseQueued, GiveBackPermit, Permits!Refuse, Permits!GiveBack, Permits!Holders
      <3> DEFINE old == Permits!Holders(m)
                 new == Permits!Holders(m)'
      <3>2. IsFiniteSet(old) /\ Cardinality(old) \in Nat /\ Cardinality(old) <= Limit[m] /\ Limit[m] \in Nat
        BY <1>2 DEF PermitsHeld
      <3>3. new \in SUBSET old
        BY <3>1
      <3> HIDE DEF old, new
      <3>4. Cardinality(new) <= Cardinality(old) /\ Cardinality(new) \in Nat
        BY <3>2, <3>3, FS_Subset, FS_CardinalityType
      <3>5. Cardinality(new) <= Limit[m]
        BY <3>2, <3>4
      <3> QED BY <3>5 DEF new
    <2> QED BY <2>1, <2>2 DEF PermitsHeld
  <1>6. ASSUME NEW r \in Request, Route(r) \/ RouteFull(r) \/ Leave(r) \/ Acquire(r)
        PROVE  PermitsHeld'
    BY <1>3, <1>6 DEF Route, RouteFull, Leave, Acquire, Inside, Connected
  <1>7. ASSUME NEW r \in Request, Residency(r)
        PROVE  PermitsHeld'
    <2>1. permit' = permit
      BY <1>7 DEF Residency, Recheck, LockResidency, NoRoom, MakeRoom, StopVictim, VictimBecameBusy,
           StartChild, Started, StartFails
    <2>2. \A q \in Request : pc'[q] \in Inside => pc[q] \in Inside
      BY <1>7 DEF Residency, Recheck, LockResidency, NoRoom, MakeRoom, StopVictim, VictimBecameBusy,
           StartChild, Started, StartFails, Inside, Connected
    <2> QED BY <1>3, <2>1, <2>2
  <1>8. ASSUME NEW r \in Request, Forward(r) \/ ClientLeaves(r)
        PROVE  PermitsHeld'
    <2>1. permit' = permit
      BY <1>8 DEF Forward, Connect, ConnectFails, Relayed, RelayFails, Cancelled, CancelFails,
           ClientLeaves
    <2>2. \A q \in Request : pc'[q] \in Inside => pc[q] \in Inside
      BY <1>8 DEF Forward, Connect, ConnectFails, Relayed, RelayFails, Cancelled, CancelFails,
           ClientLeaves, Cancelling, Inside, Connected
    <2> QED BY <1>3, <2>1, <2>2
  <1>9. ASSUME (\E r \in Request : Child(r)) \/ (\E m \in Model : ChildDies(m))
        PROVE  PermitsHeld'
    BY <1>3, <1>9 DEF Child, ChildAccepts, ChildReleases, ChildCloses, ChildDies
  <1> QED BY <1>4, <1>5, <1>6, <1>7, <1>8, <1>9 DEF ProxyNext, Thread, Queue

(***************************************************************************)
(* The numbers of processes.                                               *)
(***************************************************************************)

\* A step that gives nobody an address and no process a number, and may stop
\* some; a request is turned away only by a process that is stopped with it.
Quiet ==
  /\ address' = address /\ starts' = starts
  /\ \A m \in Model : child'[m] \in {0, child[m]}
  /\ \A q \in Request : /\ pc'[q] \in Connected => pc[q] \in Connected
                        /\ pc'[q] = "starting" => pc[q] = "starting"
                        /\ inChild'[q] # "none" => inChild[q] # "none" \/ pc[q] \in Connected
                        /\ answer'[q] = "unavailable" =>
                             \/ answer[q] = "unavailable"
                             \/ pc[q] \in Connected /\ child'[Wants[q]] = 0 /\ pc'[q] = "leaving"
                        /\ pc[q] \in {"leaving", "done"} => pc'[q] \in {"leaving", "done"}

LEMMA MostStepsAreQuiet ==
  ASSUME ProxyInv, ProxyNext
  PROVE  Quiet \/ \E r \in Request : Acquire(r) \/ Recheck(r) \/ StartChild(r) \/ Started(r)
  <1>1. /\ ThreadsTyped /\ child \in [Model -> 0 .. MaxStarts] /\ \A r \in Request : Wants[r] \in Model
        /\ inChild \in [Request -> {"none", "backlog", "working", "released", "busy", "closed"}]
    BY WantsModel DEF ProxyInv, Core, Typed, ProcessesTyped, ConnectionsTyped
  <1> USE <1>1 DEF ThreadsTyped, Quiet, Connected, Go, Answer, poolVars, processVars, threadVars, childVars
  <1>2. ASSUME NEW r \in Request, Route(r) \/ RouteFull(r) \/ Queue(r) \/ GiveBackPermit(r) \/ Leave(r)
        PROVE  Quiet
    BY <1>2 DEF Route, RouteFull, Queue, Admit, RefuseQueued, GiveBackPermit, Leave
  <1>3. ASSUME NEW r \in Request, NoRoom(r) \/ LockResidency(r) \/ VictimBecameBusy(r) \/ StartFails(r)
        PROVE  Quiet
    BY <1>3 DEF NoRoom, LockResidency, VictimBecameBusy, StartFails
  <1>4. ASSUME NEW r \in Request, StopVictim(r)
        PROVE  Quiet
    BY <1>4 DEF StopVictim, Stop
  <1>5. ASSUME NEW r \in Request, Connect(r) \/ Relayed(r) \/ ClientLeaves(r) \/ RelayFails(r) \/ Cancelled(r)
        PROVE  Quiet
    BY <1>5 DEF Connect, Relayed, ClientLeaves, RelayFails, Cancelled, Cancelling, Outcome
  <1>6. ASSUME NEW r \in Request, ConnectFails(r) \/ CancelFails(r)
        PROVE  Quiet
    <2>1. Stop(Wants[r]) /\ address' = address /\ starts' = starts
      BY <1>6 DEF ConnectFails, CancelFails, Fail
    <2>2. \A m \in Model : child'[m] \in {0, child[m]}
      BY <2>1 DEF Stop
    <2>3. child'[Wants[r]] = 0
      BY <2>1 DEF Stop
    <2>4. /\ pc[r] \in Connected /\ pc' = [pc EXCEPT ![r] = "leaving"]
          /\ \A q \in Request \ {r} : answer'[q] = answer[q]
      BY <1>6 DEF ConnectFails, CancelFails, Cancelling
    <2>5. inChild' = inChild
      BY <1>6 DEF ConnectFails, CancelFails
    <2> QED BY <2>1, <2>2, <2>3, <2>4, <2>5
  <1>7. ASSUME (\E r \in Request : Child(r)) \/ (\E m \in Model : ChildDies(m))
        PROVE  Quiet
    BY <1>7 DEF Child, ChildAccepts, ChildReleases, ChildCloses, ChildDies
  <1> QED BY <1>2, <1>3, <1>4, <1>5, <1>6, <1>7 DEF ProxyNext, Thread, Residency, MakeRoom, Forward

LEMMA AddressesStep ==
  ASSUME ProxyInv, ProxyNext
  PROVE  Addresses'
  <1>1. /\ Addresses /\ OneStarts /\ ThreadsTyped
        /\ \A r \in Request : Wants[r] \in Model /\ address[r] \in Nat
        /\ \A m \in Model : child[m] \in Nat /\ starts[m] \in Nat /\ child[m] <= starts[m]
        /\ child \in [Model -> Nat] /\ starts \in [Model -> Nat] /\ address \in [Request -> Nat]
    <2>1. ProcessesTyped /\ ConnectionsTyped /\ MaxStarts \in Nat
      BY ProxyAssumption DEF ProxyInv, Core, Typed
    <2>2. child \in [Model -> Nat] /\ starts \in [Model -> Nat] /\ address \in [Request -> Nat]
      BY <2>1 DEF ProcessesTyped, ConnectionsTyped
    <2> QED BY <2>1, <2>2, WantsModel DEF ProxyInv, Core, Typed, ProcessesTyped
  <1>2. CASE Quiet
    BY <1>1, <1>2 DEF Quiet, Addresses
  <1>3. ASSUME NEW r \in Request, Acquire(r) \/ Recheck(r)
        PROVE  Addresses'
    <2>1. /\ child' = child /\ starts' = starts /\ answer' = answer
          /\ \A q \in Request : pc'[q] = "starting" => pc[q] = "starting"
          /\ \A q \in Request \ {r} : pc'[q] = pc[q] /\ address'[q] = address[q]
      BY <1>1, <1>3 DEF Acquire, Recheck, poolVars, processVars, ThreadsTyped, Go
    <2>2. \/ address'[r] = address[r] /\ pc'[r] \notin Connected
          \/ address'[r] = child[Wants[r]] /\ child[Wants[r]] # 0
      BY <1>1, <1>3 DEF Acquire, Recheck, ThreadsTyped, Go, Connected
    <2>3. \A q \in Request : pc[q] = "starting" => child[Wants[q]] = 0
      BY <1>1 DEF OneStarts
    <2>4. pc[r] \in {"acquiring", "locking"}
      BY <1>3 DEF Acquire, Recheck
    <2>5. answer[r] # "unavailable"
      BY <1>1, <2>4 DEF Addresses
    <2>6. \A q \in Request : address'[q] <= starts[Wants[q]]
      BY <1>1, <2>1, <2>2 DEF Addresses
    <2>7. \A q \in Request : pc'[q] \in Connected \/ inChild'[q] # "none" => address'[q] # 0
      <3>1. inChild' = inChild
        BY <1>3 DEF Acquire, Recheck, childVars
      <3>2. pc'[r] \in Connected \/ address'[r] = address[r]
        BY <1>1, <1>3 DEF Acquire, Recheck, ThreadsTyped, Go, Connected
      <3> QED BY <1>1, <2>1, <2>2, <3>1, <3>2 DEF Addresses
    <2>8. ASSUME NEW q \in Request, NEW s \in Request, pc'[q] = "starting", Wants[s] = Wants[q]
          PROVE  address'[s] < starts[Wants[q]]
      <3>1. pc[q] = "starting" /\ child[Wants[s]] = 0 /\ address[s] < starts[Wants[q]]
        BY <1>1, <2>1, <2>3, <2>8 DEF Addresses
      <3> QED BY <2>1, <2>2, <3>1
    <2>9. ASSUME NEW q \in Request, answer[q] = "unavailable"
          PROVE  pc'[q] \in {"leaving", "done"} /\ address'[q] # 0 /\ address'[q] # child[Wants[q]]
      BY <1>1, <2>1, <2>5, <2>9 DEF Addresses
    <2> QED BY <2>1, <2>6, <2>7, <2>8, <2>9 DEF Addresses
  <1>4. ASSUME NEW r \in Request, StartChild(r)
        PROVE  Addresses'
    <2>1. /\ child' = child /\ address' = address /\ answer' = answer
          /\ starts' = [starts EXCEPT ![Wants[r]] = @ + 1]
          /\ \A q \in Request \ {r} : pc'[q] = pc[q]
          /\ pc[r] = "clearing" /\ pc'[r] = "starting"
      BY <1>1, <1>4 DEF StartChild, ThreadsTyped, Go
    <2>2. /\ starts'[Wants[r]] = starts[Wants[r]] + 1
          /\ \A m \in Model : starts'[m] >= starts[m]
      BY <1>1, <2>1
    <2>3. \A q \in Request \ {r} : pc[q] # "starting"
      BY <1>1, <2>1 DEF OneStarts
    <2>4. \A q \in Request : address'[q] <= starts[Wants[q]]
      BY <1>1, <2>1 DEF Addresses
    <2>5. \A q \in Request : address'[q] <= starts'[Wants[q]]
      BY <1>1, <2>1, <2>2, <2>4
    <2>6. \A q, s \in Request : pc'[q] = "starting" /\ Wants[s] = Wants[q] => address'[s] < starts'[Wants[q]]
      BY <1>1, <2>1, <2>2, <2>3, <2>4
    <2>7. \A q \in Request : pc'[q] \in Connected \/ inChild'[q] # "none"
                                 => pc[q] \in Connected \/ inChild[q] # "none"
      BY <1>4, <2>1 DEF Connected, StartChild, childVars
    <2>8. answer[r] # "unavailable"
      BY <1>1, <2>1 DEF Addresses
    <2> QED BY <1>1, <2>1, <2>5, <2>6, <2>7, <2>8 DEF Addresses
  <1>5. ASSUME NEW r \in Request, Started(r)
        PROVE  Addresses'
    <2> DEFINE m == Wants[r]
    <2>1. /\ child' = [child EXCEPT ![m] = starts[m]] /\ starts' = starts /\ answer' = answer
          /\ address' = [address EXCEPT ![r] = starts[m]]
          /\ \A q \in Request \ {r} : pc'[q] = pc[q]
          /\ pc[r] = "starting" /\ pc'[r] = "connecting"
      BY <1>1, <1>5 DEF Started, ThreadsTyped, Go, processVars
    <2>2. /\ m \in Model /\ child'[m] = starts[m] /\ \A n \in Model \ {m} : child'[n] = child[n]
          /\ address'[r] = starts[m] /\ \A q \in Request \ {r} : address'[q] = address[q]
      BY <1>1, <2>1
    <2>3. \A q \in Request : Wants[q] = m => address[q] < starts[m]
      BY <1>1, <2>1 DEF Addresses
    <2>4. starts[m] # 0 /\ answer[r] # "unavailable"
      BY <1>1, <2>1, <2>3 DEF Addresses
    <2>5. \A q \in Request : pc'[q] # "starting"
      BY <1>1, <2>1 DEF OneStarts
    <2> HIDE DEF m
    <2>6. \A q \in Request : address'[q] <= starts'[Wants[q]]
      BY <1>1, <2>1, <2>2 DEF Addresses, m
    <2>7. \A q \in Request : pc'[q] \in Connected \/ inChild'[q] # "none" => address'[q] # 0
      <3>1. inChild' = inChild
        BY <1>5 DEF Started, childVars
      <3> QED BY <1>1, <2>1, <2>2, <2>4, <3>1 DEF Addresses
    <2>8. ASSUME NEW q \in Request, answer'[q] = "unavailable"
          PROVE  pc'[q] \in {"leaving", "done"} /\ address'[q] # 0 /\ address'[q] # child'[Wants[q]]
      <3>1. q # r /\ answer[q] = "unavailable"
        BY <2>1, <2>4, <2>8
      <3>2. Wants[q] = m => address[q] # starts[m]
        BY <1>1, <2>2, <2>3
      <3> QED BY <1>1, <2>1, <2>2, <3>1, <3>2 DEF Addresses
    <2> QED BY <2>5, <2>6, <2>7, <2>8 DEF Addresses
  <1> QED BY <1>2, <1>3, <1>4, <1>5, MostStepsAreQuiet


(***************************************************************************)
(* Faults.                                                                 *)
(***************************************************************************)
LEMMA FaultsAreRemembered ==
  ASSUME ProxyNext
  PROVE  \A m : HasFault(m) => HasFault(m)'
  <1>1. faulty \subseteq faulty'
    <2>1. ASSUME NEW r \in Request, StopVictim(r) \/ StartChild(r) \/ Started(r)
                   \/ ConnectFails(r) \/ RelayFails(r) \/ CancelFails(r)
          PROVE  faulty \subseteq faulty'
      BY <2>1 DEF StopVictim, StartChild, Started, ConnectFails, RelayFails, CancelFails, processVars
    <2>2. ASSUME NEW m \in Model, ChildDies(m)
          PROVE  faulty \subseteq faulty'
      BY <2>2 DEF ChildDies
    <2> QED BY <2>1, <2>2, ProcessChanges
  <1> QED BY <1>1 DEF HasFault

LEMMA FaultsStep ==
  ASSUME ProxyInv, ProxyNext
  PROVE  Faults'
  <1>1. /\ Faults /\ ThreadsTyped
        /\ child \in [Model -> 0 .. MaxStarts] /\ address \in [Request -> 0 .. MaxStarts]
        /\ \A r \in Request : Wants[r] \in Model
        /\ \A r \in Request : pc[r] \in Connected => address[r] # 0
        /\ \A m : HasFault(m) => HasFault(m)'
    BY WantsModel, FaultsAreRemembered
       DEF ProxyInv, Core, Typed, ProcessesTyped, ConnectionsTyped, Addresses
  <1>2. \A r \in Request : pc[r] \in Connected => address[r] \in 1 .. MaxStarts
    BY <1>1, ProxyAssumption
  <1> USE <1>1 DEF ThreadsTyped, Connected, Go, Answer, poolVars, processVars, threadVars
  \* A step that stops no process and gives nobody an address
  <1>3. ASSUME child' = child, alive' = alive, address' = address,
               \A q \in Request : pc'[q] \in Connected => pc[q] \in Connected,
               \A q \in Request : pc'[q] = "cancelling failed" \/ answer'[q] \in {"unavailable", "failed"}
                 => pc[q] = "cancelling failed" \/ answer[q] \in {"unavailable", "failed"}
                      \/ HasFault(Wants[q])'
        PROVE  Faults'
    BY <1>3 DEF Faults, Broken
  <1>4. ASSUME NEW r \in Request, Route(r) \/ RouteFull(r) \/ Queue(r) \/ GiveBackPermit(r) \/ Leave(r)
        PROVE  Faults'
    BY <1>3, <1>4 DEF Route, RouteFull, Queue, Admit, RefuseQueued, GiveBackPermit, Leave
  <1>5. ASSUME NEW r \in Request, NoRoom(r) \/ LockResidency(r) \/ VictimBecameBusy(r)
                                   \/ StartChild(r) \/ StartFails(r)
        PROVE  Faults'
    BY <1>3, <1>5 DEF NoRoom, LockResidency, VictimBecameBusy, StartFails, StartChild
  <1>6. ASSUME NEW r \in Request, Connect(r) \/ Relayed(r) \/ ClientLeaves(r)
        PROVE  Faults'
    BY <1>3, <1>6 DEF Connect, Relayed, ClientLeaves
  <1>7. ASSUME NEW r \in Request, Cancelled(r)
        PROVE  Faults'
    BY <1>3, <1>7 DEF Cancelled, Cancelling, Outcome
  <1>8. ASSUME NEW r \in Request, Child(r)
        PROVE  Faults'
    BY <1>3, <1>8 DEF Child, ChildAccepts, ChildReleases, ChildCloses
  <1>9. ASSUME NEW r \in Request, RelayFails(r)
        PROVE  Faults'
    <2>1. HasFault(Wants[r])'
      <3>1. CASE Broken(r)
        BY <1>9, <3>1 DEF RelayFails, Faults
      <3>2. CASE faulty' = faulty \cup {Process(r)}
        BY <1>2, <1>9, <3>2 DEF RelayFails, Process, HasFault
      <3> QED BY <1>9, <3>1, <3>2 DEF RelayFails
    <2>2. /\ child' = child /\ alive' = alive /\ address' = address /\ answer' = answer
          /\ pc' = [pc EXCEPT ![r] = "cancelling failed"] /\ pc[r] = "relaying"
      BY <1>9 DEF RelayFails
    <2> QED BY <1>3, <2>1, <2>2
  <1>10. ASSUME NEW r \in Request, Acquire(r) \/ Recheck(r)
         PROVE  Faults'
    <2>1. /\ child' = child /\ alive' = alive /\ answer' = answer
          /\ \A q \in Request \ {r} : pc'[q] = pc[q] /\ address'[q] = address[q]
          /\ pc'[r] = "locking" \/ (pc'[r] = "connecting" /\ address'[r] = child[Wants[r]]
                                      /\ child[Wants[r]] # 0)
      BY <1>10 DEF Acquire, Recheck
    <2>2. ASSUME NEW q \in Request, pc'[q] \in Connected, Broken(q)'
          PROVE  HasFault(Wants[q])'
      BY <2>1, <2>2 DEF Faults, Broken
    <2> QED BY <2>1, <2>2 DEF Faults
  <1>11. ASSUME NEW r \in Request, Started(r)
         PROVE  Faults'
    <2> DEFINE m == Wants[r]
    <2>1. /\ child[m] = 0 /\ child' = [child EXCEPT ![m] = starts[m]] /\ alive' = alive \cup {m}
          /\ answer' = answer /\ address' = [address EXCEPT ![r] = starts[m]]
          /\ pc' = [pc EXCEPT ![r] = "connecting"]
      BY <1>11 DEF Started, ProxyInv, Core, OneStarts
    <2>2. ASSUME NEW q \in Request, pc'[q] \in Connected, Broken(q)'
          PROVE  HasFault(Wants[q])'
      <3>1. q # r
        BY <2>1, <2>2 DEF Broken
      <3>2. pc[q] \in Connected /\ address'[q] = address[q]
        BY <2>1, <2>2, <3>1
      <3>3. Broken(q)
        BY <2>1, <2>2, <3>2 DEF Broken
      <3> QED BY <3>2, <3>3 DEF Faults
    <2>3. ASSUME NEW n \in Model, child'[n] # 0, n \notin alive'
          PROVE  HasFault(n)'
      BY <2>1, <2>3 DEF Faults
    <2>4. \A q \in Request : pc'[q] = "cancelling failed" => pc[q] = "cancelling failed"
      BY <2>1
    <2> QED BY <2>1, <2>2, <2>3, <2>4 DEF Faults
  <1>12. ASSUME NEW r \in Request, StopVictim(r)
         PROVE  Faults'
    <2> DEFINE m == Head(todo)
    <2>1. /\ inFlight[m] = 0 /\ child' = [child EXCEPT ![m] = 0] /\ alive' = alive \ {m}
          /\ pc' = pc /\ answer' = answer /\ address' = address
      BY <1>12 DEF StopVictim, Stop
    <2>2. \A q \in Request : pc[q] \in Connected => Wants[q] # m
      BY <2>1, CountedIsBusy DEF Counted
    <2> HIDE DEF m
    <2>3. ASSUME NEW q \in Request, pc'[q] \in Connected, Broken(q)'
          PROVE  HasFault(Wants[q])'
      BY <2>1, <2>2, <2>3 DEF Faults, Broken
    <2>4. ASSUME NEW n \in Model, child'[n] # 0, n \notin alive'
          PROVE  HasFault(n)'
      BY <2>1, <2>4 DEF Faults
    <2> QED BY <2>1, <2>3, <2>4 DEF Faults
  <1>13. ASSUME NEW r \in Request, ConnectFails(r) \/ CancelFails(r)
         PROVE  Faults'
    <2> DEFINE m == Wants[r]
    <2>1. HasFault(m)'
      <3>1. CASE Broken(r)
        BY <1>13, <3>1 DEF ConnectFails, CancelFails, Cancelling, Faults
      <3>2. CASE CancelFails(r) /\ faulty' = faulty \cup {Process(r)}
        BY <1>2, <3>2 DEF CancelFails, Cancelling, Process, HasFault
      <3> QED BY <1>13, <3>1, <3>2 DEF ConnectFails, CancelFails
    <2>2. /\ child' = [child EXCEPT ![m] = 0] /\ alive' = alive \ {m} /\ address' = address
          /\ pc' = [pc EXCEPT ![r] = "leaving"]
          /\ \A q \in Request \ {r} : answer'[q] = answer[q]
      BY <1>13 DEF ConnectFails, CancelFails, Fail, Stop
    <2>3. ASSUME NEW q \in Request, pc'[q] \in Connected, Broken(q)'
          PROVE  HasFault(Wants[q])'
      BY <2>1, <2>2, <2>3 DEF Faults, Broken
    <2>4. ASSUME NEW n \in Model, child'[n] # 0, n \notin alive'
          PROVE  HasFault(n)'
      BY <2>2, <2>4 DEF Faults
    <2>5. ASSUME NEW q \in Request,
                 pc'[q] = "cancelling failed" \/ answer'[q] \in {"unavailable", "failed"}
          PROVE  HasFault(Wants[q])'
      BY <2>1, <2>2, <2>5 DEF Faults
    <2> QED BY <2>3, <2>4, <2>5 DEF Faults
  <1>14. ASSUME NEW m \in Model, ChildDies(m)
         PROVE  Faults'
    <2>1. HasFault(m)'
      <3>1. child[m] \in 1 .. MaxStarts /\ <<m, child[m]>> \in faulty'
        <4>1. m \in alive /\ faulty' = faulty \cup {<<m, child[m]>>}
          BY <1>14 DEF ChildDies
        <4>2. child[m] # 0
          BY <4>1 DEF ProxyInv, Core, Typed, ProcessesTyped, Running
        <4>3. child[m] \in 0 .. MaxStarts /\ MaxStarts \in Nat
          BY <1>1, ProxyAssumption
        <4>4. child[m] \in 1 .. MaxStarts
          BY ONLY <4>2, <4>3
        <4> QED BY <4>1, <4>4
      <3> QED BY <3>1 DEF HasFault
    <2>2. /\ child' = child /\ alive' = alive \ {m} /\ address' = address
          /\ pc' = pc /\ answer' = answer
      BY <1>14 DEF ChildDies
    <2> QED BY <2>1, <2>2 DEF Faults, Broken
  <1> QED BY <1>4, <1>5, <1>6, <1>7, <1>8, <1>9, <1>10, <1>11, <1>12, <1>13, <1>14
          DEF ProxyNext, Thread, Residency, MakeRoom, Forward


(***************************************************************************)
(* What a child has admitted.                                              *)
(***************************************************************************)

\* A step that neither starts a process nor touches a connection, and after
\* which a thread that has left its process has nothing to do with it.
Aside ==
  /\ inChild' = inChild /\ address' = address
  /\ \A m \in Model : child'[m] \in {0, child[m]} /\ occupied'[m] \in {{}, occupied[m]}
  /\ alive' \subseteq alive
  /\ \A m \in Model : child'[m] # child[m] \/ (m \in alive /\ m \notin alive') => occupied'[m] = {}
  /\ \A q \in Request :
       \/ pc'[q] = pc[q]
       \/ inChild[q] = "none" /\ pc'[q] \in Places
       \/ pc[q] \in Connected \ {"connecting"} /\ pc'[q] \in Connected \ {"connecting"}
       \/ inChild[q] = "closed" /\ pc'[q] \in {"leaving", "done"}
       \/ pc'[q] \in {"leaving", "done"} /\ (child'[Wants[q]] # address[q] \/ Wants[q] \notin alive')

LEMMA AsideKeepsAdmissions ==
  ASSUME Admissions, Aside, \A r \in Request : Wants[r] \in Model,
         \A r \in Request : address[r] \in Nat,
         \A r \in Request : inChild[r] \notin {"none"} => address[r] # 0
  PROVE  Admissions'
  <1>1. ASSUME NEW m \in Model, NEW r \in occupied'[m]
        PROVE  Wants[r] = m /\ inChild'[r] = "working" /\ ~Broken(r)'
    <2>1. r \in occupied[m] /\ child'[m] = child[m] /\ (m \in alive => m \in alive')
      BY <1>1 DEF Aside
    <2> QED BY <2>1 DEF Aside, Admissions, Broken
  <1>2. ASSUME NEW r \in Request, Broken(r), inChild[r] # "none"
        PROVE  Broken(r)'
    BY <1>2 DEF Aside, Broken
  <1>3. ASSUME NEW r \in Request, inChild[r] \notin {"none", "closed"}, ~Broken(r)'
        PROVE  pc'[r] \in Connected \ {"connecting"}
    <2>1. ~Broken(r)
      BY <1>2, <1>3
    <2>2. pc[r] \in Connected \ {"connecting"}
      BY <1>3, <2>1 DEF Admissions
    <2> QED BY <1>3, <2>2 DEF Aside, Broken
  <1>4. ASSUME NEW r \in Request, inChild[r] # "none"
        PROVE  pc'[r] \in (Connected \ {"connecting"}) \cup {"leaving", "done"}
    BY <1>4 DEF Aside, Admissions
  <1> QED BY <1>1, <1>3, <1>4 DEF Admissions, Aside


LEMMA AdmissionsStep ==
  ASSUME ProxyInv, ProxyNext
  PROVE  Admissions'
  <1>1. /\ Admissions /\ ThreadsTyped
        /\ child \in [Model -> 0 .. MaxStarts] /\ starts \in [Model -> 0 .. MaxStarts]
        /\ address \in [Request -> 0 .. MaxStarts] /\ occupied \in [Model -> SUBSET Request]
        /\ inChild \in [Request -> {"none", "backlog", "working", "released", "busy", "closed"}]
        /\ \A r \in Request : Wants[r] \in Model /\ address[r] \in Nat
        /\ \A r \in Request : inChild[r] # "none" => address[r] # 0
    <2>1. ProcessesTyped /\ ConnectionsTyped /\ MaxStarts \in Nat /\ Addresses
      BY ProxyAssumption DEF ProxyInv, Core, Typed
    <2>2. \A r \in Request : address[r] \in Nat
      BY <2>1 DEF ConnectionsTyped
    <2> QED BY <2>1, <2>2, WantsModel
              DEF ProxyInv, Core, Typed, ProcessesTyped, ConnectionsTyped, Addresses
  <1>2. ASSUME Aside PROVE Admissions'
    BY <1>1, <1>2, AsideKeepsAdmissions
  \* A thread that has given its connection up
  <1>3. \A r \in Request : pc[r] \notin Connected \ {"connecting"} /\ inChild[r] \notin {"none", "closed"}
                             => child[Wants[r]] # address[r] \/ Wants[r] \notin alive
    BY <1>1 DEF Admissions, Broken
  <1>4. \A r \in Request : pc[r] \notin (Connected \ {"connecting"}) \cup {"leaving", "done"}
                             => inChild[r] = "none"
    BY <1>1 DEF Admissions
  <1> USE <1>1 DEF ThreadsTyped, Go, Answer, poolVars, processVars, threadVars, childVars
  <1>5. ASSUME NEW r \in Request, Route(r) \/ RouteFull(r) \/ Queue(r) \/ GiveBackPermit(r) \/ Leave(r)
        PROVE  Admissions'
    <2>1. UNCHANGED <<child, alive, inChild, occupied, address>>
      BY <1>5 DEF Route, RouteFull, Queue, Admit, RefuseQueued, GiveBackPermit, Leave
    <2>2. \/ pc' = pc
          \/ pc[r] \in {"start", "queued"} /\ \E to \in Places : pc' = [pc EXCEPT ![r] = to]
          \/ pc[r] = "leaving" /\ pc' = [pc EXCEPT ![r] = "done"]
      BY <1>5 DEF Route, RouteFull, Queue, Admit, RefuseQueued, GiveBackPermit, Leave, Places
    <2>3. ASSUME NEW q \in Request, pc'[q] # pc[q]
          PROVE  \/ inChild[q] = "none" /\ pc'[q] \in Places
                 \/ inChild[q] = "closed" /\ pc'[q] \in {"leaving", "done"}
                 \/ pc'[q] \in {"leaving", "done"} /\ (child[Wants[q]] # address[q] \/ Wants[q] \notin alive)
      <3>1. q = r
        BY <2>2, <2>3
      <3>2. CASE pc[r] \in {"start", "queued"} /\ \E to \in Places : pc' = [pc EXCEPT ![r] = to]
        BY <1>4, <3>1, <3>2 DEF Connected
      <3>3. CASE pc[r] = "leaving" /\ pc' = [pc EXCEPT ![r] = "done"]
        BY <1>3, <3>1, <3>3 DEF Connected, Places
      <3> QED BY <2>2, <2>3, <3>2, <3>3
    <2>4. Aside
      BY <2>1, <2>3 DEF Aside
    <2> QED BY <1>2, <2>4
  <1>6. ASSUME NEW r \in Request, NoRoom(r) \/ LockResidency(r) \/ VictimBecameBusy(r)
                                   \/ StartChild(r) \/ StartFails(r)
        PROVE  Admissions'
    <2>1. UNCHANGED <<child, alive, inChild, occupied, address>>
      BY <1>6 DEF NoRoom, LockResidency, VictimBecameBusy, StartFails, StartChild
    <2>2. /\ pc[r] \in {"locking", "clearing", "starting"}
          /\ \E to \in Places : pc' = [pc EXCEPT ![r] = to]
      BY <1>6 DEF NoRoom, LockResidency, VictimBecameBusy, StartFails, StartChild, Places
    <2>3. Aside
      BY <1>4, <2>1, <2>2 DEF Aside, Connected
    <2> QED BY <1>2, <2>3
  <1>7. ASSUME NEW r \in Request, StopVictim(r)
        PROVE  Admissions'
    <2>1. Stop(Head(todo)) /\ UNCHANGED <<inChild, address, pc>>
      BY <1>7 DEF StopVictim
    <2>2. Aside
      BY <2>1 DEF Aside, Stop
    <2> QED BY <1>2, <2>2
  <1>8. ASSUME NEW r \in Request, ConnectFails(r) \/ CancelFails(r)
        PROVE  Admissions'
    <2>1. Stop(Wants[r]) /\ UNCHANGED <<inChild, address>> /\ pc' = [pc EXCEPT ![r] = "leaving"]
      BY <1>8 DEF ConnectFails, CancelFails, Fail
    <2>2. Aside
      BY <2>1 DEF Aside, Stop
    <2> QED BY <1>2, <2>2
  <1>9. ASSUME NEW r \in Request, ClientLeaves(r) \/ RelayFails(r) \/ Relayed(r) \/ Cancelled(r)
        PROVE  Admissions'
    <2>1. UNCHANGED <<child, alive, inChild, occupied, address>>
      BY <1>9 DEF ClientLeaves, RelayFails, Relayed, Cancelled
    <2>2. \/ /\ pc[r] \in Connected \ {"connecting"}
             /\ \E to \in Connected \ {"connecting"} : pc' = [pc EXCEPT ![r] = to]
          \/ /\ inChild[r] = "closed" \/ Broken(r)
             /\ pc' = [pc EXCEPT ![r] = "leaving"]
      BY <1>9 DEF ClientLeaves, RelayFails, Relayed, Cancelled, Connected
    <2>3. Aside
      BY <2>1, <2>2 DEF Aside, Broken
    <2> QED BY <1>2, <2>3
  <1>10. ASSUME NEW m \in Model, ChildDies(m)
         PROVE  Admissions'
    <2>1. /\ UNCHANGED <<child, inChild, address, pc>> /\ alive' = alive \ {m}
          /\ occupied' = [occupied EXCEPT ![m] = {}]
      BY <1>10 DEF ChildDies
    <2>2. Aside
      BY <2>1 DEF Aside
    <2> QED BY <1>2, <2>2
  <1>11. ASSUME NEW r \in Request, Acquire(r) \/ Recheck(r)
         PROVE  Admissions'
    <2>1. /\ UNCHANGED <<child, alive, inChild, occupied>> /\ inChild[r] = "none"
          /\ \A q \in Request \ {r} : pc'[q] = pc[q] /\ address'[q] = address[q]
      BY <1>4, <1>11 DEF Acquire, Recheck, Connected
    <2> QED BY <2>1 DEF Admissions, Broken
  <1>12. ASSUME NEW r \in Request, Connect(r)
         PROVE  Admissions'
    <2>1. /\ UNCHANGED <<child, alive, address, occupied>> /\ inChild[r] = "none"
          /\ pc' = [pc EXCEPT ![r] = "relaying"] /\ inChild' = [inChild EXCEPT ![r] = "backlog"]
      BY <1>4, <1>12 DEF Connect, Connected
    <2>2. ASSUME NEW m \in Model, NEW q \in occupied'[m]
          PROVE  Wants[q] = m /\ inChild'[q] = "working" /\ ~Broken(q)'
      <3>1. q \in occupied[m] /\ inChild[q] = "working"
        BY <2>1, <2>2 DEF Admissions
      <3>2. q # r /\ inChild'[q] = inChild[q]
        BY <2>1, <3>1
      <3> QED BY <2>1, <3>1, <3>2 DEF Admissions, Broken
    <2>3. ASSUME NEW q \in Request, inChild'[q] \notin {"none", "closed"}, ~Broken(q)'
          PROVE  pc'[q] \in Connected \ {"connecting"}
      <3>1. CASE q = r
        BY <2>1, <3>1 DEF Connected
      <3>2. CASE q # r
        <4>1. inChild[q] \notin {"none", "closed"} /\ ~Broken(q) /\ pc'[q] = pc[q]
          BY <2>1, <2>3, <3>2 DEF Broken
        <4> QED BY <4>1 DEF Admissions
      <3> QED BY <3>1, <3>2
    <2>4. ASSUME NEW q \in Request, inChild'[q] # "none"
          PROVE  pc'[q] \in (Connected \ {"connecting"}) \cup {"leaving", "done"}
      <3>1. CASE q = r
        BY <2>1, <3>1 DEF Connected
      <3>2. CASE q # r
        <4>1. inChild[q] # "none" /\ pc'[q] = pc[q]
          BY <2>1, <2>4, <3>2
        <4> QED BY <4>1 DEF Admissions
      <3> QED BY <3>1, <3>2
    <2> QED BY <2>2, <2>3, <2>4 DEF Admissions
  <1>13. ASSUME NEW r \in Request, Child(r)
         PROVE  Admissions'
    <2>1. /\ UNCHANGED <<child, alive, address, pc>> /\ ~Broken(r) /\ inChild[r] # "none"
          /\ \A q \in Request \ {r} : inChild'[q] = inChild[q]
          /\ inChild'[r] # "none" /\ inChild[r] # "closed"
      BY <1>13 DEF Child, ChildAccepts, ChildReleases, ChildCloses
    <2>2. \A m \in Model : \A q \in occupied'[m] :
            (q # r /\ q \in occupied[m]) \/ (q = r /\ m = Wants[r] /\ inChild'[r] = "working")
      <3>1. CASE ChildAccepts(r)
        BY <3>1 DEF ChildAccepts, Admissions
      <3>2. CASE ChildReleases(r)
        BY <3>2 DEF ChildReleases, Admissions
      <3>3. CASE ChildCloses(r)
        BY <3>3 DEF ChildCloses, Admissions
      <3> QED BY <1>13, <3>1, <3>2, <3>3 DEF Child
    <2> QED BY <2>1, <2>2 DEF Admissions, Broken
  <1>14. ASSUME NEW r \in Request, Started(r)
         PROVE  Admissions'
    <2> DEFINE m == Wants[r]
    <2>1. /\ child[m] = 0 /\ child' = [child EXCEPT ![m] = starts[m]] /\ alive' = alive \cup {m}
          /\ UNCHANGED <<inChild, occupied>>
          /\ \A q \in Request \ {r} : pc'[q] = pc[q] /\ address'[q] = address[q]
          /\ inChild[r] = "none"
      BY <1>4, <1>14 DEF Started, ProxyInv, Core, OneStarts, Connected
    <2>2. \A q \in Request : Wants[q] = m => address[q] < starts[m]
      BY <1>14 DEF Started, ProxyInv, Addresses
    <2>3. m \notin alive /\ starts[m] \in Nat
      BY <2>1, ProxyAssumption DEF ProxyInv, Core, Typed, ProcessesTyped, Running
    <2>4. occupied[m] = {}
      BY <2>3 DEF Admissions, Broken
    <2>5. \A q \in Request \ {r} : Wants[q] = m => address'[q] # child'[m]
      BY <2>1, <2>2, <2>3
    <2> QED BY <2>1, <2>3, <2>4, <2>5 DEF Admissions, Broken
  <1> QED BY <1>5, <1>6, <1>7, <1>8, <1>9, <1>10, <1>11, <1>12, <1>13, <1>14
          DEF ProxyNext, Thread, Residency, MakeRoom, Forward


(***************************************************************************)
(* The memory budget.                                                      *)
(***************************************************************************)
LEMMA ModelsFinite ==
  /\ IsFiniteSet(Model) /\ Entries \in Seq(Model) /\ Range(Entries) = Model /\ Once(Entries)
  /\ Len(Entries) = Cardinality(Model)
  <1>1. Entries \in Seq(Model) /\ Range(Entries) = Model /\ DOMAIN Entries = 1 .. Len(Entries)
    BY ProxyAssumption, LenProperties DEF Model
  <1>2. Once(Entries)
    BY <1>1, ProxyAssumption DEF Once, IsInjective
  <1> QED BY <1>1, <1>2, OnceCounts

LEMMA LessMemory ==
  ASSUME NEW S \in SUBSET Model, NEW T \in SUBSET S
  PROVE  MemoryOf(T) \in Nat /\ MemoryOf(S) \in Nat /\ MemoryOf(T) <= MemoryOf(S)
  <1>1. IsFiniteSet(S) /\ IsFiniteSet(T) /\ \A m \in S : Memory[m] \in Nat
    BY ModelsFinite, FS_Subset, ProxyAssumption
  <1>2. MemoryOf(T) \in Nat /\ MemoryOf(S) \in Nat
    BY <1>1, SumNat DEF MemoryOf
  <1>3. MemoryOf(T) <= MemoryOf(S)
    BY <1>1, SumMonotone DEF MemoryOf
  <1> QED BY <1>2, <1>3

LEMMA OneMore ==
  ASSUME NEW S \in SUBSET Model, NEW m \in Model \ S
  PROVE  MemoryOf(S \cup {m}) = MemoryOf(S) + Memory[m]
  <1>1. IsFiniteSet(S) /\ Memory[m] \in Nat /\ \A n \in S : Memory[n] \in Int
    BY ModelsFinite, FS_Subset, ProxyAssumption
  <1>2. MemoryOf(S \cup {m}) = Memory[m] + MemoryOf(S)
    BY <1>1, SumAdd DEF MemoryOf
  <1> QED BY <1>1, <1>2, LessMemory

\* A step that only makes room
Clears ==
  /\ Running' \subseteq Running
  /\ \A q \in Request :
       /\ pc'[q] = "clearing" =>
            pc[q] = "clearing" /\ Running' \ Range(todo') \subseteq Running \ Range(todo)
       /\ pc'[q] = "starting" => pc[q] = "starting"

LEMMA ClearsKeepsRoom ==
  ASSUME RoomIsMade, Clears
  PROVE  RoomIsMade'
  <1>1. Running \in SUBSET Model /\ Running' \in SUBSET Running /\ Budget \in Nat
        /\ \A q \in Request : Memory[Wants[q]] \in Nat
    BY WantsModel, ProxyAssumption DEF Running, Clears
  <1>2. MemoryOf(Running') \in Nat /\ MemoryOf(Running) \in Nat /\ MemoryOf(Running') <= MemoryOf(Running)
    BY <1>1, LessMemory
  <1>3. MemoryOf(Running)' = MemoryOf(Running')
    BY DEF MemoryOf
  <1>4. MemoryOf(Running)' <= Budget
    <2>1. MemoryOf(Running) <= Budget
      BY DEF RoomIsMade
    <2> QED BY <1>1, <1>2, <1>3, <2>1
  <1>5. ASSUME NEW q \in Request, pc'[q] = "starting"
        PROVE  MemoryOf(Running)' + Memory[Wants[q]] <= Budget
    <2>1. MemoryOf(Running) + Memory[Wants[q]] <= Budget
      BY <1>5 DEF RoomIsMade, Clears
    <2> QED BY <1>1, <1>2, <1>3, <2>1
  <1>6. ASSUME NEW q \in Request, pc'[q] = "clearing"
        PROVE  MemoryOf(Running \ Range(todo))' + Memory[Wants[q]] <= Budget
    <2> DEFINE old == Running \ Range(todo)
               new == Running' \ Range(todo')
    <2>1. MemoryOf(old) + Memory[Wants[q]] <= Budget
      BY <1>6 DEF RoomIsMade, Clears
    <2>2. new \in SUBSET old /\ old \in SUBSET Model
      BY <1>1, <1>6 DEF Clears
    <2>3. MemoryOf(Running \ Range(todo))' = MemoryOf(new)
      BY DEF MemoryOf
    <2> HIDE DEF old, new
    <2>4. MemoryOf(new) \in Nat /\ MemoryOf(old) \in Nat /\ MemoryOf(new) <= MemoryOf(old)
      BY <2>2, LessMemory
    <2> QED BY <1>1, <2>1, <2>3, <2>4
  <1> QED BY <1>4, <1>5, <1>6 DEF RoomIsMade

(* Only LockResidency makes a thread clear, and only three steps touch     *)
(* what is left to clear.                                                  *)
LEMMA ClearingChanges ==
  ASSUME ProxyInv, ProxyNext
  PROVE  \/ \E r \in Request : LockResidency(r) \/ StopVictim(r) \/ VictimBecameBusy(r)
         \/ todo' = todo /\ \A q \in Request : pc'[q] = "clearing" => pc[q] = "clearing"
  <1> SUFFICES ASSUME \A r \in Request : ~LockResidency(r) /\ ~StopVictim(r) /\ ~VictimBecameBusy(r)
               PROVE  todo' = todo /\ \A q \in Request : pc'[q] = "clearing" => pc[q] = "clearing"
    OBVIOUS
  <1>1. ThreadsTyped
    BY DEF ProxyInv, Core, Typed
  <1> USE <1>1 DEF ThreadsTyped, Go, Answer, poolVars, threadVars
  <1>2. ASSUME NEW r \in Request, Route(r) \/ RouteFull(r) \/ Queue(r) \/ GiveBackPermit(r) \/ Leave(r)
        PROVE  todo' = todo /\ \A q \in Request : pc'[q] = "clearing" => pc[q] = "clearing"
    BY <1>2 DEF Route, RouteFull, Queue, Admit, RefuseQueued, GiveBackPermit, Leave
  <1>3. ASSUME NEW r \in Request, Acquire(r) \/ Recheck(r) \/ NoRoom(r)
                                   \/ StartChild(r) \/ Started(r) \/ StartFails(r)
        PROVE  todo' = todo /\ \A q \in Request : pc'[q] = "clearing" => pc[q] = "clearing"
    BY <1>3 DEF Acquire, Recheck, NoRoom, StartChild, Started, StartFails
  <1>4. ASSUME NEW r \in Request, Forward(r) \/ ClientLeaves(r)
        PROVE  todo' = todo /\ \A q \in Request : pc'[q] = "clearing" => pc[q] = "clearing"
    BY <1>4 DEF Forward, Connect, ConnectFails, Relayed, RelayFails, Cancelled, CancelFails,
         ClientLeaves
  <1>5. ASSUME (\E r \in Request : Child(r)) \/ (\E m \in Model : ChildDies(m))
        PROVE  todo' = todo /\ pc' = pc
    BY <1>5 DEF Child, ChildAccepts, ChildReleases, ChildCloses, ChildDies
  <1> QED BY <1>2, <1>3, <1>4, <1>5 DEF ProxyNext, Thread, Residency, MakeRoom


LEMMA RoomIsMadeStep ==
  ASSUME ProxyInv, ProxyNext
  PROVE  RoomIsMade'
  <1>1. /\ RoomIsMade /\ OneStarts /\ ThreadsTyped /\ RoomTyped /\ Budget \in Nat
        /\ child \in [Model -> 0 .. MaxStarts] /\ Running \in SUBSET Model
        /\ \A q \in Request : Wants[q] \in Model /\ Memory[Wants[q]] \in Nat
    BY WantsModel, ProxyAssumption DEF ProxyInv, Core, Typed, ProcessesTyped, Running
  <1>2. ASSUME Clears PROVE RoomIsMade'
    BY <1>1, <1>2, ClearsKeepsRoom
  <1>3. ASSUME NEW r \in Request, LockResidency(r)
        PROVE  RoomIsMade'
    <2> DEFINE m == Wants[r]
               gone == Range(Victims(m))
    <2>1. /\ child[m] = 0 /\ Enough(m) # {} /\ todo' = Victims(m) /\ residency = None
          /\ child' = child /\ pc' = [pc EXCEPT ![r] = "clearing"]
      BY <1>3 DEF LockResidency, Go
    <2>2. Running' = Running /\ Others(m) = Running
      BY <2>1 DEF Running, Others
    <2>3. /\ MemoryOf(Others(m)) - MemoryOf(gone) + Memory[m] <= Budget
          /\ gone \in SUBSET Running
      BY <1>1, <2>1, VictimsMakeRoom DEF Evictable, Running
    <2> HIDE DEF gone
    <2>4. MemoryOf(Running \ gone) = MemoryOf(Running) - MemoryOf(gone)
      <3>1. IsFiniteSet(Running) /\ \A n \in Running : Memory[n] \in Int
        BY <1>1, ModelsFinite, FS_Subset, ProxyAssumption
      <3> QED BY <2>3, <3>1, SumDifference DEF MemoryOf
    <2>5. MemoryOf(Others(m)) = MemoryOf(Running)
      BY ONLY <2>2, Zenon
    <2>6. MemoryOf(Running \ gone) + Memory[m] <= Budget
      BY <2>3, <2>4, <2>5
    <2>7. MemoryOf(Running \ Range(todo))' = MemoryOf(Running \ gone)
      <3>1. Running' \ Range(todo') = Running \ gone
        BY <2>1, <2>2 DEF gone
      <3>2. MemoryOf(Running \ Range(todo))' = MemoryOf(Running' \ Range(todo'))
        BY DEF MemoryOf
      <3>3. MemoryOf(Running' \ Range(todo')) = MemoryOf(Running \ gone)
        BY ONLY <3>1, Zenon
      <3> QED BY <3>2, <3>3
    <2>8. MemoryOf(Running)' = MemoryOf(Running)
      <3>1. MemoryOf(Running)' = MemoryOf(Running')
        BY DEF MemoryOf
      <3>2. MemoryOf(Running') = MemoryOf(Running)
        BY ONLY <2>2, Zenon
      <3> QED BY <3>1, <3>2
    <2>9. \A q \in Request : pc[q] \notin {"clearing", "starting"}
      BY <1>1, <2>1, ProxyAssumption DEF OneStarts
    <2>10. \A q \in Request : pc'[q] = "clearing" => q = r
      BY <2>1, <2>9
    <2>11. \A q \in Request : pc'[q] # "starting"
      BY <1>1, <2>1, <2>9 DEF ThreadsTyped
    <2> QED BY <1>1, <2>6, <2>7, <2>8, <2>10, <2>11 DEF RoomIsMade
  <1>4. ASSUME NEW r \in Request, StopVictim(r)
        PROVE  RoomIsMade'
    <2>1. /\ todo # <<>> /\ todo' = Tail(todo) /\ pc' = pc
          /\ child' = [child EXCEPT ![Head(todo)] = 0]
      BY <1>4 DEF StopVictim, Stop, threadVars
    <2>2. Range(todo) = Range(todo') \cup {Head(todo)} /\ Head(todo) \in Model
      BY <1>1, <2>1, HeadAndTail DEF RoomTyped
    <2>3. Running' = Running \ {Head(todo)}
      BY <1>1, <2>1, <2>2 DEF Running
    <2>4. Clears
      BY <2>1, <2>2, <2>3 DEF Clears
    <2> QED BY <1>2, <2>4
  <1>5. ASSUME NEW r \in Request, VictimBecameBusy(r)
        PROVE  RoomIsMade'
    <2>1. child' = child /\ pc[r] = "clearing" /\ pc' = [pc EXCEPT ![r] = "leaving"]
      BY <1>5 DEF VictimBecameBusy, Answer
    <2>2. \A q \in Request : pc'[q] \notin {"clearing", "starting"}
      BY <1>1, <2>1 DEF OneStarts, ThreadsTyped
    <2>3. Clears
      BY <2>1, <2>2 DEF Clears, Running
    <2> QED BY <1>2, <2>3
  <1>6. ASSUME NEW r \in Request, StartChild(r)
        PROVE  RoomIsMade'
    <2>1. /\ child' = child /\ todo' = todo /\ todo = <<>> /\ pc[r] = "clearing"
          /\ pc' = [pc EXCEPT ![r] = "starting"]
      BY <1>6 DEF StartChild, Go
    <2>2. Range(todo) = {} /\ Running \ Range(todo) = Running
      BY <2>1, EmptySeq DEF Range
    <2>3. MemoryOf(Running \ Range(todo)) = MemoryOf(Running)
      BY ONLY <2>2, Zenon
    <2>4. MemoryOf(Running) + Memory[Wants[r]] <= Budget
      BY <1>1, <2>1, <2>3 DEF RoomIsMade
    <2>5. MemoryOf(Running)' = MemoryOf(Running)
      <3>1. Running' = Running
        BY <2>1 DEF Running
      <3>2. MemoryOf(Running') = MemoryOf(Running)
        BY ONLY <3>1, Zenon
      <3> QED BY <3>2 DEF MemoryOf
    <2>6. \A q \in Request : pc'[q] # "clearing" /\ (pc'[q] = "starting" => q = r)
      BY <1>1, <2>1 DEF OneStarts, ThreadsTyped
    <2> QED BY <1>1, <2>4, <2>5, <2>6 DEF RoomIsMade
  <1>7. ASSUME NEW r \in Request, Started(r)
        PROVE  RoomIsMade'
    <2> DEFINE m == Wants[r]
    <2>1. /\ pc[r] = "starting" /\ pc' = [pc EXCEPT ![r] = "connecting"]
          /\ child' = [child EXCEPT ![m] = starts[m]]
      BY <1>7 DEF Started, Go
    <2>2. child[m] = 0 /\ \A q \in Request : pc'[q] \notin {"clearing", "starting"}
      BY <1>1, <2>1 DEF OneStarts, ThreadsTyped
    <2>3. Running' \subseteq Running \cup {m} /\ m \in Model \ Running
      BY <1>1, <2>1, <2>2 DEF Running
    <2> HIDE DEF m
    <2>4. MemoryOf(Running \cup {m}) = MemoryOf(Running) + Memory[m]
      BY <1>1, <2>3, OneMore
    <2>5. MemoryOf(Running \cup {m}) <= Budget
      BY <1>1, <2>1, <2>4 DEF RoomIsMade, m
    <2>6. /\ MemoryOf(Running') \in Nat /\ MemoryOf(Running \cup {m}) \in Nat
          /\ MemoryOf(Running') <= MemoryOf(Running \cup {m})
      <3>1. Running \cup {m} \in SUBSET Model /\ Running' \in SUBSET (Running \cup {m})
        BY <1>1, <2>3
      <3> QED BY <3>1, LessMemory
    <2>7. MemoryOf(Running)' = MemoryOf(Running')
      BY DEF MemoryOf
    <2>8. MemoryOf(Running)' <= Budget
      BY <1>1, <2>5, <2>6, <2>7
    <2> QED BY <2>2, <2>8 DEF RoomIsMade
  <1>8. ASSUME todo' = todo, \A q \in Request : pc'[q] = "clearing" => pc[q] = "clearing",
               Quiet \/ \E r \in Request : Acquire(r) \/ Recheck(r)
        PROVE  RoomIsMade'
    <2>1. /\ \A m \in Model : child'[m] \in {0, child[m]}
          /\ \A q \in Request : pc'[q] = "starting" => pc[q] = "starting"
      <3>1. CASE Quiet
        BY <3>1 DEF Quiet
      <3>2. ASSUME NEW r \in Request, Acquire(r) \/ Recheck(r)
            PROVE  child' = child /\ \A q \in Request : pc'[q] = "starting" => pc[q] = "starting"
        BY <1>1, <3>2 DEF Acquire, Recheck, poolVars, ThreadsTyped, Go
      <3> QED BY <1>8, <3>1, <3>2
    <2>2. Clears
      BY <1>8, <2>1 DEF Clears, Running
    <2> QED BY <1>2, <2>2
  <1> QED BY <1>3, <1>4, <1>5, <1>6, <1>7, <1>8, ClearingChanges, MostStepsAreQuiet

----------------------------------------------------------------------------
(* The theorems.                                                           *)

LEMMA ProxyInitial == ProxyInit => ProxyInv
  <1> SUFFICES ASSUME ProxyInit PROVE ProxyInv
    OBVIOUS
  <1>1. PICK up \in SUBSET Resident :
          child = [m \in Model |-> IF m \in up THEN 1 ELSE 0] /\ alive = up
    BY DEF ProxyInit
  <1>2. /\ MaxStarts \in Nat \ {0} /\ up \in SUBSET Model /\ starts = child /\ faulty = {}
        /\ Resident \in SUBSET Model /\ Running = up
    BY <1>1, ProxyAssumption DEF ProxyInit, Running
  <1>3. pc = [r \in Request |-> "start"] /\ answer = [r \in Request |-> None]
        /\ permit = [r \in Request |-> "asking"] /\ address = [r \in Request |-> 0]
        /\ inChild = [r \in Request |-> "none"] /\ occupied = [m \in Model |-> {}]
        /\ inFlight = [m \in Model |-> 0] /\ routed = 0 /\ residency = None /\ todo = <<>>
        /\ recent = Entries
    BY DEF ProxyInit, Permits!PermitInit
  <1>4. Counted = {} /\ \A m \in Model : CountedOf(m) = {} /\ Permits!Holders(m) = {}
    BY <1>3 DEF Counted, CountedOf, Permits!Holders
  <1>5. Counts
    <2>1. Cardinality({}) = 0
      BY FS_EmptySet
    <2> QED BY <1>3, <1>4, <2>1 DEF Counts
  <1>6. PermitsHeld
    <2>1. Cardinality({}) = 0 /\ \A m \in Model : Limit[m] \in Nat
      BY FS_EmptySet, ProxyAssumption DEF Limit
    <2>2. \A m \in Model : Cardinality(Permits!Holders(m)) <= Limit[m]
      <3>1. TAKE m \in Model
      <3>2. Cardinality(Permits!Holders(m)) = Cardinality({})
        BY <1>4, Zenon
      <3> QED BY <2>1, <3>2
    <2>3. \A r \in Request : pc[r] \notin Inside
      BY <1>3 DEF Inside, Connected
    <2> QED BY <2>2, <2>3 DEF PermitsHeld
  <1>7. Typed
    <2>1. ThreadsTyped /\ inFlight \in [Model -> Int]
      BY <1>3 DEF ThreadsTyped, Places, Permits!PermitStates
    <2>2. ProcessesTyped
      BY <1>1, <1>2 DEF ProcessesTyped
    <2>3. RoomTyped
      BY <1>3, EmptySeq DEF RoomTyped, Range
    <2>4. ConnectionsTyped
      BY <1>2, <1>3 DEF ConnectionsTyped
    <2> QED BY <2>1, <2>2, <2>3, <2>4 DEF Typed
  <1>8. Recency
    BY <1>3, ModelsFinite DEF Recency
  <1>9. OneStarts /\ Admissions
    BY <1>3 DEF OneStarts, Admissions
  <1>10. RoomIsMade
    <2>1. MemoryOf(Running) <= Budget
      <3>1. MemoryOf(up) \in Nat /\ MemoryOf(Resident) \in Nat /\ MemoryOf(up) <= MemoryOf(Resident)
        BY <1>2, LessMemory
      <3> QED BY <1>2, <3>1, BudgetAssumption, ProxyAssumption
    <2> QED BY <1>3, <2>1 DEF RoomIsMade
  <1>11. \A r \in Request :
           /\ Wants[r] \in Model /\ pc[r] = "start" /\ inChild[r] = "none" /\ address[r] = 0
           /\ answer[r] \notin Answers
    BY <1>3, ProxyAssumption
  <1>12. Addresses
    <2>1. \A m \in Model : starts[m] \in {0, 1}
      BY <1>1, <1>2
    <2>2. \A r \in Request : address[r] <= starts[Wants[r]]
      BY <1>11, <2>1
    <2> QED BY <1>11, <2>2 DEF Addresses, Connected, Answers
  <1>13. Faults
    <2>1. \A m \in Model : child[m] # 0 => m \in alive
      BY <1>1
    <2> QED BY <1>11, <2>1 DEF Faults, Connected, Answers
  <1> QED BY <1>5, <1>6, <1>7, <1>8, <1>9, <1>10, <1>12, <1>13 DEF ProxyInv, Core
(* A step that leaves every variable as it is keeps the invariant.         *)
LEMMA ProxyStutters == ProxyInv /\ UNCHANGED proxyVars => ProxyInv'
  <1> SUFFICES ASSUME ProxyInv, UNCHANGED proxyVars PROVE ProxyInv'
    OBVIOUS
  <1>1. /\ child' = child /\ alive' = alive /\ starts' = starts /\ faulty' = faulty
        /\ inFlight' = inFlight /\ routed' = routed /\ recent' = recent
        /\ residency' = residency /\ todo' = todo /\ permit' = permit /\ pc' = pc
        /\ answer' = answer /\ address' = address /\ inChild' = inChild /\ occupied' = occupied
    BY DEF proxyVars, poolVars, processVars, childVars, countVars, threadVars
  <1> USE <1>1
  <1>2. Running' = Running /\ Counted' = Counted /\ \A m \in Model : CountedOf(m)' = CountedOf(m)
    BY DEF Running, Counted, CountedOf
  <1>3. \A m : Permits!Holders(m)' = Permits!Holders(m) /\ HasFault(m)' = HasFault(m)
    BY DEF Permits!Holders, HasFault
  <1>4. \A r : Broken(r)' <=> Broken(r)
    BY DEF Broken
  <1>5. Typed'
    BY <1>2 DEF ProxyInv, Core, Typed, ThreadsTyped, ProcessesTyped, RoomTyped, ConnectionsTyped
  <1>6. Recency' /\ OneStarts'
    BY DEF ProxyInv, Core, Recency, OneStarts
  <1>7. Counts'
    BY <1>2 DEF ProxyInv, Core, Counts
  <1>8. PermitsHeld'
    BY <1>3 DEF ProxyInv, Core, PermitsHeld
  <1>9. RoomIsMade'
    BY <1>2 DEF ProxyInv, RoomIsMade, MemoryOf
  <1>10. Addresses'
    BY DEF ProxyInv, Addresses
  <1>11. Faults'
    BY <1>3, <1>4 DEF ProxyInv, Faults
  <1>12. Admissions'
    BY <1>4 DEF ProxyInv, Admissions
  <1> QED BY <1>5, <1>6, <1>7, <1>8, <1>9, <1>10, <1>11, <1>12 DEF ProxyInv, Core

THEOREM ProxyInvariant == ProxySpec => []ProxyInv
  <1>1. ProxyInv /\ [ProxyNext]_proxyVars => ProxyInv'
    <2>1. ASSUME ProxyInv, ProxyNext PROVE ProxyInv'
      BY <2>1, TypedStep, RecencyStep, CountsStep, PermitsHeldStep, OneStartsStep,
         RoomIsMadeStep, AddressesStep, FaultsStep, AdmissionsStep DEF ProxyInv, Core
    <2> QED BY <2>1, ProxyStutters
  <1> QED BY <1>1, ProxyInitial, PTL DEF ProxySpec

(* "To keep declared memory_mib within the budget": the processes that run *)
(* or are starting never need more than the budget together (make_room).   *)
THEOREM BudgetIsKept == ProxySpec => []WithinBudget
  <1>1. ProxyInv => WithinBudget
    <2> SUFFICES ASSUME ProxyInv PROVE WithinBudget
      OBVIOUS
    <2>1. ProxyTypeOK
      <3>1. Len(recent) = Cardinality(Model)
        BY OnceCounts DEF ProxyInv, Core, Recency
      <3>2. \A m \in Model : occupied[m] \subseteq {r \in Request : Wants[r] = m}
        BY DEF ProxyInv, Core, Typed, ConnectionsTyped, Admissions
      <3>3. routed = Cardinality(Counted) /\ \A m \in Model : inFlight[m] = Cardinality(CountedOf(m))
        BY DEF ProxyInv, Core, Counts
      <3> QED BY <3>1, <3>2, <3>3 DEF ProxyTypeOK, ProxyInv, Core, Typed, ThreadsTyped,
                ProcessesTyped, RoomTyped, ConnectionsTyped, Recency, Running, Counted, CountedOf
    <2> DEFINE coming == {Wants[r] : r \in {q \in Request : pc[q] = "starting"}}
    <2>2. RoomIsMade /\ OneStarts /\ Running \in SUBSET Model /\ \A r \in Request : Wants[r] \in Model
      BY WantsModel DEF ProxyInv, Core, Running
    <2>3. MemoryOf(Running \cup coming) <= Budget
      <3>1. CASE \A q \in Request : pc[q] # "starting"
        <4>1. Running \cup coming = Running
          BY <3>1
        <4> HIDE DEF coming
        <4> QED BY <4>1, <2>2 DEF RoomIsMade
      <3>2. ASSUME NEW q \in Request, pc[q] = "starting"
            PROVE  MemoryOf(Running \cup coming) <= Budget
        <4>1. coming = {Wants[q]} /\ Wants[q] \in Model \ Running
          BY <2>2, <3>2 DEF OneStarts, Running
        <4>2. MemoryOf(Running \cup {Wants[q]}) = MemoryOf(Running) + Memory[Wants[q]]
          BY <2>2, <4>1, OneMore
        <4>3. MemoryOf(Running) + Memory[Wants[q]] <= Budget
          BY <2>2, <3>2 DEF RoomIsMade
        <4> HIDE DEF coming
        <4> QED BY <4>1, <4>2, <4>3
      <3> QED BY <3>1, <3>2
    <2> QED BY <2>1, <2>3 DEF WithinBudget, Running
  <1> QED BY <1>1, ProxyInvariant, PTL

(* "A child that fails to start or dies makes only its model unavailable": *)
(* a request fails only if a process of its own model died or stalled.     *)
THEOREM FaultsStay == ProxySpec => []FaultsStayInTheirModel
  <1>1. ProxyInv => FaultsStayInTheirModel
    BY DEF ProxyInv, Faults, HasFault, FaultsStayInTheirModel
  <1> QED BY <1>1, ProxyInvariant, PTL

(* Once a process that has exited turned a request away, nobody is sent to *)
(* it any more (ChildModel::fail, Pool::acquire).                          *)
THEOREM DeadChildrenAreReplaced == ProxySpec => DeadChildIsReplaced
  <1> DEFINE Sent(r) == pc[r] # "connecting" /\ pc'[r] = "connecting"
             Elsewhere == \A r, s \in Request :
               (pc[r] # "connecting" /\ pc'[r] = "connecting"
                  /\ Wants[s] = Wants[r] /\ answer[s] = "unavailable") => address'[r] # address[s]
  <1>1. ProxyInv /\ [ProxyNext]_proxyVars => Elsewhere
    <2> SUFFICES ASSUME ProxyInv, [ProxyNext]_proxyVars,
                        NEW r \in Request, NEW s \in Request, Sent(r),
                        Wants[s] = Wants[r], answer[s] = "unavailable"
                 PROVE  address'[r] # address[s]
      OBVIOUS
    <2>1. /\ Wants[r] \in Model /\ ThreadsTyped /\ address \in [Request -> 0 .. MaxStarts]
          /\ address[s] # child[Wants[r]] /\ address[s] # 0 /\ address[s] \in Nat
          /\ pc[r] = "starting" => address[s] < starts[Wants[r]] /\ starts[Wants[r]] \in Nat
      BY WantsModel, ProxyAssumption
         DEF ProxyInv, Core, Typed, ProcessesTyped, ConnectionsTyped, Addresses
    <2>2. PICK q \in Request : Acquire(q) \/ Recheck(q) \/ Started(q)
      <3> SUFFICES ASSUME \A q \in Request : ~Acquire(q) /\ ~Recheck(q) /\ ~Started(q)
                   PROVE  FALSE
        OBVIOUS
      <3> USE <2>1 DEF ThreadsTyped, Go, Answer
      <3>1. pc' = pc => FALSE
        OBVIOUS
      <3>2. PICK q \in Request : Route(q) \/ RouteFull(q) \/ Thread(q) \/ ClientLeaves(q)
        BY <3>1 DEF ProxyNext, Child, ChildAccepts, ChildReleases, ChildCloses, ChildDies,
             proxyVars, threadVars
      <3>3. CASE Route(q) \/ RouteFull(q) \/ ClientLeaves(q) \/ Queue(q)
        BY <3>3 DEF Route, RouteFull, ClientLeaves, Queue, Admit, RefuseQueued
      <3>4. CASE Residency(q)
        BY <3>4, <3>1 DEF Residency, LockResidency, NoRoom, MakeRoom, StopVictim, VictimBecameBusy,
             StartChild, StartFails, threadVars
      <3>5. CASE Forward(q)
        BY <3>5, <3>1 DEF Forward, Connect, ConnectFails, Relayed, RelayFails, Cancelled, CancelFails
      <3>6. CASE GiveBackPermit(q) \/ Leave(q)
        BY <3>6, <3>1 DEF GiveBackPermit, Leave, threadVars
      <3> QED BY <3>2, <3>3, <3>4, <3>5, <3>6 DEF Thread
    <2>3. CASE Acquire(q) \/ Recheck(q)
      BY <2>1, <2>3 DEF Acquire, Recheck, ThreadsTyped, Go
    <2>4. CASE Started(q)
      <3>1. q = r
        BY <2>1, <2>4 DEF Started, ThreadsTyped, Go
      <3> QED BY <2>1, <2>4, <3>1 DEF Started
    <2> QED BY <2>2, <2>3, <2>4
  <1>2. Elsewhere => [Elsewhere]_proxyVars
    OBVIOUS
  <1> QED BY <1>1, <1>2, ProxyInvariant, PTL DEF ProxySpec, DeadChildIsReplaced


----------------------------------------------------------------------------
(* The child has room for what the queue lets through.                     *)

\* Each request is for a model whose requests run one at a time, or for one
\* with an engine, which it asks to generate.  The others are those for which
\* the queue and the child's admission disagree: see ServeProxyBusy.cfg.
QueueFitsChild ==
  \A r \in Request : Limit[Wants[r]] = 1 \/ (HasEngine(Wants[r]) /\ r \in Generates)

(* Whom a child has admitted holds a permit of the model, and so does the  *)
(* request that arrives: the queue's limit is a bound on both.             *)
LEMMA AdmittedHoldPermits ==
  ASSUME ProxyInv, NEW r \in Request, inChild[r] = "backlog", ~Broken(r)
  PROVE  /\ IsFiniteSet(occupied[Wants[r]])
         /\ Cardinality(occupied[Wants[r]]) + 1 <= Limit[Wants[r]]
  <1> DEFINE here == occupied[Wants[r]]
             holders == Permits!Holders(Wants[r])
  <1>1. here \in SUBSET Request /\ Wants[r] \in Model /\ IsFiniteSet(Request) /\ r \notin here
    BY ProxyAssumption DEF ProxyInv, Core, Typed, ConnectionsTyped, Admissions
  <1>2. \A q \in here \cup {r} : q \in Request /\ Wants[q] = Wants[r] /\ inChild[q] \notin {"none", "closed"} /\ ~Broken(q)
    BY <1>1 DEF ProxyInv, Admissions
  <1>3. \A q \in here \cup {r} : permit[q] = "held"
    BY <1>2 DEF ProxyInv, Core, PermitsHeld, Admissions, Inside
  <1>4. here \cup {r} \in SUBSET holders /\ holders \in SUBSET Request
    BY <1>2, <1>3 DEF Permits!Holders
  <1>5. Cardinality(holders) <= Limit[Wants[r]] /\ Limit[Wants[r]] \in Nat
    BY <1>1, ProxyAssumption DEF ProxyInv, Core, PermitsHeld, Limit
  <1> HIDE DEF here, holders
  <1>6. IsFiniteSet(here) /\ IsFiniteSet(holders)
    BY <1>1, <1>4, FS_Subset
  <1>7. Cardinality(here \cup {r}) = Cardinality(here) + 1 /\ Cardinality(here) \in Nat
    BY <1>1, <1>6, FS_AddElement, FS_CardinalityType
  <1>8. Cardinality(here \cup {r}) <= Cardinality(holders) /\ Cardinality(holders) \in Nat
    BY <1>4, <1>6, FS_Subset, FS_CardinalityType
  <1>9. Cardinality(here) + 1 <= Limit[Wants[r]]
    BY ONLY <1>5, <1>7, <1>8
  <1> QED BY <1>6, <1>9 DEF here

LEMMA RoomForTheQueue ==
  ASSUME QueueFitsChild, ProxyInv, NEW r \in Request, inChild[r] = "backlog", ~Broken(r)
  PROVE  HasRoom(r)
  <1> DEFINE here == occupied[Wants[r]]
  <1>1. /\ IsFiniteSet(here) /\ Cardinality(here) + 1 <= Limit[Wants[r]] /\ Wants[r] \in Model
        /\ MaxNumSeqs \in Nat \ {0} /\ (HasEngine(Wants[r]) => Limit[Wants[r]] = MaxNumSeqs)
    BY AdmittedHoldPermits, ProxyAssumption DEF HasEngine, Limit
  <1>2. Cardinality(here) \in Nat /\ Cardinality(here \cap Generates) \in Nat
        /\ Cardinality(here \cap Generates) <= Cardinality(here)
    <2> HIDE DEF here
    <2>1. IsFiniteSet(here \cap Generates) /\ Cardinality(here \cap Generates) <= Cardinality(here)
      BY <1>1, FS_Subset
    <2> QED BY <1>1, <2>1, FS_CardinalityType
  <1>3. CASE Limit[Wants[r]] = 1
    <2>1. Cardinality(here) = 0
      BY <1>1, <1>2, <1>3
    <2>2. here = {}
      <3> HIDE DEF here
      <3> QED BY <1>1, <2>1, FS_EmptySet
    <2> QED BY <1>1, <1>2, <2>1, <2>2 DEF HasRoom
  <1>4. CASE HasEngine(Wants[r]) /\ r \in Generates
    BY <1>1, <1>2, <1>4 DEF HasRoom
  <1> QED BY <1>3, <1>4 DEF QueueFitsChild

(* "A front process that admits its next request when this response ends   *)
(* never finds the model still busy" (run_job, release_child).             *)
THEOREM ChildIsNeverBusy ==
  ASSUME QueueFitsChild
  PROVE  ProxySpec => []NeverBusy
  <1>1. ProxyInit => NeverBusy
    BY DEF ProxyInit, NeverBusy
  <1>2. ProxyInv /\ NeverBusy /\ [ProxyNext]_proxyVars => NeverBusy'
    <2> SUFFICES ASSUME ProxyInv, NeverBusy, [ProxyNext]_proxyVars PROVE NeverBusy'
      OBVIOUS
    <2>1. inChild \in [Request -> {"none", "backlog", "working", "released", "busy", "closed"}]
      BY DEF ProxyInv, Core, Typed, ConnectionsTyped
    <2>2. ASSUME NEW r \in Request, ChildAccepts(r)
          PROVE  NeverBusy'
      <3>1. HasRoom(r)
        BY <2>2, RoomForTheQueue DEF ChildAccepts
      <3> QED BY <2>1, <2>2, <3>1 DEF ChildAccepts, NeverBusy
    <2>3. ASSUME NEW r \in Request, Connect(r) \/ ChildReleases(r) \/ ChildCloses(r)
          PROVE  NeverBusy'
      BY <2>1, <2>3 DEF Connect, ChildReleases, ChildCloses, NeverBusy
    <2>4. CASE inChild' = inChild
      BY <2>4 DEF NeverBusy
    <2>5. inChild' = inChild \/ \E r \in Request : ChildAccepts(r) \/ Connect(r)
                                                     \/ ChildReleases(r) \/ ChildCloses(r)
      BY DEF ProxyNext, Thread, Queue, Residency, MakeRoom, Forward, Child, childVars, proxyVars,
         Route, RouteFull, Admit, RefuseQueued, Acquire, Recheck, LockResidency, NoRoom, StopVictim,
         VictimBecameBusy, StartChild, Started, StartFails, ConnectFails, Relayed, RelayFails,
         ClientLeaves, Cancelled, CancelFails, GiveBackPermit, Leave, ChildDies
    <2> QED BY <2>2, <2>3, <2>4, <2>5
  <1> QED BY <1>1, <1>2, ProxyInvariant, PTL DEF ProxySpec

=============================================================================
