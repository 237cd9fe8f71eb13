----------------------------- MODULE ServeProxy -----------------------------
(***************************************************************************)
(* The front process of mx serve and the child processes it starts         *)
(* (crates/app/cli/src/serve_proxy.rs), with as much of a child's acceptor *)
(* and worker as its admission needs (crates/app/cli/src/serving.rs).      *)
(*                                                                         *)
(* One thread accepts and routes requests; each routed request has a       *)
(* forward thread that waits for a permit of its model (ModelPermits),     *)
(* finds or starts the model's child under the residency lock, connects,   *)
(* relays, and gives everything back.  Starting a child may first stop     *)
(* idle ones to stay within the memory budget.  A child may die at any     *)
(* moment, and may be slow enough for the front to give up on it.  A step  *)
(* is what a thread does under one lock, or one system call.               *)
(*                                                                         *)
(* Processes of a model are numbered in the order they start: a number     *)
(* stands for the address the child announced.                             *)
(***************************************************************************)
EXTENDS Integers, Sequences, FiniteSets, FiniteSetsExt, Functions, Lines

CONSTANTS
  Entries,       \* the registry, a sequence of models
  Request,
  Wants,         \* [Request -> model]
  Generates,     \* requests for generation (the others decide, embed, ...)
  Memory,        \* [model -> memory_mib]
  Budget,        \* --memory-budget-mib
  Resident,      \* models with Residency::Resident
  Generating,    \* models whose kind generates
  Batched,       \* models whose worker has an engine_seed
  MaxNumSeqs,    \* --max-num-seqs
  MaxInFlight,   \* MAX_IN_FLIGHT
  MayLeave,      \* requests whose client may close its connection
  MayDie,        \* models whose process may exit by itself
  MayStall,      \* models slow enough to miss a deadline
  MayNotStart,   \* models whose process may fail to start
  MaxStarts,     \* bound: processes per model
  None

Model == Range(Entries)

Answers == {"full", "refused", "no room", "not started", "unavailable",
            "served", "gone", "failed"}

ASSUME ProxyAssumption ==
  /\ Entries \in Seq(Model) /\ IsInjective(Entries)
  /\ IsFiniteSet(Request) /\ Wants \in [Request -> Model]
  /\ Memory \in [Model -> Nat] /\ Budget \in Nat
  /\ MaxNumSeqs \in Nat \ {0} /\ MaxInFlight \in Nat \ {0} /\ MaxStarts \in Nat \ {0}
  /\ None \notin Request \cup Answers
  /\ Resident \subseteq Model /\ Batched \subseteq Generating /\ Generating \subseteq Model

MemoryOf(models) == SumFunctionOnSet(Memory, models)

\* serve_registry::check_budget, without which the front does not start
ASSUME BudgetAssumption ==
  /\ \A m \in Model : Memory[m] <= Budget
  /\ MemoryOf(Resident) <= Budget

\* ServedEntry::queue: only generating models run several requests at once.
Limit == [m \in Model |-> IF m \in Generating THEN MaxNumSeqs ELSE 1]

\* EngineLimits::batches, and a worker that can page its state
HasEngine(m) == m \in Batched /\ MaxNumSeqs > 1

VARIABLES
  child,      \* ChildModel::state: the number of the Running process, 0 if Stopped
  alive,      \* models whose Running process has not exited
  starts,     \* processes started so far, per model
  faulty,     \* history: processes that exited by themselves or stalled
  inFlight,   \* ChildModel::in_flight
  routed,     \* proxy_models: in_flight
  recent,     \* ChildModel::last_used, as the models from least to most recent
  residency,  \* the thread that holds Pool::residency, or None
  todo,       \* make_room: the victims its thread has still to stop
  permit,     \* see ModelPermits
  pc,         \* where each forward thread is
  answer,     \* what its client was told, or None
  address,    \* the process its thread connects to
  inChild,    \* its connection, as the child sees it
  occupied    \* Admission and EngineAdmission: who the child has admitted

processVars == <<starts, faulty>>
poolVars == <<child, alive, processVars, recent, residency, todo>>
childVars == <<inChild, occupied>>
countVars == <<inFlight, routed>>
threadVars == <<pc, answer>>
proxyVars == <<poolVars, childVars, countVars, permit, threadVars, address>>

Permits == INSTANCE ModelPermits

Places == {"start", "queued", "acquiring", "locking", "clearing", "starting",
           "connecting", "relaying", "cancelling gone", "cancelling failed"}
            \cup {"leaving", "done"}

\* serve_inner: resident children start together; one that fails to start
\* leaves its model stopped.
ProxyInit ==
  /\ \E up \in SUBSET Resident :
       /\ Resident \ up \subseteq MayNotStart
       /\ child = [m \in Model |-> IF m \in up THEN 1 ELSE 0]
       /\ alive = up
  /\ starts = child /\ faulty = {}
  /\ inFlight = [m \in Model |-> 0]
  /\ routed = 0
  /\ recent = Entries
  /\ residency = None
  /\ todo = <<>>
  /\ Permits!PermitInit
  /\ pc = [r \in Request |-> "start"]
  /\ answer = [r \in Request |-> None]
  /\ address = [r \in Request |-> 0]
  /\ inChild = [r \in Request |-> "none"]
  /\ occupied = [m \in Model |-> {}]

Go(r, place) == pc' = [pc EXCEPT ![r] = place] /\ UNCHANGED answer

\* The request is answered and the thread's locals are dropped: what is left is
\* to give back the permit and the counts.
Answer(r, a) ==
  /\ pc' = [pc EXCEPT ![r] = "leaving"]
  /\ answer' = [answer EXCEPT ![r] = a]

\* The process this thread connected to has exited or was stopped.
Process(r) == <<Wants[r], address[r]>>
Broken(r) == child[Wants[r]] # address[r] \/ Wants[r] \notin alive

----------------------------------------------------------------------------
(* Routing and the queue.                                                  *)

\* proxy_models: both counts are taken before the forward thread runs
Route(r) ==
  /\ pc[r] = "start"
  /\ routed < MaxInFlight
  /\ routed' = routed + 1
  /\ inFlight' = [inFlight EXCEPT ![Wants[r]] = @ + 1]
  /\ Go(r, "queued")
  /\ UNCHANGED <<poolVars, childVars, permit, address>>

RouteFull(r) ==
  /\ pc[r] = "start"
  /\ routed >= MaxInFlight
  /\ pc' = [pc EXCEPT ![r] = "done"]
  /\ answer' = [answer EXCEPT ![r] = "full"]
  /\ UNCHANGED <<poolVars, childVars, countVars, permit, address>>

Admit(r) ==
  /\ pc[r] = "queued"
  /\ Permits!Grant(r)
  /\ Go(r, "acquiring")
  /\ UNCHANGED <<poolVars, childVars, countVars, address>>

RefuseQueued(r) ==
  /\ pc[r] = "queued"
  /\ Permits!Refuse(r)
  /\ Answer(r, "refused")
  /\ UNCHANGED <<poolVars, childVars, countVars, address>>

----------------------------------------------------------------------------
(* Pool::acquire.                                                          *)

Touched(m) == Append(Keep(recent, Model \ {m}), m)

\* The address of a running child, or the residency lock
Acquire(r) ==
  LET m == Wants[r]
  IN  /\ pc[r] = "acquiring"
      /\ recent' = Touched(m)
      /\ IF child[m] # 0
         THEN address' = [address EXCEPT ![r] = child[m]] /\ Go(r, "connecting")
         ELSE UNCHANGED address /\ Go(r, "locking")
      /\ UNCHANGED <<child, alive, processVars, residency, todo, childVars, countVars, permit>>

\* The check is made again with the lock: another thread may have started it.
Recheck(r) ==
  LET m == Wants[r]
  IN  /\ pc[r] = "locking" /\ residency = None
      /\ child[m] # 0
      /\ address' = [address EXCEPT ![r] = child[m]]
      /\ Go(r, "connecting")
      /\ UNCHANGED <<poolVars, childVars, countVars, permit>>

\* Slot::evictable, in make_room's snapshot
Evictable(m) == child[m] # 0 /\ m \notin Resident /\ inFlight[m] = 0

Others(m) == {n \in Model \ {m} : child[n] # 0}

\* victims: what the n least recently used candidates free
Candidates(m) == Keep(recent, {n \in Model \ {m} : Evictable(n)})
FitsWithout(m, n) ==
  MemoryOf(Others(m)) - MemoryOf(Range(SubSeq(Candidates(m), 1, n))) + Memory[m] <= Budget
Enough(m) == {n \in 0 .. Len(Candidates(m)) : FitsWithout(m, n)}

\* A mutated Victims: the target's own memory is not counted.
VictimsForOthers(m) ==
  SubSeq(Candidates(m), 1,
         Min({n \in 0 .. Len(Candidates(m)) :
                MemoryOf(Others(m)) - MemoryOf(Range(SubSeq(Candidates(m), 1, n))) <= Budget}))

Victims(m) == SubSeq(Candidates(m), 1, Min(Enough(m)))

LockResidency(r) ==
  LET m == Wants[r]
  IN  /\ pc[r] = "locking" /\ residency = None
      /\ child[m] = 0
      /\ Enough(m) # {}
      /\ residency' = r
      /\ todo' = Victims(m)
      /\ Go(r, "clearing")
      /\ UNCHANGED <<child, alive, processVars, recent, childVars, countVars, permit, address>>

\* "the memory budget is held by resident or busy models"
NoRoom(r) ==
  LET m == Wants[r]
  IN  /\ pc[r] = "locking" /\ residency = None
      /\ child[m] = 0
      /\ Enough(m) = {}
      /\ Answer(r, "no room")
      /\ UNCHANGED <<poolVars, childVars, countVars, permit, address>>

\* ChildState::Stopped, of a process that is killed and waited for
Stop(m) ==
  /\ child' = [child EXCEPT ![m] = 0]
  /\ alive' = alive \ {m}
  /\ occupied' = [occupied EXCEPT ![m] = {}]

\* A mutated StopVictim: the count is not looked at again.
StopSnapshotVictim(r) ==
  /\ pc[r] = "clearing" /\ todo # <<>>
  /\ Stop(Head(todo))
  /\ todo' = Tail(todo)
  /\ UNCHANGED <<processVars, recent, residency, inChild, countVars, permit, threadVars, address>>

\* stop_if_idle on the next victim
StopVictim(r) ==
  /\ pc[r] = "clearing" /\ todo # <<>>
  /\ inFlight[Head(todo)] = 0
  /\ Stop(Head(todo))
  /\ todo' = Tail(todo)
  /\ UNCHANGED <<processVars, recent, residency, inChild, countVars, permit, threadVars, address>>

\* "became busy while making room"; the victims before it stay stopped.
VictimBecameBusy(r) ==
  /\ pc[r] = "clearing" /\ todo # <<>>
  /\ inFlight[Head(todo)] # 0
  /\ residency' = None
  /\ todo' = <<>>
  /\ Answer(r, "no room")
  /\ UNCHANGED <<child, alive, processVars, recent, childVars, countVars, permit, address>>

\* start_child: from here on the process takes its memory.
StartChild(r) ==
  /\ pc[r] = "clearing" /\ todo = <<>>
  /\ starts[Wants[r]] < MaxStarts
  /\ starts' = [starts EXCEPT ![Wants[r]] = @ + 1]
  /\ Go(r, "starting")
  /\ UNCHANGED <<child, alive, faulty, recent, residency, todo, childVars, countVars, permit, address>>

\* wait_for_child: the child announced its address
Started(r) ==
  LET m == Wants[r]
  IN  /\ pc[r] = "starting"
      /\ child' = [child EXCEPT ![m] = starts[m]]
      /\ alive' = alive \cup {m}
      /\ address' = [address EXCEPT ![r] = starts[m]]
      /\ residency' = None
      /\ Go(r, "connecting")
      /\ UNCHANGED <<processVars, recent, todo, childVars, countVars, permit>>

\* It exited, or did not listen within START_TIMEOUT and was killed; at the
\* bound of the instance, every start fails.
StartFails(r) ==
  LET m == Wants[r]
  IN  /\ \/ pc[r] = "starting" /\ m \in MayNotStart
         \/ pc[r] = "clearing" /\ todo = <<>> /\ starts[m] = MaxStarts
      /\ residency' = None
      /\ Answer(r, "not started")
      /\ UNCHANGED <<child, alive, processVars, recent, todo, childVars, countVars, permit, address>>

----------------------------------------------------------------------------
(* forward, once it has an address.                                        *)

Connect(r) ==
  /\ pc[r] = "connecting"
  /\ ~Broken(r)
  /\ inChild' = [inChild EXCEPT ![r] = "backlog"]
  /\ Go(r, "relaying")
  /\ UNCHANGED <<poolVars, occupied, countVars, permit, address>>

\* A mutated Fail: the process is killed and still listed as Running.
FailStillRunning(r) ==
  /\ alive' = alive \ {Wants[r]}
  /\ occupied' = [occupied EXCEPT ![Wants[r]] = {}]
  /\ UNCHANGED child

\* ChildModel::fail: stops whichever process the model has now
Fail(r) == Stop(Wants[r])

\* The connection was refused, or broke before the request was written.
ConnectFails(r) ==
  /\ \/ pc[r] = "connecting"
     \/ pc[r] = "relaying" /\ inChild[r] = "backlog"
  /\ Broken(r)
  /\ Fail(r)
  /\ Answer(r, "unavailable")
  /\ UNCHANGED <<processVars, recent, residency, todo, inChild, countVars, permit, address>>

\* relay ends at the end of the child's stream, which is also what the exit
\* of a child looks like once it has sent its response head
Relayed(r) ==
  /\ pc[r] = "relaying"
  /\ inChild[r] = "closed" \/ (Broken(r) /\ inChild[r] # "backlog")
  /\ Answer(r, "served")
  /\ UNCHANGED <<poolVars, childVars, countVars, permit, address>>

ClientLeaves(r) ==
  /\ pc[r] = "relaying" /\ r \in MayLeave
  /\ Go(r, "cancelling gone")
  /\ UNCHANGED <<poolVars, childVars, countVars, permit, address>>

\* A RelayFailure: the stream broke, or the response deadline passed
RelayFails(r) ==
  /\ pc[r] = "relaying"
  /\ \/ Broken(r) /\ UNCHANGED faulty
     \/ Wants[r] \in MayStall /\ faulty' = faulty \cup {Process(r)}
  /\ Go(r, "cancelling failed")
  /\ UNCHANGED <<child, alive, starts, recent, residency, todo, childVars, countVars, permit, address>>

Cancelling(r) == pc[r] \in {"cancelling gone", "cancelling failed"}
Outcome(r) == IF pc[r] = "cancelling gone" THEN "gone" ELSE "failed"

\* A mutated Cancelled: the permit is given back at once.
CancelledAtOnce(r) ==
  /\ Cancelling(r)
  /\ Answer(r, Outcome(r))
  /\ UNCHANGED <<poolVars, childVars, countVars, permit, address>>

\* release_child: the child closed its side (or its exit did)
Cancelled(r) ==
  /\ Cancelling(r)
  /\ inChild[r] = "closed" \/ Broken(r)
  /\ Answer(r, Outcome(r))
  /\ UNCHANGED <<poolVars, childVars, countVars, permit, address>>

\* A mutated CancelFails: the drain has no deadline.
CancelFailsBroken(r) ==
  /\ Cancelling(r)
  /\ Broken(r)
  /\ Fail(r)
  /\ Answer(r, Outcome(r))
  /\ UNCHANGED <<processVars, recent, residency, todo, inChild, countVars, permit, address>>

\* The drain deadline passed, or the broken socket reports an error.
CancelFails(r) ==
  /\ Cancelling(r)
  /\ \/ Broken(r) /\ UNCHANGED faulty
     \/ /\ Wants[r] \in MayStall /\ inChild[r] # "closed"
        /\ faulty' = faulty \cup {Process(r)}
  /\ Fail(r)
  /\ Answer(r, Outcome(r))
  /\ UNCHANGED <<starts, recent, residency, todo, inChild, countVars, permit, address>>

\* drop(admitted)
GiveBackPermit(r) ==
  /\ pc[r] = "leaving"
  /\ Permits!GiveBack(r)
  /\ UNCHANGED <<poolVars, childVars, countVars, threadVars, address>>

\* A mutated Leave: the model's own count is left as it is.
LeaveCounted(r) ==
  /\ pc[r] = "leaving"
  /\ permit[r] \in {"returned", "refused"}
  /\ routed' = routed - 1
  /\ Go(r, "done")
  /\ UNCHANGED <<poolVars, childVars, inFlight, permit, address>>

\* the thread's end in proxy_models
Leave(r) ==
  /\ pc[r] = "leaving"
  /\ permit[r] \in {"returned", "refused"}
  /\ inFlight' = [inFlight EXCEPT ![Wants[r]] = @ - 1]
  /\ routed' = routed - 1
  /\ Go(r, "done")
  /\ UNCHANGED <<poolVars, childVars, permit, address>>

----------------------------------------------------------------------------
(* The child's side (serving.rs).                                          *)

\* Admission::try_acquire for a serial model and for the non-generation work
\* of a batched one; EngineAdmission::reserve for a generation, up to
\* EngineLimits::capacity.
HasRoom(r) ==
  LET here == occupied[Wants[r]]
  IN  IF ~HasEngine(Wants[r])
      THEN here = {}
      ELSE IF r \in Generates
           THEN Cardinality(here \cap Generates) < 2 * MaxNumSeqs
           ELSE here \ Generates = {}

\* serve_models: one acceptor, which answers 503 "server_busy" or hands the
\* request to the worker, the engine or a writer
ChildAccepts(r) ==
  /\ inChild[r] = "backlog" /\ ~Broken(r)
  /\ IF HasRoom(r)
     THEN /\ occupied' = [occupied EXCEPT ![Wants[r]] = @ \cup {r}]
          /\ inChild' = [inChild EXCEPT ![r] = "working"]
     ELSE /\ inChild' = [inChild EXCEPT ![r] = "busy"]
          /\ UNCHANGED occupied
  /\ UNCHANGED <<poolVars, countVars, permit, threadVars, address>>

\* A mutated ChildReleases: the socket closes before the admission is dropped.
ChildClosesFirst(r) ==
  /\ ~Broken(r)
  /\ \/ /\ inChild[r] = "working"
        /\ inChild' = [inChild EXCEPT ![r] = "closed"]
        /\ UNCHANGED occupied
     \/ /\ inChild[r] = "closed" /\ r \in occupied[Wants[r]]
        /\ occupied' = [occupied EXCEPT ![Wants[r]] = @ \ {r}]
        /\ UNCHANGED inChild
  /\ UNCHANGED <<poolVars, countVars, permit, threadVars, address>>

\* run_job and the engine's writers: the admission is dropped
ChildReleases(r) ==
  /\ inChild[r] = "working" /\ ~Broken(r)
  /\ occupied' = [occupied EXCEPT ![Wants[r]] = @ \ {r}]
  /\ inChild' = [inChild EXCEPT ![r] = "released"]
  /\ UNCHANGED <<poolVars, countVars, permit, threadVars, address>>

\* ... before the socket is closed
ChildCloses(r) ==
  /\ inChild[r] \in {"released", "busy"} /\ ~Broken(r)
  /\ inChild' = [inChild EXCEPT ![r] = "closed"]
  /\ UNCHANGED <<poolVars, occupied, countVars, permit, threadVars, address>>

\* The process exits: its worker ended (serve_models returns), or it crashed.
ChildDies(m) ==
  /\ m \in MayDie \cap alive
  /\ alive' = alive \ {m}
  /\ occupied' = [occupied EXCEPT ![m] = {}]
  /\ faulty' = faulty \cup {<<m, child[m]>>}
  /\ UNCHANGED <<child, starts, recent, residency, todo, inChild, countVars, permit, threadVars, address>>

----------------------------------------------------------------------------
Queue(r) == Admit(r) \/ RefuseQueued(r)
MakeRoom(r) == StopVictim(r) \/ VictimBecameBusy(r)
Residency(r) == Recheck(r) \/ LockResidency(r) \/ NoRoom(r) \/ MakeRoom(r)
                  \/ StartChild(r) \/ Started(r) \/ StartFails(r)
Forward(r) == Connect(r) \/ ConnectFails(r) \/ Relayed(r) \/ RelayFails(r)
                \/ Cancelled(r) \/ CancelFails(r)
Child(r) == ChildAccepts(r) \/ ChildReleases(r) \/ ChildCloses(r)

Thread(r) == Queue(r) \/ Acquire(r) \/ Residency(r) \/ Forward(r)
               \/ GiveBackPermit(r) \/ Leave(r)

ProxyNext ==
  \/ \E r \in Request : Route(r) \/ RouteFull(r) \/ Thread(r) \/ ClientLeaves(r) \/ Child(r)
  \/ \E m \in Model : ChildDies(m)

ProxySpec == ProxyInit /\ [][ProxyNext]_proxyVars

\* A forward thread keeps running: what it waits for ends by itself or at a
\* deadline (the queue wait, START_TIMEOUT, the response deadline, the drain),
\* and the residency lock is held by such a thread.  A child that cannot stall
\* finishes what it accepted.
ProxyFairness ==
  \A r \in Request :
    /\ WF_proxyVars(Thread(r))
    /\ Wants[r] \notin MayStall => WF_proxyVars(Child(r))

ProxyFairSpec == ProxySpec /\ ProxyFairness

----------------------------------------------------------------------------
(* Properties.                                                             *)

\* Every variable has its type, and the two counts are those of the requests
\* between their routing and their end, so neither drifts (proxy_models).
ProxyTypeOK ==
  /\ child \in [Model -> 0 .. MaxStarts] /\ starts \in [Model -> 0 .. MaxStarts]
  /\ alive \subseteq {m \in Model : child[m] # 0}
  /\ recent \in Seq(Model) /\ Len(recent) = Cardinality(Model)
  /\ faulty \subseteq Model \X (1 .. MaxStarts)
  /\ residency \in Request \cup {None} /\ Range(todo) \subseteq Model \ Resident
  /\ pc \in [Request -> Places] /\ answer \in [Request -> Answers \cup {None}]
  /\ address \in [Request -> 0 .. MaxStarts]
  /\ inChild \in [Request -> {"none", "backlog", "working", "released", "busy", "closed"}]
  /\ \A m \in Model : occupied[m] \subseteq {r \in Request : Wants[r] = m}
  /\ LET counted == {r \in Request : pc[r] # "start" /\ pc[r] # "done"}
     IN  /\ routed = Cardinality(counted)
         /\ \A m \in Model : inFlight[m] = Cardinality({r \in counted : Wants[r] = m})

\* "to keep declared memory_mib within the budget": the processes that run or
\* are being started never need more than the budget together, whatever dies,
\* fails or is routed while a thread makes room.
WithinBudget ==
  /\ ProxyTypeOK
  /\ MemoryOf({m \in Model : child[m] # 0} \cup {Wants[r] : r \in {q \in Request : pc[q] = "starting"}})
       <= Budget

\* "A child that fails to start or dies makes only its model unavailable": a
\* request is failed only if a process of its own model exited by itself or
\* stalled, never because its child is evicted for another model around the
\* same time ("Counted before the forward thread runs, so the child cannot be
\* stopped under it").
FaultsStayInTheirModel ==
  \A r \in Request : answer[r] \in {"unavailable", "failed"} =>
    \E n \in 1 .. MaxStarts : <<Wants[r], n>> \in faulty

\* "so a front process that admits its next request when this response ends
\* never finds the model still busy" (run_job), also after a cancelled forward
\* (release_child): the child admits what the front's queue admitted.
NeverBusy == \A r \in Request : inChild[r] # "busy"

\* "... until a later request starts it again": once a process that has exited
\* turned a request away, nobody is sent to it any more.
DeadChildIsReplaced ==
  [][\A r, s \in Request :
       (pc[r] # "connecting" /\ pc'[r] = "connecting"
          /\ Wants[s] = Wants[r] /\ answer[s] = "unavailable") => address'[r] # address[s]]_proxyVars

\* "Stops a child that failed a request" (ChildModel::fail): a process is
\* stopped while it is idle and on demand, or by a request that was sent to it.
OnlyItsRequestsStopIt ==
  [][\A m \in Model : child[m] # 0 /\ child'[m] = 0 =>
       \/ inFlight[m] = 0 /\ m \notin Resident
       \/ \E r \in Request : Wants[r] = m /\ address[r] = child[m] /\ pc'[r] # pc[r]]_proxyVars

\* Every routed request is answered and its thread ends, although threads wait
\* for permits, for the residency lock while another starts a child, and for
\* children that die or stall.
EveryForwardEnds ==
  \A r \in Request : pc[r] = "queued" ~> pc[r] = "done"
=============================================================================
