--------------------------- MODULE AdmissionQueue ---------------------------
(***************************************************************************)
(* Per-model FIFO admission in the front process                           *)
(* (crates/app/cli/src/admission_queue.rs).  Each request has a thread     *)
(* that calls ModelQueue::admit, runs, and drops its Admitted.  A step is  *)
(* what a thread does under the queue lock or between two holds of it, so  *)
(* other threads act between a wakeup, the probe of the client, and the    *)
(* next look at the queue.  Tickets are the requests; metrics and the      *)
(* retry hint, which decide nothing, are left out.                         *)
(***************************************************************************)
EXTENDS Integers, Sequences, FiniteSets, SequencesExt

CONSTANTS
  Request,
  Depth,        \* QueueSettings::depth
  MaxRunning,   \* QueueSettings::max_running
  MayLeave      \* requests whose client may close its connection

ASSUME QueueAssumption ==
  /\ IsFiniteSet(Request)
  /\ Depth \in Nat /\ MaxRunning \in Nat \ {0} /\ MayLeave \subseteq Request

VARIABLES
  waiting,   \* Scheduler::waiting, tickets in arrival order
  running,   \* Scheduler::running
  pc,        \* where each thread is
  notified,  \* parked threads the condition variable has woken
  late,      \* waiting requests past their wait deadline
  left       \* waiting requests whose client is gone

vars == <<waiting, running, pc, notified, late, left>>

\* A thread is at "start" (before admit), "parked" (in wait_timeout), "back"
\* (woken, client still there, wants the lock), "leaving" (woken, client
\* gone), "running", "notifying ..." (lock released, notify_all next) or finished:
\* "done", "full", "expired", "gone".
Refusals == {"full", "expired", "gone"}

Init ==
  /\ waiting = <<>>
  /\ running = 0
  /\ pc = [r \in Request |-> "start"]
  /\ notified = {}
  /\ late = {}
  /\ left = {}

Parked == {r \in Request : pc[r] = "parked"}

\* admit returns: its deadline and its probe are no more.
Return(r, place) ==
  /\ pc' = [pc EXCEPT ![r] = place]
  /\ late' = late \ {r}
  /\ left' = left \ {r}

----------------------------------------------------------------------------
\* A mutated CanStartNow: a newcomer passes those who wait.
CanStartNowAnyway == running < MaxRunning

\* Scheduler::start_now, by a new request
CanStartNow == waiting = <<>> /\ running < MaxRunning

StartNow(r) ==
  /\ pc[r] = "start"
  /\ CanStartNow
  /\ running' = running + 1
  /\ pc' = [pc EXCEPT ![r] = "running"]
  /\ UNCHANGED <<waiting, notified, late, left>>

\* Scheduler::enqueue, then the first round of admit's loop: the newcomer is
\* not first, or no slot is free, so it parks (with a wait of zero it expires
\* at once; here it does so when it has woken).
Enqueue(r) ==
  /\ pc[r] = "start"
  /\ ~CanStartNow
  /\ Len(waiting) < Depth
  /\ waiting' = Append(waiting, r)
  /\ pc' = [pc EXCEPT ![r] = "parked"]
  /\ UNCHANGED <<running, notified, late, left>>

RefuseFull(r) ==
  /\ pc[r] = "start"
  /\ ~CanStartNow
  /\ Len(waiting) >= Depth
  /\ pc' = [pc EXCEPT ![r] = "full"]
  /\ UNCHANGED <<waiting, running, notified, late, left>>

\* wait_timeout returns, notified or after PROBE_INTERVAL, and the client is
\* probed outside the lock.
Wake(r) ==
  /\ pc[r] = "parked"
  /\ pc' = [pc EXCEPT ![r] = IF r \in left THEN "leaving" ELSE "back"]
  /\ notified' = notified \ {r}
  /\ UNCHANGED <<waiting, running, late, left>>

\* Scheduler::try_start
CanStart(r) == waiting # <<>> /\ Head(waiting) = r /\ running < MaxRunning

TryStart(r) ==
  /\ pc[r] = "back"
  /\ CanStart(r)
  /\ waiting' = Tail(waiting)
  /\ running' = running + 1
  /\ Return(r, "running")
  /\ UNCHANGED notified

\* A mutated Park: the deadline is not looked at.
ParkAgain(r) ==
  /\ pc[r] = "back"
  /\ ~CanStart(r)
  /\ pc' = [pc EXCEPT ![r] = "parked"]
  /\ UNCHANGED <<waiting, running, notified, late, left>>

Park(r) ==
  /\ pc[r] = "back"
  /\ ~CanStart(r)
  /\ r \notin late
  /\ pc' = [pc EXCEPT ![r] = "parked"]
  /\ UNCHANGED <<waiting, running, notified, late, left>>

\* What Scheduler::cancel retains: the line without r's ticket, which is in it
\* once.
Place(r) == CHOOSE i \in DOMAIN waiting : waiting[i] = r
Without(r) == RemoveAt(waiting, Place(r))

\* Scheduler::cancel, with notify_all to come once the lock is released.
Expire(r) ==
  /\ pc[r] = "back"
  /\ ~CanStart(r)
  /\ r \in late
  /\ waiting' = Without(r)
  /\ Return(r, "notifying expired")
  /\ UNCHANGED <<running, notified>>

\* Mutated forms of Leave: nobody is told; and the ticket stays in line.
LeaveQuietly(r) ==
  /\ pc[r] = "leaving"
  /\ waiting' = Without(r)
  /\ Return(r, "gone")
  /\ UNCHANGED <<running, notified>>
LeaveInLine(r) ==
  /\ pc[r] = "leaving"
  /\ Return(r, "notifying gone")
  /\ UNCHANGED <<waiting, running, notified>>

Leave(r) ==
  /\ pc[r] = "leaving"
  /\ waiting' = Without(r)
  /\ Return(r, "notifying gone")
  /\ UNCHANGED <<running, notified>>

\* A mutated Finish: the slot is given back twice.
FinishTwice(r) ==
  /\ pc[r] = "running"
  /\ running' = running - 2
  /\ pc' = [pc EXCEPT ![r] = "notifying done"]
  /\ UNCHANGED <<waiting, notified, late, left>>

\* Admitted::drop: Scheduler::finish, and notify_all after it
Finish(r) ==
  /\ pc[r] = "running"
  /\ running' = running - 1
  /\ pc' = [pc EXCEPT ![r] = "notifying done"]
  /\ UNCHANGED <<waiting, notified, late, left>>

After == [x \in {"notifying expired", "notifying gone", "notifying done"} |->
            CASE x = "notifying expired" -> "expired"
              [] x = "notifying gone" -> "gone"
              [] x = "notifying done" -> "done"]

NotifyAll(r) ==
  /\ pc[r] \in DOMAIN After
  /\ notified' = Parked
  /\ pc' = [pc EXCEPT ![r] = After[@]]
  /\ UNCHANGED <<waiting, running, late, left>>

----------------------------------------------------------------------------
(* The clock and the clients.                                              *)

Deadline(r) ==
  /\ r \in Range(waiting) \ late
  /\ late' = late \cup {r}
  /\ UNCHANGED <<waiting, running, pc, notified, left>>

Disconnect(r) ==
  /\ r \in (MayLeave \cap Range(waiting)) \ left
  /\ left' = left \cup {r}
  /\ UNCHANGED <<waiting, running, pc, notified, late>>

Arrive(r) == StartNow(r) \/ Enqueue(r) \/ RefuseFull(r)
Back(r) == TryStart(r) \/ Park(r) \/ Expire(r) \/ Leave(r)

Next ==
  \E r \in Request :
    Arrive(r) \/ Wake(r) \/ Back(r) \/ Finish(r) \/ NotifyAll(r)
      \/ Deadline(r) \/ Disconnect(r)

Spec == Init /\ [][Next]_vars

\* A thread that waits wakes at the latest after the probe interval, gets the
\* lock again, and time passes.  Nothing says that a running request ends.
FairSpec ==
  Spec /\ \A r \in Request :
            WF_vars(Wake(r)) /\ WF_vars(Back(r)) /\ WF_vars(NotifyAll(r)) /\ WF_vars(Deadline(r))

----------------------------------------------------------------------------
(* Properties.                                                             *)

TypeOK ==
  /\ waiting \in Seq(Request)
  /\ running \in 0 .. MaxRunning
  /\ pc \in [Request -> {"start", "parked", "back", "leaving", "running", "done"}
                          \cup Refusals \cup DOMAIN After]
  /\ notified \subseteq Request /\ late \subseteq Request /\ left \subseteq MayLeave

\* The running count is the number of requests that hold an Admitted, and the
\* line holds each waiting thread once: no slot leaks and none is lent twice,
\* in whatever order threads time out, leave and finish.
SlotsExact ==
  /\ running = Cardinality({r \in Request : pc[r] = "running"})
  /\ Range(waiting) = {r \in Request : pc[r] \in {"parked", "back", "leaving"}}
  /\ Len(waiting) = Cardinality(Range(waiting))
  /\ Len(waiting) <= Depth

\* First come, first served: whoever starts leaves nobody waiting that was in
\* line before it.
NoOvertaking ==
  [][\A r, s \in Request :
       (pc[r] # "running" /\ pc'[r] = "running" /\ s \in Range(waiting) \ {r}) =>
         \E i, j \in DOMAIN waiting : i < j /\ waiting[i] = r /\ waiting[j] = s]_vars

\* No lost wakeup: while nothing runs, the first in line has been woken, or a
\* thread is about to wake it.  (Beside a running request a free slot may stay
\* idle: try_start wakes nobody, so the next in line, woken before it was the
\* first and parked again, takes the slot when its probe interval ends.)
FirstIsWoken ==
  running = 0 /\ waiting # <<>> =>
    \/ pc[Head(waiting)] # "parked"
    \/ Head(waiting) \in notified
    \/ \E r \in Request : pc[r] \in DOMAIN After

\* The queue's slots and its line are what its threads hold and wait in, and
\* with nothing running its head is awake.
LineIsSound == TypeOK /\ SlotsExact /\ FirstIsWoken

\* Everyone who waits is started or refused, even if what runs never ends.
WaitersAnswered ==
  \A r \in Request : pc[r] = "parked" ~> pc[r] \in {"running", "done"} \cup Refusals

\* The queue keeps the promise the front's forward threads are built on
\* (ModelPermits): an Admitted is handed to at most max_running requests at a
\* time, and to a request at most once.
Permits ==
  INSTANCE ModelPermits WITH
    Wants <- [r \in Request |-> 1],
    Limit <- <<MaxRunning>>,
    permit <- [r \in Request |->
                 CASE pc[r] \in {"start", "parked", "back", "leaving"} -> "asking"
                   [] pc[r] = "running" -> "held"
                   [] pc[r] \in {"notifying done", "done"} -> "returned"
                   [] OTHER -> "refused"]
ImplementsPermits == Permits!PermitSpec
=============================================================================
