---------------------------- MODULE ModelPermits ----------------------------
(***************************************************************************)
(* What a request's forward thread is promised by the queue of its model   *)
(* (ModelQueue::admit and the Admitted it returns): at most Limit[m]       *)
(* requests hold a permit of model m, and a request is granted one at most *)
(* once.  AdmissionQueue implements this; ServeProxy is built on it.       *)
(***************************************************************************)
EXTENDS Naturals, FiniteSets

CONSTANTS
  Request,
  Wants,    \* [Request -> model]
  Limit     \* [model -> QueueSettings::max_running]

VARIABLE permit

PermitStates == {"asking", "held", "returned", "refused"}

PermitInit == permit = [r \in Request |-> "asking"]

Holders(m) == {r \in Request : Wants[r] = m /\ permit[r] = "held"}

\* admit returns an Admitted
Grant(r) ==
  /\ permit[r] = "asking"
  /\ Cardinality(Holders(Wants[r])) < Limit[Wants[r]]
  /\ permit' = [permit EXCEPT ![r] = "held"]

\* admit returns a Refused: the queue was full, the deadline passed or the
\* client left
Refuse(r) ==
  /\ permit[r] = "asking"
  /\ permit' = [permit EXCEPT ![r] = "refused"]

\* Admitted::drop
GiveBack(r) ==
  /\ permit[r] = "held"
  /\ permit' = [permit EXCEPT ![r] = "returned"]

PermitNext == \E r \in Request : Grant(r) \/ Refuse(r) \/ GiveBack(r)

PermitSpec == PermitInit /\ [][PermitNext]_permit
=============================================================================
