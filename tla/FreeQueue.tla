------------------------------ MODULE FreeQueue ------------------------------
(***************************************************************************)
(* The free queue as it is built (crates/core/engine/src/blocks/           *)
(* free_queue.rs): a doubly linked list whose links live in arrays indexed *)
(* by block, so that a prefix hit on a free cached block unlinks it        *)
(* wherever it stands.  Each operation is an operator on the queue record; *)
(* the actions call them as the block manager does.                        *)
(***************************************************************************)
EXTENDS Integers, Sequences, FiniteSets

CONSTANTS
  NumBlocks,
  NIL          \* a missing neighbour (u32::MAX, never a block)

ASSUME QueueAssumption == NumBlocks \in Nat \ {0} /\ NIL \notin 0 .. NumBlocks - 1

VARIABLES
  q,           \* [prev, next, queued, head, tail, len]
  call         \* the last call and what it took or was given, for FreeOrder

Blocks == 0 .. NumBlocks - 1

\* FreeQueue::push_back
PushBack(f, b) ==
  [prev   |-> [f.prev EXCEPT ![b] = f.tail],
   next   |-> [c \in Blocks |-> IF c = b THEN NIL ELSE IF c = f.tail THEN b ELSE f.next[c]],
   head   |-> IF f.tail = NIL THEN b ELSE f.head,
   tail   |-> b,
   queued |-> [f.queued EXCEPT ![b] = TRUE],
   len    |-> f.len + 1]

\* A mutated PushFront: it links at the back.
PushFrontBehind(f, b) == PushBack(f, b)

\* FreeQueue::push_front
PushFront(f, b) ==
  [prev   |-> [c \in Blocks |-> IF c = b THEN NIL ELSE IF c = f.head THEN b ELSE f.prev[c]],
   next   |-> [f.next EXCEPT ![b] = f.head],
   head   |-> b,
   tail   |-> IF f.head = NIL THEN b ELSE f.tail,
   queued |-> [f.queued EXCEPT ![b] = TRUE],
   len    |-> f.len + 1]

\* A mutated Unlink: the tail is not moved when the last block leaves.
UnlinkKeepingTail(f, b) ==
  LET before == f.prev[b]
      after  == f.next[b]
  IN  IF ~f.queued[b] THEN f ELSE
      [prev   |-> [c \in Blocks |-> IF c = b THEN NIL ELSE IF c = after THEN before ELSE f.prev[c]],
       next   |-> [c \in Blocks |-> IF c = b THEN NIL ELSE IF c = before THEN after ELSE f.next[c]],
       head   |-> IF before = NIL THEN after ELSE f.head,
       tail   |-> f.tail,
       queued |-> [f.queued EXCEPT ![b] = FALSE],
       len    |-> f.len - 1]

\* FreeQueue::remove
Unlink(f, b) ==
  LET before == f.prev[b]
      after  == f.next[b]
  IN  IF ~f.queued[b] THEN f ELSE
      [prev   |-> [c \in Blocks |-> IF c = b THEN NIL ELSE IF c = after THEN before ELSE f.prev[c]],
       next   |-> [c \in Blocks |-> IF c = b THEN NIL ELSE IF c = before THEN after ELSE f.next[c]],
       head   |-> IF before = NIL THEN after ELSE f.head,
       tail   |-> IF after = NIL THEN before ELSE f.tail,
       queued |-> [f.queued EXCEPT ![b] = FALSE],
       len    |-> f.len - 1]

\* FreeQueue::full: every block pushed back in index order.
Full ==
  [prev   |-> [b \in Blocks |-> IF b = 0 THEN NIL ELSE b - 1],
   next   |-> [b \in Blocks |-> IF b = NumBlocks - 1 THEN NIL ELSE b + 1],
   head   |-> 0,
   tail   |-> NumBlocks - 1,
   queued |-> [b \in Blocks |-> TRUE],
   len    |-> NumBlocks]

queueVars == <<q, call>>

QueueInit == q = Full /\ call = <<"full">>

\* The manager pushes only blocks that are not queued: release does so when
\* the last reference goes.
PushBackStep(b) == ~q.queued[b] /\ q' = PushBack(q, b) /\ call' = <<"push_back", b>>
PushFrontStep(b) == ~q.queued[b] /\ q' = PushFront(q, b) /\ call' = <<"push_front", b>>

\* FreeQueue::pop_front, by Pool::take_free
PopFrontStep == q.head # NIL /\ q' = Unlink(q, q.head) /\ call' = <<"pop_front", q.head>>

\* by Pool::add_ref, of a prefix hit; leaves a block alone that is not queued
RemoveStep(b) == q' = Unlink(q, b) /\ call' = <<"remove", b>>

QueueNext ==
  \/ PopFrontStep
  \/ \E b \in Blocks : PushBackStep(b) \/ PushFrontStep(b) \/ RemoveStep(b)

QueueSpec == QueueInit /\ [][QueueNext]_queueVars

----------------------------------------------------------------------------
(* Properties.                                                             *)

\* The block that k steps along `next` from the head reach.
Reached[k \in 0 .. NumBlocks] ==
  IF k = 0 THEN q.head ELSE IF Reached[k - 1] = NIL THEN NIL ELSE q.next[Reached[k - 1]]

\* The blocks that following `next` from the head reaches (iter); one too many
\* if the links make a ring.
Walk == [i \in 1 .. Cardinality({k \in 0 .. NumBlocks : Reached[k] # NIL}) |-> Reached[i - 1]]

\* Following `prev` from the tail gives the same blocks backwards, `queued`
\* marks exactly them and `len` counts them (check_invariants: "free queue
\* length disagrees with its links").
LinksAgree ==
  LET w == Walk
  IN  /\ Len(w) = q.len
      /\ {b \in Blocks : q.queued[b]} = {w[i] : i \in DOMAIN w}
      /\ q.tail = IF w = <<>> THEN NIL ELSE w[Len(w)]
      /\ \A i \in DOMAIN w : q.prev[w[i]] = IF i = 1 THEN NIL ELSE w[i - 1]

Abstract == INSTANCE FreeOrder WITH order <- Walk

\* Each call does to the list what its name says of a sequence: pushes link at
\* their own end, pop_front takes the front, remove keeps the others in order.
ImplementsOrder == Abstract!OrderSpec
=============================================================================
