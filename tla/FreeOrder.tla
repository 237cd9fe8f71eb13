------------------------------ MODULE FreeOrder ------------------------------
(***************************************************************************)
(* What the free queue promises (crates/core/engine/src/blocks/            *)
(* free_queue.rs): blocks in eviction order, the front taken first, and    *)
(* any block removable.  BlockPool keeps its free queue in this form.      *)
(***************************************************************************)
EXTENDS Integers, Sequences, Functions, Lines

CONSTANT NumBlocks

VARIABLES
  order,   \* the free blocks, front first
  call     \* the last call and what it took or was given

vars == <<order, call>>

Blocks == 0 .. NumBlocks - 1

Init == order = [i \in 1 .. NumBlocks |-> i - 1] /\ call = <<"full">>

PushBack(b) ==
  /\ call' = <<"push_back", b>>
  /\ b \in Blocks \ Range(order)
  /\ order' = Append(order, b)

PushFront(b) ==
  /\ call' = <<"push_front", b>>
  /\ b \in Blocks \ Range(order)
  /\ order' = <<b>> \o order

PopFront ==
  /\ call'[1] = "pop_front"
  /\ order # <<>>
  /\ order' = Tail(order)
  /\ call' = <<"pop_front", Head(order)>>

Unlink(b) ==
  /\ call' = <<"remove", b>>
  /\ order' = Keep(order, Blocks \ {b})

Next == PopFront \/ \E b \in Blocks : PushBack(b) \/ PushFront(b) \/ Unlink(b)

OrderSpec == Init /\ [][Next]_vars
=============================================================================
