----------------------------- MODULE BlockLedger -----------------------------
(***************************************************************************)
(* What the block pool promises, whatever the order of its free queue, the *)
(* block size and the tokens: an abstract specification that BlockManager  *)
(* implements (TLC checks the refinement, BlockLedgerProofs proves the     *)
(* invariants here for every pool and every set of sequences).             *)
(*                                                                         *)
(* A sequence holds a set of blocks.  At most one of them is open: the     *)
(* partial tail block, which the sequence's next token falls into.  The    *)
(* dirty ones have reserved positions that no forward has written yet.     *)
(***************************************************************************)
EXTENDS Integers, FiniteSets

CONSTANTS
  Block,        \* the pool's blocks
  SequenceId,   \* IDs a session may use
  Key,          \* prefix keys
  None          \* no key, no open block

ASSUME LedgerAssumption ==
  /\ IsFiniteSet(SequenceId)
  /\ None \notin Block
  /\ None \notin Key

VARIABLES
  live,    \* the live sequences
  holds,   \* blocks of each sequence's table
  open,    \* its partial tail block, or None
  dirty,   \* its blocks with reserved, unwritten positions
  refs,    \* reference count of each block
  key,     \* the key each block is published under, or None
  free     \* the blocks on the free queue

ledgerVars == <<live, holds, open, dirty, refs, key, free>>

TypeOK ==
  /\ live \subseteq SequenceId
  /\ holds \in [SequenceId -> SUBSET Block]
  /\ open \in [SequenceId -> Block \cup {None}]
  /\ dirty \in [SequenceId -> SUBSET Block]
  /\ refs \in [Block -> Nat]
  /\ key \in [Block -> Key \cup {None}]
  /\ free \in SUBSET Block

Init ==
  /\ live = {}
  /\ holds = [s \in SequenceId |-> {}]
  /\ open = [s \in SequenceId |-> None]
  /\ dirty = [s \in SequenceId |-> {}]
  /\ refs = [b \in Block |-> 0]
  /\ key = [b \in Block |-> None]
  /\ free = Block

\* Pool::take_free of every block of `taken`
Evict(taken) == [b \in Block |-> IF b \in taken THEN None ELSE key[b]]

\* admit: pin the hit, which is published, and take blocks for the chunk.
Admit(s, pinned, taken) ==
  /\ s \in SequenceId \ live
  /\ \A b \in pinned : key[b] # None
  /\ taken \subseteq free \ pinned
  /\ taken # {}
  /\ live' = live \cup {s}
  /\ holds' = [holds EXCEPT ![s] = pinned \cup taken]
  /\ \E tail \in taken \cup {None} : open' = [open EXCEPT ![s] = tail]
  /\ dirty' = [dirty EXCEPT ![s] = taken]
  /\ refs' = [b \in Block |-> IF b \in taken THEN 1
                              ELSE IF b \in pinned THEN refs[b] + 1 ELSE refs[b]]
  /\ key' = Evict(taken)
  /\ free' = free \ (pinned \cup taken)

\* Pool::needs_copy
NeedsCopy(s) == open[s] # None /\ refs[open[s]] > 1

\* allocate and allocate_unresolved that stay inside the open block: it must
\* be the sequence's own.
AppendInPlace(s) ==
  /\ s \in live
  /\ open[s] # None
  /\ ~NeedsCopy(s)
  /\ \E tail \in {open[s], None} : open' = [open EXCEPT ![s] = tail]
  /\ dirty' = [dirty EXCEPT ![s] = @ \cup {open[s]}]
  /\ UNCHANGED <<live, holds, refs, key, free>>

\* allocate and allocate_unresolved that take blocks, the first of which
\* replaces a shared open block (copy-on-write).
AppendTaking(s, taken) ==
  /\ s \in live
  /\ taken \subseteq free
  /\ taken # {}
  /\ LET left == IF NeedsCopy(s) THEN {open[s]} ELSE {}
     IN  /\ holds' = [holds EXCEPT ![s] = (@ \ left) \cup taken]
         /\ dirty' = [dirty EXCEPT ![s] =
                        @ \cup taken \cup ({open[s]} \ (left \cup {None}))]
         /\ refs' = [b \in Block |-> IF b \in taken THEN 1
                                     ELSE IF b \in left THEN refs[b] - 1 ELSE refs[b]]
  /\ \E tail \in taken \cup {None} : open' = [open EXCEPT ![s] = tail]
  /\ key' = Evict(taken)
  /\ free' = free \ taken
  /\ UNCHANGED live

\* The forward writes every reserved position.
Forward(s) ==
  /\ s \in live
  /\ dirty' = [dirty EXCEPT ![s] = {}]
  /\ UNCHANGED <<live, holds, open, refs, key, free>>

\* Mutated forms of Publish: no check that the key is published already; and
\* partial blocks are published too.
PublishTwice(s, new) ==
  /\ s \in live
  /\ DOMAIN new \subseteq {b \in holds[s] \ dirty[s] : key[b] = None /\ b # open[s]}
  /\ key' = [b \in Block |-> IF b \in DOMAIN new THEN new[b] ELSE key[b]]
  /\ UNCHANGED <<live, holds, open, dirty, refs, free>>
PublishPartial(s, new) ==
  /\ s \in live
  /\ DOMAIN new \subseteq {b \in holds[s] \ dirty[s] : key[b] = None}
  /\ \A b \in DOMAIN new : new[b] \in Key /\ \A c \in Block : key[c] # new[b]
  /\ \A b, c \in DOMAIN new : new[b] = new[c] => b = c
  /\ key' = [b \in Block |-> IF b \in DOMAIN new THEN new[b] ELSE key[b]]
  /\ UNCHANGED <<live, holds, open, dirty, refs, free>>

\* commit_through: full, written, unpublished blocks get keys no block has.
Publish(s, new) ==
  /\ s \in live
  /\ DOMAIN new \subseteq {b \in holds[s] \ dirty[s] : key[b] = None /\ b # open[s]}
  /\ \A b \in DOMAIN new : new[b] \in Key /\ \A c \in Block : key[c] # new[b]
  /\ \A b, c \in DOMAIN new : new[b] = new[c] => b = c
  /\ key' = [b \in Block |-> IF b \in DOMAIN new THEN new[b] ELSE key[b]]
  /\ UNCHANGED <<live, holds, open, dirty, refs, free>>

\* Mutated forms of Fork: the child's references are not counted; and a
\* parent with unwritten positions is forked.
ForkUncounted(parent, child) ==
  /\ parent \in live
  /\ child \in SequenceId \ live
  /\ dirty[parent] = {}
  /\ live' = live \cup {child}
  /\ holds' = [holds EXCEPT ![child] = holds[parent]]
  /\ open' = [open EXCEPT ![child] = open[parent]]
  /\ UNCHANGED <<dirty, refs, key, free>>
ForkUnwritten(parent, child) ==
  /\ parent \in live
  /\ child \in SequenceId \ live
  /\ live' = live \cup {child}
  /\ holds' = [holds EXCEPT ![child] = holds[parent]]
  /\ open' = [open EXCEPT ![child] = open[parent]]
  /\ refs' = [b \in Block |-> IF b \in holds[parent] THEN refs[b] + 1 ELSE refs[b]]
  /\ UNCHANGED <<dirty, key, free>>

\* fork: the parent has nothing unwritten.
Fork(parent, child) ==
  /\ parent \in live
  /\ child \in SequenceId \ live
  /\ dirty[parent] = {}
  /\ live' = live \cup {child}
  /\ holds' = [holds EXCEPT ![child] = holds[parent]]
  /\ open' = [open EXCEPT ![child] = open[parent]]
  /\ refs' = [b \in Block |-> IF b \in holds[parent] THEN refs[b] + 1 ELSE refs[b]]
  /\ UNCHANGED <<dirty, key, free>>

\* A mutated Free: blocks nobody holds any more are not queued.
FreeLeaking(s) ==
  /\ s \in live
  /\ live' = live \ {s}
  /\ holds' = [holds EXCEPT ![s] = {}]
  /\ open' = [open EXCEPT ![s] = None]
  /\ dirty' = [dirty EXCEPT ![s] = {}]
  /\ refs' = [b \in Block |-> IF b \in holds[s] THEN refs[b] - 1 ELSE refs[b]]
  /\ UNCHANGED <<key, free>>

\* free
Free(s) ==
  /\ s \in live
  /\ live' = live \ {s}
  /\ holds' = [holds EXCEPT ![s] = {}]
  /\ open' = [open EXCEPT ![s] = None]
  /\ dirty' = [dirty EXCEPT ![s] = {}]
  /\ refs' = [b \in Block |-> IF b \in holds[s] THEN refs[b] - 1 ELSE refs[b]]
  /\ free' = free \cup {b \in holds[s] : refs[b] = 1}
  /\ UNCHANGED key

Next ==
  \E s \in SequenceId :
    \/ \E pinned, taken \in SUBSET Block : Admit(s, pinned, taken)
    \/ AppendInPlace(s)
    \/ \E taken \in SUBSET Block : AppendTaking(s, taken)
    \/ Forward(s)
    \/ \E full \in SUBSET Block : \E new \in [full -> Key] : Publish(s, new)
    \/ \E child \in SequenceId : Fork(s, child)
    \/ Free(s)

LedgerSpec == Init /\ [][Next]_ledgerVars

----------------------------------------------------------------------------
(* Properties.                                                             *)

Holders(b) == {s \in SequenceId : b \in holds[s]}

\* Reference counts are exact and the free queue holds exactly the blocks
\* nobody references, so no block leaks and none is handed out twice.
CountsExact ==
  \A b \in Block : /\ refs[b] = Cardinality(Holders(b))
                   /\ b \in free <=> refs[b] = 0

\* A block with positions still to be written belongs to one sequence and is
\* not published: a forward never writes what another sequence, or a later
\* prefix hit, can read.
DirtyIsPrivate ==
  \A s \in live : \A b \in dirty[s] : Holders(b) = {s} /\ key[b] = None

\* No key is published under two blocks: a key has one block to hit.
KeysUnique ==
  \A b, c \in Block : key[b] # None /\ key[b] = key[c] => b = c

----------------------------------------------------------------------------
(* The strengthening that makes the properties inductive.                  *)

\* A dead sequence holds nothing; open and dirty blocks are held.
Shape ==
  \A s \in SequenceId :
    /\ s \notin live => holds[s] = {} /\ open[s] = None /\ dirty[s] = {}
    /\ open[s] # None => open[s] \in holds[s]
    /\ dirty[s] \subseteq holds[s]

\* A partial block is never published, and whoever shares it has it as its
\* own partial tail: nobody sees it as full.
OpenIsPartial ==
  \A s \in SequenceId : open[s] # None =>
    /\ key[open[s]] = None
    /\ \A t \in SequenceId : open[s] \in holds[t] => open[t] = open[s]

LedgerInv ==
  TypeOK /\ Shape /\ CountsExact /\ OpenIsPartial /\ DirtyIsPrivate /\ KeysUnique
=============================================================================
