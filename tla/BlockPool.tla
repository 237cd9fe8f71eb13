------------------------------ MODULE BlockPool ------------------------------
(***************************************************************************)
(* The host-side accounting of the paged KV pool, as operators on the      *)
(* state of one block manager (crates/core/engine/src/blocks/manager.rs).  *)
(*                                                                         *)
(* A manager is a record m:                                                *)
(*   m.sequences     HashMap<SequenceId, Sequence>: a function on the IDs  *)
(*                   of the live sequences                                 *)
(*   m.ref_counts    references per block                                  *)
(*   m.block_hashes  the prefix key a block is published under, or None    *)
(*   m.free          the free queue, front first                           *)
(*   m.cached        HashMap<BlockHash, BlockId>                           *)
(* The metric counters (KvCounters, published_tokens) are left out: no     *)
(* decision of the manager reads them.                                     *)
(*                                                                         *)
(* Every operation checks all its errors before it mutates, and an error   *)
(* leaves the manager unchanged, so an operation is a guard (CanAdmit ...) *)
(* and a successor (Admit ...).  The loops over a block table or over the  *)
(* new full blocks are written in closed form: a table never holds a block *)
(* twice and the keys of a chain are distinct, so the iterations do not    *)
(* see each other's effects.                                               *)
(***************************************************************************)
EXTENDS Integers, Sequences, SequencesExt, Functions, Lines

CONSTANTS
  NumBlocks,      \* blocks in the pool
  BlockTokens,    \* positions per block (block_tokens)
  PrefixCaching,  \* PoolConfig::prefix_caching
  None            \* Option::None

ASSUME PoolAssumption ==
  /\ NumBlocks \in Nat \ {0}
  /\ BlockTokens \in Nat \ {0}
  /\ PrefixCaching \in BOOLEAN

BlockId == 0 .. NumBlocks - 1

\* usize::div_ceil by block_tokens
DivCeil(n) == (n + BlockTokens - 1) \div BlockTokens

\* The i-th run of block_tokens tokens (slice::chunks_exact).
Chunk(tokens, i) == SubSeq(tokens, (i - 1) * BlockTokens + 1, i * BlockTokens)

----------------------------------------------------------------------------
(* Prefix keys.  SHA-256 over an unambiguous encoding is taken to be       *)
(* injective, so a key is the list of what was hashed, block by block.     *)

\* A mutated HashInput: no block takes the salt.
HashInputUnsalted(first, tokens, keys) ==
  [salt |-> None, extras |-> keys.extras, tokens |-> tokens]

\* What one call of hash_block adds to its parent's key.  Only the block at
\* token 0 takes the salt; the extra keys enter every block.
HashInput(first, tokens, keys) ==
  [salt   |-> IF first THEN keys.salt ELSE None,
   extras |-> keys.extras,
   tokens |-> tokens]

\* The key of the n-th full block of `tokens` after `parent` (<<>> for none).
HashBlocks(parent, tokens, keys, n) ==
  parent \o [i \in 1 .. n |->
               HashInput(parent = <<>> /\ i = 1, Chunk(tokens, i), keys)]

----------------------------------------------------------------------------
(* A new manager and its views.                                            *)

\* BlockManager::new
NewManager ==
  [sequences    |-> [s \in {} |-> None],
   ref_counts   |-> [b \in BlockId |-> 0],
   block_hashes |-> [b \in BlockId |-> None],
   free         |-> [i \in 1 .. NumBlocks |-> i - 1],
   cached       |-> [h \in {} |-> None]]

Live(m) == DOMAIN m.sequences

\* The slot of the p-th token (1-based): its block and its offset.
SlotBlock(q, p) == q.table[(p - 1) \div BlockTokens + 1]
SlotOffset(p) == (p - 1) % BlockTokens

\* BlockManager::chunk_end
ChunkEnd(start, len, budget) ==
  LET end == start + budget
      aligned == (end \div BlockTokens) * BlockTokens
  IN  IF end >= len THEN len ELSE IF aligned > start THEN aligned ELSE start

----------------------------------------------------------------------------
(* Prefix lookups.                                                         *)

\* BlockManager::lookup_prefix: the longest run of cached full blocks, never
\* reaching the last prompt token.
LookupPrefix(m, prompt, keys) ==
  LET max_blocks == IF PrefixCaching THEN (Len(prompt) - 1) \div BlockTokens ELSE 0
      Key(i) == HashBlocks(<<>>, prompt, keys, i)
      run == CHOOSE n \in 0 .. max_blocks :
               /\ \A i \in 1 .. n : Key(i) \in DOMAIN m.cached
               /\ n = max_blocks \/ Key(n + 1) \notin DOMAIN m.cached
  IN  [keys          |-> keys,
       hashes        |-> [i \in 1 .. run |-> Key(i)],
       blocks        |-> [i \in 1 .. run |-> m.cached[Key(i)]],
       cached_tokens |-> run * BlockTokens,
       prompt        |-> prompt]

\* A mutated ValidHit: a hit is trusted, however old.
ValidHitAlways(m, hit) == TRUE

\* BlockManager::validate_hit (a hit of another pool is not modelled: there
\* is one manager)
ValidHit(m, hit) ==
  \A i \in DOMAIN hit.blocks :
    /\ m.block_hashes[hit.blocks[i]] = hit.hashes[i]
    /\ hit.hashes[i] \in DOMAIN m.cached
    /\ m.cached[hit.hashes[i]] = hit.blocks[i]

\* BlockManager::admit_cost
AdmitCost(m, hit, chunk_tokens) ==
  LET pinned_free == {i \in DOMAIN hit.blocks : m.ref_counts[hit.blocks[i]] = 0}
  IN  Cardinality(pinned_free) + DivCeil(hit.cached_tokens + chunk_tokens)
        - Len(hit.blocks)

----------------------------------------------------------------------------
(* Pool primitives.                                                        *)

\* A mutated NeedsCopy: appends write into a shared tail.
NeedsCopyNever(m, q) == FALSE

\* Pool::needs_copy: the next token lands in a partial block someone shares.
NeedsCopy(m, q) ==
  /\ q.scheduled % BlockTokens # 0
  /\ q.table # <<>>
  /\ m.ref_counts[Last(q.table)] > 1

\* Pool::cost
Cost(m, q, tokens) ==
  IF tokens = 0 THEN 0
  ELSE DivCeil(q.scheduled + tokens) - Len(q.table)
         + (IF NeedsCopy(m, q) THEN 1 ELSE 0)

\* A mutated TakeFree: the evicted key stays in the prefix map.
TakeFreeKeepingMap(m, n) ==
  LET taken == Range(SubSeq(m.free, 1, n))
  IN  [m EXCEPT
        !.free = SubSeq(@, n + 1, Len(@)),
        !.ref_counts = [b \in BlockId |-> IF b \in taken THEN 1 ELSE @[b]],
        !.block_hashes = [b \in BlockId |-> IF b \in taken THEN None ELSE @[b]]]

\* Pool::take_free, n times: the front n blocks leave the queue, lose their
\* keys and have one reference.
TakeFree(m, n) ==
  LET taken == Range(SubSeq(m.free, 1, n))
  IN  [m EXCEPT
        !.free = SubSeq(@, n + 1, Len(@)),
        !.ref_counts = [b \in BlockId |-> IF b \in taken THEN 1 ELSE @[b]],
        !.block_hashes = [b \in BlockId |-> IF b \in taken THEN None ELSE @[b]],
        !.cached = Restrict(@, DOMAIN @ \ {m.block_hashes[b] : b \in taken})]

\* Pool::add_ref for every block of a table
AddRefs(m, table) ==
  LET blocks == Range(table)
  IN  [m EXCEPT
        !.ref_counts = [b \in BlockId |-> IF b \in blocks THEN @[b] + 1 ELSE @[b]],
        !.free = Keep(@, BlockId \ blocks)]

\* Mutated forms of ReleaseAll: blocks others still hold are queued too; and
\* every unused block goes to the back.
ReleaseAllUnchecked(m, table) ==
  LET blocks == Range(table)
  IN  [m EXCEPT
        !.ref_counts = [b \in BlockId |-> IF b \in blocks THEN @[b] - 1 ELSE @[b]],
        !.free = @ \o table]
ReleaseAllToBack(m, table) ==
  LET blocks == Range(table)
  IN  [m EXCEPT
        !.ref_counts = [b \in BlockId |-> IF b \in blocks THEN @[b] - 1 ELSE @[b]],
        !.free = @ \o Keep(table, {b \in blocks : m.ref_counts[b] = 1})]

\* Pool::release for every block of a table, in order: a block nobody holds
\* any more goes to the back of the queue if it is cached, else to the front.
ReleaseAll(m, table) ==
  LET blocks  == Range(table)
      unused  == {b \in blocks : m.ref_counts[b] = 1}
      keyed   == Keep(table, {b \in unused : m.block_hashes[b] # None})
      unkeyed == Keep(table, {b \in unused : m.block_hashes[b] = None})
  IN  [m EXCEPT
        !.ref_counts = [b \in BlockId |-> IF b \in blocks THEN @[b] - 1 ELSE @[b]],
        !.free = Reverse(unkeyed) \o @ \o keyed]

\* HashMap::insert and HashMap::remove on m.sequences
PutSequence(m, s, q) ==
  [m EXCEPT !.sequences = [t \in DOMAIN @ \cup {s} |-> IF t = s THEN q ELSE @[t]]]
DropSequence(m, s) ==
  [m EXCEPT !.sequences = Restrict(@, DOMAIN @ \ {s})]

\* Pool::reserve: copy-on-write of a shared partial tail, then new blocks.
\* The copied block keeps a reference, so it never reaches the free queue.
Reserve(m, s, q, count) ==
  LET n     == Cost(m, q, count)
      copy  == count > 0 /\ NeedsCopy(m, q)
      taken == SubSeq(m.free, 1, n)
      m1    == TakeFree(m, n)
      m2    == IF copy THEN ReleaseAll(m1, <<Last(q.table)>>) ELSE m1
      kept  == IF copy THEN Front(q.table) ELSE q.table
  IN  PutSequence(m2, s, [q EXCEPT !.table = kept \o taken, !.scheduled = @ + count])

\* Pool::append
AppendTokens(m, s, q, tokens) ==
  Reserve(m, s, [q EXCEPT !.unhashed = IF PrefixCaching THEN @ \o tokens ELSE @],
          Len(tokens))

\* Allocation::copy of the last reservation of s, or None: what the device
\* must copy before it writes.
CopyOf(before, after, s) ==
  LET old == before.sequences[s].table
      at  == Len(old)
  IN  IF s \in Live(before) /\ at > 0 /\ after.sequences[s].table[at] # old[at]
      THEN [src |-> old[at], dst |-> after.sequences[s].table[at],
            tokens |-> before.sequences[s].scheduled % BlockTokens]
      ELSE None

----------------------------------------------------------------------------
(* Operations.                                                             *)

\* BlockManager::admit
CanAdmit(m, s, hit, chunk) ==
  /\ s \notin Live(m)
  /\ ValidHit(m, hit)
  /\ AdmitCost(m, hit, Len(chunk)) <= Len(m.free)
Admit(m, s, hit, chunk) ==
  AppendTokens(AddRefs(m, hit.blocks), s,
    [keys       |-> hit.keys,
     table      |-> hit.blocks,
     scheduled  |-> hit.cached_tokens,
     computed   |-> hit.cached_tokens,
     hashes     |-> hit.hashes,
     unhashed   |-> <<>>,
     unresolved |-> 0], chunk)

\* BlockManager::allocate
CanAllocate(m, s, tokens) ==
  /\ s \in Live(m)
  /\ m.sequences[s].unresolved = 0
  /\ Cost(m, m.sequences[s], Len(tokens)) <= Len(m.free)
Allocate(m, s, tokens) == AppendTokens(m, s, m.sequences[s], tokens)

\* BlockManager::allocate_unresolved
CanAllocateUnresolved(m, s, count) ==
  /\ s \in Live(m)
  /\ Cost(m, m.sequences[s], count) <= Len(m.free)
AllocateUnresolved(m, s, count) ==
  Reserve(m, s, [m.sequences[s] EXCEPT !.unresolved = @ + count], count)

\* A mutated Resolve: it resolves one token too many.
ResolveOneMore(m, s, tokens) ==
  PutSequence(m, s, [m.sequences[s] EXCEPT !.unresolved = @ - Len(tokens) - 1])

\* BlockManager::resolve
CanResolve(m, s, tokens) ==
  /\ s \in Live(m)
  /\ Len(tokens) <= m.sequences[s].unresolved
Resolve(m, s, tokens) ==
  PutSequence(m, s, [m.sequences[s] EXCEPT
    !.unresolved = @ - Len(tokens),
    !.unhashed = IF PrefixCaching THEN @ \o tokens ELSE @])

\* A mutated Hashable: reserved tokens count, written or not.
HashableScheduled(q, computed) == Len(q.unhashed)

\* Of the tokens after the last hashed block, those computed and resolved: only
\* tokens whose K/V exists may be published.
Hashable(q, computed) ==
  Max({0, Min({computed - Len(q.hashes) * BlockTokens, Len(q.unhashed)})})

\* BlockManager::commit_through: only tokens that are computed and resolved
\* are hashed; a full block is published unless it or its key already is.
CanCommit(m, s, computed) == s \in Live(m) /\ computed <= m.sequences[s].scheduled
CommitThrough(m, s, computed) ==
  LET q        == m.sequences[s]
      done     == IF computed > q.computed THEN computed ELSE q.computed
      base     == Len(q.hashes)
      n        == Hashable(q, done) \div BlockTokens
      parent   == IF base = 0 THEN <<>> ELSE Last(q.hashes)
      new      == [i \in 1 .. n |-> HashBlocks(parent, q.unhashed, q.keys, i)]
      publish  == {i \in 1 .. n : /\ m.block_hashes[q.table[base + i]] = None
                                  /\ new[i] \notin DOMAIN m.cached}
      KeyOf(b) == new[CHOOSE i \in publish : q.table[base + i] = b]
      keyed    == {q.table[base + i] : i \in publish}
      added    == {new[i] : i \in publish}
  IN  PutSequence(
        [m EXCEPT
          !.block_hashes = [b \in BlockId |-> IF b \in keyed THEN KeyOf(b) ELSE @[b]],
          !.cached = [h \in DOMAIN @ \cup added |->
                        IF h \in added
                        THEN q.table[base + (CHOOSE i \in publish : new[i] = h)]
                        ELSE @[h]]],
        s,
        [q EXCEPT !.computed = done, !.hashes = @ \o new,
                  !.unhashed = SubSeq(@, n * BlockTokens + 1, Len(@))])

\* BlockManager::fork
CanFork(m, parent, child) ==
  /\ parent \in Live(m)
  /\ child \notin Live(m)
  /\ m.sequences[parent].scheduled = m.sequences[parent].computed
  /\ m.sequences[parent].unresolved = 0
Fork(m, parent, child) ==
  PutSequence(AddRefs(m, m.sequences[parent].table), child, m.sequences[parent])

\* BlockManager::free: the last block first
FreeSequence(m, s) ==
  DropSequence(ReleaseAll(m, Reverse(m.sequences[s].table)), s)
=============================================================================
