---------------------------- MODULE BlockManager ----------------------------
(***************************************************************************)
(* One block manager driven by the calls of a paged session                *)
(* (crates/core/engine/src/blocks.rs "Call sequence";                      *)
(* crates/models/qwen/src/forward/paged.rs), together with the device      *)
(* memory the block IDs stand for.                                         *)
(*                                                                         *)
(* Every call is one step and steps of different sequences interleave: a   *)
(* batched decode reserves a slot for each row before the forward writes   *)
(* any of them, a pipelined decode reserves the next slot before the       *)
(* previous step is read back, and a looked-up prefix may be admitted      *)
(* after other calls changed the pool.                                     *)
(*                                                                         *)
(* Device memory.  The K/V of a token depends on the tokens before it and  *)
(* on the extra keys, so a cell holds [extras, tokens up to its own].  A   *)
(* copy-on-write is issued right after the reservation that asks for it    *)
(* (allocate_rows, forward), before any later write: it is part of the     *)
(* reserving step.  The forward's own writes are the step Forward.         *)
(***************************************************************************)
EXTENDS BlockPool, FiniteSets

CONSTANTS
  SequenceId,   \* IDs a session may use
  Token,        \* token values
  HashKeys,     \* records [salt, extras]
  Prompts,      \* prompts a session may look up
  MaxTokens     \* bound on a sequence's tokens (the context limit)

\* The keys a sequence of at most MaxTokens tokens can have.
Hashes ==
  UNION {{HashBlocks(<<>>, t, k, n) : t \in [1 .. n * BlockTokens -> Token], k \in HashKeys}
           : n \in 1 .. MaxTokens \div BlockTokens}

ASSUME ManagerAssumption ==
  /\ IsFiniteSet(SequenceId) /\ MaxTokens \in Nat
  /\ Prompts \subseteq Seq(Token) /\ \A prompt \in Prompts : Len(prompt) \in 1 .. MaxTokens
  /\ HashKeys \subseteq [salt : {k.salt : k \in HashKeys}, extras : {k.extras : k \in HashKeys}]
  /\ None \notin BlockId /\ None \notin Hashes
  /\ None \notin [src : BlockId, dst : BlockId, tokens : 0 .. BlockTokens - 1]

VARIABLES
  mgr,      \* the block manager, a record of BlockPool
  hit,      \* the PrefixHit the caller holds between lookup and admit, or None
  text,     \* the tokens each sequence stands for, resolved or not
  written,  \* how many of them have K/V written by a forward
  kv        \* device memory: contents of each cell of each block

vars == <<mgr, hit, text, written, kv>>

Blank == <<>>    \* a cell whose contents nothing may rely on

\* What the forward writes for the p-th of `tokens` under `keys`.
Content(tokens, keys, p) == <<keys.extras, SubSeq(tokens, 1, p)>>

\* The contents of a block that is neither referenced nor cached are
\* forgotten: nothing may read them again.
Forget(m, mem) ==
  [b \in BlockId |-> IF m.ref_counts[b] = 0 /\ m.block_hashes[b] = None
                     THEN [o \in 0 .. BlockTokens - 1 |-> Blank]
                     ELSE mem[b]]

\* PagedKvPool::copy_block
CopyBlock(mem, copy) ==
  IF copy = None THEN mem
  ELSE [mem EXCEPT ![copy.dst] =
          [o \in DOMAIN @ |-> IF o < copy.tokens THEN mem[copy.src][o] ELSE @[o]]]

TypeOK ==
  LET m == mgr
      Hash == Seq([salt: {k.salt : k \in HashKeys} \cup {None},
                   extras: {k.extras : k \in HashKeys}, tokens: Seq(Token)])
  IN  /\ m.ref_counts \in [BlockId -> 0 .. Cardinality(SequenceId)]
      /\ m.block_hashes \in [BlockId -> Hash \cup {None}]
      /\ m.free \in Seq(BlockId)
      /\ DOMAIN m.cached \subseteq Hash
      /\ Range(m.cached) \subseteq BlockId
      /\ Live(m) \subseteq SequenceId
      /\ \A s \in Live(m) :
           m.sequences[s] \in
             [keys: HashKeys, table: Seq(BlockId), scheduled: 0 .. MaxTokens,
              computed: 0 .. MaxTokens, hashes: Seq(Hash), unhashed: Seq(Token),
              unresolved: 0 .. MaxTokens]
      /\ text \in [SequenceId -> Seq(Token)]
      /\ written \in [SequenceId -> 0 .. MaxTokens]

Init ==
  /\ mgr = NewManager
  /\ hit = None
  /\ text = [s \in SequenceId |-> <<>>]
  /\ written = [s \in SequenceId |-> 0]
  /\ kv = [b \in BlockId |-> [o \in 0 .. BlockTokens - 1 |-> Blank]]

----------------------------------------------------------------------------
\* lookup_prefix: the caller now holds a hit for `prompt`.
LookupPrefixStep(prompt, keys) ==
  /\ hit' = LookupPrefix(mgr, prompt, keys)
  /\ UNCHANGED <<mgr, text, written, kv>>

\* admit of the held hit, possibly stale by now, with a first chunk that ends
\* where some budget makes it end.  A refused admit changes nothing.
AdmitStep(s) ==
  /\ hit # None
  /\ \E budget \in 1 .. MaxTokens :
       LET start == hit.cached_tokens
           end   == ChunkEnd(start, Len(hit.prompt), budget)
           chunk == SubSeq(hit.prompt, start + 1, end)
       IN  /\ end # start
           /\ CanAdmit(mgr, s, hit, chunk)
           /\ mgr' = Admit(mgr, s, hit, chunk)
           /\ text' = [text EXCEPT ![s] = SubSeq(hit.prompt, 1, end)]
           /\ written' = [written EXCEPT ![s] = start]
  /\ hit' = None
  /\ UNCHANGED kv

\* allocate: the next prompt chunk or a token picked on the host.
AllocateStep(s, tokens) ==
  /\ CanAllocate(mgr, s, tokens)
  /\ Len(text[s]) + Len(tokens) <= MaxTokens
  /\ mgr' = Allocate(mgr, s, tokens)
  /\ text' = [text EXCEPT ![s] = @ \o tokens]
  /\ kv' = CopyBlock(kv, CopyOf(mgr, mgr', s))
  /\ UNCHANGED <<hit, written>>

\* allocate_unresolved: the token is on the device, the host does not know it.
AllocateUnresolvedStep(s, token) ==
  /\ CanAllocateUnresolved(mgr, s, 1)
  /\ Len(text[s]) < MaxTokens
  /\ mgr' = AllocateUnresolved(mgr, s, 1)
  /\ text' = [text EXCEPT ![s] = Append(@, token)]
  /\ kv' = CopyBlock(kv, CopyOf(mgr, mgr', s))
  /\ UNCHANGED <<hit, written>>

\* resolve: the host has read back the oldest unresolved token.
ResolveStep(s) ==
  /\ s \in Live(mgr)
  /\ LET q == mgr.sequences[s]
         oldest == q.scheduled - q.unresolved + 1
     IN  /\ q.unresolved > 0
         /\ CanResolve(mgr, s, <<text[s][oldest]>>)
         /\ mgr' = Resolve(mgr, s, <<text[s][oldest]>>)
  /\ UNCHANGED <<hit, text, written, kv>>

\* The forward writes the K/V of every scheduled token that has none yet
\* (slots, PagedKvPool::write).
Forward(s) ==
  /\ s \in Live(mgr)
  /\ LET q == mgr.sequences[s]
         new == written[s] + 1 .. q.scheduled
         Lands(b, o) == {p \in new : SlotBlock(q, p) = b /\ SlotOffset(p) = o}
     IN  /\ new # {}
         /\ kv' = [b \in BlockId |-> [o \in 0 .. BlockTokens - 1 |->
                     IF Lands(b, o) = {} THEN kv[b][o]
                     ELSE Content(text[s], q.keys, CHOOSE p \in Lands(b, o) : TRUE)]]
         /\ written' = [written EXCEPT ![s] = q.scheduled]
  /\ UNCHANGED <<mgr, hit, text>>

\* commit and commit_through, after the forward that wrote those tokens.
CommitThroughStep(s, computed) ==
  /\ CanCommit(mgr, s, computed)
  /\ computed <= written[s]
  /\ mgr' = CommitThrough(mgr, s, computed)
  /\ UNCHANGED <<hit, text, written, kv>>

ForkStep(parent, child) ==
  /\ CanFork(mgr, parent, child)
  /\ mgr' = Fork(mgr, parent, child)
  /\ text' = [text EXCEPT ![child] = text[parent]]
  /\ written' = [written EXCEPT ![child] = written[parent]]
  /\ UNCHANGED <<hit, kv>>

\* free: retirement, cancellation, preemption, or a failed forward.
FreeStep(s) ==
  /\ s \in Live(mgr)
  /\ mgr' = FreeSequence(mgr, s)
  /\ text' = [text EXCEPT ![s] = <<>>]
  /\ written' = [written EXCEPT ![s] = 0]
  /\ kv' = Forget(mgr', kv)
  /\ UNCHANGED hit

Next ==
  \/ \E prompt \in Prompts, keys \in HashKeys : LookupPrefixStep(prompt, keys)
  \/ \E s \in SequenceId :
       \/ AdmitStep(s)
       \/ \E token \in Token : AllocateStep(s, <<token>>) \/ AllocateUnresolvedStep(s, token)
       \/ ResolveStep(s)
       \/ Forward(s)
       \/ \E computed \in 1 .. MaxTokens : CommitThroughStep(s, computed)
       \/ \E child \in SequenceId : ForkStep(s, child)
       \/ FreeStep(s)

Spec == Init /\ [][Next]_vars

----------------------------------------------------------------------------
(* Properties.                                                             *)

Holders(b) == {s \in Live(mgr) : b \in Range(mgr.sequences[s].table)}

\* Pool accounting (check_invariants): a block's count is the number of
\* tables that hold it, and it is on the free queue, once, exactly when that
\* number is zero; a table has the blocks its tokens need, each once.
Accounting ==
  /\ TypeOK
  /\ \A b \in BlockId :
       /\ mgr.ref_counts[b] = Cardinality(Holders(b))
       /\ Cardinality({i \in DOMAIN mgr.free : mgr.free[i] = b})
            = (IF Holders(b) = {} THEN 1 ELSE 0)
  /\ \A s \in Live(mgr) :
       /\ Len(mgr.sequences[s].table) = DivCeil(mgr.sequences[s].scheduled)
       /\ IsInjective(mgr.sequences[s].table)

\* A published block holds the K/V its key names: it is published only after
\* the forward wrote all of it, and never written again while published.
PublishedIsWritten ==
  \A h \in DOMAIN mgr.cached : \A o \in 0 .. BlockTokens - 1 :
    LET Named(p) == h[(p - 1) \div BlockTokens + 1].tokens[((p - 1) % BlockTokens) + 1]
    IN  kv[mgr.cached[h]][o] =
          <<Last(h).extras, [p \in 1 .. (Len(h) - 1) * BlockTokens + o + 1 |-> Named(p)]>>

\* What the cache may serve: the prefix map and the block keys agree both ways,
\* the host's view of the tail (hashed, unhashed, unresolved) covers the
\* scheduled tokens, and a published block holds the K/V its key names.
CacheConsistent ==
  /\ PublishedIsWritten
  /\ \A b \in BlockId : mgr.block_hashes[b] # None =>
       /\ mgr.block_hashes[b] \in DOMAIN mgr.cached
       /\ mgr.cached[mgr.block_hashes[b]] = b
  /\ \A h \in DOMAIN mgr.cached : mgr.block_hashes[mgr.cached[h]] = h
  /\ PrefixCaching => \A s \in Live(mgr) :
       LET q == mgr.sequences[s]
       IN  Len(q.hashes) * BlockTokens + Len(q.unhashed) + q.unresolved = q.scheduled

\* Requests with different salts never share a block, not even through a fork
\* or a chain of hits (HashKeys: "two salts never share any block").
SaltsNeverShare ==
  \A s, t \in Live(mgr) :
    (Range(mgr.sequences[s].table) \cap Range(mgr.sequences[t].table) # {})
      => mgr.sequences[s].keys = mgr.sequences[t].keys

\* Every sequence reads back its own K/V: whatever was shared, forked,
\* copied, evicted, reused or hit in the cache, a written position of a live
\* sequence holds what that sequence's own forward would have written, and no
\* block of its is another tenant's.
ReadsOwnTokens ==
  /\ SaltsNeverShare
  /\ \A s \in Live(mgr) : \A p \in 1 .. written[s] :
       LET q == mgr.sequences[s]
       IN  kv[SlotBlock(q, p)][SlotOffset(p)] = Content(text[s], q.keys, p)

\* Unkeyed blocks are reused before any cached one (BlockManager::free): on
\* the free queue no cached block stands before a block without a key.
UnkeyedReusedFirst ==
  \A i, j \in DOMAIN mgr.free :
    i < j /\ mgr.block_hashes[mgr.free[i]] # None => mgr.block_hashes[mgr.free[j]] # None

\* A chain of cached blocks is evicted from its tail: of two free cached
\* blocks, one whose key extends the other's is nearer the front.
ChainsEvictedFromTail ==
  \A i, j \in DOMAIN mgr.free :
    LET h == mgr.block_hashes[mgr.free[i]]
        g == mgr.block_hashes[mgr.free[j]]
    IN  (h # None /\ g # None /\ IsStrictPrefix(g, h)) => i < j

----------------------------------------------------------------------------
(* Refinement.                                                             *)

\* Blocks with reserved positions no forward has written.
DirtyBlocks(s) ==
  {SlotBlock(mgr.sequences[s], p) : p \in written[s] + 1 .. mgr.sequences[s].scheduled}

\* The partial tail block.
OpenBlock(s) ==
  IF mgr.sequences[s].scheduled % BlockTokens = 0 THEN None
  ELSE Last(mgr.sequences[s].table)

\* Of every sequence: the blocks of its table, its open block, its dirty ones.
HeldBlocks == [s \in SequenceId |-> IF s \in Live(mgr) THEN Range(mgr.sequences[s].table) ELSE {}]
OpenBlocks == [s \in SequenceId |-> IF s \in Live(mgr) THEN OpenBlock(s) ELSE None]
UnwrittenBlocks == [s \in SequenceId |-> IF s \in Live(mgr) THEN DirtyBlocks(s) ELSE {}]

Ledger == INSTANCE BlockLedger WITH
  Block <- BlockId,
  Key   <- Hashes,
  live  <- Live(mgr),
  holds <- HeldBlocks,
  open  <- OpenBlocks,
  dirty <- UnwrittenBlocks,
  refs  <- mgr.ref_counts,
  key   <- mgr.block_hashes,
  free  <- Range(mgr.free)

\* The manager, its ordered queue, its tables and its hash chains implement
\* the ledger: what BlockLedgerProofs proves of every ledger holds of it.
ImplementsLedger == Ledger!LedgerSpec
=============================================================================
