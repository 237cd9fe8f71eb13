------------------------- MODULE BlockManagerProofs -------------------------
(***************************************************************************)
(* The block manager and the device memory behind it, for every pool,      *)
(* block size, set of sequences, prompts and keys: accounting, the prefix  *)
(* cache, the contents of the blocks, and that BlockLedger is implemented. *)
(***************************************************************************)
EXTENDS BlockManager, BlockPoolProofs

\* BlockLedgerProofs under the refinement mapping of BlockManager.
Abstract == INSTANCE BlockLedgerProofs WITH
  Block <- BlockId,
  Key   <- Hashes,
  live  <- Live(mgr),
  holds <- HeldBlocks,
  open  <- OpenBlocks,
  dirty <- UnwrittenBlocks,
  refs  <- mgr.ref_counts,
  key   <- mgr.block_hashes,
  free  <- Range(mgr.free)

(***************************************************************************)
(* The inductive invariant.                                                *)
(***************************************************************************)
Row ==
  [keys : HashKeys, table : Seq(BlockId), scheduled : Nat, computed : Nat,
   hashes : Seq(Hashes), unhashed : Seq(Token), unresolved : Nat]

Managed ==
  /\ IsManager(mgr)
  /\ Live(mgr) \in SUBSET SequenceId /\ mgr.sequences \in [Live(mgr) -> Row]
  /\ mgr.block_hashes \in [BlockId -> Hashes \cup {None}]
  /\ DOMAIN mgr.cached \in SUBSET Hashes
  /\ text \in [SequenceId -> Seq(Token)] /\ written \in [SequenceId -> 0 .. MaxTokens]

\* What a sequence has reserved, written, computed and hashed.
LengthsOf(s) ==
  LET q == mgr.sequences[s]
  IN  /\ q.scheduled = Len(text[s]) /\ q.scheduled \in 1 .. MaxTokens
      /\ q.computed <= written[s] /\ written[s] <= q.scheduled
      /\ Len(q.hashes) * BlockTokens <= q.computed
      /\ q.unresolved <= q.scheduled
      /\ Len(q.table) = DivCeil(q.scheduled) /\ Once(q.table)
Lengths == \A s \in Live(mgr) : LengthsOf(s)

\* The host knows the tokens it has hashed and those it will hash.
HostViewOf(s) ==
  LET q == mgr.sequences[s]
  IN  /\ \A i \in 1 .. Len(q.hashes) : q.hashes[i] = HashBlocks(<<>>, text[s], q.keys, i)
      /\ PrefixCaching =>
           /\ Len(q.hashes) * BlockTokens + Len(q.unhashed) + q.unresolved = q.scheduled
           /\ \A p \in 1 .. Len(q.unhashed) : q.unhashed[p] = text[s][Len(q.hashes) * BlockTokens + p]
      /\ ~PrefixCaching => q.unhashed = <<>>
HostView == \A s \in Live(mgr) : HostViewOf(s)

\* The prefix map and the keys of the blocks agree, and a block is queued once.
MapAgrees ==
  /\ \A b \in BlockId : mgr.block_hashes[b] # None =>
       mgr.block_hashes[b] \in DOMAIN mgr.cached /\ mgr.cached[mgr.block_hashes[b]] = b
  /\ \A h \in DOMAIN mgr.cached :
       mgr.cached[h] \in BlockId /\ mgr.block_hashes[mgr.cached[h]] = h

\* Whoever shares a block has the same tokens up to its end, under the same
\* keys, and the block's key names them.
Agree(s, t, n) ==
  \A p \in 1 .. Len(text[s]) : p <= n => p <= Len(text[t]) /\ text[t][p] = text[s][p]
Shared(s, t) ==
  \A i \in DOMAIN mgr.sequences[s].table : \A j \in DOMAIN mgr.sequences[t].table :
    mgr.sequences[s].table[i] = mgr.sequences[t].table[j] =>
      /\ i = j /\ mgr.sequences[s].keys = mgr.sequences[t].keys
      /\ Agree(s, t, i * BlockTokens)
SharedAgree == \A s, t \in Live(mgr) : Shared(s, t)
KeyedOf(s) ==
  \A i \in DOMAIN mgr.sequences[s].table :
    mgr.block_hashes[mgr.sequences[s].table[i]] # None =>
      /\ i * BlockTokens <= Len(text[s])
      /\ mgr.block_hashes[mgr.sequences[s].table[i]]
           = HashBlocks(<<>>, text[s], mgr.sequences[s].keys, i)
KeyedByText == \A s \in Live(mgr) : KeyedOf(s)

OwnContentsOf(s) ==
  \A p \in 1 .. written[s] :
    kv[SlotBlock(mgr.sequences[s], p)][SlotOffset(p)] = Content(text[s], mgr.sequences[s].keys, p)
OwnContents == \A s \in Live(mgr) : OwnContentsOf(s)

\* What a hit says of its prompt, whatever has become of its blocks.
HitIsSound ==
  hit # None =>
    /\ hit.prompt \in Prompts /\ hit.keys \in HashKeys
    /\ hit.blocks \in Seq(BlockId) /\ hit.hashes \in Seq(Hashes)
    /\ Len(hit.hashes) = Len(hit.blocks) /\ hit.cached_tokens = Len(hit.blocks) * BlockTokens
    /\ hit.cached_tokens < Len(hit.prompt)
    /\ \A i \in DOMAIN hit.hashes : hit.hashes[i] = HashBlocks(<<>>, hit.prompt, hit.keys, i)

Memory == DOMAIN kv = BlockId /\ \A b \in BlockId : DOMAIN kv[b] = 0 .. BlockTokens - 1

PoolInv ==
  /\ Managed /\ Lengths /\ HostView /\ MapAgrees /\ Queue(mgr.free, mgr.block_hashes)
  /\ SharedAgree /\ KeyedByText /\ OwnContents /\ PublishedIsWritten /\ HitIsSound
  /\ Memory
  /\ Abstract!LedgerInv

----------------------------------------------------------------------------
(* What the invariant says, fact by fact.                                  *)

(* The ledger's constants are those of the manager.                        *)
LEMMA LedgerConstants == Abstract!LedgerAssumption
  BY ManagerAssumption DEF Abstract!LedgerAssumption, Abstract!IsFiniteSet, IsFiniteSet

LEMMA RowFacts ==
  ASSUME Managed, Lengths, NEW s \in Live(mgr)
  PROVE  LET q == mgr.sequences[s]
         IN  /\ s \in SequenceId /\ q \in Row
             /\ q.table \in Seq(BlockId) /\ Len(q.table) \in Nat /\ DOMAIN q.table = 1 .. Len(q.table)
             /\ q.hashes \in Seq(Hashes) /\ Len(q.hashes) \in Nat
             /\ q.unhashed \in Seq(Token) /\ Len(q.unhashed) \in Nat
             /\ text[s] \in Seq(Token) /\ Len(text[s]) \in Nat /\ DOMAIN text[s] = 1 .. Len(text[s])
             /\ Len(text[s]) = q.scheduled /\ q.scheduled \in 1 .. MaxTokens /\ q.keys \in HashKeys
             /\ written[s] \in 0 .. q.scheduled /\ q.computed \in 0 .. written[s]
             /\ q.unresolved \in 0 .. q.scheduled
             /\ Len(q.table) = DivCeil(q.scheduled)
             /\ \A i, j \in 1 .. Len(q.table) : q.table[i] = q.table[j] => i = j
  <1> DEFINE q == mgr.sequences[s]
  <1>1. s \in SequenceId /\ q \in Row
    BY DEF Managed, Live
  <1> HIDE DEF q
  <1>2. q.table \in Seq(BlockId) /\ q.hashes \in Seq(Hashes) /\ q.unhashed \in Seq(Token)
        /\ q.scheduled \in Nat /\ q.computed \in Nat /\ q.unresolved \in Nat /\ q.keys \in HashKeys
    BY <1>1 DEF Row
  <1>3. text[s] \in Seq(Token) /\ written[s] \in 0 .. MaxTokens
    BY <1>1 DEF Managed
  <1>4. q.scheduled = Len(text[s]) /\ q.scheduled \in 1 .. MaxTokens
        /\ q.computed <= written[s] /\ written[s] <= q.scheduled
        /\ q.unresolved <= q.scheduled
        /\ Len(q.table) = DivCeil(q.scheduled) /\ Once(q.table)
    BY DEF Lengths, LengthsOf, q
  <1>5. Len(q.table) \in Nat /\ DOMAIN q.table = 1 .. Len(q.table)
    BY <1>2, LenProperties
  <1>6. Len(q.hashes) \in Nat
    BY <1>2, LenProperties
  <1>7. Len(q.unhashed) \in Nat
    BY <1>2, LenProperties
  <1>8. Len(text[s]) \in Nat /\ DOMAIN text[s] = 1 .. Len(text[s])
    BY <1>3, LenProperties
  <1>9. written[s] \in 0 .. q.scheduled /\ q.computed \in 0 .. written[s] /\ q.unresolved \in 0 .. q.scheduled
    BY <1>2, <1>3, <1>4
  <1>10. \A i, j \in 1 .. Len(q.table) : q.table[i] = q.table[j] => i = j
    BY <1>4 DEF Once
  <1> QED BY <1>1, <1>2, <1>3, <1>4, <1>5, <1>6, <1>7, <1>8, <1>9, <1>10 DEF q

(* Counts, the queue and the tables.                                       *)
LEMMA PoolFacts ==
  ASSUME PoolInv
  PROVE  /\ IsManager(mgr) /\ Queue(mgr.free, mgr.block_hashes)
         /\ mgr.ref_counts \in [BlockId -> Nat]
         /\ \A b \in BlockId : b \in Range(mgr.free) <=> mgr.ref_counts[b] = 0
         /\ Range(mgr.free) \subseteq BlockId
         /\ \A s \in Live(mgr) : \A b \in Range(mgr.sequences[s].table) :
              b \in BlockId /\ mgr.ref_counts[b] # 0 /\ b \notin Range(mgr.free)
         /\ \A s, t \in Live(mgr) : \A b \in BlockId :
              /\ mgr.ref_counts[b] <= 1
              /\ b \in Range(mgr.sequences[s].table) /\ b \in Range(mgr.sequences[t].table)
              => s = t
  <1>1. Managed /\ Lengths /\ Queue(mgr.free, mgr.block_hashes) /\ Abstract!CountsExact
    BY DEF PoolInv, Abstract!LedgerInv
  <1>2. IsManager(mgr) /\ mgr.ref_counts \in [BlockId -> Nat] /\ mgr.free \in Seq(BlockId)
    BY <1>1 DEF Managed, IsManager
  <1>3. Range(mgr.free) \subseteq BlockId
    BY <1>2, RangeIs
  <1> DEFINE H(b) == Abstract!Holders(b)
  <1>4. \A b \in BlockId : mgr.ref_counts[b] = Cardinality(H(b)) /\ (b \in Range(mgr.free) <=> mgr.ref_counts[b] = 0)
    BY <1>1 DEF Abstract!CountsExact, Abstract!Cardinality, Cardinality
  <1>5. \A b : H(b) = {s \in Live(mgr) : b \in Range(mgr.sequences[s].table)}
    <2>1. Live(mgr) \subseteq SequenceId
      BY <1>1 DEF Managed
    <2> QED BY <2>1 DEF Abstract!Holders, HeldBlocks
  <1>6. \A b : IsFiniteSet(H(b))
    <2>1. \A b : H(b) \subseteq SequenceId
      BY DEF Abstract!Holders
    <2> HIDE DEF H
    <2> QED BY <2>1, ManagerAssumption, FS_Subset
  <1> HIDE DEF H
  <1>7. ASSUME NEW s \in Live(mgr), NEW b \in Range(mgr.sequences[s].table)
        PROVE  b \in BlockId /\ mgr.ref_counts[b] # 0 /\ b \notin Range(mgr.free)
    <2>1. b \in BlockId
      BY <1>1, RowFacts, RangeIs
    <2>2. H(b) # {}
      BY <1>5
    <2>3. Cardinality(H(b)) # 0
      BY <1>6, <2>2, FS_EmptySet
    <2> QED BY <1>4, <2>1, <2>3
  <1>8. ASSUME NEW s \in Live(mgr), NEW t \in Live(mgr), NEW b \in BlockId, mgr.ref_counts[b] <= 1,
               b \in Range(mgr.sequences[s].table), b \in Range(mgr.sequences[t].table)
        PROVE  s = t
    <2>1. s \in H(b) /\ t \in H(b) /\ Cardinality(H(b)) <= 1
      BY <1>4, <1>5, <1>8
    <2>2. Cardinality(H(b) \ {s}) = Cardinality(H(b)) - 1 /\ IsFiniteSet(H(b) \ {s})
      BY <1>6, <2>1, FS_RemoveElement
    <2>3. Cardinality(H(b)) \in Nat /\ Cardinality(H(b) \ {s}) \in Nat
      BY <1>6, <2>2, FS_CardinalityType
    <2>4. Cardinality(H(b) \ {s}) = 0
      BY <2>1, <2>2, <2>3
    <2>5. H(b) \ {s} = {}
      BY <2>2, <2>4, FS_EmptySet
    <2> QED BY <2>1, <2>5
  <1> QED BY <1>1, <1>2, <1>3, <1>4, <1>7, <1>8


----------------------------------------------------------------------------
(* The initial state.                                                      *)

LEMMA InitLedger == Init => Abstract!Init
  <1> SUFFICES ASSUME Init PROVE Abstract!Init
    OBVIOUS
  <1>1. /\ mgr.sequences = [s \in {} |-> None]
        /\ mgr.ref_counts = [b \in BlockId |-> 0] /\ mgr.block_hashes = [b \in BlockId |-> None]
        /\ mgr.free = [i \in 1 .. NumBlocks |-> i - 1]
    BY DEF Init, NewManager
  <1>2. Live(mgr) = {}
    BY <1>1 DEF Live
  <1>3. Range(mgr.free) = BlockId
    <2>1. Range(mgr.free) = {i - 1 : i \in 1 .. NumBlocks}
      BY <1>1 DEF Range
    <2>2. \A b \in BlockId : b + 1 \in 1 .. NumBlocks /\ (b + 1) - 1 = b
      BY PoolAssumption DEF BlockId
    <2>3. \A i \in 1 .. NumBlocks : i - 1 \in BlockId
      BY PoolAssumption DEF BlockId
    <2> QED BY <2>1, <2>2, <2>3
  <1>4. HeldBlocks = [s \in SequenceId |-> {}] /\ OpenBlocks = [s \in SequenceId |-> None]
        /\ UnwrittenBlocks = [s \in SequenceId |-> {}]
    BY <1>2 DEF HeldBlocks, OpenBlocks, UnwrittenBlocks
  <1> QED BY <1>1, <1>2, <1>3, <1>4 DEF Abstract!Init

LEMMA InitPool == Init => PoolInv
  <1> SUFFICES ASSUME Init PROVE PoolInv
    OBVIOUS
  <1>1. /\ mgr = NewManager /\ hit = None
        /\ mgr.sequences = [s \in {} |-> None]
        /\ mgr.ref_counts = [b \in BlockId |-> 0] /\ mgr.block_hashes = [b \in BlockId |-> None]
        /\ mgr.free = [i \in 1 .. NumBlocks |-> i - 1] /\ mgr.cached = [h \in {} |-> None]
    BY DEF Init, NewManager
  <1>2. Live(mgr) = {} /\ DOMAIN mgr.cached = {}
    BY <1>1 DEF Live
  <1>3. Queue(mgr.free, mgr.block_hashes)
    <2>1. mgr.free \in [1 .. NumBlocks -> BlockId] /\ NumBlocks \in Nat
      BY <1>1, PoolAssumption DEF BlockId
    <2>2. mgr.free \in Seq(BlockId) /\ Len(mgr.free) = NumBlocks
      BY <2>1, SeqDef, LenProperties
    <2>3. Once(mgr.free)
      BY <1>1, <2>1, <2>2 DEF Once
    <2>4. \A i \in 1 .. Len(mgr.free) : mgr.block_hashes[mgr.free[i]] = None
      BY <1>1, <2>1, <2>2
    <2> QED BY <2>2, <2>3, <2>4 DEF Queue, UnkeyedFirst
  <1>4. Managed
    <2>1. IsManager(mgr)
      <3>1. mgr = Manager(mgr.sequences, mgr.ref_counts, mgr.block_hashes, mgr.free, mgr.cached)
        BY <1>1 DEF NewManager, Manager
      <3> QED BY <1>1, <1>2, <1>3, <3>1 DEF IsManager, Manager, Queue
    <2>2. mgr.sequences \in [Live(mgr) -> Row] /\ Live(mgr) \in SUBSET SequenceId
      BY <1>1, <1>2
    <2>3. text \in [SequenceId -> Seq(Token)] /\ written \in [SequenceId -> 0 .. MaxTokens]
      BY ManagerAssumption, EmptySeq DEF Init
    <2> QED BY <1>1, <1>2, <2>1, <2>2, <2>3 DEF Managed
  <1>5. Lengths /\ HostView /\ SharedAgree /\ KeyedByText /\ OwnContents
    BY <1>2 DEF Lengths, LengthsOf, HostView, HostViewOf, SharedAgree, Shared, KeyedByText, KeyedOf, OwnContents, OwnContentsOf
  <1>6. MapAgrees /\ PublishedIsWritten /\ HitIsSound
    BY <1>1, <1>2 DEF MapAgrees, PublishedIsWritten, HitIsSound
  <1>7. Memory
    BY DEF Init, Memory
  <1>8. Abstract!LedgerInv
    BY InitLedger, LedgerConstants, Abstract!LedgerInit
  <1> QED BY <1>3, <1>4, <1>5, <1>6, <1>7, <1>8 DEF PoolInv

----------------------------------------------------------------------------
(* What most steps leave alone.                                            *)

LEMMA WithIs ==
  ASSUME NEW m, NEW s, NEW q
  PROVE  /\ DOMAIN With(m, s, q) = Live(m) \cup {s} /\ With(m, s, q)[s] = q
         /\ \A t \in Live(m) : t # s => With(m, s, q)[t] = m.sequences[t]
  BY DEF With

(* The table, the scheduled tokens and the keys of every sequence stay.    *)
LEMMA SameTables ==
  ASSUME PoolInv, Live(mgr') = Live(mgr), text' = text, written' = written,
         \A t \in Live(mgr) : /\ mgr'.sequences[t].table = mgr.sequences[t].table
                              /\ mgr'.sequences[t].scheduled = mgr.sequences[t].scheduled
                              /\ mgr'.sequences[t].keys = mgr.sequences[t].keys
  PROVE  /\ HeldBlocks' = HeldBlocks /\ OpenBlocks' = OpenBlocks /\ UnwrittenBlocks' = UnwrittenBlocks
         /\ SharedAgree' /\ (kv' = kv => OwnContents')
         /\ (mgr'.block_hashes = mgr.block_hashes => KeyedByText')
  <1>1. Live(mgr)' = Live(mgr)
    BY DEF Live
  <1>2. SharedAgree /\ OwnContents /\ KeyedByText
    BY DEF PoolInv
  <1>3. HeldBlocks' = HeldBlocks
    BY <1>1 DEF HeldBlocks
  <1>4. OpenBlocks' = OpenBlocks
    BY <1>1 DEF OpenBlocks, OpenBlock
  <1>5. UnwrittenBlocks' = UnwrittenBlocks
    BY <1>1, ZenonT(30) DEF UnwrittenBlocks, DirtyBlocks, SlotBlock
  <1>6. SharedAgree'
    BY <1>1, <1>2 DEF SharedAgree, Shared, Agree
  <1>7. kv' = kv => OwnContents'
    BY <1>1, <1>2 DEF OwnContents, OwnContentsOf, SlotBlock, Content
  <1>8. mgr'.block_hashes = mgr.block_hashes => KeyedByText'
    BY <1>1, <1>2 DEF KeyedByText, KeyedOf
  <1> QED BY <1>3, <1>4, <1>5, <1>6, <1>7, <1>8

(* The ledger does not move.                                               *)
LEMMA LedgerStays ==
  ASSUME PoolInv, Live(mgr') = Live(mgr), HeldBlocks' = HeldBlocks, OpenBlocks' = OpenBlocks,
         UnwrittenBlocks' = UnwrittenBlocks, mgr'.ref_counts = mgr.ref_counts,
         mgr'.block_hashes = mgr.block_hashes, mgr'.free = mgr.free
  PROVE  UNCHANGED Abstract!ledgerVars
  <1>1. Live(mgr)' = Live(mgr)
    BY DEF Live
  <1> QED BY <1>1 DEF Abstract!ledgerVars

(* A step of the ledger keeps its invariant.                               *)
LEMMA LedgerMoves ==
  ASSUME PoolInv, [Abstract!Next]_(Abstract!ledgerVars)
  PROVE  Abstract!LedgerInv'
  BY LedgerConstants, Abstract!LedgerStep DEF PoolInv


----------------------------------------------------------------------------
(* lookup_prefix.                                                          *)

(* The keys of a sequence of at most MaxTokens tokens.                     *)
LEMMA KeyIsHash ==
  ASSUME NEW tokens \in Seq(Token), Len(tokens) <= MaxTokens, NEW keys \in HashKeys,
         NEW n \in Nat \ {0}, n * BlockTokens <= Len(tokens)
  PROVE  HashBlocks(<<>>, tokens, keys, n) \in Hashes
  <1> DEFINE l == n * BlockTokens
             t == [p \in 1 .. l |-> tokens[p]]
  <1>1. BlockTokens \in Nat \ {0} /\ l \in Nat /\ MaxTokens \in Nat /\ Len(tokens) \in Nat /\ l <= MaxTokens
    <2>1. BlockTokens \in Nat \ {0} /\ MaxTokens \in Nat
      BY PoolAssumption, ManagerAssumption
    <2>2. l \in Nat
      BY <2>1
    <2>3. Len(tokens) \in Nat
      BY LenProperties
    <2> HIDE DEF l
    <2>4. l <= Len(tokens)
      BY DEF l
    <2> QED BY <2>1, <2>2, <2>3, <2>4
  <1>2. n \in 1 .. MaxTokens \div BlockTokens
    <2> DEFINE d == MaxTokens \div BlockTokens
    <2>1. d \in Nat /\ MaxTokens % BlockTokens \in 0 .. BlockTokens - 1
          /\ MaxTokens = d * BlockTokens + (MaxTokens % BlockTokens)
      BY <1>1, Division
    <2> HIDE DEF d
    <2>2. ~(d < n)
      <3> SUFFICES ASSUME d < n PROVE FALSE
        OBVIOUS
      <3>1. d * BlockTokens + BlockTokens <= n * BlockTokens
        BY <1>1, <2>1, TimesOrder
      <3>2. d * BlockTokens \in Nat
        BY <1>1, <2>1
      <3> QED BY <1>1, <2>1, <3>1, <3>2
    <2>3. n \in 1 .. d
      BY <2>1, <2>2
    <2> QED BY <2>3 DEF d
  <1>3. t \in [1 .. l -> Token]
    <2>1. \A p \in 1 .. l : p \in 1 .. Len(tokens)
      BY <1>1
    <2> HIDE DEF l
    <2> QED BY <2>1, ElementOfSeq
  <1>4. HashBlocks(<<>>, tokens, keys, n) = HashBlocks(<<>>, t, keys, n)
    <2>1. SameStart(tokens, t, n * BlockTokens)
      BY DEF SameStart
    <2> HIDE DEF t, l
    <2> QED BY <2>1, HashOfStart
  <1> HIDE DEF t
  <1>5. HashBlocks(<<>>, t, keys, n) \in
          {HashBlocks(<<>>, u, k, n) : u \in [1 .. n * BlockTokens -> Token], k \in HashKeys}
    BY <1>3
  <1> QED BY <1>2, <1>4, <1>5 DEF Hashes

LEMMA LookupPreserves ==
  ASSUME PoolInv, NEW prompt \in Prompts, NEW keys \in HashKeys, LookupPrefixStep(prompt, keys)
  PROVE  PoolInv' /\ UNCHANGED Abstract!ledgerVars
  <1>1. hit' = LookupPrefix(mgr, prompt, keys) /\ mgr' = mgr /\ text' = text /\ written' = written /\ kv' = kv
    BY DEF LookupPrefixStep
  <1>2. prompt \in Seq(Token) /\ Len(prompt) \in 1 .. MaxTokens /\ MaxTokens \in Nat
    BY ManagerAssumption
  <1>3. PICK run \in Nat :
           /\ run * BlockTokens < Len(prompt)
           /\ \A i \in 1 .. run : HashBlocks(<<>>, prompt, keys, i) \in DOMAIN mgr.cached
           /\ LookupPrefix(mgr, prompt, keys) =
                [keys          |-> keys,
                 hashes        |-> [i \in 1 .. run |-> HashBlocks(<<>>, prompt, keys, i)],
                 blocks        |-> [i \in 1 .. run |-> mgr.cached[HashBlocks(<<>>, prompt, keys, i)]],
                 cached_tokens |-> run * BlockTokens,
                 prompt        |-> prompt]
    BY <1>2, LookupIs
  <1>4. IsManager(mgr) /\ DOMAIN mgr.cached \in SUBSET Hashes
    BY DEF PoolInv, Managed
  <1>5. HitIsSound'
    <2> DEFINE hashes == [i \in 1 .. run |-> HashBlocks(<<>>, prompt, keys, i)]
               blocks == [i \in 1 .. run |-> mgr.cached[HashBlocks(<<>>, prompt, keys, i)]]
    <2>1. hashes \in [1 .. run -> Hashes] /\ blocks \in [1 .. run -> BlockId]
      BY <1>3, <1>4 DEF IsManager
    <2>2. hit'.prompt = prompt /\ hit'.keys = keys /\ hit'.blocks = blocks /\ hit'.hashes = hashes
          /\ hit'.cached_tokens = run * BlockTokens
      BY <1>1, <1>3
    <2>3. \A i \in DOMAIN hashes : hashes[i] = HashBlocks(<<>>, prompt, keys, i)
      OBVIOUS
    <2> HIDE DEF hashes, blocks
    <2>4. hashes \in Seq(Hashes) /\ blocks \in Seq(BlockId) /\ Len(hashes) = run /\ Len(blocks) = run
      BY <2>1, SeqDef, LenProperties
    <2> QED BY <1>3, <2>2, <2>3, <2>4 DEF HitIsSound
  <1>6. PoolInv'
    <2>1. (Managed /\ Lengths /\ HostView /\ MapAgrees /\ Queue(mgr.free, mgr.block_hashes)
           /\ SharedAgree /\ KeyedByText /\ OwnContents /\ PublishedIsWritten /\ Memory /\ Abstract!LedgerInv)'
      <3>1. HeldBlocks' = HeldBlocks /\ OpenBlocks' = OpenBlocks /\ UnwrittenBlocks' = UnwrittenBlocks
            /\ Live(mgr)' = Live(mgr)
        BY <1>1 DEF HeldBlocks, OpenBlocks, OpenBlock, UnwrittenBlocks, DirtyBlocks, SlotBlock, Live
      <3>2. UNCHANGED Abstract!ledgerVars
        BY <1>1, <3>1 DEF Abstract!ledgerVars
      <3>3. Abstract!LedgerInv'
        BY <3>2, LedgerMoves
      <3>4. (Managed /\ Lengths)'
        BY <1>1 DEF PoolInv, Managed, Lengths, LengthsOf, Live
      <3>8. (HostView /\ MapAgrees)'
        BY <1>1 DEF PoolInv, HostView, HostViewOf, MapAgrees, Live
      <3>5. (SharedAgree /\ KeyedByText /\ OwnContents)'
        <4>1. Live(mgr') = Live(mgr)
          BY <1>1
        <4>2. mgr'.block_hashes = mgr.block_hashes /\ kv' = kv
          BY <1>1
        <4> QED BY <1>1, <4>1, <4>2, SameTables
      <3>6. (PublishedIsWritten /\ Memory)'
        BY <1>1 DEF PoolInv, PublishedIsWritten, Memory
      <3>7. Queue(mgr.free, mgr.block_hashes)'
        BY <1>1 DEF PoolInv
      <3> QED BY <3>3, <3>4, <3>5, <3>6, <3>7, <3>8
    <2> QED BY <1>5, <2>1 DEF PoolInv
  <1>7. UNCHANGED Abstract!ledgerVars
    <2>1. HeldBlocks' = HeldBlocks /\ OpenBlocks' = OpenBlocks /\ UnwrittenBlocks' = UnwrittenBlocks
          /\ Live(mgr)' = Live(mgr)
      BY <1>1 DEF HeldBlocks, OpenBlocks, OpenBlock, UnwrittenBlocks, DirtyBlocks, SlotBlock, Live
    <2> QED BY <1>1, <2>1 DEF Abstract!ledgerVars
  <1> QED BY <1>6, <1>7


----------------------------------------------------------------------------
(* How a sequence's record changes.                                        *)

Resolved(q, unresolved, unhashed) == [q EXCEPT !.unresolved = unresolved, !.unhashed = unhashed]

LEMMA ResolvedIs ==
  ASSUME NEW q \in Row, NEW u \in Nat, NEW h \in Seq(Token)
  PROVE  LET r == Resolved(q, u, h)
         IN  /\ r \in Row /\ r.unresolved = u /\ r.unhashed = h
             /\ r.keys = q.keys /\ r.table = q.table /\ r.scheduled = q.scheduled
             /\ r.computed = q.computed /\ r.hashes = q.hashes
  BY DEF Resolved, Row

LEMMA ReservedIs ==
  ASSUME NEW q \in Row, NEW table \in Seq(BlockId), NEW scheduled \in Nat
  PROVE  LET r == Reserved(q, table, scheduled)
         IN  /\ r \in Row /\ r.table = table /\ r.scheduled = scheduled
             /\ r.keys = q.keys /\ r.computed = q.computed /\ r.hashes = q.hashes
             /\ r.unhashed = q.unhashed /\ r.unresolved = q.unresolved
  BY DEF Reserved, Row

LEMMA CommittedIs ==
  ASSUME NEW q \in Row, NEW computed \in Nat, NEW hashes \in Seq(Hashes), NEW unhashed \in Seq(Token)
  PROVE  LET r == Committed(q, computed, hashes, unhashed)
         IN  /\ r \in Row /\ r.computed = computed /\ r.hashes = hashes /\ r.unhashed = unhashed
             /\ r.keys = q.keys /\ r.table = q.table /\ r.scheduled = q.scheduled
             /\ r.unresolved = q.unresolved
  BY DEF Committed, Row

(* The manager after sequence s has become q.                              *)
LEMMA WithTyped ==
  ASSUME Managed, NEW s \in SequenceId, NEW q \in Row
  PROVE  /\ With(mgr, s, q) \in [Live(mgr) \cup {s} -> Row]
         /\ Live(mgr) \cup {s} \in SUBSET SequenceId
  BY DEF With, Managed

----------------------------------------------------------------------------
(* resolve.                                                                *)

LEMMA ResolveEffect ==
  ASSUME PoolInv, NEW s \in SequenceId, ResolveStep(s)
  PROVE  LET q == mgr.sequences[s]
             token == text[s][q.scheduled - q.unresolved + 1]
             r == Resolved(q, q.unresolved - 1, IF PrefixCaching THEN q.unhashed \o <<token>> ELSE q.unhashed)
         IN  /\ s \in Live(mgr) /\ q.unresolved > 0
             /\ mgr' = Manager(With(mgr, s, r), mgr.ref_counts, mgr.block_hashes, mgr.free, mgr.cached)
             /\ hit' = hit /\ text' = text /\ written' = written /\ kv' = kv
  <1> DEFINE q == mgr.sequences[s]
             token == text[s][q.scheduled - q.unresolved + 1]
             r == Resolved(q, q.unresolved - 1, IF PrefixCaching THEN q.unhashed \o <<token>> ELSE q.unhashed)
  <1>1. s \in Live(mgr) /\ q.unresolved > 0 /\ mgr' = Resolve(mgr, s, <<token>>)
        /\ hit' = hit /\ text' = text /\ written' = written /\ kv' = kv
    BY DEF ResolveStep
  <1>2. Resolve(mgr, s, <<token>>) = PutSequence(mgr, s, r)
    BY DEF Resolve, Resolved
  <1>3. PutSequence(mgr, s, r) = Manager(With(mgr, s, r), mgr.ref_counts, mgr.block_hashes, mgr.free, mgr.cached)
    <2> HIDE DEF r
    <2> QED BY PoolFacts, ManagerIs, PutIs
  <1> QED BY <1>1, <1>2, <1>3

LEMMA ResolvePreserves ==
  ASSUME PoolInv, NEW s \in SequenceId, ResolveStep(s)
  PROVE  PoolInv' /\ UNCHANGED Abstract!ledgerVars
  <1> DEFINE q == mgr.sequences[s]
             token == text[s][q.scheduled - q.unresolved + 1]
             h == IF PrefixCaching THEN q.unhashed \o <<token>> ELSE q.unhashed
             r == Resolved(q, q.unresolved - 1, h)
  <1>1. /\ s \in Live(mgr) /\ q.unresolved > 0
        /\ mgr' = Manager(With(mgr, s, r), mgr.ref_counts, mgr.block_hashes, mgr.free, mgr.cached)
        /\ hit' = hit /\ text' = text /\ written' = written /\ kv' = kv
    BY ResolveEffect
  <1>2. /\ Managed /\ Lengths /\ HostView /\ MapAgrees /\ Queue(mgr.free, mgr.block_hashes)
        /\ PublishedIsWritten /\ HitIsSound /\ Memory
    BY DEF PoolInv
  <1>3. /\ q \in Row /\ text[s] \in Seq(Token) /\ q.unhashed \in Seq(Token) /\ Len(q.unhashed) \in Nat
        /\ q.unresolved \in 0 .. q.scheduled /\ q.scheduled \in Nat /\ Len(text[s]) = q.scheduled
        /\ Len(q.hashes) \in Nat
    BY <1>1, <1>2, RowFacts
  <1>4. q.scheduled - q.unresolved + 1 \in 1 .. Len(text[s])
    BY <1>1, <1>3
  <1>5. token \in Token
    <2> DEFINE i == q.scheduled - q.unresolved + 1
    <2>1. i \in 1 .. Len(text[s])
      BY <1>4
    <2> HIDE DEF i
    <2>2. text[s][i] \in Token
      BY <1>3, <2>1, ElementOfSeq
    <2> QED BY <2>2 DEF i
  <1> HIDE DEF token
  <1>6. h \in Seq(Token) /\ Len(h) = Len(q.unhashed) + (IF PrefixCaching THEN 1 ELSE 0)
        /\ (PrefixCaching => \A p \in 1 .. Len(h) :
              h[p] = IF p <= Len(q.unhashed) THEN q.unhashed[p] ELSE token)
    <2> DEFINE u == q.unhashed
               l == Len(u)
    <2>1. u \in Seq(Token) /\ <<token>> \in Seq(Token) /\ Len(<<token>>) = 1 /\ <<token>>[1] = token /\ l \in Nat
      BY <1>3, <1>5
    <2> HIDE DEF u, l
    <2>2. /\ u \o <<token>> \in Seq(Token) /\ Len(u \o <<token>>) = Len(u) + Len(<<token>>)
          /\ \A p \in 1 .. Len(u) + Len(<<token>>) :
               (u \o <<token>>)[p] = IF p <= Len(u) THEN u[p] ELSE <<token>>[p - Len(u)]
      BY <2>1, ConcatProperties
    <2>3. \A p \in 1 .. l + 1 : ~(p <= l) => p - l = 1
      BY <2>1
    <2>4. /\ u \o <<token>> \in Seq(Token) /\ Len(u \o <<token>>) = l + 1
          /\ \A p \in 1 .. l + 1 : (u \o <<token>>)[p] = IF p <= l THEN u[p] ELSE token
      BY <2>1, <2>2, <2>3 DEF l
    <2>5. h = IF PrefixCaching THEN u \o <<token>> ELSE u
      BY DEF u
    <2> HIDE DEF h
    <2>6. h \in Seq(Token) /\ Len(h) = l + (IF PrefixCaching THEN 1 ELSE 0)
          /\ (PrefixCaching => \A p \in 1 .. Len(h) : h[p] = IF p <= l THEN u[p] ELSE token)
      BY <2>1, <2>4, <2>5 DEF l
    <2> QED BY <2>6 DEF l, u
  <1> HIDE DEF h
  <1>7. q.unresolved - 1 \in Nat
    BY <1>1, <1>3
  <1>8. /\ r \in Row /\ r.unresolved = q.unresolved - 1 /\ r.unhashed = h
        /\ r.keys = q.keys /\ r.table = q.table /\ r.scheduled = q.scheduled
        /\ r.computed = q.computed /\ r.hashes = q.hashes
    <2> DEFINE u == q.unresolved - 1
    <2>1. q \in Row /\ u \in Nat /\ h \in Seq(Token)
      BY <1>3, <1>6, <1>7
    <2> HIDE DEF q, u
    <2> QED BY <2>1, ResolvedIs DEF u
  <1> HIDE DEF r
  <1>9. /\ mgr'.sequences = With(mgr, s, r) /\ mgr'.ref_counts = mgr.ref_counts
        /\ mgr'.block_hashes = mgr.block_hashes /\ mgr'.free = mgr.free /\ mgr'.cached = mgr.cached
    BY <1>1, OneField
  <1>10. Live(mgr') = Live(mgr) /\ mgr'.sequences[s] = r
         /\ \A t \in Live(mgr) : t # s => mgr'.sequences[t] = mgr.sequences[t]
    <2>1. DOMAIN mgr'.sequences = Live(mgr) \cup {s}
      BY <1>9, WithIs
    <2>2. Live(mgr') = DOMAIN mgr'.sequences
      BY DEF Live
    <2>3. With(mgr, s, r)[s] = r /\ \A t \in Live(mgr) : t # s => With(mgr, s, r)[t] = mgr.sequences[t]
      BY DEF With
    <2>4. mgr'.sequences = With(mgr, s, r) /\ Live(mgr) \cup {s} = Live(mgr)
      BY <1>1, <1>9
    <2> QED BY ONLY <2>1, <2>2, <2>3, <2>4
  <1>11. \A t \in Live(mgr) : /\ mgr'.sequences[t].table = mgr.sequences[t].table
                              /\ mgr'.sequences[t].scheduled = mgr.sequences[t].scheduled
                              /\ mgr'.sequences[t].keys = mgr.sequences[t].keys
                              /\ mgr'.sequences[t].computed = mgr.sequences[t].computed
                              /\ mgr'.sequences[t].hashes = mgr.sequences[t].hashes
    BY <1>8, <1>10
  <1>12. Managed'
    <2>1. IsManager(mgr')
      BY <1>1, <1>2, <1>9 DEF Managed, IsManager, Manager
    <2>2. mgr'.sequences \in [Live(mgr') -> Row] /\ Live(mgr') \in SUBSET SequenceId
      <3>1. Live(mgr) \cup {s} = Live(mgr)
        BY <1>1
      <3> QED BY <1>2, <1>8, <1>9, <1>10, <3>1, WithTyped
    <2> QED BY <1>1, <1>2, <1>9, <2>1, <2>2 DEF Managed
  <1>13. Lengths'
    <2> SUFFICES ASSUME NEW t \in Live(mgr') PROVE
          LET z == mgr'.sequences[t]
          IN  /\ z.scheduled = Len(text'[t]) /\ z.scheduled \in 1 .. MaxTokens
              /\ z.computed <= written'[t] /\ written'[t] <= z.scheduled
              /\ Len(z.hashes) * BlockTokens <= z.computed
              /\ z.unresolved <= z.scheduled
              /\ Len(z.table) = DivCeil(z.scheduled) /\ Once(z.table)
      BY DEF Lengths, LengthsOf
    <2>1. mgr'.sequences[t].unresolved <= mgr'.sequences[t].scheduled
      <3>1. CASE t = s
        BY <1>3, <1>8, <1>10, <3>1
      <3>2. CASE t # s
        BY <1>2, <1>10, <3>2 DEF Lengths, LengthsOf
      <3> QED BY <3>1, <3>2
    <2> QED BY <1>1, <1>2, <1>10, <1>11, <2>1 DEF Lengths, LengthsOf
  <1>14. HostView'
    <2> SUFFICES ASSUME NEW t \in Live(mgr') PROVE
          LET z == mgr'.sequences[t]
          IN  /\ \A i \in 1 .. Len(z.hashes) : z.hashes[i] = HashBlocks(<<>>, text'[t], z.keys, i)
              /\ PrefixCaching =>
                   /\ Len(z.hashes) * BlockTokens + Len(z.unhashed) + z.unresolved = z.scheduled
                   /\ \A p \in 1 .. Len(z.unhashed) : z.unhashed[p] = text'[t][Len(z.hashes) * BlockTokens + p]
              /\ ~PrefixCaching => z.unhashed = <<>>
      BY DEF HostView, HostViewOf
    <2>1. CASE t # s
      <3>1. t \in Live(mgr) /\ mgr'.sequences[t] = mgr.sequences[t] /\ text'[t] = text[t]
        BY <1>1, <1>10, <2>1
      <3> QED BY <1>2, <3>1 DEF HostView, HostViewOf
    <2>2. CASE t = s
      <3> DEFINE a == Len(q.hashes) * BlockTokens
      <3>1. a \in Nat
        BY <1>3, PoolAssumption
      <3>2. /\ \A i \in 1 .. Len(q.hashes) : q.hashes[i] = HashBlocks(<<>>, text[s], q.keys, i)
            /\ PrefixCaching =>
                 /\ a + Len(q.unhashed) + q.unresolved = q.scheduled
                 /\ \A p \in 1 .. Len(q.unhashed) : q.unhashed[p] = text[s][a + p]
            /\ ~PrefixCaching => q.unhashed = <<>>
        BY <1>1, <1>2 DEF HostView, HostViewOf
      <3> HIDE DEF a
      <3>3. ASSUME PrefixCaching
            PROVE  /\ a + Len(h) + (q.unresolved - 1) = q.scheduled
                   /\ \A p \in 1 .. Len(h) : h[p] = text[s][a + p]
        <4>0. Len(h) = Len(q.unhashed) + 1 /\ a + Len(q.unhashed) + q.unresolved = q.scheduled
              /\ q.unresolved \in Nat
          BY <1>3, <1>6, <3>2, <3>3
        <4>1. a + Len(h) + (q.unresolved - 1) = q.scheduled
          <5> DEFINE l == Len(q.unhashed)
                     u == q.unresolved
                     n == q.scheduled
                     k == Len(h)
          <5>1. l \in Nat /\ u \in Nat /\ n \in Nat /\ k = l + 1 /\ a + l + u = n
            BY <1>3, <4>0
          <5> HIDE DEF l, u, n, k
          <5>2. a + k + (u - 1) = n
            BY <3>1, <5>1
          <5> QED BY <5>2 DEF l, u, n, k
        <4>2. ASSUME NEW p \in 1 .. Len(h) PROVE h[p] = text[s][a + p]
          <5>1. CASE p <= Len(q.unhashed)
            <6>1. p \in 1 .. Len(q.unhashed)
              BY <1>3, <5>1
            <6> QED BY <1>6, <3>2, <3>3, <5>1, <6>1
          <5>2. CASE ~(p <= Len(q.unhashed))
            <6>1. a + p = q.scheduled - q.unresolved + 1
              <7>1. p = Len(q.unhashed) + 1
                BY <1>3, <4>0, <5>2
              <7> QED BY <1>3, <3>1, <4>0, <7>1
            <6>2. h[p] = token
              BY <1>6, <3>3, <5>2
            <6> QED BY <6>1, <6>2 DEF token
          <5> QED BY <5>1, <5>2
        <4> QED BY <4>1, <4>2
      <3>4. ~PrefixCaching => h = <<>>
        BY <3>2 DEF h
      <3>5. mgr'.sequences[t] = r /\ text'[t] = text[s]
        BY <1>1, <1>10, <2>2
      <3> QED BY <1>8, <3>2, <3>3, <3>4, <3>5 DEF a
    <2> QED BY <2>1, <2>2
  <1>15. MapAgrees' /\ Queue(mgr.free, mgr.block_hashes)'
    BY <1>2, <1>9 DEF MapAgrees
  <1>16. SharedAgree' /\ KeyedByText' /\ OwnContents'
         /\ HeldBlocks' = HeldBlocks /\ OpenBlocks' = OpenBlocks /\ UnwrittenBlocks' = UnwrittenBlocks
    BY <1>1, <1>9, <1>10, <1>11, SameTables
  <1>17. PublishedIsWritten' /\ HitIsSound' /\ Memory'
    BY <1>1, <1>2, <1>9 DEF PublishedIsWritten, HitIsSound, Memory
  <1>18. UNCHANGED Abstract!ledgerVars
    BY <1>9, <1>10, <1>16, LedgerStays
  <1>19. Abstract!LedgerInv'
    BY <1>18, LedgerMoves
  <1> QED BY <1>12, <1>13, <1>14, <1>15, <1>16, <1>17, <1>18, <1>19 DEF PoolInv



----------------------------------------------------------------------------
(* Slots and contents.                                                     *)

(* A scheduled position has a slot in the sequence's table.                *)
LEMMA SlotFacts ==
  ASSUME Managed, Lengths, NEW s \in Live(mgr), NEW p \in 1 .. mgr.sequences[s].scheduled
  PROVE  LET q == mgr.sequences[s]
         IN  /\ p \in Nat \ {0} /\ At(p) \in DOMAIN q.table /\ At(p) \in Nat \ {0}
             /\ SlotBlock(q, p) = q.table[At(p)]
             /\ SlotBlock(q, p) \in BlockId /\ SlotBlock(q, p) \in Range(q.table)
             /\ SlotOffset(p) \in 0 .. BlockTokens - 1
             /\ p = (At(p) - 1) * BlockTokens + SlotOffset(p) + 1
  <1> DEFINE q == mgr.sequences[s]
             n == q.scheduled
             i == At(p)
  <1>1. n \in Nat /\ Len(q.table) = DivCeil(n) /\ q.table \in Seq(BlockId) /\ p \in 1 .. n
    BY RowFacts
  <1>2. SlotBlock(q, p) = q.table[i]
    BY DEF SlotBlock, At
  <1> HIDE DEF q, n, i
  <1>3. p \in Nat \ {0}
    BY <1>1
  <1>4. i \in Nat \ {0} /\ SlotOffset(p) \in 0 .. BlockTokens - 1
        /\ p = (i - 1) * BlockTokens + SlotOffset(p) + 1
    BY <1>3, SlotOf DEF i
  <1>5. i \in 1 .. DivCeil(n)
    BY <1>1, SlotInside DEF i
  <1>6. i \in 1 .. Len(q.table)
    BY <1>1, <1>5
  <1>7. q.table[i] \in BlockId
    BY <1>1, <1>6, ElementOfSeq
  <1>8. DOMAIN q.table = 1 .. Len(q.table) /\ q.table[i] \in Range(q.table)
    BY <1>1, <1>6, RangeIs
  <1> QED BY <1>2, <1>3, <1>4, <1>6, <1>7, <1>8 DEF q, n, i

(* A slot stands for one position, whoever holds the block.                *)
LEMMA SlotUnique ==
  ASSUME Managed, Lengths, SharedAgree, NEW s \in Live(mgr), NEW t \in Live(mgr),
         NEW p \in 1 .. mgr.sequences[s].scheduled, NEW r \in 1 .. mgr.sequences[t].scheduled,
         SlotBlock(mgr.sequences[s], p) = SlotBlock(mgr.sequences[t], r),
         SlotOffset(p) = SlotOffset(r)
  PROVE  p = r
  <1>1. /\ At(p) \in DOMAIN mgr.sequences[s].table /\ At(r) \in DOMAIN mgr.sequences[t].table
        /\ mgr.sequences[s].table[At(p)] = mgr.sequences[t].table[At(r)]
        /\ p = (At(p) - 1) * BlockTokens + SlotOffset(p) + 1
        /\ r = (At(r) - 1) * BlockTokens + SlotOffset(r) + 1
    BY SlotFacts
  <1>2. At(p) = At(r)
    BY <1>1 DEF SharedAgree, Shared
  <1> QED BY <1>1, <1>2

(* What is written at a position depends on the tokens up to it.           *)
LEMMA SameContent ==
  ASSUME NEW u, NEW v, NEW k, NEW l, k.extras = l.extras, NEW p \in Nat, SameStart(u, v, p)
  PROVE  Content(u, k, p) = Content(v, l, p)
  <1>1. SubSeq(u, 1, p) = [i \in 1 .. p - 1 + 1 |-> u[1 + i - 1]]
        /\ SubSeq(v, 1, p) = [i \in 1 .. p - 1 + 1 |-> v[1 + i - 1]]
    BY SubSeqIs
  <1>2. \A i \in 1 .. p - 1 + 1 : u[1 + i - 1] = v[1 + i - 1]
    BY DEF SameStart
  <1>3. SubSeq(u, 1, p) = SubSeq(v, 1, p)
    BY <1>1, <1>2
  <1> QED BY <1>3 DEF Content

\* What PublishedIsWritten says a cell of a block published under h holds.
Named(h, o) ==
  <<Last(h).extras,
    [p \in 1 .. (Len(h) - 1) * BlockTokens + o + 1 |->
       h[(p - 1) \div BlockTokens + 1].tokens[((p - 1) % BlockTokens) + 1]]>>

LEMMA NamedIs ==
  ASSUME NEW u, NEW k, NEW n \in Nat \ {0}, NEW o \in 0 .. BlockTokens - 1
  PROVE  Named(HashBlocks(<<>>, u, k, n), o) = Content(u, k, (n - 1) * BlockTokens + o + 1)
  <1> DEFINE h == HashBlocks(<<>>, u, k, n)
             a == (n - 1) * BlockTokens
             l == a + o + 1
             f == [p \in 1 .. l |-> h[At(p)].tokens[SlotOffset(p) + 1]]
  <1>1. BlockTokens \in Nat \ {0} /\ a \in Nat /\ n * BlockTokens = a + BlockTokens
    BY PoolAssumption
  <1>2. Len(h) = n
    BY HashIs
  <1>3. n \in 1 .. n * BlockTokens
    BY <1>1
  <1>4. h[n].extras = k.extras
    <2>1. n \in Nat
      OBVIOUS
    <2> QED BY <1>3, <2>1, HashNames
  <1>5. \A p \in 1 .. l : p \in 1 .. n * BlockTokens
    <2> HIDE DEF a
    <2>1. l \in Nat /\ l <= n * BlockTokens
      BY <1>1
    <2> HIDE DEF l
    <2>2. n * BlockTokens \in Nat
      BY <1>1
    <2> QED BY <2>1, <2>2
  <1>6. \A p \in 1 .. l : h[At(p)].tokens[SlotOffset(p) + 1] = u[p]
    BY <1>5, HashNames
  <1>7. l \in Nat
    BY <1>1
  <1>8. Named(h, o) = <<k.extras, f>>
    <2>1. Last(h).extras = k.extras
      BY <1>2, <1>4 DEF Last
    <2> HIDE DEF h
    <2> QED BY <1>2, <2>1 DEF Named, At, SlotOffset
  <1> HIDE DEF l
  <1>9. SubSeq(u, 1, l) = [i \in 1 .. l - 1 + 1 |-> u[1 + i - 1]]
    BY <1>7, SubSeqIs
  <1>10. f = SubSeq(u, 1, l)
    <2>1. l - 1 + 1 = l
      BY <1>7
    <2>2. \A i \in 1 .. l : 1 + i - 1 = i
      BY <1>7
    <2>3. f = [i \in 1 .. l |-> u[i]]
      BY <1>6
    <2> HIDE DEF f
    <2> QED BY <1>9, <2>1, <2>2, <2>3
  <1> QED BY <1>8, <1>10 DEF Content, l

LEMMA PublishedIs ==
  PublishedIsWritten
    <=> \A h \in DOMAIN mgr.cached : \A o \in 0 .. BlockTokens - 1 : kv[mgr.cached[h]][o] = Named(h, o)
  BY DEF PublishedIsWritten, Named


----------------------------------------------------------------------------
(* The forward.                                                            *)

(* Positions still to be written are in blocks of nobody else, unpublished. *)
LEMMA UnwrittenIsPrivate ==
  ASSUME PoolInv, NEW s \in Live(mgr), NEW p \in written[s] + 1 .. mgr.sequences[s].scheduled
  PROVE  LET b == SlotBlock(mgr.sequences[s], p)
         IN  /\ b \in BlockId /\ b \in UnwrittenBlocks[s] /\ mgr.block_hashes[b] = None
             /\ \A t \in Live(mgr) : b \in Range(mgr.sequences[t].table) => t = s
  <1> DEFINE b == SlotBlock(mgr.sequences[s], p)
  <1>1. Managed /\ Lengths /\ Abstract!DirtyIsPrivate
    BY DEF PoolInv, Abstract!LedgerInv
  <1>2. s \in SequenceId /\ written[s] \in 0 .. mgr.sequences[s].scheduled /\ mgr.sequences[s].scheduled \in Nat
    BY <1>1, RowFacts
  <1>3. p \in 1 .. mgr.sequences[s].scheduled
    BY <1>2
  <1>4. b \in BlockId
    BY <1>1, <1>3, SlotFacts
  <1>5. b \in UnwrittenBlocks[s]
    BY <1>2 DEF UnwrittenBlocks, DirtyBlocks
  <1>6. Abstract!Holders(b) = {s} /\ mgr.block_hashes[b] = None
    BY <1>1, <1>5 DEF Abstract!DirtyIsPrivate
  <1>7. \A t \in Live(mgr) : b \in Range(mgr.sequences[t].table) => t \in Abstract!Holders(b)
    BY <1>1 DEF Abstract!Holders, HeldBlocks, Managed
  <1> QED BY <1>4, <1>5, <1>6, <1>7

LEMMA ForwardPreserves ==
  ASSUME PoolInv, NEW s \in SequenceId, Forward(s)
  PROVE  PoolInv' /\ Abstract!Forward(s)
  <1> DEFINE q == mgr.sequences[s]
             new == written[s] + 1 .. q.scheduled
             Lands(b, o) == {p \in new : SlotBlock(q, p) = b /\ SlotOffset(p) = o}
  <1>1. /\ s \in Live(mgr) /\ mgr' = mgr /\ hit' = hit /\ text' = text
        /\ written' = [written EXCEPT ![s] = q.scheduled]
        /\ kv' = [b \in BlockId |-> [o \in 0 .. BlockTokens - 1 |->
                    IF Lands(b, o) = {} THEN kv[b][o]
                    ELSE Content(text[s], q.keys, CHOOSE p \in Lands(b, o) : TRUE)]]
    BY DEF Forward
  <1>2. /\ Managed /\ Lengths /\ HostView /\ MapAgrees /\ Queue(mgr.free, mgr.block_hashes)
        /\ SharedAgree /\ KeyedByText /\ OwnContents /\ PublishedIsWritten /\ HitIsSound /\ Memory
    BY DEF PoolInv
  <1>3. /\ q.scheduled \in 1 .. MaxTokens /\ written[s] \in 0 .. q.scheduled /\ q.computed \in 0 .. written[s]
        /\ MaxTokens \in Nat
    BY <1>1, <1>2, RowFacts, ManagerAssumption
  <1>0. mgr' = mgr /\ text' = text
    BY <1>1
  <1>4. \A p \in new : p \in 1 .. q.scheduled
    BY <1>3
  <1>5. \A t \in Live(mgr) : written'[t] = IF t = s THEN q.scheduled ELSE written[t]
    BY <1>1, <1>2 DEF Managed
  <1>6. Live(mgr)' = Live(mgr)
    BY <1>1 DEF Live
  <1>7. \A b \in BlockId : \A o \in 0 .. BlockTokens - 1 : Lands(b, o) = {} => kv'[b][o] = kv[b][o]
    BY <1>1
  <1>8. OwnContents'
    <2> SUFFICES ASSUME NEW t \in Live(mgr), NEW p \in 1 .. written'[t]
                 PROVE  kv'[SlotBlock(mgr.sequences[t], p)][SlotOffset(p)]
                          = Content(text[t], mgr.sequences[t].keys, p)
      BY <1>0, <1>6 DEF OwnContents, OwnContentsOf, SlotBlock, Content
    <2> DEFINE b == SlotBlock(mgr.sequences[t], p)
               o == SlotOffset(p)
    <2>1. mgr.sequences[t].scheduled \in Nat /\ written[t] \in 0 .. mgr.sequences[t].scheduled
      BY <1>2, RowFacts
    <2>2. p \in 1 .. mgr.sequences[t].scheduled
      BY <1>5, <2>1
    <2>3. b \in BlockId /\ o \in 0 .. BlockTokens - 1 /\ b \in Range(mgr.sequences[t].table)
      BY <1>2, <2>2, SlotFacts
    <2>4. CASE t = s /\ p \in new
      <3>1. \A r \in Lands(b, o) : r = p
        <4> SUFFICES ASSUME NEW r \in Lands(b, o) PROVE r = p
          OBVIOUS
        <4>1. r \in 1 .. q.scheduled /\ SlotBlock(q, r) = b /\ SlotOffset(r) = o
          BY <1>4
        <4> QED BY <1>1, <1>2, <2>2, <2>4, <4>1, SlotUnique
      <3>2. p \in Lands(b, o)
        BY <2>4
      <3>3. Lands(b, o) # {} /\ (CHOOSE r \in Lands(b, o) : TRUE) = p
        BY <3>1, <3>2
      <3>4. kv'[b][o] = Content(text[s], q.keys, CHOOSE r \in Lands(b, o) : TRUE)
        <4> HIDE DEF Lands, b, o
        <4> QED BY <1>1, <2>3, <3>3
      <3> QED BY <2>4, <3>3, <3>4
    <2>5. CASE ~(t = s /\ p \in new)
      <3>1. p \in 1 .. written[t]
        BY <1>3, <1>5, <2>1, <2>5
      <3>2. Lands(b, o) = {}
        <4> SUFFICES ASSUME NEW r \in Lands(b, o) PROVE FALSE
          OBVIOUS
        <4>1. r \in new /\ r \in 1 .. q.scheduled /\ SlotBlock(q, r) = b /\ SlotOffset(r) = o
          BY <1>4
        <4>2. t = s
          BY <1>1, <2>3, <4>1, UnwrittenIsPrivate
        <4>3. r = p
          BY <1>1, <1>2, <2>2, <4>1, <4>2, SlotUnique
        <4> QED BY <2>5, <4>1, <4>2, <4>3
      <3>3. kv'[b][o] = kv[b][o]
        BY <1>7, <2>3, <3>2
      <3>4. kv[b][o] = Content(text[t], mgr.sequences[t].keys, p)
        BY <1>2, <3>1 DEF OwnContents, OwnContentsOf
      <3> QED BY <3>3, <3>4
    <2> QED BY <2>4, <2>5
  <1>9. PublishedIsWritten'
    <2> SUFFICES ASSUME NEW h \in DOMAIN mgr.cached, NEW o \in 0 .. BlockTokens - 1
                 PROVE  kv'[mgr.cached[h]][o] = Named(h, o)
      BY <1>0 DEF PublishedIsWritten, Named
    <2> DEFINE b == mgr.cached[h]
    <2>1. b \in BlockId /\ mgr.block_hashes[b] = h /\ h # None
      BY <1>2, ManagerAssumption DEF MapAgrees, Managed
    <2>2. Lands(b, o) = {}
      BY <1>1, <2>1, UnwrittenIsPrivate
    <2> QED BY <1>2, <1>7, <2>1, <2>2, PublishedIs
  <1>10. Managed'
    <2>1. written' \in [SequenceId -> 0 .. MaxTokens]
      BY <1>1, <1>2, <1>3 DEF Managed
    <2> QED BY <1>1, <1>2, <1>6, <2>1 DEF Managed
  <1>11. Lengths'
    <2> SUFFICES ASSUME NEW t \in Live(mgr)
                 PROVE  LET z == mgr.sequences[t]
                        IN  /\ z.scheduled = Len(text[t]) /\ z.scheduled \in 1 .. MaxTokens
                            /\ z.computed <= written'[t] /\ written'[t] <= z.scheduled
                            /\ Len(z.hashes) * BlockTokens <= z.computed
                            /\ z.unresolved <= z.scheduled
                            /\ Len(z.table) = DivCeil(z.scheduled) /\ Once(z.table)
      BY <1>1, <1>6 DEF Lengths, LengthsOf
    <2>1. mgr.sequences[t].computed <= written'[t] /\ written'[t] <= mgr.sequences[t].scheduled
      <3>1. mgr.sequences[t].computed <= written[t] /\ written[t] <= mgr.sequences[t].scheduled
        BY <1>2 DEF Lengths, LengthsOf
      <3>2. mgr.sequences[t].scheduled \in Nat /\ mgr.sequences[t].computed \in 0 .. written[t]
            /\ written[t] \in 0 .. mgr.sequences[t].scheduled
        BY <1>2, RowFacts
      <3>3. CASE t = s
        BY <1>5, <3>1, <3>2, <3>3
      <3>4. CASE t # s
        BY <1>5, <3>1, <3>4
      <3> QED BY <3>3, <3>4
    <2> QED BY <1>2, <2>1 DEF Lengths, LengthsOf
  <1>12. (HostView /\ MapAgrees /\ Queue(mgr.free, mgr.block_hashes) /\ HitIsSound)'
    BY <1>1, <1>2 DEF HostView, HostViewOf, MapAgrees, HitIsSound, Live
  <1>13. (SharedAgree /\ KeyedByText)'
    BY <1>1, <1>2, <1>6 DEF SharedAgree, Shared, Agree, KeyedByText, KeyedOf
  <1>14. Memory'
    BY <1>1 DEF Memory
  <1>15. Abstract!Forward(s)
    <2>1. HeldBlocks' = HeldBlocks /\ OpenBlocks' = OpenBlocks
      BY <1>1, <1>6 DEF HeldBlocks, OpenBlocks, OpenBlock
    <2>2. UnwrittenBlocks' = [UnwrittenBlocks EXCEPT ![s] = {}]
      <3>1. UnwrittenBlocks' = [t \in SequenceId |-> IF t \in Live(mgr) THEN DirtyBlocks(t)' ELSE {}]
        BY <1>6 DEF UnwrittenBlocks
      <3>2. DirtyBlocks(s)' = {}
        <4>1. \A p \in written'[s] + 1 .. mgr'.sequences[s].scheduled : FALSE
          BY <1>1, <1>3, <1>5
        <4> QED BY <4>1 DEF DirtyBlocks
      <3>3. \A t \in Live(mgr) : t # s => DirtyBlocks(t)' = DirtyBlocks(t)
        BY <1>1, <1>5 DEF DirtyBlocks, SlotBlock
      <3> QED BY <1>1, <3>1, <3>2, <3>3 DEF UnwrittenBlocks
    <2> QED BY <1>1, <1>6, <2>1, <2>2 DEF Abstract!Forward
  <1>16. Abstract!LedgerInv'
    <2>1. Abstract!Next
      BY <1>15 DEF Abstract!Next
    <2> QED BY <2>1, LedgerMoves
  <1> QED BY <1>8, <1>9, <1>10, <1>11, <1>12, <1>13, <1>14, <1>15, <1>16 DEF PoolInv


----------------------------------------------------------------------------
(* A step of one sequence.                                                 *)

\* Nothing changes for the sequences other than s.
OthersStay(s) ==
  /\ Live(mgr') \ {s} = Live(mgr) \ {s}
  /\ \A t \in Live(mgr) : t # s =>
       mgr'.sequences[t] = mgr.sequences[t] /\ text'[t] = text[t] /\ written'[t] = written[t]

LEMMA OthersKeep ==
  ASSUME PoolInv, NEW s \in SequenceId, OthersStay(s)
  PROVE  /\ (s \in Live(mgr') => LengthsOf(s)') => Lengths'
         /\ (s \in Live(mgr') => HostViewOf(s)') => HostView'
         /\ (\A t \in Live(mgr') : s \in Live(mgr') => Shared(s, t)' /\ Shared(t, s)') => SharedAgree'
         /\ HeldBlocks' = [HeldBlocks EXCEPT ![s] = HeldBlocks'[s]]
         /\ OpenBlocks' = [OpenBlocks EXCEPT ![s] = OpenBlocks'[s]]
         /\ UnwrittenBlocks' = [UnwrittenBlocks EXCEPT ![s] = UnwrittenBlocks'[s]]
  <1>1. Live(mgr)' = Live(mgr')
    BY DEF Live
  <1>2. \A t \in Live(mgr') : t # s =>
          /\ t \in Live(mgr) /\ mgr'.sequences[t] = mgr.sequences[t]
          /\ text'[t] = text[t] /\ written'[t] = written[t]
    BY DEF OthersStay
  <1>3. \A t \in Live(mgr) : t # s => t \in Live(mgr')
    BY DEF OthersStay
  <1>4. Lengths /\ HostView /\ SharedAgree
    BY DEF PoolInv
  <1>5. ASSUME s \in Live(mgr') => LengthsOf(s)' PROVE Lengths'
    <2>1. \A t \in Live(mgr') : t # s => LengthsOf(t)'
      BY <1>2, <1>4 DEF Lengths, LengthsOf
    <2>2. \A t \in Live(mgr') : LengthsOf(t)'
      BY <1>5, <2>1
    <2> QED BY <1>1, <2>2 DEF Lengths
  <1>6. ASSUME s \in Live(mgr') => HostViewOf(s)' PROVE HostView'
    <2>1. \A t \in Live(mgr') : t # s => HostViewOf(t)'
      <3> SUFFICES ASSUME NEW t \in Live(mgr'), t # s PROVE HostViewOf(t)'
        OBVIOUS
      <3>1. HostViewOf(t) /\ mgr'.sequences[t] = mgr.sequences[t] /\ text'[t] = text[t]
        BY <1>2, <1>4 DEF HostView
      <3> QED BY <3>1 DEF HostViewOf
    <2>2. \A t \in Live(mgr') : HostViewOf(t)'
      BY <1>6, <2>1
    <2> QED BY <1>1, <2>2 DEF HostView
  <1>7. ASSUME \A t \in Live(mgr') : s \in Live(mgr') => Shared(s, t)' /\ Shared(t, s)' PROVE SharedAgree'
    <2>1. \A t, u \in Live(mgr') : t # s /\ u # s => Shared(t, u)'
      BY <1>2, <1>4 DEF SharedAgree, Shared, Agree
    <2>2. \A t, u \in Live(mgr') : Shared(t, u)'
      BY <1>7, <2>1
    <2> QED BY <1>1, <2>2 DEF SharedAgree
  <1>8. \A t \in SequenceId : t # s => HeldBlocks'[t] = HeldBlocks[t]
    BY <1>1, <1>2, <1>3 DEF HeldBlocks
  <1>9. \A t \in SequenceId : t # s => OpenBlocks'[t] = OpenBlocks[t]
    BY <1>1, <1>2, <1>3 DEF OpenBlocks, OpenBlock
  <1>10. \A t \in SequenceId : t # s => UnwrittenBlocks'[t] = UnwrittenBlocks[t]
    <2>1. \A t \in Live(mgr) : t # s => DirtyBlocks(t)' = DirtyBlocks(t)
      BY <1>2, <1>3 DEF DirtyBlocks, SlotBlock
    <2> QED BY <1>1, <1>2, <1>3, <2>1 DEF UnwrittenBlocks
  <1>11. HeldBlocks' = [HeldBlocks EXCEPT ![s] = HeldBlocks'[s]]
    <2>1. HeldBlocks' = [t \in SequenceId |-> HeldBlocks'[t]] /\ HeldBlocks = [t \in SequenceId |-> HeldBlocks[t]]
      BY DEF HeldBlocks
    <2> QED BY <1>8, <2>1
  <1>12. OpenBlocks' = [OpenBlocks EXCEPT ![s] = OpenBlocks'[s]]
    <2>1. OpenBlocks' = [t \in SequenceId |-> OpenBlocks'[t]] /\ OpenBlocks = [t \in SequenceId |-> OpenBlocks[t]]
      BY DEF OpenBlocks
    <2> QED BY <1>9, <2>1
  <1>13. UnwrittenBlocks' = [UnwrittenBlocks EXCEPT ![s] = UnwrittenBlocks'[s]]
    <2>1. UnwrittenBlocks' = [t \in SequenceId |-> UnwrittenBlocks'[t]]
          /\ UnwrittenBlocks = [t \in SequenceId |-> UnwrittenBlocks[t]]
      BY DEF UnwrittenBlocks
    <2> QED BY <1>10, <2>1
  <1> QED BY <1>5, <1>6, <1>7, <1>11, <1>12, <1>13

(* A slot of another sequence keeps its contents.                          *)
LEMMA OthersOwn ==
  ASSUME PoolInv, NEW s \in SequenceId, OthersStay(s),
         \A t \in Live(mgr) : t # s => \A b \in Range(mgr.sequences[t].table) :
           \A o \in 0 .. BlockTokens - 1 : kv'[b][o] = kv[b][o],
         s \in Live(mgr') => OwnContentsOf(s)'
  PROVE  OwnContents'
  <1>1. \A t \in Live(mgr') : t # s =>
          /\ t \in Live(mgr) /\ mgr'.sequences[t] = mgr.sequences[t]
          /\ text'[t] = text[t] /\ written'[t] = written[t]
    BY DEF OthersStay
  <1>2. Managed /\ Lengths /\ OwnContents
    BY DEF PoolInv
  <1>3. ASSUME NEW t \in Live(mgr'), t # s PROVE OwnContentsOf(t)'
    <2>1. t \in Live(mgr) /\ written[t] \in 0 .. mgr.sequences[t].scheduled
          /\ mgr.sequences[t].scheduled \in Nat
      BY <1>1, <1>2, <1>3, RowFacts
    <2>2. ASSUME NEW p \in 1 .. written[t]
          PROVE  LET b == SlotBlock(mgr.sequences[t], p)
                 IN  kv'[b][SlotOffset(p)] = kv[b][SlotOffset(p)]
      <3>1. p \in 1 .. mgr.sequences[t].scheduled
        BY <2>1
      <3> QED BY <1>2, <1>3, <2>1, <3>1, SlotFacts
    <2>3. \A p \in 1 .. written[t] :
            kv[SlotBlock(mgr.sequences[t], p)][SlotOffset(p)] = Content(text[t], mgr.sequences[t].keys, p)
      BY <1>2, <2>1 DEF OwnContents, OwnContentsOf
    <2> QED BY <1>1, <1>3, <2>2, <2>3 DEF OwnContentsOf, SlotBlock, Content
  <1> QED BY <1>3 DEF OwnContents, Live

----------------------------------------------------------------------------
(* free.                                                                   *)

LEMMA FreeEffect ==
  ASSUME PoolInv, NEW s \in SequenceId, FreeStep(s)
  PROVE  LET P == Range(mgr.sequences[s].table)
             back == {b \in P : mgr.ref_counts[b] = 1}
         IN  /\ s \in Live(mgr) /\ Live(mgr') = Live(mgr) \ {s}
             /\ mgr'.sequences = Restrict(mgr.sequences, Live(mgr) \ {s})
             /\ \A t \in Live(mgr) : t # s => mgr'.sequences[t] = mgr.sequences[t]
             /\ mgr'.ref_counts = RefsReleased(mgr, P)
             /\ mgr'.block_hashes = mgr.block_hashes /\ mgr'.cached = mgr.cached
             /\ Queue(mgr'.free, mgr.block_hashes) /\ Range(mgr'.free) = Range(mgr.free) \cup back
             /\ IsManager(mgr')
  <1> DEFINE q == mgr.sequences[s]
             table == Reverse(q.table)
             P == Range(q.table)
             U == {b \in {c \in Range(table) : mgr.ref_counts[c] = 1} : mgr.block_hashes[b] = None}
             K == {b \in {c \in Range(table) : mgr.ref_counts[c] = 1} : mgr.block_hashes[b] # None}
             u == Unkeyed(mgr, table)
             k == Keyed(mgr, table)
             back == {b \in P : mgr.ref_counts[b] = 1}
             M == Restrict(mgr.sequences, Live(mgr) \ {s})
             free == Reverse(u) \o mgr.free \o k
  <1>1. /\ s \in Live(mgr) /\ Managed /\ Lengths /\ IsManager(mgr) /\ Queue(mgr.free, mgr.block_hashes)
        /\ mgr' = FreeSequence(mgr, s)
    BY PoolFacts DEF FreeStep, PoolInv
  <1>2. mgr' = Manager(M, RefsReleased(mgr, Range(table)), mgr.block_hashes, free, mgr.cached)
    BY <1>1, FreeIs
  <1>3. q.table \in Seq(BlockId) /\ Once(q.table)
    BY <1>1, RowFacts DEF Lengths, LengthsOf
  <1>4. table \in Seq(BlockId) /\ Once(table) /\ Range(table) = P
    BY <1>3, ReverseIs
  <1>5. \A b \in P : b \in BlockId /\ mgr.ref_counts[b] # 0 /\ b \notin Range(mgr.free)
    BY <1>1, PoolFacts
  <1>6. /\ u \in Seq(BlockId) /\ Once(u) /\ Range(u) = P \cap U
        /\ k \in Seq(BlockId) /\ Once(k) /\ Range(k) = P \cap K
    <2>1. u = Keep(table, U) /\ k = Keep(table, K)
      BY DEF Unkeyed, Keyed
    <2> HIDE DEF U, K, u, k, table, P
    <2> QED BY <1>4, <2>1, KeepProperties
  <1>7. Queue(free, mgr.block_hashes) /\ Range(free) = Range(u) \cup Range(mgr.free) \cup Range(k)
    <2>1. /\ Range(u) \cap Range(mgr.free) = {} /\ Range(k) \cap Range(mgr.free) = {}
          /\ (\A b \in Range(u) : mgr.block_hashes[b] = None) /\ (\A c \in Range(k) : mgr.block_hashes[c] # None)
      BY <1>5, <1>6
    <2> HIDE DEF u, k
    <2> QED BY <1>1, <1>6, <2>1, QueueReturn
  <1>8. Range(u) \cup Range(k) = back
    BY <1>4, <1>6
  <1>9. mgr'.sequences = M /\ mgr'.ref_counts = RefsReleased(mgr, P)
        /\ mgr'.block_hashes = mgr.block_hashes /\ mgr'.free = free /\ mgr'.cached = mgr.cached
    <2> HIDE DEF M, free
    <2> QED BY <1>2, <1>4, OneField
  <1>10. Live(mgr') = Live(mgr) \ {s} /\ \A t \in Live(mgr) : t # s => mgr'.sequences[t] = mgr.sequences[t]
    BY <1>9 DEF Live, Restrict
  <1>11. IsManager(mgr')
    <2>1. RefsReleased(mgr, P) \in [BlockId -> Nat]
      BY <1>1, <1>5 DEF RefsReleased, IsManager
    <2>2. free \in Seq(BlockId)
      BY <1>7 DEF Queue
    <2>3. mgr' = Manager(mgr'.sequences, mgr'.ref_counts, mgr'.block_hashes, mgr'.free, mgr'.cached)
      <3> HIDE DEF M, free
      <3> QED BY <1>2, <1>4, <1>9
    <2> QED BY <1>1, <1>9, <2>1, <2>2, <2>3 DEF IsManager, Manager
  <1>12. Range(mgr'.free) = Range(mgr.free) \cup back
    BY <1>7, <1>8, <1>9
  <1> QED BY <1>1, <1>7, <1>9, <1>10, <1>11, <1>12


LEMMA FreePreserves ==
  ASSUME PoolInv, NEW s \in SequenceId, FreeStep(s)
  PROVE  PoolInv' /\ Abstract!Free(s)
  <1> DEFINE P == Range(mgr.sequences[s].table)
             back == {b \in P : mgr.ref_counts[b] = 1}
  <1>1. /\ s \in Live(mgr) /\ Live(mgr') = Live(mgr) \ {s}
        /\ mgr'.sequences = Restrict(mgr.sequences, Live(mgr) \ {s})
        /\ \A t \in Live(mgr) : t # s => mgr'.sequences[t] = mgr.sequences[t]
        /\ mgr'.ref_counts = RefsReleased(mgr, P)
        /\ mgr'.block_hashes = mgr.block_hashes /\ mgr'.cached = mgr.cached
        /\ Queue(mgr'.free, mgr.block_hashes) /\ Range(mgr'.free) = Range(mgr.free) \cup back
        /\ IsManager(mgr')
    BY FreeEffect
  <1>2. /\ hit' = hit /\ text' = [text EXCEPT ![s] = <<>>] /\ written' = [written EXCEPT ![s] = 0]
        /\ kv' = Forget(mgr', kv)
    BY DEF FreeStep
  <1>3. /\ Managed /\ Lengths /\ HostView /\ MapAgrees /\ Queue(mgr.free, mgr.block_hashes)
        /\ SharedAgree /\ KeyedByText /\ OwnContents /\ PublishedIsWritten /\ HitIsSound /\ Memory
    BY DEF PoolInv
  <1> HIDE DEF P
  <1>4. Managed'
    <2>1. mgr'.sequences \in [Live(mgr') -> Row] /\ Live(mgr') \in SUBSET SequenceId
      <3>1. mgr.sequences \in [Live(mgr) -> Row] /\ Live(mgr) \in SUBSET SequenceId
        BY <1>3 DEF Managed
      <3>2. mgr'.sequences = [t \in Live(mgr') |-> mgr.sequences[t]]
        BY <1>1, <3>1 DEF Restrict
      <3> QED BY <1>1, <3>1, <3>2
    <2>2. text' \in [SequenceId -> Seq(Token)] /\ written' \in [SequenceId -> 0 .. MaxTokens]
      <3>1. <<>> \in Seq(Token) /\ 0 \in 0 .. MaxTokens
        BY EmptySeq, ManagerAssumption
      <3> QED BY <1>2, <1>3, <3>1 DEF Managed
    <2>3. Live(mgr)' = Live(mgr')
      BY DEF Live
    <2> QED BY <1>1, <1>3, <2>1, <2>2, <2>3 DEF Managed
  <1>5. OthersStay(s)
    <2>1. \A t \in SequenceId : t # s => text'[t] = text[t] /\ written'[t] = written[t]
      BY <1>2, <1>3 DEF Managed
    <2>2. Live(mgr) \subseteq SequenceId
      BY <1>3 DEF Managed
    <2> QED BY <1>1, <2>1, <2>2 DEF OthersStay
  <1>6. s \notin Live(mgr') /\ Live(mgr)' = Live(mgr')
    BY <1>1 DEF Live
  <1>7. (Lengths /\ HostView /\ SharedAgree)'
    BY <1>5, <1>6, OthersKeep
  <1>8. ASSUME NEW b \in BlockId, mgr.block_hashes[b] # None \/ \E t \in Live(mgr) : t # s /\ b \in Range(mgr.sequences[t].table),
               NEW o \in 0 .. BlockTokens - 1
        PROVE  kv'[b][o] = kv[b][o]
    <2>1. kv'[b] = IF mgr'.ref_counts[b] = 0 /\ mgr.block_hashes[b] = None
                   THEN [c \in 0 .. BlockTokens - 1 |-> Blank] ELSE kv[b]
      BY <1>1, <1>2 DEF Forget
    <2>2. CASE mgr.block_hashes[b] # None
      BY <2>1, <2>2
    <2>3. ASSUME NEW t \in Live(mgr), t # s, b \in Range(mgr.sequences[t].table)
          PROVE  mgr'.ref_counts[b] # 0
      <3>1. mgr.ref_counts[b] \in Nat /\ mgr.ref_counts[b] # 0
        BY <2>3, PoolFacts
      <3>2. mgr'.ref_counts[b] = IF b \in P THEN mgr.ref_counts[b] - 1 ELSE mgr.ref_counts[b]
        BY <1>1 DEF RefsReleased
      <3>3. b \in P => ~(mgr.ref_counts[b] <= 1)
        BY <1>1, <2>3, PoolFacts DEF P
      <3> QED BY <3>1, <3>2, <3>3
    <2> QED BY <1>8, <2>1, <2>2, <2>3
  <1>9. OwnContents'
    <2>1. \A t \in Live(mgr) : t # s => \A b \in Range(mgr.sequences[t].table) :
            \A o \in 0 .. BlockTokens - 1 : kv'[b][o] = kv[b][o]
      <3>1. \A t \in Live(mgr) : \A b \in Range(mgr.sequences[t].table) : b \in BlockId
        BY PoolFacts
      <3> QED BY <1>8, <3>1
    <2> QED BY <1>5, <1>6, <2>1, OthersOwn
  <1>10. PublishedIsWritten'
    <2> SUFFICES ASSUME NEW h \in DOMAIN mgr.cached, NEW o \in 0 .. BlockTokens - 1
                 PROVE  kv'[mgr.cached[h]][o] = Named(h, o)
      BY <1>1 DEF PublishedIsWritten, Named
    <2>1. mgr.cached[h] \in BlockId /\ mgr.block_hashes[mgr.cached[h]] = h /\ h # None
      BY <1>3, ManagerAssumption DEF MapAgrees, Managed
    <2> QED BY <1>3, <1>8, <2>1, PublishedIs
  <1>11. KeyedByText'
    <2> SUFFICES ASSUME NEW t \in Live(mgr') PROVE KeyedOf(t)'
      BY <1>6 DEF KeyedByText
    <2>1. /\ t \in Live(mgr) /\ mgr'.sequences[t] = mgr.sequences[t] /\ text'[t] = text[t]
          /\ KeyedOf(t)
      BY <1>1, <1>3, <1>5 DEF KeyedByText, OthersStay
    <2> QED BY <1>1, <2>1 DEF KeyedOf
  <1>12. (MapAgrees /\ Queue(mgr.free, mgr.block_hashes) /\ HitIsSound)'
    BY <1>1, <1>2, <1>3 DEF MapAgrees, HitIsSound
  <1>13. Memory'
    <2>1. DOMAIN kv' = BlockId /\ \A b \in BlockId : kv'[b] = kv[b] \/ kv'[b] = [o \in 0 .. BlockTokens - 1 |-> Blank]
      BY <1>2 DEF Forget
    <2> QED BY <1>3, <2>1 DEF Memory
  <1>14. Abstract!Free(s)
    <2>1. /\ HeldBlocks' = [HeldBlocks EXCEPT ![s] = HeldBlocks'[s]]
          /\ OpenBlocks' = [OpenBlocks EXCEPT ![s] = OpenBlocks'[s]]
          /\ UnwrittenBlocks' = [UnwrittenBlocks EXCEPT ![s] = UnwrittenBlocks'[s]]
      BY <1>5, OthersKeep
    <2>2. HeldBlocks'[s] = {} /\ OpenBlocks'[s] = None /\ UnwrittenBlocks'[s] = {}
      BY <1>6 DEF HeldBlocks, OpenBlocks, UnwrittenBlocks
    <2>3. HeldBlocks[s] = P
      BY <1>1 DEF HeldBlocks, P
    <2>4. mgr'.ref_counts = [b \in BlockId |-> IF b \in HeldBlocks[s] THEN mgr.ref_counts[b] - 1 ELSE mgr.ref_counts[b]]
      BY <1>1, <2>3 DEF RefsReleased
    <2>5. Range(mgr'.free) = Range(mgr.free) \cup {b \in HeldBlocks[s] : mgr.ref_counts[b] = 1}
      BY <1>1, <2>3
    <2> QED BY <1>1, <1>6, <2>1, <2>2, <2>4, <2>5 DEF Abstract!Free
  <1>15. Abstract!LedgerInv'
    <2>1. Abstract!Next
      BY <1>14 DEF Abstract!Next
    <2> QED BY <2>1, LedgerMoves
  <1> QED BY <1>4, <1>7, <1>9, <1>10, <1>11, <1>12, <1>13, <1>14, <1>15 DEF PoolInv


----------------------------------------------------------------------------
(* fork.                                                                   *)

(* A step that gives sequence s the record r, tokens and written ones.     *)
LEMMA PutStep ==
  ASSUME Managed, NEW s \in SequenceId, NEW r \in Row, mgr'.sequences = With(mgr, s, r),
         NEW tokens \in Seq(Token), text' = [text EXCEPT ![s] = tokens],
         NEW n \in 0 .. MaxTokens, written' = [written EXCEPT ![s] = n]
  PROVE  /\ Live(mgr') = Live(mgr) \cup {s} /\ s \in Live(mgr') /\ Live(mgr)' = Live(mgr')
         /\ mgr'.sequences[s] = r /\ text'[s] = tokens /\ written'[s] = n
         /\ OthersStay(s)
         /\ mgr'.sequences \in [Live(mgr') -> Row] /\ Live(mgr') \in SUBSET SequenceId
         /\ text' \in [SequenceId -> Seq(Token)] /\ written' \in [SequenceId -> 0 .. MaxTokens]
  <1>1. Live(mgr') = Live(mgr) \cup {s}
    <2>1. DOMAIN mgr'.sequences = Live(mgr) \cup {s}
      BY DEF With
    <2>2. Live(mgr') = DOMAIN mgr'.sequences
      BY DEF Live
    <2> QED BY <2>1, <2>2
  <1>2. Live(mgr)' = Live(mgr')
    BY DEF Live
  <1>3. mgr'.sequences[s] = r /\ \A t \in Live(mgr) : t # s => mgr'.sequences[t] = mgr.sequences[t]
    BY DEF With
  <1>4. /\ text \in [SequenceId -> Seq(Token)] /\ written \in [SequenceId -> 0 .. MaxTokens]
        /\ Live(mgr) \subseteq SequenceId
    BY DEF Managed
  <1>5. text'[s] = tokens /\ written'[s] = n
        /\ text' \in [SequenceId -> Seq(Token)] /\ written' \in [SequenceId -> 0 .. MaxTokens]
        /\ \A t \in SequenceId : t # s => text'[t] = text[t] /\ written'[t] = written[t]
    BY <1>4
  <1>6. OthersStay(s)
    BY <1>1, <1>3, <1>4, <1>5 DEF OthersStay
  <1>7. mgr'.sequences \in [Live(mgr') -> Row] /\ Live(mgr') \in SUBSET SequenceId
    BY <1>1, WithTyped
  <1> QED BY <1>1, <1>2, <1>3, <1>5, <1>6, <1>7

LEMMA ForkEffect ==
  ASSUME PoolInv, NEW parent \in SequenceId, NEW child \in SequenceId, ForkStep(parent, child)
  PROVE  LET q == mgr.sequences[parent]
             P == Range(q.table)
         IN  /\ parent \in Live(mgr) /\ child \notin Live(mgr) /\ q.scheduled = q.computed
             /\ mgr'.sequences = With(mgr, child, q) /\ mgr'.ref_counts = RefsPinned(mgr, P)
             /\ mgr'.block_hashes = mgr.block_hashes /\ mgr'.cached = mgr.cached
             /\ Queue(mgr'.free, mgr.block_hashes) /\ Range(mgr'.free) = Range(mgr.free)
             /\ IsManager(mgr')
  <1> DEFINE q == mgr.sequences[parent]
             P == Range(q.table)
             free == Keep(mgr.free, BlockId \ P)
             W == With(mgr, child, q)
  <1>1. /\ parent \in Live(mgr) /\ child \notin Live(mgr) /\ q.scheduled = q.computed
        /\ mgr' = Fork(mgr, parent, child)
        /\ IsManager(mgr) /\ Queue(mgr.free, mgr.block_hashes)
    BY PoolFacts DEF ForkStep, CanFork
  <1>2. mgr' = Manager(W, RefsPinned(mgr, P), mgr.block_hashes, free, mgr.cached)
    BY <1>1, ForkIs
  <1>3. Queue(free, mgr.block_hashes) /\ Range(free) = Range(mgr.free) \cap (BlockId \ P)
    <2> DEFINE S == BlockId \ P
    <2> HIDE DEF S
    <2>1. Queue(Keep(mgr.free, S), mgr.block_hashes) /\ Range(Keep(mgr.free, S)) = Range(mgr.free) \cap S
      BY <1>1, QueueRetain
    <2> QED BY <2>1 DEF S
  <1>4. Range(free) = Range(mgr.free)
    BY <1>1, <1>3, PoolFacts
  <1> HIDE DEF free, W
  <1>5. mgr'.sequences = W /\ mgr'.ref_counts = RefsPinned(mgr, P)
        /\ mgr'.block_hashes = mgr.block_hashes /\ mgr'.free = free /\ mgr'.cached = mgr.cached
    BY <1>2, OneField
  <1>6. IsManager(mgr')
    <2>1. RefsPinned(mgr, P) \in [BlockId -> Nat]
      BY <1>1 DEF RefsPinned, IsManager
    <2>2. free \in Seq(BlockId)
      BY <1>3 DEF Queue
    <2>3. mgr' = Manager(mgr'.sequences, mgr'.ref_counts, mgr'.block_hashes, mgr'.free, mgr'.cached)
      BY <1>2, <1>5
    <2> QED BY <1>1, <1>5, <2>1, <2>2, <2>3 DEF IsManager, Manager
  <1> QED BY <1>1, <1>3, <1>4, <1>5, <1>6 DEF W

LEMMA ForkPreserves ==
  ASSUME PoolInv, NEW parent \in SequenceId, NEW child \in SequenceId, ForkStep(parent, child)
  PROVE  PoolInv' /\ Abstract!Fork(parent, child)
  <1> DEFINE q == mgr.sequences[parent]
             P == Range(q.table)
  <1>1. /\ parent \in Live(mgr) /\ child \notin Live(mgr) /\ q.scheduled = q.computed
        /\ mgr'.sequences = With(mgr, child, q) /\ mgr'.ref_counts = RefsPinned(mgr, P)
        /\ mgr'.block_hashes = mgr.block_hashes /\ mgr'.cached = mgr.cached
        /\ Queue(mgr'.free, mgr.block_hashes) /\ Range(mgr'.free) = Range(mgr.free)
        /\ IsManager(mgr')
    BY ForkEffect
  <1>2. /\ hit' = hit /\ text' = [text EXCEPT ![child] = text[parent]]
        /\ written' = [written EXCEPT ![child] = written[parent]] /\ kv' = kv
    BY DEF ForkStep
  <1>3. /\ Managed /\ Lengths /\ HostView /\ MapAgrees /\ Queue(mgr.free, mgr.block_hashes)
        /\ SharedAgree /\ KeyedByText /\ OwnContents /\ PublishedIsWritten /\ HitIsSound /\ Memory
    BY DEF PoolInv
  <1>4. /\ q \in Row /\ text[parent] \in Seq(Token) /\ written[parent] \in 0 .. MaxTokens
        /\ q.scheduled \in Nat /\ written[parent] = q.scheduled
    <2>1. q \in Row /\ text[parent] \in Seq(Token) /\ q.scheduled \in 1 .. MaxTokens
          /\ written[parent] \in 0 .. q.scheduled /\ q.computed \in 0 .. written[parent]
      BY <1>1, <1>3, RowFacts
    <2>2. written[parent] \in 0 .. MaxTokens
      BY <1>3 DEF Managed
    <2> QED BY <1>1, <2>1, <2>2
  <1> HIDE DEF q
  <1>5. /\ Live(mgr') = Live(mgr) \cup {child} /\ child \in Live(mgr') /\ Live(mgr)' = Live(mgr')
        /\ mgr'.sequences[child] = q /\ text'[child] = text[parent] /\ written'[child] = written[parent]
        /\ OthersStay(child)
        /\ mgr'.sequences \in [Live(mgr') -> Row] /\ Live(mgr') \in SUBSET SequenceId
        /\ text' \in [SequenceId -> Seq(Token)] /\ written' \in [SequenceId -> 0 .. MaxTokens]
    BY <1>1, <1>2, <1>3, <1>4, PutStep
  <1>6. \A t \in Live(mgr) : t # child /\ mgr'.sequences[t] = mgr.sequences[t] /\ text'[t] = text[t]
    BY <1>1, <1>5 DEF OthersStay
  <1>7. Managed'
    BY <1>1, <1>3, <1>5 DEF Managed
  <1>8. (Lengths /\ HostView)'
    <2>1. LengthsOf(parent) /\ HostViewOf(parent)
      BY <1>1, <1>3 DEF Lengths, HostView
    <2>2. LengthsOf(child)'
      BY <1>5, <2>1 DEF LengthsOf, q
    <2>3. HostViewOf(child)'
      BY <1>5, <2>1 DEF HostViewOf, q
    <2> QED BY <1>5, <2>2, <2>3, OthersKeep
  <1>9. SharedAgree'
    <2>1. ASSUME NEW t \in Live(mgr') PROVE Shared(child, t)' /\ Shared(t, child)'
      <3>1. CASE t = child
        <4>1. Shared(parent, parent)
          BY <1>1, <1>3 DEF SharedAgree
        <4> QED BY <1>5, <3>1, <4>1 DEF Shared, Agree, q
      <3>2. CASE t # child
        <4>1. t \in Live(mgr) /\ mgr'.sequences[t] = mgr.sequences[t] /\ text'[t] = text[t]
          BY <1>5, <1>6, <3>2
        <4>2. Shared(parent, t) /\ Shared(t, parent)
          BY <1>1, <1>3, <4>1 DEF SharedAgree
        <4> QED BY <1>5, <4>1, <4>2 DEF Shared, Agree, q
      <3> QED BY <3>1, <3>2
    <2> QED BY <1>5, <2>1, OthersKeep
  <1>10. KeyedByText'
    <2>1. ASSUME NEW t \in Live(mgr') PROVE KeyedOf(t)'
      <3>1. CASE t = child
        <4>1. KeyedOf(parent)
          BY <1>1, <1>3 DEF KeyedByText
        <4> QED BY <1>1, <1>5, <3>1, <4>1 DEF KeyedOf, q
      <3>2. CASE t # child
        <4>1. t \in Live(mgr) /\ mgr'.sequences[t] = mgr.sequences[t] /\ text'[t] = text[t]
          BY <1>5, <1>6, <3>2
        <4>2. KeyedOf(t)
          BY <1>3, <4>1 DEF KeyedByText
        <4> QED BY <1>1, <4>1, <4>2 DEF KeyedOf
      <3> QED BY <3>1, <3>2
    <2> QED BY <1>5, <2>1 DEF KeyedByText
  <1>11. OwnContents'
    <2>1. OwnContentsOf(parent)
      BY <1>1, <1>3 DEF OwnContents
    <2>2. OwnContentsOf(child)'
      BY <1>2, <1>5, <2>1 DEF OwnContentsOf, SlotBlock, Content, q
    <2>3. kv' = kv
      BY <1>2
    <2> QED BY <1>5, <2>2, <2>3, OthersOwn
  <1>12. (MapAgrees /\ Queue(mgr.free, mgr.block_hashes) /\ PublishedIsWritten /\ HitIsSound /\ Memory)'
    BY <1>1, <1>2, <1>3 DEF MapAgrees, PublishedIsWritten, HitIsSound, Memory
  <1>13. Abstract!Fork(parent, child)
    <2>1. /\ HeldBlocks' = [HeldBlocks EXCEPT ![child] = HeldBlocks'[child]]
          /\ OpenBlocks' = [OpenBlocks EXCEPT ![child] = OpenBlocks'[child]]
          /\ UnwrittenBlocks' = [UnwrittenBlocks EXCEPT ![child] = UnwrittenBlocks'[child]]
      BY <1>5, OthersKeep
    <2>2. HeldBlocks'[child] = HeldBlocks[parent] /\ HeldBlocks[parent] = P
      BY <1>1, <1>5 DEF HeldBlocks, q
    <2>3. OpenBlocks'[child] = OpenBlocks[parent]
      BY <1>1, <1>5 DEF OpenBlocks, OpenBlock, q
    <2>4. UnwrittenBlocks'[child] = {} /\ UnwrittenBlocks[child] = {} /\ UnwrittenBlocks[parent] = {}
      <3>1. \A p \in written[parent] + 1 .. q.scheduled : FALSE
        BY <1>4
      <3>2. DirtyBlocks(parent) = {}
        BY <3>1 DEF DirtyBlocks, q
      <3>3. DirtyBlocks(child)' = {}
        BY <1>5, <3>1 DEF DirtyBlocks
      <3> QED BY <1>1, <1>5, <3>2, <3>3 DEF UnwrittenBlocks
    <2>5. UnwrittenBlocks' = UnwrittenBlocks
      BY <2>1, <2>4 DEF UnwrittenBlocks
    <2>6. mgr'.ref_counts = [b \in BlockId |-> IF b \in HeldBlocks[parent] THEN mgr.ref_counts[b] + 1 ELSE mgr.ref_counts[b]]
      BY <1>1, <2>2 DEF RefsPinned
    <2> QED BY <1>1, <1>5, <2>1, <2>2, <2>3, <2>4, <2>5, <2>6 DEF Abstract!Fork
  <1>14. Abstract!LedgerInv'
    <2>1. Abstract!Next
      BY <1>13 DEF Abstract!Next
    <2> QED BY <2>1, LedgerMoves
  <1> QED BY <1>7, <1>8, <1>9, <1>10, <1>11, <1>12, <1>13, <1>14 DEF PoolInv


----------------------------------------------------------------------------
(* Blocks that are taken.                                                  *)

(* The blocks of T lose their keys: those left agree with the prefix map.  *)
LEMMA TakenKeys ==
  ASSUME Managed, MapAgrees, NEW T \in SUBSET BlockId,
         mgr'.block_hashes = KeysTaken(mgr, T), mgr'.cached = MapTaken(mgr, T)
  PROVE  /\ MapAgrees'
         /\ mgr'.block_hashes \in [BlockId -> Hashes \cup {None}]
         /\ DOMAIN mgr'.cached \in SUBSET Hashes
         /\ \A h \in DOMAIN mgr'.cached : mgr'.cached[h] \in BlockId
         /\ \A b \in BlockId : mgr'.block_hashes[b] # None =>
              b \notin T /\ mgr'.block_hashes[b] = mgr.block_hashes[b]
         /\ \A b \in T : mgr'.block_hashes[b] = None
         /\ \A h \in DOMAIN mgr'.cached :
              h \in DOMAIN mgr.cached /\ mgr'.cached[h] = mgr.cached[h] /\ mgr'.cached[h] \notin T
  <1>1. /\ mgr.block_hashes \in [BlockId -> Hashes \cup {None}] /\ DOMAIN mgr.cached \in SUBSET Hashes
        /\ IsManager(mgr)
    BY DEF Managed
  <1>2. \A b \in BlockId : mgr'.block_hashes[b] = IF b \in T THEN None ELSE mgr.block_hashes[b]
    BY DEF KeysTaken
  <1>3. DOMAIN mgr'.cached = DOMAIN mgr.cached \ {mgr.block_hashes[b] : b \in T}
        /\ \A h \in DOMAIN mgr'.cached : mgr'.cached[h] = mgr.cached[h]
    BY DEF MapTaken, Restrict
  <1>4. \A b \in BlockId : mgr.block_hashes[b] # None =>
          mgr.block_hashes[b] \in DOMAIN mgr.cached /\ mgr.cached[mgr.block_hashes[b]] = b
    BY DEF MapAgrees
  <1>5. \A h \in DOMAIN mgr.cached : mgr.cached[h] \in BlockId /\ mgr.block_hashes[mgr.cached[h]] = h
    BY DEF MapAgrees
  <1>6. \A b \in BlockId : mgr'.block_hashes[b] # None =>
          b \notin T /\ mgr'.block_hashes[b] = mgr.block_hashes[b]
    BY <1>2
  <1>7. \A h \in DOMAIN mgr'.cached :
          h \in DOMAIN mgr.cached /\ mgr'.cached[h] = mgr.cached[h] /\ mgr'.cached[h] \notin T
    BY <1>3, <1>5
  <1>8. \A b \in BlockId : mgr'.block_hashes[b] # None =>
          mgr'.block_hashes[b] \in DOMAIN mgr'.cached /\ mgr'.cached[mgr'.block_hashes[b]] = b
    <2> SUFFICES ASSUME NEW b \in BlockId, mgr'.block_hashes[b] # None
                 PROVE  mgr'.block_hashes[b] \in DOMAIN mgr'.cached /\ mgr'.cached[mgr'.block_hashes[b]] = b
      OBVIOUS
    <2> DEFINE h == mgr.block_hashes[b]
    <2>1. b \notin T /\ mgr'.block_hashes[b] = h /\ h # None
      BY <1>6
    <2>2. h \in DOMAIN mgr.cached /\ mgr.cached[h] = b
      BY <1>4, <2>1
    <2>3. \A c \in T : mgr.block_hashes[c] # h
      <3> SUFFICES ASSUME NEW c \in T, mgr.block_hashes[c] = h PROVE FALSE
        OBVIOUS
      <3>1. mgr.cached[h] = c
        BY <1>4, <2>1
      <3> QED BY <2>1, <2>2, <3>1
    <2> QED BY <1>3, <2>1, <2>2, <2>3
  <1>9. \A h \in DOMAIN mgr'.cached : mgr'.cached[h] \in BlockId /\ mgr'.block_hashes[mgr'.cached[h]] = h
    BY <1>2, <1>5, <1>7
  <1>10. MapAgrees'
    BY <1>8, <1>9 DEF MapAgrees
  <1>11. mgr'.block_hashes \in [BlockId -> Hashes \cup {None}]
    BY <1>1 DEF KeysTaken
  <1>12. DOMAIN mgr'.cached \in SUBSET Hashes
    BY <1>1, <1>3
  <1> QED BY <1>2, <1>6, <1>7, <1>9, <1>10, <1>11, <1>12

(* Published blocks that keep their contents.                              *)
LEMMA StillPublished ==
  ASSUME Managed, MapAgrees, PublishedIsWritten, NEW T \in SUBSET BlockId,
         mgr'.block_hashes = KeysTaken(mgr, T), mgr'.cached = MapTaken(mgr, T),
         \A b \in BlockId : mgr'.block_hashes[b] # None => kv'[b] = kv[b]
  PROVE  PublishedIsWritten'
  <1>1. /\ MapAgrees'
        /\ \A h \in DOMAIN mgr'.cached : h \in DOMAIN mgr.cached /\ mgr'.cached[h] = mgr.cached[h]
        /\ \A h \in DOMAIN mgr'.cached : mgr'.cached[h] \in BlockId
        /\ DOMAIN mgr'.cached \in SUBSET Hashes
    BY TakenKeys
  <1>2. ASSUME NEW h \in DOMAIN mgr'.cached, NEW o \in 0 .. BlockTokens - 1
        PROVE  kv'[mgr'.cached[h]][o] = Named(h, o)
    <2>1. mgr'.cached[h] \in BlockId /\ mgr'.block_hashes[mgr'.cached[h]] = h /\ h # None
      BY <1>1, ManagerAssumption DEF MapAgrees
    <2>2. kv'[mgr'.cached[h]] = kv[mgr.cached[h]] /\ h \in DOMAIN mgr.cached
      BY <1>1, <2>1
    <2> QED BY <2>2, PublishedIs
  <1> QED BY <1>2 DEF PublishedIsWritten, Named

----------------------------------------------------------------------------
(* allocate and allocate_unresolved of one token.                          *)

\* Sequence s, whose record was made r, has one token more and the table
\* `table`.  Its last block is `tail`, whose free blocks T were taken.
Grows(s, token, r, table, tail, T) ==
  LET q == mgr.sequences[s]
      l == Len(table)
  IN  /\ mgr'.sequences = With(mgr, s, Reserved(r, table, q.scheduled + 1))
      /\ text' = [text EXCEPT ![s] = text[s] \o <<token>>] /\ written' = written /\ hit' = hit
      /\ table \in Seq(BlockId) /\ l = DivCeil(q.scheduled + 1) /\ Once(table)
      /\ \A i \in 1 .. l : i < l => i \in 1 .. Len(q.table) /\ table[i] = q.table[i]
      /\ l \in Nat \ {0} /\ tail = table[l] /\ tail \in BlockId
      /\ T \in SUBSET BlockId
      /\ mgr'.block_hashes = KeysTaken(mgr, T) /\ mgr'.cached = MapTaken(mgr, T)
      /\ Queue(mgr'.free, mgr'.block_hashes) /\ IsManager(mgr')
      /\ DOMAIN kv' = BlockId /\ DOMAIN kv'[tail] = 0 .. BlockTokens - 1
      /\ \A b \in BlockId : b # tail => kv'[b] = kv[b]
      /\ \A o \in 0 .. BlockTokens - 1 :
           (l - 1) * BlockTokens + o + 1 <= q.scheduled =>
             l \in 1 .. Len(q.table) /\ kv'[tail][o] = kv[q.table[l]][o]
      /\ \A p \in written[s] + 1 .. q.scheduled : At(p) = l => q.table[l] = tail
      /\ \A t \in Live(mgr) : t # s => tail \notin Range(mgr.sequences[t].table)
      /\ mgr'.block_hashes[tail] = None

\* What the host knows of the tokens of s once it has one token more.
HostGrows(s, token, r) ==
  LET q == mgr.sequences[s]
      tokens == text[s] \o <<token>>
  IN  /\ r \in Row /\ r.keys = q.keys /\ r.computed = q.computed /\ r.hashes = q.hashes
      /\ r.table = q.table /\ r.scheduled = q.scheduled
      /\ r.unresolved <= q.scheduled + 1
      /\ PrefixCaching =>
           /\ Len(q.hashes) * BlockTokens + Len(r.unhashed) + r.unresolved = q.scheduled + 1
           /\ \A p \in 1 .. Len(r.unhashed) : r.unhashed[p] = tokens[Len(q.hashes) * BlockTokens + p]
      /\ ~PrefixCaching => r.unhashed = <<>>

(* The tokens before the new one stay, and the blocks before the last are  *)
(* full.                                                                   *)
LEMMA TokensGrow ==
  ASSUME Managed, Lengths, NEW s \in Live(mgr), NEW token \in Token
  PROVE  LET N == mgr.sequences[s].scheduled
             tokens == text[s] \o <<token>>
         IN  /\ tokens \in Seq(Token) /\ Len(tokens) = N + 1 /\ DOMAIN tokens = 1 .. N + 1
             /\ \A p \in 1 .. N : tokens[p] = text[s][p]
             /\ tokens[N + 1] = token
             /\ \A i \in Nat \ {0} : i < DivCeil(N + 1) => i * BlockTokens <= N
             /\ At(N + 1) = DivCeil(N + 1) /\ DivCeil(N + 1) \in Nat \ {0}
             /\ SlotOffset(N + 1) = N - (DivCeil(N + 1) - 1) * BlockTokens
  <1> DEFINE N == mgr.sequences[s].scheduled
             u == text[s]
             tokens == u \o <<token>>
             l == DivCeil(N + 1)
  <1>1. u \in Seq(Token) /\ Len(u) = N /\ N \in Nat
    BY RowFacts
  <1> HIDE DEF N, u
  <1>2. <<token>> \in Seq(Token) /\ Len(<<token>>) = 1 /\ <<token>>[1] = token
    OBVIOUS
  <1>3. tokens = [i \in 1 .. N + 1 |-> IF i <= N THEN u[i] ELSE <<token>>[i - N]]
        /\ Len(tokens) = N + 1 /\ tokens \in Seq(Token)
    BY <1>1, <1>2, ConcatIs
  <1>4. \A p \in 1 .. N : p \in 1 .. N + 1 /\ p <= N
    BY <1>1
  <1>5. N + 1 \in 1 .. N + 1 /\ ~(N + 1 <= N) /\ N + 1 - N = 1
    BY <1>1
  <1>6. DOMAIN tokens = 1 .. N + 1 /\ (\A p \in 1 .. N : tokens[p] = u[p]) /\ tokens[N + 1] = token
    BY <1>2, <1>3, <1>4, <1>5
  <1>7. N + 1 \in Nat \ {0} /\ BlockTokens \in Nat \ {0}
    BY <1>1, PoolAssumption
  <1>8. l \in Nat /\ l * BlockTokens \in Nat /\ N + 1 <= l * BlockTokens /\ l * BlockTokens < N + 1 + BlockTokens
    BY <1>7, DivCeilIs
  <1>9. l \in Nat \ {0}
    BY <1>7, <1>8
  <1>10. (l - 1) * BlockTokens = l * BlockTokens - BlockTokens /\ (l - 1) * BlockTokens \in Nat
    BY <1>7, <1>9
  <1> HIDE DEF l, tokens
  <1>11. ASSUME NEW i \in Nat \ {0}, i < l PROVE i * BlockTokens <= N
    <2>1. i * BlockTokens + BlockTokens <= l * BlockTokens
      BY <1>7, <1>9, <1>11, TimesOrder
    <2>2. i * BlockTokens \in Nat
      BY <1>7
    <2> QED BY <1>1, <1>7, <1>8, <2>1, <2>2
  <1>12. At(N + 1) = l /\ SlotOffset(N + 1) = N - (l - 1) * BlockTokens
    <2> DEFINE o == N - (l - 1) * BlockTokens
               a == (l - 1) * BlockTokens
    <2>1. a \in Nat /\ a <= N /\ N < a + BlockTokens
      BY <1>1, <1>7, <1>8, <1>10
    <2> HIDE DEF a
    <2>2. N - a \in 0 .. BlockTokens - 1 /\ a + (N - a) + 1 = N + 1
      BY <1>1, <1>7, <2>1
    <2>3. o \in 0 .. BlockTokens - 1 /\ (l - 1) * BlockTokens + o + 1 = N + 1
      BY <2>2 DEF a
    <2> HIDE DEF o
    <2>4. At((l - 1) * BlockTokens + o + 1) = l /\ SlotOffset((l - 1) * BlockTokens + o + 1) = o
      BY <1>9, <2>3, SlotIs
    <2> QED BY <2>3, <2>4 DEF o
  <1> QED BY <1>3, <1>6, <1>9, <1>11, <1>12 DEF N, u, l, tokens


(* What such a step keeps, apart from the ledger.                          *)
LEMMA GrowsKeeps ==
  ASSUME PoolInv, NEW s \in Live(mgr), NEW token \in Token, NEW r, NEW table, NEW tail, NEW T,
         Grows(s, token, r, table, tail, T), HostGrows(s, token, r), Len(text[s]) < MaxTokens
  PROVE  /\ (Managed /\ Lengths /\ HostView /\ MapAgrees /\ Queue(mgr.free, mgr.block_hashes))'
         /\ (SharedAgree /\ KeyedByText /\ OwnContents /\ PublishedIsWritten /\ HitIsSound /\ Memory)'
         /\ Live(mgr') = Live(mgr) /\ OthersStay(s)
         /\ HeldBlocks'[s] = Range(table)
         /\ OpenBlocks'[s] = IF (mgr.sequences[s].scheduled + 1) % BlockTokens = 0 THEN None ELSE tail
         /\ UnwrittenBlocks'[s] = UnwrittenBlocks[s] \cup {tail}
  <1> DEFINE q == mgr.sequences[s]
             N == q.scheduled
             l == Len(table)
             tokens == text[s] \o <<token>>
             z == Reserved(r, table, N + 1)
  <1>1. /\ mgr'.sequences = With(mgr, s, z)
        /\ text' = [text EXCEPT ![s] = tokens] /\ written' = written /\ hit' = hit
        /\ table \in Seq(BlockId) /\ l = DivCeil(N + 1) /\ Once(table)
        /\ \A i \in 1 .. l : i < l => i \in 1 .. Len(q.table) /\ table[i] = q.table[i]
        /\ l \in Nat \ {0} /\ tail = table[l] /\ tail \in BlockId
    BY DEF Grows
  <1>2. /\ T \in SUBSET BlockId
        /\ mgr'.block_hashes = KeysTaken(mgr, T) /\ mgr'.cached = MapTaken(mgr, T)
        /\ Queue(mgr'.free, mgr'.block_hashes) /\ IsManager(mgr')
    BY DEF Grows
  <1>3. /\ DOMAIN kv' = BlockId /\ DOMAIN kv'[tail] = 0 .. BlockTokens - 1
        /\ \A b \in BlockId : b # tail => kv'[b] = kv[b]
        /\ \A o \in 0 .. BlockTokens - 1 :
             (l - 1) * BlockTokens + o + 1 <= N =>
               l \in 1 .. Len(q.table) /\ kv'[tail][o] = kv[q.table[l]][o]
        /\ \A p \in written[s] + 1 .. N : At(p) = l => q.table[l] = tail
        /\ \A t \in Live(mgr) : t # s => tail \notin Range(mgr.sequences[t].table)
        /\ mgr'.block_hashes[tail] = None
    BY DEF Grows
  <1>4. /\ Managed /\ Lengths /\ HostView /\ MapAgrees /\ Queue(mgr.free, mgr.block_hashes)
        /\ SharedAgree /\ KeyedByText /\ OwnContents /\ PublishedIsWritten /\ HitIsSound /\ Memory
    BY DEF PoolInv
  <1>5. /\ s \in SequenceId /\ q \in Row /\ q.table \in Seq(BlockId) /\ DOMAIN q.table = 1 .. Len(q.table)
        /\ Len(q.table) \in Nat /\ Len(q.table) = DivCeil(N)
        /\ text[s] \in Seq(Token) /\ Len(text[s]) = N /\ N \in 1 .. MaxTokens /\ N \in Nat
        /\ written[s] \in 0 .. N /\ q.computed \in 0 .. written[s] /\ Len(q.hashes) \in Nat
        /\ MaxTokens \in Nat
    BY <1>4, RowFacts, ManagerAssumption
  <1>6. /\ tokens \in Seq(Token) /\ Len(tokens) = N + 1 /\ DOMAIN tokens = 1 .. N + 1
        /\ \A p \in 1 .. N : tokens[p] = text[s][p]
        /\ \A i \in Nat \ {0} : i < l => i * BlockTokens <= N
        /\ At(N + 1) = l
    BY <1>1, <1>4, TokensGrow
  <1> HIDE DEF tokens
  <1>7. /\ r \in Row /\ r.keys = q.keys /\ r.computed = q.computed /\ r.hashes = q.hashes
        /\ r.unresolved <= N + 1
    BY DEF HostGrows
  <1>8. /\ z \in Row /\ z.table = table /\ z.scheduled = N + 1
        /\ z.keys = q.keys /\ z.computed = q.computed /\ z.hashes = q.hashes
        /\ z.unhashed = r.unhashed /\ z.unresolved = r.unresolved
    <2>1. N + 1 \in Nat /\ table \in Seq(BlockId)
      BY <1>1, <1>5
    <2> HIDE DEF q, N
    <2> QED BY <1>7, <2>1, ReservedIs, SMTT(30)
  <1> HIDE DEF z
  <1>9. /\ Live(mgr') = Live(mgr) \cup {s} /\ s \in Live(mgr') /\ Live(mgr)' = Live(mgr')
        /\ mgr'.sequences[s] = z /\ text'[s] = tokens /\ written'[s] = written[s]
        /\ OthersStay(s)
        /\ mgr'.sequences \in [Live(mgr') -> Row] /\ Live(mgr') \in SUBSET SequenceId
        /\ text' \in [SequenceId -> Seq(Token)] /\ written' \in [SequenceId -> 0 .. MaxTokens]
    <2>1. written[s] \in 0 .. MaxTokens /\ written' = [written EXCEPT ![s] = written[s]]
      BY <1>1, <1>4, <1>5 DEF Managed
    <2> HIDE DEF N, q
    <2> QED BY <1>1, <1>4, <1>5, <1>6, <1>8, <2>1, PutStep
  <1>10. Live(mgr') = Live(mgr)
    BY <1>9
  <1>11. \A t \in Live(mgr) : t # s => mgr'.sequences[t] = mgr.sequences[t] /\ text'[t] = text[t]
    BY <1>9 DEF OthersStay
  <1>12. MapAgrees' /\ mgr'.block_hashes \in [BlockId -> Hashes \cup {None}] /\ DOMAIN mgr'.cached \in SUBSET Hashes
         /\ \A b \in BlockId : mgr'.block_hashes[b] # None => mgr'.block_hashes[b] = mgr.block_hashes[b]
    BY <1>2, <1>4, TakenKeys
  <1>13. Managed'
    BY <1>2, <1>9, <1>12 DEF Managed
  <1>14. Lengths'
    <2>1. LengthsOf(s)
      BY <1>4 DEF Lengths
    <2>2. N + 1 \in 1 .. MaxTokens /\ q.computed <= written[s] /\ written[s] <= N + 1
      BY <1>5, SMTT(30)
    <2>3. LengthsOf(s)'
      BY <1>1, <1>6, <1>7, <1>8, <1>9, <2>1, <2>2 DEF LengthsOf
    <2> QED BY <1>5, <1>9, <2>3, OthersKeep
  <1>15. HostView'
    <2>1. HostViewOf(s) /\ LengthsOf(s)
      BY <1>4 DEF HostView, Lengths
    <2>2. ASSUME NEW i \in 1 .. Len(q.hashes)
          PROVE  q.hashes[i] = HashBlocks(<<>>, tokens, q.keys, i)
      <3>1. q.hashes[i] = HashBlocks(<<>>, text[s], q.keys, i)
        BY <2>1 DEF HostViewOf
      <3>2. i * BlockTokens <= N
        <4> DEFINE n == Len(q.hashes)
                   c == q.computed
        <4>1. n * BlockTokens <= c /\ c <= N /\ c \in Nat
          BY <1>5, <2>1 DEF LengthsOf
        <4>2. n \in Nat /\ i \in Nat /\ i <= n
          BY <1>5
        <4> HIDE DEF n, c, N
        <4>3. BlockTokens \in Nat /\ (i < n => i * BlockTokens + BlockTokens <= n * BlockTokens)
          BY <4>2, PoolAssumption, TimesOrder
        <4>4. i * BlockTokens \in Nat /\ n * BlockTokens \in Nat /\ N \in Nat
          BY <4>2, <4>3, <1>5
        <4>5. i * BlockTokens <= n * BlockTokens
          BY <4>2, <4>3, <4>4
        <4> QED BY <4>1, <4>4, <4>5
      <3>3. i \in Nat /\ i * BlockTokens \in Nat
        BY <1>5, PoolAssumption
      <3>4. \A p \in 1 .. i * BlockTokens : p \in 1 .. N
        BY <1>5, <3>2, <3>3
      <3>5. SameStart(text[s], tokens, i * BlockTokens)
        BY <1>6, <3>4 DEF SameStart
      <3>6. HashBlocks(<<>>, text[s], q.keys, i) = HashBlocks(<<>>, tokens, q.keys, i)
        BY <3>3, <3>5, HashOfStart
      <3> QED BY <3>1, <3>6
    <2>3. /\ PrefixCaching =>
               /\ Len(q.hashes) * BlockTokens + Len(r.unhashed) + r.unresolved = N + 1
               /\ \A p \in 1 .. Len(r.unhashed) : r.unhashed[p] = tokens[Len(q.hashes) * BlockTokens + p]
          /\ ~PrefixCaching => r.unhashed = <<>>
      BY DEF HostGrows, tokens
    <2>4. HostViewOf(s)'
      BY <1>8, <1>9, <2>2, <2>3 DEF HostViewOf
    <2> QED BY <1>5, <1>9, <2>4, OthersKeep
  \* The blocks of s: those before the last are as they were.
  <1>16. ASSUME NEW i \in 1 .. l, i # l
         PROVE  /\ i \in Nat \ {0} /\ i \in DOMAIN q.table /\ table[i] = q.table[i] /\ table[i] # tail
                /\ i * BlockTokens <= N /\ i * BlockTokens \in Nat /\ table[i] \in BlockId
    <2>1. i \in Nat \ {0} /\ i < l
      BY <1>1, <1>16
    <2>2. i \in DOMAIN q.table /\ table[i] = q.table[i]
      BY <1>1, <1>5, <2>1
    <2>3. table[i] # table[l]
      BY <1>1, <1>16 DEF Once
    <2>4. i * BlockTokens <= N /\ i * BlockTokens \in Nat
      BY <1>6, <2>1, PoolAssumption
    <2>5. table[i] \in BlockId
      BY <1>1, ElementOfSeq
    <2> QED BY <1>1, <2>1, <2>2, <2>3, <2>4, <2>5
  <1>17. DOMAIN table = 1 .. l
    BY <1>1, LenProperties
  <1>18. SharedAgree'
    <2>1. ASSUME NEW t \in Live(mgr'), t # s PROVE Shared(s, t)' /\ Shared(t, s)'
      <3>1. t \in Live(mgr) /\ mgr'.sequences[t] = mgr.sequences[t] /\ text'[t] = text[t]
        BY <1>10, <1>11, <2>1
      <3>2. Shared(s, t) /\ Shared(t, s)
        BY <1>4, <3>1 DEF SharedAgree
      <3>3. tail \notin Range(mgr.sequences[t].table) /\ Len(text[t]) \in Nat
        BY <1>3, <1>4, <2>1, <3>1, RowFacts
      <3>4. ASSUME NEW i \in 1 .. l, NEW j \in DOMAIN mgr.sequences[t].table, table[i] = mgr.sequences[t].table[j]
            PROVE  /\ i = j /\ q.keys = mgr.sequences[t].keys
                   /\ \A p \in 1 .. N + 1 : p <= i * BlockTokens => p <= Len(text[t]) /\ text[t][p] = tokens[p]
                   /\ \A p \in 1 .. Len(text[t]) : p <= i * BlockTokens => p <= N + 1 /\ tokens[p] = text[t][p]
        <4>1. i # l
          BY <1>1, <3>3, <3>4 DEF Range
        <4>2. i \in DOMAIN q.table /\ q.table[i] = mgr.sequences[t].table[j] /\ i * BlockTokens <= N
              /\ i * BlockTokens \in Nat
          BY <1>16, <3>4, <4>1
        <4>3. i = j /\ q.keys = mgr.sequences[t].keys /\ Agree(s, t, i * BlockTokens) /\ Agree(t, s, i * BlockTokens)
          BY <3>2, <4>2 DEF Shared
        <4>4. ASSUME NEW p \in 1 .. N + 1, p <= i * BlockTokens
              PROVE  p <= Len(text[t]) /\ text[t][p] = tokens[p]
          <5>1. p \in 1 .. N
            BY <1>5, <4>2, <4>4
          <5>2. tokens[p] = text[s][p]
            BY ONLY <1>6, <5>1
          <5>3. p \in 1 .. Len(text[s])
            BY <1>5, <5>1
          <5>4. p <= Len(text[t]) /\ text[t][p] = text[s][p]
            BY ONLY <4>3, <4>4, <5>3 DEF Agree
          <5> QED BY ONLY <5>2, <5>4
        <4>5. ASSUME NEW p \in 1 .. Len(text[t]), p <= i * BlockTokens
              PROVE  p <= N + 1 /\ tokens[p] = text[t][p]
          <5>1. p \in 1 .. N
            BY <1>5, <3>3, <4>2, <4>5
          <5>2. tokens[p] = text[s][p]
            BY ONLY <1>6, <5>1
          <5>3. text[s][p] = text[t][p]
            BY ONLY <4>3, <4>5 DEF Agree
          <5>4. p <= N + 1
            BY ONLY <1>5, <5>1
          <5> QED BY ONLY <5>2, <5>3, <5>4
        <4> QED BY <4>3, <4>4, <4>5
      <3>5. Shared(s, t)'
        BY <1>6, <1>8, <1>9, <1>17, <3>1, <3>4, SMTT(30) DEF Shared, Agree
      <3>6. ASSUME NEW j \in DOMAIN mgr.sequences[t].table, NEW i \in 1 .. l, mgr.sequences[t].table[j] = table[i]
            PROVE  /\ j = i /\ mgr.sequences[t].keys = q.keys
                   /\ \A p \in 1 .. Len(text[t]) : p <= j * BlockTokens => p <= N + 1 /\ tokens[p] = text[t][p]
        BY <3>4, <3>6
      <3>7. Shared(t, s)'
        <4> SUFFICES ASSUME NEW j \in DOMAIN mgr'.sequences[t].table, NEW i \in DOMAIN mgr'.sequences[s].table,
                            mgr'.sequences[t].table[j] = mgr'.sequences[s].table[i]
                     PROVE  /\ j = i /\ mgr'.sequences[t].keys = mgr'.sequences[s].keys
                            /\ \A p \in 1 .. Len(text'[t]) : p <= j * BlockTokens =>
                                 p <= Len(text'[s]) /\ text'[s][p] = text'[t][p]
          BY DEF Shared, Agree
        <4>1. i \in 1 .. l /\ j \in DOMAIN mgr.sequences[t].table /\ mgr.sequences[t].table[j] = table[i]
          BY <1>8, <1>9, <1>17, <3>1
        <4>2. mgr'.sequences[s].keys = q.keys /\ text'[s] = tokens /\ Len(text'[s]) = N + 1
          BY <1>6, <1>8, <1>9
        <4> QED BY <3>1, <3>6, <4>1, <4>2
      <3> QED BY <3>5, <3>7
    <2>2. Shared(s, s)'
      <3>1. \A i, j \in 1 .. l : table[i] = table[j] => i = j
        BY <1>1 DEF Once
      <3> QED BY <1>6, <1>8, <1>9, <1>17, <3>1 DEF Shared, Agree
    <2>3. \A t \in Live(mgr') : Shared(s, t)' /\ Shared(t, s)'
      BY <2>1, <2>2
    <2> QED BY <1>5, <1>9, <2>3, OthersKeep
  <1>19. KeyedByText'
    <2>1. ASSUME NEW t \in Live(mgr'), t # s PROVE KeyedOf(t)'
      <3>1. t \in Live(mgr) /\ mgr'.sequences[t] = mgr.sequences[t] /\ text'[t] = text[t] /\ KeyedOf(t)
            /\ mgr.sequences[t].table \in Seq(BlockId)
        BY <1>4, <1>10, <1>11, <2>1, RowFacts DEF KeyedByText
      <3>2. \A i \in DOMAIN mgr.sequences[t].table : mgr.sequences[t].table[i] \in BlockId
        BY <3>1, ElementOfSeq, LenProperties
      <3> QED BY <1>12, <3>1, <3>2 DEF KeyedOf
    <2>2. KeyedOf(s)'
      <3>1. ASSUME NEW i \in 1 .. l, mgr'.block_hashes[table[i]] # None
            PROVE  i * BlockTokens <= N + 1 /\ mgr'.block_hashes[table[i]] = HashBlocks(<<>>, tokens, q.keys, i)
        <4>1. i # l
          BY <1>1, <1>3, <3>1
        <4>2. /\ i \in Nat \ {0} /\ i \in DOMAIN q.table /\ table[i] = q.table[i]
              /\ i * BlockTokens <= N /\ i * BlockTokens \in Nat /\ table[i] \in BlockId
          BY <1>16, <4>1
        <4>3. mgr'.block_hashes[table[i]] = mgr.block_hashes[table[i]]
          BY <1>12, <3>1, <4>2
        <4>4. mgr.block_hashes[q.table[i]] = HashBlocks(<<>>, text[s], q.keys, i)
          BY <1>4, <3>1, <4>2, <4>3 DEF KeyedByText, KeyedOf
        <4>5. SameStart(text[s], tokens, i * BlockTokens)
          <5>1. \A p \in 1 .. i * BlockTokens : p \in 1 .. N
            BY <1>5, <4>2
          <5> QED BY <1>6, <5>1 DEF SameStart
        <4>6. HashBlocks(<<>>, text[s], q.keys, i) = HashBlocks(<<>>, tokens, q.keys, i)
          BY <4>2, <4>5, HashOfStart
        <4> QED BY <1>5, <4>2, <4>3, <4>4, <4>6
      <3> QED BY <1>6, <1>8, <1>9, <1>17, <3>1 DEF KeyedOf
    <2> QED BY <1>9, <2>1, <2>2 DEF KeyedByText
  \* The scheduled positions of s, but the new one.
  <1>20. ASSUME NEW p \in 1 .. N
         PROVE  /\ At(p) \in 1 .. l /\ SlotOffset(p) \in 0 .. BlockTokens - 1 /\ p \in Nat
                /\ p = (At(p) - 1) * BlockTokens + SlotOffset(p) + 1
    <2>1. p \in 1 .. N + 1 /\ N + 1 \in Nat /\ p \in Nat \ {0}
      BY <1>5
    <2> HIDE DEF N
    <2>2. At(p) \in 1 .. DivCeil(N + 1)
      BY <2>1, SlotInside
    <2> QED BY <1>1, <2>1, <2>2, SlotOf
  <1>21. OwnContents'
    <2>1. ASSUME NEW p \in 1 .. written[s]
          PROVE  kv'[table[At(p)]][SlotOffset(p)] = Content(tokens, q.keys, p)
      <3>1. p \in 1 .. N
        BY <1>5
      <3>2. kv[q.table[At(p)]][SlotOffset(p)] = Content(text[s], q.keys, p)
        BY <1>4 DEF OwnContents, OwnContentsOf, SlotBlock, At
      <3>3. kv'[table[At(p)]][SlotOffset(p)] = kv[q.table[At(p)]][SlotOffset(p)]
        <4>1. CASE At(p) = l
          <5>1. (l - 1) * BlockTokens + SlotOffset(p) + 1 <= N
            BY <1>20, <3>1, <4>1
          <5> QED BY <1>1, <1>3, <1>20, <3>1, <4>1, <5>1
        <4>2. CASE At(p) # l
          <5>1. table[At(p)] = q.table[At(p)] /\ table[At(p)] # tail /\ table[At(p)] \in BlockId
            BY <1>16, <1>20, <3>1, <4>2
          <5> QED BY <1>3, <5>1
        <4> QED BY <4>1, <4>2
      <3>4. Content(tokens, q.keys, p) = Content(text[s], q.keys, p)
        <4>1. \A i \in 1 .. p : i \in 1 .. N
          BY <1>5, <3>1
        <4>2. SameStart(text[s], tokens, p) /\ p \in Nat
          BY <1>6, <1>20, <3>1, <4>1 DEF SameStart
        <4> QED BY <4>2, SameContent
      <3> QED BY <3>2, <3>3, <3>4
    <2>2. OwnContentsOf(s)'
      BY <1>8, <1>9, <2>1 DEF OwnContentsOf, SlotBlock, At, Content
    <2>3. \A t \in Live(mgr) : t # s => \A b \in Range(mgr.sequences[t].table) :
            \A o \in 0 .. BlockTokens - 1 : kv'[b][o] = kv[b][o]
      <3>1. \A t \in Live(mgr) : \A b \in Range(mgr.sequences[t].table) : b \in BlockId
        BY PoolFacts
      <3> QED BY <1>3, <3>1
    <2> QED BY <1>5, <1>9, <2>2, <2>3, OthersOwn
  <1>22. PublishedIsWritten'
    <2>1. \A b \in BlockId : mgr'.block_hashes[b] # None => kv'[b] = kv[b]
      BY <1>3
    <2> QED BY <1>2, <1>4, <2>1, StillPublished
  <1>23. Memory' /\ HitIsSound'
    <2>1. \A b \in BlockId : DOMAIN kv'[b] = 0 .. BlockTokens - 1
      BY <1>3, <1>4 DEF Memory
    <2> QED BY <1>1, <1>3, <1>4, <2>1 DEF Memory, HitIsSound
  <1>24. HeldBlocks'[s] = Range(table)
    BY <1>5, <1>8, <1>9 DEF HeldBlocks
  <1>25. OpenBlocks'[s] = IF (N + 1) % BlockTokens = 0 THEN None ELSE tail
    <2>1. Last(table) = tail
      BY <1>1 DEF Last
    <2> QED BY <1>5, <1>8, <1>9, <2>1 DEF OpenBlocks, OpenBlock
  <1>26. UnwrittenBlocks'[s] = UnwrittenBlocks[s] \cup {tail}
    <2>1. UnwrittenBlocks'[s] = {table[At(p)] : p \in written[s] + 1 .. N + 1}
      BY <1>5, <1>8, <1>9 DEF UnwrittenBlocks, DirtyBlocks, SlotBlock, At
    <2>2. UnwrittenBlocks[s] = {q.table[At(p)] : p \in written[s] + 1 .. N}
      BY <1>5 DEF UnwrittenBlocks, DirtyBlocks, SlotBlock, At
    <2>3. \A p \in written[s] + 1 .. N : table[At(p)] = q.table[At(p)]
      <3> SUFFICES ASSUME NEW p \in written[s] + 1 .. N PROVE table[At(p)] = q.table[At(p)]
        OBVIOUS
      <3>1. p \in 1 .. N
        BY <1>5
      <3> QED BY <1>1, <1>3, <1>16, <1>20, <3>1
    <2>4. /\ table[At(N + 1)] = tail /\ N + 1 \in written[s] + 1 .. N + 1
          /\ \A p \in written[s] + 1 .. N + 1 : p = N + 1 \/ p \in written[s] + 1 .. N
          /\ \A p \in written[s] + 1 .. N : p \in written[s] + 1 .. N + 1
      <3>1. table[At(N + 1)] = tail
        BY <1>1, <1>6
      <3>2. written[s] \in Nat /\ written[s] <= N /\ N \in Nat
        BY <1>5
      <3> HIDE DEF N
      <3> QED BY <3>1, <3>2
    <2> QED BY <2>1, <2>2, <2>3, <2>4
  <1> QED BY <1>2, <1>9, <1>10, <1>12, <1>13, <1>14, <1>15, <1>18, <1>19, <1>21, <1>22, <1>23, <1>24, <1>25, <1>26


\* One more token is reserved for s, whose record was made r.
Appends(s, token, r) ==
  /\ HostGrows(s, token, r) /\ Len(text[s]) < MaxTokens
  /\ mgr' = Reserve(mgr, s, r, 1) /\ Cost(mgr, r, 1) <= Len(mgr.free)
  /\ text' = [text EXCEPT ![s] = text[s] \o <<token>>]
  /\ kv' = CopyBlock(kv, CopyOf(mgr, mgr', s))
  /\ hit' = hit /\ written' = written

(* The last block of a sequence, and whether appending copies it.          *)
LEMMA TailFacts ==
  ASSUME PoolInv, NEW s \in Live(mgr), NEW token, NEW r, HostGrows(s, token, r)
  PROVE  LET q == mgr.sequences[s]
             L == Len(q.table)
             last == q.table[L]
         IN  /\ L \in Nat \ {0} /\ L = DivCeil(q.scheduled) /\ q.scheduled \in Nat \ {0}
             /\ q.table \in Seq(BlockId) /\ Once(q.table)
             /\ last \in BlockId /\ last \in Range(q.table) /\ Last(q.table) = last
             /\ r.table = q.table /\ r.scheduled = q.scheduled
             /\ HeldBlocks[s] = Range(q.table)
             /\ OpenBlocks[s] = IF q.scheduled % BlockTokens = 0 THEN None ELSE last
             /\ NeedsCopy(mgr, r) <=> q.scheduled % BlockTokens # 0 /\ mgr.ref_counts[last] > 1
             /\ Abstract!NeedsCopy(s) <=> NeedsCopy(mgr, r)
             /\ q.scheduled % BlockTokens = 0 => DivCeil(q.scheduled + 1) = L + 1
             /\ q.scheduled % BlockTokens # 0 => DivCeil(q.scheduled + 1) = L
  <1> DEFINE q == mgr.sequences[s]
             L == Len(q.table)
             N == q.scheduled
             last == q.table[L]
  <1>1. Managed /\ Lengths
    BY DEF PoolInv
  <1>2. /\ s \in SequenceId /\ q.table \in Seq(BlockId) /\ L \in Nat /\ L = DivCeil(N) /\ N \in 1 .. MaxTokens
        /\ MaxTokens \in Nat
    BY <1>1, RowFacts, ManagerAssumption
  <1>3. Once(q.table)
    BY <1>1 DEF Lengths, LengthsOf
  <1>4. N \in Nat \ {0} /\ N \in 1 .. N /\ N \in Nat
    BY <1>2
  <1>5. L \in Nat \ {0}
    <2> HIDE DEF N, L
    <2>1. At(N) \in 1 .. DivCeil(N)
      BY <1>4, SlotInside
    <2> QED BY <1>2, <2>1
  <1>6. last \in BlockId /\ last \in Range(q.table) /\ Last(q.table) = last
    <2>1. L \in 1 .. L
      BY <1>5
    <2> QED BY <1>2, <2>1, ElementOfSeq, RangeIs DEF Last
  <1>7. r.table = q.table /\ r.scheduled = N
    BY DEF HostGrows
  <1>8. HeldBlocks[s] = Range(q.table) /\ OpenBlocks[s] = IF N % BlockTokens = 0 THEN None ELSE last
    BY <1>2, <1>6 DEF HeldBlocks, OpenBlocks, OpenBlock
  <1>9. q.table # <<>>
    <2>1. Len(<<>>) = 0
      OBVIOUS
    <2> HIDE DEF q
    <2> QED BY <1>5, <2>1
  <1>10. NeedsCopy(mgr, r) <=> N % BlockTokens # 0 /\ mgr.ref_counts[last] > 1
    BY <1>6, <1>7, <1>9 DEF NeedsCopy
  <1>11. Abstract!NeedsCopy(s) <=> NeedsCopy(mgr, r)
    BY <1>6, <1>8, <1>10, ManagerAssumption DEF Abstract!NeedsCopy
  <1>12. /\ N % BlockTokens = 0 => DivCeil(N + 1) = DivCeil(N) + 1
         /\ N % BlockTokens # 0 => DivCeil(N + 1) = DivCeil(N)
    <2> HIDE DEF N
    <2> QED BY <1>4, DivCeilNext
  <1> QED BY <1>2, <1>3, <1>4, <1>5, <1>6, <1>7, <1>8, <1>10, <1>11, <1>12

(* One block off the queue.                                                *)
LEMMA TakeOne ==
  ASSUME PoolInv, Len(mgr.free) >= 1
  PROVE  LET f == mgr.free[1]
         IN  /\ f \in BlockId /\ f \in Range(mgr.free) /\ mgr.ref_counts[f] = 0
             /\ SubSeq(mgr.free, 1, 1) \in Seq(BlockId) /\ Len(SubSeq(mgr.free, 1, 1)) = 1
             /\ SubSeq(mgr.free, 1, 1)[1] = f /\ TakenOf(mgr, 1) = {f}
             /\ Queue(SubSeq(mgr.free, 2, Len(mgr.free)), KeysTaken(mgr, {f}))
             /\ Range(SubSeq(mgr.free, 2, Len(mgr.free))) = Range(mgr.free) \ {f}
             /\ \A t \in Live(mgr) : f \notin Range(mgr.sequences[t].table)
  <1> DEFINE f == mgr.free[1]
             taken == SubSeq(mgr.free, 1, 1)
             rest == SubSeq(mgr.free, 2, Len(mgr.free))
             key2 == KeysTaken(mgr, TakenOf(mgr, 1))
  <1>1. Queue(mgr.free, mgr.block_hashes) /\ mgr.free \in Seq(BlockId) /\ Len(mgr.free) \in Nat
    BY PoolFacts, LenProperties DEF Queue
  <1>2. \A b \in BlockId : b \notin Range(taken) => key2[b] = mgr.block_hashes[b]
    BY DEF KeysTaken, TakenOf
  <1>3. 1 \in 0 .. Len(mgr.free) /\ 1 + 1 = 2
    BY <1>1
  <1> HIDE DEF key2
  <1>4. /\ taken \in Seq(BlockId) /\ Len(taken) = 1 /\ taken[1] = f
        /\ Queue(rest, key2) /\ Range(taken) \subseteq Range(mgr.free)
        /\ Range(rest) = Range(mgr.free) \ Range(taken)
    <2>1. LET tk == SubSeq(mgr.free, 1, 1)
              rs == SubSeq(mgr.free, 1 + 1, Len(mgr.free))
          IN  /\ tk \in Seq(BlockId) /\ Len(tk) = 1
              /\ \A i \in 1 .. 1 : tk[i] = mgr.free[i]
              /\ Queue(rs, key2) /\ Range(tk) \subseteq Range(mgr.free) /\ Range(rs) = Range(mgr.free) \ Range(tk)
      BY <1>1, <1>2, <1>3, QueueTake
    <2> QED BY <1>3, <2>1
  <1>5. Range(taken) = {f}
    <2> HIDE DEF taken, f
    <2>1. \A b : b \in Range(taken) <=> \E i \in 1 .. Len(taken) : taken[i] = b
      BY <1>4, RangeIs
    <2>2. \A i \in 1 .. Len(taken) : i = 1
      BY <1>4
    <2> QED BY <1>4, <2>1, <2>2
  <1>6. TakenOf(mgr, 1) = {f}
    BY <1>5 DEF TakenOf
  <1>7. f \in Range(mgr.free) /\ f \in BlockId /\ mgr.ref_counts[f] = 0
    BY <1>4, <1>5, PoolFacts
  <1>8. \A t \in Live(mgr) : f \notin Range(mgr.sequences[t].table)
    BY <1>7, PoolFacts
  <1> QED BY <1>4, <1>5, <1>6, <1>7, <1>8 DEF key2

(* The tail block is full: a block is added.                               *)
LEMMA AppendFull ==
  ASSUME PoolInv, NEW s \in Live(mgr), NEW token \in Token, NEW r, Appends(s, token, r),
         mgr.sequences[s].scheduled % BlockTokens = 0
  PROVE  PoolInv' /\ Abstract!Next
  <1> DEFINE q == mgr.sequences[s]
             N == q.scheduled
             L == Len(q.table)
             f == mgr.free[1]
             T == {f}
             taken == SubSeq(mgr.free, 1, 1)
             rest == SubSeq(mgr.free, 2, Len(mgr.free))
             table == q.table \o taken
             z == Reserved(r, table, N + 1)
  <1>1. /\ HostGrows(s, token, r) /\ Len(text[s]) < MaxTokens
        /\ mgr' = Reserve(mgr, s, r, 1) /\ Cost(mgr, r, 1) <= Len(mgr.free)
        /\ text' = [text EXCEPT ![s] = text[s] \o <<token>>]
        /\ kv' = CopyBlock(kv, CopyOf(mgr, mgr', s)) /\ hit' = hit /\ written' = written
    BY DEF Appends
  <1>2. /\ L \in Nat \ {0} /\ L = DivCeil(N) /\ N \in Nat \ {0} /\ q.table \in Seq(BlockId) /\ Once(q.table)
        /\ r.table = q.table /\ r.scheduled = N /\ HeldBlocks[s] = Range(q.table) /\ OpenBlocks[s] = None
        /\ ~NeedsCopy(mgr, r) /\ ~Abstract!NeedsCopy(s) /\ DivCeil(N + 1) = L + 1
    BY <1>1, TailFacts
  <1>3. IsManager(mgr) /\ Memory /\ Managed /\ mgr.free \in Seq(BlockId) /\ Len(mgr.free) \in Nat
        /\ mgr.ref_counts \in [BlockId -> Nat]
    BY PoolFacts, LenProperties DEF PoolInv, Queue
  <1> HIDE DEF N, L
  <1>4. /\ Cost(mgr, r, 1) = 1
        /\ Reserve(mgr, s, r, 1) =
             Manager(With(mgr, s, Reserved(r, r.table \o SubSeq(mgr.free, 1, 1), r.scheduled + 1)),
                     RefsTaken(mgr, TakenOf(mgr, 1)), KeysTaken(mgr, TakenOf(mgr, 1)),
                     SubSeq(mgr.free, 1 + 1, Len(mgr.free)), MapTaken(mgr, TakenOf(mgr, 1)))
    <2>1. 1 = DivCeil(r.scheduled + 1) - Len(r.table)
      BY <1>2 DEF L
    <2>2. 1 \in Nat \ {0}
      OBVIOUS
    <2>3. \A c \in Nat \ {0} : \A n \in Nat : n = DivCeil(r.scheduled + c) - Len(r.table) =>
            /\ Cost(mgr, r, c) = n
            /\ Reserve(mgr, s, r, c) =
                 Manager(With(mgr, s, Reserved(r, r.table \o SubSeq(mgr.free, 1, n), r.scheduled + c)),
                         RefsTaken(mgr, TakenOf(mgr, n)), KeysTaken(mgr, TakenOf(mgr, n)),
                         SubSeq(mgr.free, n + 1, Len(mgr.free)), MapTaken(mgr, TakenOf(mgr, n)))
      <3> SUFFICES ASSUME NEW c \in Nat \ {0}, NEW n \in Nat, n = DivCeil(r.scheduled + c) - Len(r.table)
                   PROVE  /\ Cost(mgr, r, c) = n
                          /\ Reserve(mgr, s, r, c) =
                               Manager(With(mgr, s, Reserved(r, r.table \o SubSeq(mgr.free, 1, n), r.scheduled + c)),
                                       RefsTaken(mgr, TakenOf(mgr, n)), KeysTaken(mgr, TakenOf(mgr, n)),
                                       SubSeq(mgr.free, n + 1, Len(mgr.free)), MapTaken(mgr, TakenOf(mgr, n)))
        OBVIOUS
      <3>1. IsManager(mgr) /\ ~NeedsCopy(mgr, r)
        BY <1>2, <1>3
      <3> QED BY <3>1, ReserveIs
    <2> QED BY ONLY <2>1, <2>2, <2>3
  <1>5. Len(mgr.free) >= 1
    BY <1>1, <1>3, <1>4
  <1>6. /\ f \in BlockId /\ f \in Range(mgr.free) /\ mgr.ref_counts[f] = 0
        /\ taken \in Seq(BlockId) /\ Len(taken) = 1 /\ taken[1] = f /\ TakenOf(mgr, 1) = T
        /\ Queue(rest, KeysTaken(mgr, T)) /\ Range(rest) = Range(mgr.free) \ T
        /\ \A t \in Live(mgr) : f \notin Range(mgr.sequences[t].table)
    BY <1>5, TakeOne
  <1> HIDE DEF f, z, taken, rest
  <1>7. mgr' = Manager(With(mgr, s, z), RefsTaken(mgr, T), KeysTaken(mgr, T), rest, MapTaken(mgr, T))
    <2>1. 1 + 1 = 2
      OBVIOUS
    <2> QED BY <1>1, <1>2, <1>4, <1>6, <2>1 DEF z, rest, taken
  <1>8. mgr'.sequences = With(mgr, s, z) /\ mgr'.ref_counts = RefsTaken(mgr, T)
        /\ mgr'.block_hashes = KeysTaken(mgr, T) /\ mgr'.free = rest /\ mgr'.cached = MapTaken(mgr, T)
    BY <1>7, OneField
  <1>9. /\ table = [i \in 1 .. L + 1 |-> IF i <= L THEN q.table[i] ELSE taken[i - L]]
        /\ Len(table) = L + 1 /\ table \in Seq(BlockId)
    <2>1. Len(q.table) = L /\ L \in Nat /\ 1 \in Nat
      BY <1>2 DEF L
    <2> HIDE DEF q
    <2> QED BY <1>2, <1>6, <2>1, ConcatIs
  <1>10. /\ \A i \in 1 .. L : table[i] = q.table[i]
         /\ table[L + 1] = f
    <2>1. \A i \in 1 .. L : i \in 1 .. L + 1 /\ i <= L
      BY <1>2
    <2>2. L + 1 \in 1 .. L + 1 /\ ~(L + 1 <= L) /\ L + 1 - L = 1
      BY <1>2
    <2>3. taken[1] = f /\ table = [i \in 1 .. L + 1 |-> IF i <= L THEN q.table[i] ELSE taken[i - L]]
      BY <1>6, <1>9
    <2> HIDE DEF table, q
    <2>4. table[L + 1] = taken[L + 1 - L]
      BY <1>2, <2>2, <2>3
    <2> QED BY <2>1, <2>2, <2>3, <2>4
  <1>11. \A i \in 1 .. L + 1 : i = L + 1 \/ i \in 1 .. L
    BY <1>2
  <1>12. \A b : b \in Range(q.table) <=> \E i \in 1 .. L : q.table[i] = b
    BY <1>2, RangeIs DEF L
  <1> HIDE DEF table
  <1>13. Range(table) = Range(q.table) \cup {f}
    <2>1. \A b : b \in Range(table) <=> \E i \in 1 .. L + 1 : table[i] = b
      <3>1. table \in Seq(BlockId) /\ Len(table) = L + 1
        BY <1>9
      <3>2. \A b : b \in Range(table) <=> \E i \in 1 .. Len(table) : table[i] = b
        BY <3>1, RangeIs
      <3> QED BY <3>1, <3>2
    <2>2. L + 1 \in 1 .. L + 1 /\ \A i \in 1 .. L : i \in 1 .. L + 1
      BY <1>2
    <2> QED BY <1>10, <1>11, <1>12, <2>1, <2>2
  <1>14. Once(table)
    <2>1. \A i, j \in 1 .. L : q.table[i] = q.table[j] => i = j
      BY <1>2 DEF Once, L
    <2>2. \A i \in 1 .. L : table[i] # f
      BY <1>6, <1>10, <1>12
    <2>3. \A i, j \in 1 .. Len(table) : table[i] = table[j] => i = j
      <3> SUFFICES ASSUME NEW i \in 1 .. L + 1, NEW j \in 1 .. L + 1, table[i] = table[j] PROVE i = j
        <4>1. Len(table) = L + 1
          BY <1>9
        <4> QED BY <4>1
      <3>1. CASE i = L + 1 \/ j = L + 1
        BY <1>10, <1>11, <2>2, <3>1
      <3>2. CASE i \in 1 .. L /\ j \in 1 .. L
        BY <1>10, <2>1, <3>2
      <3> QED BY <1>11, <3>1, <3>2
    <2> QED BY <2>3 DEF Once
  <1>15. kv' = kv
    <2>1. mgr'.sequences[s].table = table
      <3>1. With(mgr, s, z)[s] = z
        BY DEF With
      <3>2. z.table = table
        <4>1. r \in Row /\ N + 1 \in Nat
          BY <1>1, <1>2 DEF HostGrows
        <4> QED BY <1>9, <4>1, ReservedIs DEF z
      <3> QED BY <1>8, <3>1, <3>2
    <2>2. L \in 1 .. L
      BY <1>2
    <2>3. CopyOf(mgr, mgr', s) = None
      BY <1>10, <2>1, <2>2 DEF CopyOf, L
    <2> QED BY <1>1, <2>3 DEF CopyBlock
  <1>16. IsManager(mgr')
    <2>1. RefsTaken(mgr, T) \in [BlockId -> Nat]
      BY <1>3 DEF RefsTaken
    <2>2. rest \in Seq(BlockId)
      BY <1>6 DEF Queue
    <2>3. mgr' = Manager(mgr'.sequences, mgr'.ref_counts, mgr'.block_hashes, mgr'.free, mgr'.cached)
      BY <1>7, <1>8
    <2>4. \A h \in DOMAIN mgr'.cached : mgr'.cached[h] \in BlockId
      BY <1>3, <1>8 DEF IsManager, MapTaken, Restrict
    <2> QED BY <1>8, <2>1, <2>2, <2>3, <2>4 DEF IsManager, Manager
  <1>17. Grows(s, token, r, table, f, T)
    <2>1. DOMAIN kv' = BlockId /\ DOMAIN kv'[f] = 0 .. BlockTokens - 1
      BY <1>3, <1>6, <1>15 DEF Memory
    <2>2. \A i \in 1 .. L + 1 : i < L + 1 => i \in 1 .. Len(q.table) /\ table[i] = q.table[i]
      BY <1>2, <1>10, <1>11 DEF L
    <2>3. \A o \in 0 .. BlockTokens - 1 : ~(((L + 1) - 1) * BlockTokens + o + 1 <= N)
      <3>1. N = L * BlockTokens
        BY <1>2, DivCeilIs DEF N
      <3>2. (L + 1) - 1 = L
        BY <1>2
      <3>3. \A o \in 0 .. BlockTokens - 1 : ~(N + o + 1 <= N)
        BY <1>2, PoolAssumption
      <3> QED BY <3>1, <3>2, <3>3
    <2>4. \A p \in written[s] + 1 .. N : At(p) # L + 1
      <3>1. written[s] \in Nat
        BY <1>3 DEF Managed
      <3>2. \A p \in written[s] + 1 .. N : p \in 1 .. N
        BY <1>2, <3>1
      <3>3. \A p \in 1 .. N : At(p) \in 1 .. L
        BY <1>2, SlotInside
      <3> QED BY <1>2, <3>2, <3>3
    <2>5. KeysTaken(mgr, T)[f] = None
      BY <1>6 DEF KeysTaken
    <2>6. L + 1 \in Nat \ {0} /\ T \in SUBSET BlockId
      BY <1>2, <1>6
    <2> QED BY <1>1, <1>2, <1>6, <1>8, <1>9, <1>10, <1>14, <1>15, <1>16, <2>1, <2>2, <2>3, <2>4, <2>5, <2>6
            DEF Grows, N, z
  <1>18. /\ (Managed /\ Lengths /\ HostView /\ MapAgrees /\ Queue(mgr.free, mgr.block_hashes))'
         /\ (SharedAgree /\ KeyedByText /\ OwnContents /\ PublishedIsWritten /\ HitIsSound /\ Memory)'
         /\ Live(mgr') = Live(mgr) /\ OthersStay(s)
         /\ HeldBlocks'[s] = Range(table)
         /\ OpenBlocks'[s] = IF (N + 1) % BlockTokens = 0 THEN None ELSE f
         /\ UnwrittenBlocks'[s] = UnwrittenBlocks[s] \cup {f}
    BY <1>1, <1>17, GrowsKeeps DEF N
  <1>19. s \in SequenceId
    BY <1>3 DEF Managed
  <1>20. Abstract!AppendTaking(s, T)
    <2>1. /\ HeldBlocks' = [HeldBlocks EXCEPT ![s] = HeldBlocks'[s]]
          /\ OpenBlocks' = [OpenBlocks EXCEPT ![s] = OpenBlocks'[s]]
          /\ UnwrittenBlocks' = [UnwrittenBlocks EXCEPT ![s] = UnwrittenBlocks'[s]]
      BY <1>18, <1>19, OthersKeep
    <2>2. HeldBlocks'[s] = (HeldBlocks[s] \ {}) \cup T
      BY <1>2, <1>13, <1>18
    <2>3. UnwrittenBlocks'[s] = UnwrittenBlocks[s] \cup T \cup ({OpenBlocks[s]} \ ({} \cup {None}))
      BY <1>2, <1>18
    <2>4. mgr'.ref_counts = [b \in BlockId |-> IF b \in T THEN 1
                             ELSE IF b \in {} THEN mgr.ref_counts[b] - 1 ELSE mgr.ref_counts[b]]
      BY <1>8 DEF RefsTaken
    <2>5. OpenBlocks'[s] \in T \cup {None}
      BY <1>18
    <2>6. mgr'.block_hashes = Abstract!Evict(T)
      BY <1>8 DEF Abstract!Evict, KeysTaken
    <2>7. Range(mgr'.free) = Range(mgr.free) \ T /\ T \subseteq Range(mgr.free) /\ T # {}
      BY <1>6, <1>8
    <2>8. Live(mgr)' = Live(mgr)
      BY <1>18 DEF Live
    <2> HIDE DEF T
    <2> QED BY <1>2, <2>1, <2>2, <2>3, <2>4, <2>5, <2>6, <2>7, <2>8 DEF Abstract!AppendTaking
  <1>21. Abstract!Next
    <2>1. T \in SUBSET BlockId
      BY <1>6
    <2> HIDE DEF T
    <2> QED BY <1>19, <1>20, <2>1 DEF Abstract!Next
  <1>22. Abstract!LedgerInv'
    BY <1>21, LedgerMoves
  <1> QED BY <1>18, <1>21, <1>22 DEF PoolInv


(* A step that leaves kv, the blocks and the queue alone but for T.        *)
LEMMA ManagerKept ==
  ASSUME NEW m, IsManager(m), NEW sequences, NEW refs \in [BlockId -> Nat], NEW keys,
         NEW free \in Seq(BlockId), NEW T, NEW n, n = Manager(sequences, refs, keys, free, MapTaken(m, T))
  PROVE  IsManager(n)
  <1>1. n.sequences = sequences /\ n.ref_counts = refs /\ n.block_hashes = keys /\ n.free = free
        /\ n.cached = MapTaken(m, T)
    BY OneField
  <1>2. n = Manager(n.sequences, n.ref_counts, n.block_hashes, n.free, n.cached)
    BY <1>1
  <1>3. \A h \in DOMAIN n.cached : n.cached[h] \in BlockId
    BY <1>1 DEF IsManager, MapTaken, Restrict
  <1> QED BY <1>1, <1>2, <1>3 DEF IsManager, Manager

(* The tail block has room and is the sequence's own.                      *)
LEMMA AppendInside ==
  ASSUME PoolInv, NEW s \in Live(mgr), NEW token \in Token, NEW r, Appends(s, token, r),
         mgr.sequences[s].scheduled % BlockTokens # 0, ~NeedsCopy(mgr, r)
  PROVE  PoolInv' /\ Abstract!Next
  <1> DEFINE q == mgr.sequences[s]
             N == q.scheduled
             L == Len(q.table)
             last == q.table[L]
             table == q.table
             z == Reserved(r, table, N + 1)
  <1>1. /\ HostGrows(s, token, r) /\ Len(text[s]) < MaxTokens
        /\ mgr' = Reserve(mgr, s, r, 1)
        /\ text' = [text EXCEPT ![s] = text[s] \o <<token>>]
        /\ kv' = CopyBlock(kv, CopyOf(mgr, mgr', s)) /\ hit' = hit /\ written' = written
    BY DEF Appends
  <1>2. /\ L \in Nat \ {0} /\ L = DivCeil(N) /\ N \in Nat \ {0} /\ q.table \in Seq(BlockId) /\ Once(q.table)
        /\ last \in BlockId /\ last \in Range(q.table)
        /\ r.table = q.table /\ r.scheduled = N /\ HeldBlocks[s] = Range(q.table) /\ OpenBlocks[s] = last
        /\ ~Abstract!NeedsCopy(s) /\ ~(mgr.ref_counts[last] > 1) /\ DivCeil(N + 1) = L
    BY <1>1, TailFacts
  <1>3. IsManager(mgr) /\ Memory /\ Managed /\ mgr.free \in Seq(BlockId) /\ Len(mgr.free) \in Nat
        /\ mgr.ref_counts \in [BlockId -> Nat] /\ Queue(mgr.free, mgr.block_hashes)
        /\ mgr.block_hashes \in [BlockId -> Hashes \cup {None}] /\ Abstract!OpenIsPartial
    BY PoolFacts, LenProperties DEF PoolInv, Queue, Managed, Abstract!LedgerInv
  <1> HIDE DEF N, L, last
  <1>4. /\ TakenOf(mgr, 0) = {} /\ SubSeq(mgr.free, 1, 0) = <<>>
        /\ SubSeq(mgr.free, 0 + 1, Len(mgr.free)) = mgr.free
    <2>1. SubSeq(mgr.free, 1, 0) = <<>>
      <3>1. SubSeq(mgr.free, 1, 0) = [i \in 1 .. 0 - 1 + 1 |-> mgr.free[1 + i - 1]]
        BY SubSeqIs
      <3>2. 1 .. 0 - 1 + 1 = {}
        OBVIOUS
      <3> QED BY <3>1, <3>2
    <2>2. SubSeq(mgr.free, 1, Len(mgr.free)) = mgr.free
      <3> DEFINE f == mgr.free
                 n == Len(f)
      <3>1. n \in Nat /\ f \in Seq(BlockId)
        BY <1>3
      <3>2. f = [i \in 1 .. n |-> f[i]]
        BY <3>1, LenProperties
      <3> HIDE DEF f, n
      <3>3. SubSeq(f, 1, n) = [i \in 1 .. n - 1 + 1 |-> f[1 + i - 1]]
        BY <3>1, SubSeqIs
      <3>4. n - 1 + 1 = n /\ \A i \in 1 .. n : 1 + i - 1 = i
        BY <3>1
      <3>5. SubSeq(f, 1, n) = [i \in 1 .. n |-> f[i]]
        BY <3>3, <3>4
      <3>6. SubSeq(f, 1, n) = f
        BY <3>2, <3>5
      <3> QED BY <3>6 DEF f, n
    <2>3. TakenOf(mgr, 0) = {}
      BY <2>1 DEF TakenOf, Range
    <2> QED BY <2>1, <2>2, <2>3
  <1>5. /\ RefsTaken(mgr, {}) = mgr.ref_counts /\ KeysTaken(mgr, {}) = mgr.block_hashes
    BY <1>3 DEF RefsTaken, KeysTaken
  <1>6. q.table \o <<>> = q.table
    BY <1>2
  <1>7. mgr' = Manager(With(mgr, s, z), mgr.ref_counts, mgr.block_hashes, mgr.free, MapTaken(mgr, {}))
    <2>1. 0 = DivCeil(r.scheduled + 1) - Len(r.table)
      BY <1>2 DEF L
    <2>2. 1 \in Nat \ {0} /\ 0 \in Nat
      OBVIOUS
    <2>3. \A c \in Nat \ {0} : \A n \in Nat : n = DivCeil(r.scheduled + c) - Len(r.table) =>
            Reserve(mgr, s, r, c) =
              Manager(With(mgr, s, Reserved(r, r.table \o SubSeq(mgr.free, 1, n), r.scheduled + c)),
                      RefsTaken(mgr, TakenOf(mgr, n)), KeysTaken(mgr, TakenOf(mgr, n)),
                      SubSeq(mgr.free, n + 1, Len(mgr.free)), MapTaken(mgr, TakenOf(mgr, n)))
      <3> SUFFICES ASSUME NEW c \in Nat \ {0}, NEW n \in Nat, n = DivCeil(r.scheduled + c) - Len(r.table)
                   PROVE  Reserve(mgr, s, r, c) =
                            Manager(With(mgr, s, Reserved(r, r.table \o SubSeq(mgr.free, 1, n), r.scheduled + c)),
                                    RefsTaken(mgr, TakenOf(mgr, n)), KeysTaken(mgr, TakenOf(mgr, n)),
                                    SubSeq(mgr.free, n + 1, Len(mgr.free)), MapTaken(mgr, TakenOf(mgr, n)))
        OBVIOUS
      <3>1. IsManager(mgr) /\ ~NeedsCopy(mgr, r)
        BY <1>3
      <3> QED BY <3>1, ReserveIs
    <2>4. Reserve(mgr, s, r, 1) =
            Manager(With(mgr, s, Reserved(r, r.table \o SubSeq(mgr.free, 1, 0), r.scheduled + 1)),
                    RefsTaken(mgr, TakenOf(mgr, 0)), KeysTaken(mgr, TakenOf(mgr, 0)),
                    SubSeq(mgr.free, 0 + 1, Len(mgr.free)), MapTaken(mgr, TakenOf(mgr, 0)))
      BY ONLY <2>1, <2>2, <2>3
    <2> QED BY ONLY <1>1, <1>2, <1>4, <1>5, <1>6, <2>4 DEF z, table
  <1> HIDE DEF z
  <1>8. mgr'.sequences = With(mgr, s, z) /\ mgr'.ref_counts = mgr.ref_counts
        /\ mgr'.block_hashes = mgr.block_hashes /\ mgr'.free = mgr.free /\ mgr'.cached = MapTaken(mgr, {})
    BY <1>7, OneField
  <1>9. kv' = kv
    <2>1. mgr'.sequences[s].table = table
      <3>1. With(mgr, s, z)[s] = z
        BY DEF With
      <3>2. z.table = table
        <4>1. r \in Row /\ N + 1 \in Nat
          BY <1>1, <1>2 DEF HostGrows
        <4> QED BY <1>2, <4>1, ReservedIs, SMTT(30) DEF z
      <3> QED BY <1>8, <3>1, <3>2
    <2>2. CopyOf(mgr, mgr', s) = None
      BY <2>1 DEF CopyOf
    <2> QED BY <1>1, <2>2 DEF CopyBlock
  <1>10. IsManager(mgr')
    BY <1>3, <1>7, ManagerKept
  <1>11. s \in SequenceId
    BY <1>3 DEF Managed
  <1>12. last = table[L] /\ Len(table) = L
    BY DEF last, L
  <1>13. Grows(s, token, r, table, last, {})
    <2>1. DOMAIN kv' = BlockId /\ DOMAIN kv'[last] = 0 .. BlockTokens - 1
      BY <1>2, <1>3, <1>9 DEF Memory
    <2>2. \A i \in 1 .. L : i < L => i \in 1 .. Len(q.table) /\ table[i] = q.table[i]
      BY <1>12
    <2>3. L \in 1 .. Len(q.table)
      BY <1>2 DEF L
    <2>4. \A t \in Live(mgr) : t # s => last \notin Range(mgr.sequences[t].table)
      <3>1. mgr.ref_counts[last] \in Nat /\ mgr.ref_counts[last] <= 1
        BY <1>2, <1>3
      <3> QED BY <1>2, <3>1, PoolFacts
    <2>5. mgr.block_hashes[last] = None
      <3>1. OpenBlocks[s] # None
        BY <1>2, ManagerAssumption
      <3> QED BY <1>2, <1>3, <1>11, <3>1 DEF Abstract!OpenIsPartial
    <2>6. Queue(mgr'.free, mgr'.block_hashes)
      BY <1>3, <1>8
    <2> QED BY <1>1, <1>2, <1>5, <1>8, <1>9, <1>10, <1>12, <2>1, <2>2, <2>3, <2>4, <2>5, <2>6
            DEF Grows, N, z
  <1>14. /\ (Managed /\ Lengths /\ HostView /\ MapAgrees /\ Queue(mgr.free, mgr.block_hashes))'
         /\ (SharedAgree /\ KeyedByText /\ OwnContents /\ PublishedIsWritten /\ HitIsSound /\ Memory)'
         /\ Live(mgr') = Live(mgr) /\ OthersStay(s)
         /\ HeldBlocks'[s] = Range(table)
         /\ OpenBlocks'[s] = IF (N + 1) % BlockTokens = 0 THEN None ELSE last
         /\ UnwrittenBlocks'[s] = UnwrittenBlocks[s] \cup {last}
    BY <1>1, <1>13, GrowsKeeps DEF N
  <1>15. Abstract!AppendInPlace(s)
    <2>1. /\ HeldBlocks' = [HeldBlocks EXCEPT ![s] = HeldBlocks'[s]]
          /\ OpenBlocks' = [OpenBlocks EXCEPT ![s] = OpenBlocks'[s]]
          /\ UnwrittenBlocks' = [UnwrittenBlocks EXCEPT ![s] = UnwrittenBlocks'[s]]
      BY <1>11, <1>14, OthersKeep
    <2>2. HeldBlocks' = HeldBlocks
      <3>1. HeldBlocks'[s] = HeldBlocks[s]
        BY <1>2, <1>14
      <3> QED BY <2>1, <3>1 DEF HeldBlocks
    <2>3. OpenBlocks'[s] \in {OpenBlocks[s], None}
      BY <1>2, <1>14
    <2>4. OpenBlocks[s] # None
      BY <1>2, ManagerAssumption
    <2>5. Live(mgr)' = Live(mgr)
      BY <1>14 DEF Live
    <2>6. UnwrittenBlocks'[s] = UnwrittenBlocks[s] \cup {OpenBlocks[s]}
      BY <1>2, <1>14
    <2> QED BY <1>2, <1>8, <2>1, <2>2, <2>3, <2>4, <2>5, <2>6 DEF Abstract!AppendInPlace
  <1>16. Abstract!Next
    BY <1>11, <1>15 DEF Abstract!Next
  <1>17. Abstract!LedgerInv'
    BY <1>16, LedgerMoves
  <1> QED BY <1>14, <1>16, <1>17 DEF PoolInv


(* The tail block has room and somebody shares it: it is copied.           *)
LEMMA AppendCopy ==
  ASSUME PoolInv, NEW s \in Live(mgr), NEW token \in Token, NEW r, Appends(s, token, r),
         mgr.sequences[s].scheduled % BlockTokens # 0, NeedsCopy(mgr, r)
  PROVE  PoolInv' /\ Abstract!Next
  <1> DEFINE q == mgr.sequences[s]
             N == q.scheduled
             L == Len(q.table)
             last == q.table[L]
             f == mgr.free[1]
             T == {f}
             start == Front(q.table)
             taken == SubSeq(mgr.free, 1, 1)
             rest == SubSeq(mgr.free, 2, Len(mgr.free))
             table == start \o taken
             z == Reserved(r, table, N + 1)
             used == N % BlockTokens
  <1>1. /\ HostGrows(s, token, r) /\ Len(text[s]) < MaxTokens
        /\ mgr' = Reserve(mgr, s, r, 1) /\ Cost(mgr, r, 1) <= Len(mgr.free)
        /\ text' = [text EXCEPT ![s] = text[s] \o <<token>>]
        /\ kv' = CopyBlock(kv, CopyOf(mgr, mgr', s)) /\ hit' = hit /\ written' = written
    BY DEF Appends
  <1>2. /\ L \in Nat \ {0} /\ L = DivCeil(N) /\ N \in Nat \ {0} /\ q.table \in Seq(BlockId) /\ Once(q.table)
        /\ last \in BlockId /\ last \in Range(q.table) /\ Last(q.table) = last
        /\ r.table = q.table /\ r.scheduled = N /\ HeldBlocks[s] = Range(q.table) /\ OpenBlocks[s] = last
        /\ Abstract!NeedsCopy(s) /\ mgr.ref_counts[last] > 1 /\ DivCeil(N + 1) = L
    BY <1>1, TailFacts
  <1>3. IsManager(mgr) /\ Memory /\ Managed /\ Lengths /\ mgr.free \in Seq(BlockId) /\ Len(mgr.free) \in Nat
        /\ mgr.ref_counts \in [BlockId -> Nat] /\ Abstract!DirtyIsPrivate /\ Abstract!CountsExact
        /\ \A b \in Range(mgr.free) : mgr.ref_counts[b] = 0
    <2>1. \A b \in Range(mgr.free) : mgr.ref_counts[b] = 0
      BY PoolFacts
    <2> QED BY <2>1, PoolFacts, LenProperties DEF PoolInv, Queue, Abstract!LedgerInv
  <1>4. s \in SequenceId /\ written[s] \in 0 .. N
    BY <1>3, RowFacts
  <1> HIDE DEF N, L, last
  <1>5. /\ Cost(mgr, r, 1) = 1 /\ Len(mgr.free) >= 1
        /\ Reserve(mgr, s, r, 1) =
             Manager(With(mgr, s, Reserved(r, Front(r.table) \o SubSeq(mgr.free, 1, 1), r.scheduled + 1)),
                     RefsCopied(mgr, TakenOf(mgr, 1), Last(r.table)), KeysTaken(mgr, TakenOf(mgr, 1)),
                     SubSeq(mgr.free, 2, Len(mgr.free)), MapTaken(mgr, TakenOf(mgr, 1)))
    <2>1. r.table \in Seq(BlockId) /\ DivCeil(r.scheduled + 1) = Len(r.table)
      BY <1>2 DEF L
    <2>2. Len(mgr.free) >= 1
      <3>1. Cost(mgr, r, 1) = DivCeil(r.scheduled + 1) - Len(r.table) + 1
        BY DEF Cost
      <3>2. Cost(mgr, r, 1) = 1
        BY <1>2, <2>1, <3>1 DEF L
      <3> QED BY <1>1, <1>3, <3>2
    <2> QED BY <1>3, <2>1, <2>2, ReserveCopyIs
  <1>6. /\ f \in BlockId /\ f \in Range(mgr.free) /\ mgr.ref_counts[f] = 0
        /\ taken \in Seq(BlockId) /\ Len(taken) = 1 /\ taken[1] = f /\ TakenOf(mgr, 1) = T
        /\ Queue(rest, KeysTaken(mgr, T)) /\ Range(rest) = Range(mgr.free) \ T
        /\ \A t \in Live(mgr) : f \notin Range(mgr.sequences[t].table)
    BY <1>5, TakeOne
  <1> HIDE DEF f, z, taken, rest
  <1>7. mgr' = Manager(With(mgr, s, z), RefsCopied(mgr, T, last), KeysTaken(mgr, T), rest, MapTaken(mgr, T))
    BY <1>1, <1>2, <1>5, <1>6 DEF z, rest, taken
  <1>8. mgr'.sequences = With(mgr, s, z) /\ mgr'.ref_counts = RefsCopied(mgr, T, last)
        /\ mgr'.block_hashes = KeysTaken(mgr, T) /\ mgr'.free = rest /\ mgr'.cached = MapTaken(mgr, T)
    BY <1>7, OneField
  <1>9. start \in Seq(BlockId) /\ Len(start) = L - 1 /\ \A i \in 1 .. L - 1 : start[i] = q.table[i]
    <2>1. start = SubSeq(q.table, 1, L - 1)
      BY DEF Front, L
    <2>2. SubSeq(q.table, 1, L - 1) = [i \in 1 .. (L - 1) - 1 + 1 |-> q.table[1 + i - 1]]
          /\ Len(SubSeq(q.table, 1, L - 1)) = (L - 1) - 1 + 1
      <3>1. 1 \in Int /\ L - 1 \in Int /\ 1 <= (L - 1) + 1
        BY <1>2
      <3> QED BY <3>1, SubSeqIs
    <2>3. (L - 1) - 1 + 1 = L - 1 /\ L - 1 \in Nat /\ (\A i \in 1 .. L - 1 : 1 + i - 1 = i /\ i \in 1 .. L)
      BY <1>2
    <2> HIDE DEF start
    <2>4. start = [i \in 1 .. L - 1 |-> q.table[i]] /\ Len(start) = L - 1
      BY <2>1, <2>2, <2>3
    <2>5. \A i \in 1 .. L : q.table[i] \in BlockId
      BY <1>2, ElementOfSeq DEF L
    <2>6. start \in [1 .. L - 1 -> BlockId]
      BY <2>3, <2>4, <2>5
    <2> QED BY <2>3, <2>4, <2>6, SeqDef
  <1> HIDE DEF start
  <1>10. /\ table = [i \in 1 .. (L - 1) + 1 |-> IF i <= L - 1 THEN start[i] ELSE taken[i - (L - 1)]]
         /\ Len(table) = (L - 1) + 1 /\ table \in Seq(BlockId)
    <2>1. L - 1 \in Nat /\ 1 \in Nat
      BY <1>2
    <2> QED BY <1>6, <1>9, <2>1, ConcatIs
  <1>11. /\ Len(table) = L /\ table \in Seq(BlockId) /\ L \in 1 .. L
         /\ \A i \in 1 .. L - 1 : table[i] = q.table[i] /\ i \in 1 .. L /\ i < L
         /\ table[L] = f
         /\ \A i \in 1 .. L : i = L \/ i \in 1 .. L - 1
    <2>1. (L - 1) + 1 = L /\ L \in 1 .. L /\ ~(L <= L - 1) /\ L - (L - 1) = 1
      BY <1>2
    <2>2. \A i \in 1 .. L - 1 : i \in 1 .. L /\ i <= L - 1 /\ i < L
      BY <1>2
    <2>3. \A i \in 1 .. L : i = L \/ i \in 1 .. L - 1
      BY <1>2
    <2>4. table = [i \in 1 .. L |-> IF i <= L - 1 THEN start[i] ELSE taken[i - (L - 1)]]
      BY <1>10, <2>1
    <2>5. taken[1] = f /\ (\A i \in 1 .. L - 1 : start[i] = q.table[i])
      BY <1>6, <1>9
    <2> HIDE DEF table, q
    <2>6. table[L] = taken[L - (L - 1)]
      BY <1>2, <2>1, <2>4
    <2>7. \A i \in 1 .. L - 1 : table[i] = q.table[i]
      BY <2>2, <2>4, <2>5
    <2> QED BY <1>10, <2>1, <2>2, <2>3, <2>5, <2>6, <2>7
  <1> HIDE DEF table
  <1>12. /\ \A b : b \in Range(q.table) <=> \E i \in 1 .. L : q.table[i] = b
         /\ \A b : b \in Range(table) <=> \E i \in 1 .. L : table[i] = b
    <2>1. \A b : b \in Range(q.table) <=> \E i \in 1 .. L : q.table[i] = b
      BY <1>2, RangeIs DEF L
    <2>2. \A b : b \in Range(table) <=> \E i \in 1 .. Len(table) : table[i] = b
      BY <1>11, RangeIs
    <2>3. Len(table) = L
      BY <1>11
    <2> QED BY <2>1, <2>2, <2>3
  <1>13. \A i, j \in 1 .. L : q.table[i] = q.table[j] => i = j
    BY <1>2 DEF Once, L
  <1>14. Range(table) = (Range(q.table) \ {last}) \cup {f}
    <2>1. ASSUME NEW i \in 1 .. L - 1 PROVE q.table[i] # last /\ q.table[i] \in Range(q.table)
      BY <1>11, <1>12, <1>13, <2>1 DEF last
    <2>2. ASSUME NEW b, b \in Range(table) PROVE b \in (Range(q.table) \ {last}) \cup {f}
      BY <1>11, <1>12, <2>1, <2>2
    <2>3. ASSUME NEW b, b \in Range(q.table), b # last PROVE b \in Range(table)
      <3>1. PICK i \in 1 .. L : q.table[i] = b
        BY <1>12, <2>3
      <3>2. i # L
        BY <2>3, <3>1 DEF last
      <3>3. i \in 1 .. L - 1
        BY <1>11, <3>2
      <3> QED BY <1>11, <1>12, <3>1, <3>3
    <2>4. f \in Range(table)
      BY <1>11, <1>12
    <2> QED BY <2>2, <2>3, <2>4
  <1>15. Once(table)
    <2>1. \A i \in 1 .. L - 1 : table[i] # f
      BY <1>6, <1>11, <1>12
    <2>2. \A i, j \in 1 .. Len(table) : table[i] = table[j] => i = j
      <3> SUFFICES ASSUME NEW i \in 1 .. L, NEW j \in 1 .. L, table[i] = table[j] PROVE i = j
        <4>1. Len(table) = L
          BY <1>11
        <4> QED BY <4>1
      <3>1. CASE i = L \/ j = L
        BY <1>11, <2>1, <3>1
      <3>2. CASE i \in 1 .. L - 1 /\ j \in 1 .. L - 1
        BY <1>11, <1>13, <3>2
      <3> QED BY <1>11, <3>1, <3>2
    <2> QED BY <2>2 DEF Once
  <1>16. /\ f # last
         /\ kv' = [kv EXCEPT ![f] = [o \in 0 .. BlockTokens - 1 |-> IF o < used THEN kv[last][o] ELSE kv[f][o]]]
    <2>1. mgr'.sequences[s].table = table
      <3>1. With(mgr, s, z)[s] = z
        BY DEF With
      <3>2. z.table = table
        <4>1. r \in Row /\ N + 1 \in Nat
          BY <1>1, <1>2 DEF HostGrows
        <4> QED BY <1>11, <4>1, ReservedIs DEF z
      <3> QED BY <1>8, <3>1, <3>2
    <2>2. f # last
      BY <1>2, <1>6
    <2>3. CopyOf(mgr, mgr', s) = [src |-> last, dst |-> f, tokens |-> used]
      <3>1. table[L] = f /\ L > 0
        BY <1>2, <1>11
      <3> QED BY <2>1, <2>2, <3>1 DEF CopyOf, L, last, N
    <2>4. [src |-> last, dst |-> f, tokens |-> used] \in [src : BlockId, dst : BlockId, tokens : 0 .. BlockTokens - 1]
      <3>1. used \in 0 .. BlockTokens - 1
        BY <1>2, PoolAssumption, Division
      <3> QED BY <1>2, <1>6, <3>1
    <2>5. CopyOf(mgr, mgr', s) # None
      BY <2>3, <2>4, ManagerAssumption
    <2>6. kv' = [kv EXCEPT ![f] = [o \in DOMAIN kv[f] |-> IF o < used THEN kv[last][o] ELSE kv[f][o]]]
      <3> DEFINE copy == CopyOf(mgr, mgr', s)
      <3>1. kv' = CopyBlock(kv, copy) /\ copy # None
        BY <1>1, <2>5
      <3>2. copy = [src |-> last, dst |-> f, tokens |-> used]
        BY <2>3
      <3> HIDE DEF used, copy
      <3>3. copy.src = last /\ copy.dst = f /\ copy.tokens = used
        BY <3>2
      <3>4. CopyBlock(kv, copy) = [kv EXCEPT ![copy.dst] =
              [o \in DOMAIN kv[copy.dst] |-> IF o < copy.tokens THEN kv[copy.src][o] ELSE kv[copy.dst][o]]]
        BY <3>1 DEF CopyBlock
      <3> QED BY <3>1, <3>3, <3>4
    <2>7. DOMAIN kv[f] = 0 .. BlockTokens - 1
      BY <1>3, <1>6 DEF Memory
    <2> QED BY <2>2, <2>6, <2>7
  <1>17. IsManager(mgr')
    <2>1. RefsCopied(mgr, T, last) \in [BlockId -> Nat]
      <3>1. mgr.ref_counts[last] - 1 \in Nat
        BY <1>2, <1>3
      <3> QED BY <1>3, <3>1 DEF RefsCopied
    <2>2. rest \in Seq(BlockId)
      BY <1>6 DEF Queue
    <2> HIDE DEF T
    <2> QED BY <1>3, <1>7, <2>1, <2>2, ManagerKept
  <1>18. N = (L - 1) * BlockTokens + used /\ used \in Nat
    <2> DEFINE d == N \div BlockTokens
    <2>1. d \in Nat /\ used \in 0 .. BlockTokens - 1 /\ N = d * BlockTokens + used /\ BlockTokens \in Nat \ {0}
      BY <1>2, PoolAssumption, Division
    <2>2. used # 0
      BY DEF N
    <2> HIDE DEF d, used
    <2>3. d + 1 \in Nat /\ (d + 1) * BlockTokens = d * BlockTokens + BlockTokens /\ d * BlockTokens \in Nat
      BY <2>1
    <2>4. N <= (d + 1) * BlockTokens /\ (d + 1) * BlockTokens < N + BlockTokens
      BY <1>2, <2>1, <2>2, <2>3, SMTT(30)
    <2>5. DivCeil(N) = d + 1
      BY <1>2, <2>3, <2>4, DivCeilUnique
    <2>6. L - 1 = d
      BY <1>2, <2>1, <2>5
    <2> QED BY <2>1, <2>6
  <1>19. Grows(s, token, r, table, f, T)
    <2>1. /\ DOMAIN kv' = BlockId /\ DOMAIN kv'[f] = 0 .. BlockTokens - 1
          /\ \A b \in BlockId : b # f => kv'[b] = kv[b]
          /\ \A o \in 0 .. BlockTokens - 1 : o < used => kv'[f][o] = kv[last][o]
      <3> HIDE DEF used
      <3> QED BY <1>3, <1>6, <1>16 DEF Memory
    <2>2. \A i \in 1 .. L : i < L => i \in 1 .. Len(q.table) /\ table[i] = q.table[i]
      BY <1>2, <1>11 DEF L
    <2>3. \A o \in 0 .. BlockTokens - 1 : (L - 1) * BlockTokens + o + 1 <= N =>
            L \in 1 .. Len(q.table) /\ kv'[f][o] = kv[q.table[L]][o]
      <3> SUFFICES ASSUME NEW o \in 0 .. BlockTokens - 1, (L - 1) * BlockTokens + o + 1 <= N
                   PROVE  L \in 1 .. Len(q.table) /\ kv'[f][o] = kv[q.table[L]][o]
        OBVIOUS
      <3>1. o < used
        <4> DEFINE a == (L - 1) * BlockTokens
        <4>1. a \in Nat
          <5>1. L - 1 \in Nat /\ BlockTokens \in Nat
            BY <1>2, PoolAssumption
          <5> QED BY <5>1
        <4>2. N = a + used /\ used \in Nat
          BY <1>18
        <4>3. a + o + 1 <= N
          OBVIOUS
        <4>4. o \in Nat
          BY PoolAssumption
        <4> HIDE DEF a, used
        <4> QED BY <4>1, <4>2, <4>3, <4>4
      <3>2. L \in 1 .. Len(q.table)
        BY <1>11 DEF L
      <3> QED BY <2>1, <3>1, <3>2 DEF last
    <2>4. \A p \in written[s] + 1 .. N : At(p) # L
      <3> SUFFICES ASSUME NEW p \in written[s] + 1 .. N, At(p) = L PROVE FALSE
        OBVIOUS
      <3>1. SlotBlock(q, p) = last
        BY DEF SlotBlock, At, last
      <3>2. last \in UnwrittenBlocks[s]
        BY <3>1, UnwrittenIsPrivate DEF N
      <3>3. Abstract!Holders(last) = {s}
        BY <1>3, <3>2 DEF Abstract!DirtyIsPrivate
      <3>4. mgr.ref_counts[last] = Cardinality({s})
        <4>1. \A b \in BlockId : mgr.ref_counts[b] = Cardinality(Abstract!Holders(b))
          BY <1>3 DEF Abstract!CountsExact, Abstract!Cardinality, Cardinality
        <4>2. mgr.ref_counts[last] = Cardinality(Abstract!Holders(last))
          BY <1>2, <4>1
        <4> QED BY <3>3, <4>2
      <3>5. Cardinality({s}) = 1
        BY FS_Singleton
      <3> QED BY <1>2, <3>4, <3>5
    <2>5. KeysTaken(mgr, T)[f] = None
      BY <1>6 DEF KeysTaken
    <2>6. T \in SUBSET BlockId
      BY <1>6
    <2>7. /\ mgr'.sequences = With(mgr, s, Reserved(r, table, N + 1))
          /\ mgr'.block_hashes = KeysTaken(mgr, T) /\ mgr'.cached = MapTaken(mgr, T)
          /\ Queue(mgr'.free, mgr'.block_hashes)
      BY <1>6, <1>8 DEF z
    <2>8. \A t \in Live(mgr) : t # s => f \notin Range(mgr.sequences[t].table)
      BY <1>6
    <2>9. mgr'.block_hashes[f] = None /\ f = table[L] /\ Len(table) = L
      BY <1>8, <1>11, <2>5
    <2>10. /\ Len(table) = DivCeil(N + 1) /\ Once(table) /\ table \in Seq(BlockId)
           /\ Len(table) \in Nat \ {0} /\ f = table[Len(table)] /\ f \in BlockId
      BY <1>2, <1>6, <1>11, <1>15
    <2>11. \A p \in written[s] + 1 .. N : At(p) = L => q.table[L] = f
      BY <2>4
    <2>12. mgr'.block_hashes[f] = None
      BY <2>9
    <2>13. text' = [text EXCEPT ![s] = text[s] \o <<token>>] /\ written' = written /\ hit' = hit
      BY <1>1
    <2>14. Len(table) = L
      BY <1>11
    <2> HIDE DEF T, q
    <2> QED BY ONLY <1>17, <2>1, <2>2, <2>3, <2>6, <2>7, <2>8, <2>10, <2>11, <2>12, <2>13, <2>14
            DEF Grows, N, q
  <1>20. /\ (Managed /\ Lengths /\ HostView /\ MapAgrees /\ Queue(mgr.free, mgr.block_hashes))'
         /\ (SharedAgree /\ KeyedByText /\ OwnContents /\ PublishedIsWritten /\ HitIsSound /\ Memory)'
         /\ Live(mgr') = Live(mgr) /\ OthersStay(s)
         /\ HeldBlocks'[s] = Range(table)
         /\ OpenBlocks'[s] = IF (N + 1) % BlockTokens = 0 THEN None ELSE f
         /\ UnwrittenBlocks'[s] = UnwrittenBlocks[s] \cup {f}
    BY <1>1, <1>19, GrowsKeeps DEF N
  <1>21. Abstract!AppendTaking(s, T)
    <2>1. /\ HeldBlocks' = [HeldBlocks EXCEPT ![s] = HeldBlocks'[s]]
          /\ OpenBlocks' = [OpenBlocks EXCEPT ![s] = OpenBlocks'[s]]
          /\ UnwrittenBlocks' = [UnwrittenBlocks EXCEPT ![s] = UnwrittenBlocks'[s]]
      BY <1>4, <1>20, OthersKeep
    <2>2. HeldBlocks'[s] = (HeldBlocks[s] \ {OpenBlocks[s]}) \cup T
      BY <1>2, <1>14, <1>20
    <2>3. UnwrittenBlocks'[s] = UnwrittenBlocks[s] \cup T \cup ({OpenBlocks[s]} \ ({OpenBlocks[s]} \cup {None}))
      BY <1>20
    <2>4. mgr'.ref_counts = [b \in BlockId |-> IF b \in T THEN 1
                             ELSE IF b \in {OpenBlocks[s]} THEN mgr.ref_counts[b] - 1 ELSE mgr.ref_counts[b]]
      BY <1>2, <1>8 DEF RefsCopied
    <2>5. OpenBlocks'[s] \in T \cup {None}
      BY <1>20
    <2>6. mgr'.block_hashes = Abstract!Evict(T)
      BY <1>8 DEF Abstract!Evict, KeysTaken
    <2>7. Range(mgr'.free) = Range(mgr.free) \ T /\ T \subseteq Range(mgr.free) /\ T # {}
      BY <1>6, <1>8
    <2>8. Live(mgr)' = Live(mgr)
      BY <1>20 DEF Live
    <2> HIDE DEF T
    <2> QED BY <1>2, <2>1, <2>2, <2>3, <2>4, <2>5, <2>6, <2>7, <2>8 DEF Abstract!AppendTaking
  <1>22. Abstract!Next
    <2>1. T \in SUBSET BlockId
      BY <1>6
    <2> HIDE DEF T
    <2> QED BY <1>4, <1>21, <2>1 DEF Abstract!Next
  <1>23. Abstract!LedgerInv'
    BY <1>22, LedgerMoves
  <1> QED BY <1>20, <1>22, <1>23 DEF PoolInv

(* One more token, whatever the state of the tail block.                   *)
LEMMA AppendsPreserves ==
  ASSUME PoolInv, NEW s \in Live(mgr), NEW token \in Token, NEW r, Appends(s, token, r)
  PROVE  PoolInv' /\ Abstract!Next
  <1>1. CASE mgr.sequences[s].scheduled % BlockTokens = 0
    BY <1>1, AppendFull
  <1>2. CASE mgr.sequences[s].scheduled % BlockTokens # 0 /\ ~NeedsCopy(mgr, r)
    BY <1>2, AppendInside
  <1>3. CASE mgr.sequences[s].scheduled % BlockTokens # 0 /\ NeedsCopy(mgr, r)
    BY <1>3, AppendCopy
  <1> QED BY <1>1, <1>2, <1>3

(* What a reservation costs depends on the table and the scheduled tokens. *)
LEMMA SameCost ==
  ASSUME NEW q, NEW r, r.table = q.table, r.scheduled = q.scheduled, NEW n
  PROVE  Cost(mgr, r, n) = Cost(mgr, q, n)
  BY DEF Cost, NeedsCopy

(* A row is what its fields are.                                           *)
LEMMA SameRow ==
  ASSUME NEW q \in Row, NEW r \in Row, q.keys = r.keys, q.table = r.table, q.scheduled = r.scheduled,
         q.computed = r.computed, q.hashes = r.hashes, q.unhashed = r.unhashed, q.unresolved = r.unresolved
  PROVE  q = r
  BY DEF Row

(* Resolved, when only one of its two fields changes.                      *)
LEMMA ResolvedOne ==
  ASSUME NEW q \in Row, NEW u \in Nat, NEW h \in Seq(Token)
  PROVE  [q EXCEPT !.unresolved = u] = Resolved(q, u, q.unhashed)
         /\ [q EXCEPT !.unhashed = h] = Resolved(q, q.unresolved, h)
  <1>1. q.unresolved \in Nat /\ q.unhashed \in Seq(Token)
    BY DEF Row
  <1> DEFINE x == [q EXCEPT !.unresolved = u]
             y == [q EXCEPT !.unhashed = h]
             v == Resolved(q, u, q.unhashed)
             w == Resolved(q, q.unresolved, h)
  <1>2. x \in Row /\ x.keys = q.keys /\ x.table = q.table /\ x.scheduled = q.scheduled
        /\ x.computed = q.computed /\ x.hashes = q.hashes /\ x.unhashed = q.unhashed /\ x.unresolved = u
    BY DEF Row
  <1>3. y \in Row /\ y.keys = q.keys /\ y.table = q.table /\ y.scheduled = q.scheduled
        /\ y.computed = q.computed /\ y.hashes = q.hashes /\ y.unhashed = h /\ y.unresolved = q.unresolved
    BY DEF Row
  <1>4. /\ v \in Row /\ v.unresolved = u /\ v.unhashed = q.unhashed /\ v.keys = q.keys /\ v.table = q.table
        /\ v.scheduled = q.scheduled /\ v.computed = q.computed /\ v.hashes = q.hashes
    <2> DEFINE k == q.unhashed
    <2>1. k \in Seq(Token)
      BY <1>1
    <2> HIDE DEF k
    <2>2. LET r == Resolved(q, u, k)
          IN  /\ r \in Row /\ r.unresolved = u /\ r.unhashed = k
              /\ r.keys = q.keys /\ r.table = q.table /\ r.scheduled = q.scheduled
              /\ r.computed = q.computed /\ r.hashes = q.hashes
      BY <2>1, ResolvedIs
    <2> QED BY <2>2 DEF k
  <1>5. /\ w \in Row /\ w.unresolved = q.unresolved /\ w.unhashed = h /\ w.keys = q.keys /\ w.table = q.table
        /\ w.scheduled = q.scheduled /\ w.computed = q.computed /\ w.hashes = q.hashes
    <2> DEFINE k == q.unresolved
    <2>1. k \in Nat
      BY <1>1
    <2> HIDE DEF k
    <2>2. LET r == Resolved(q, k, h)
          IN  /\ r \in Row /\ r.unresolved = k /\ r.unhashed = h
              /\ r.keys = q.keys /\ r.table = q.table /\ r.scheduled = q.scheduled
              /\ r.computed = q.computed /\ r.hashes = q.hashes
      BY <2>1, ResolvedIs
    <2> QED BY <2>2 DEF k
  <1> HIDE DEF x, y, v, w
  <1>6. x = v
    BY <1>2, <1>4, SameRow
  <1>7. y = w
    BY <1>3, <1>5, SameRow
  <1> QED BY <1>6, <1>7 DEF x, y, v, w

LEMMA AllocatePreserves ==
  ASSUME PoolInv, NEW s \in SequenceId, NEW token \in Token, AllocateStep(s, <<token>>)
  PROVE  PoolInv' /\ Abstract!Next
  <1> DEFINE q == mgr.sequences[s]
             h == IF PrefixCaching THEN q.unhashed \o <<token>> ELSE q.unhashed
             r == Resolved(q, q.unresolved, h)
             tokens == text[s] \o <<token>>
             base == Len(q.hashes) * BlockTokens
  <1>1. /\ s \in Live(mgr) /\ q.unresolved = 0 /\ Cost(mgr, q, Len(<<token>>)) <= Len(mgr.free)
        /\ Len(text[s]) + Len(<<token>>) <= MaxTokens
        /\ mgr' = AppendTokens(mgr, s, q, <<token>>)
        /\ text' = [text EXCEPT ![s] = text[s] \o <<token>>]
        /\ kv' = CopyBlock(kv, CopyOf(mgr, mgr', s)) /\ hit' = hit /\ written' = written
    BY DEF AllocateStep, CanAllocate, Allocate
  <1>2. Len(<<token>>) = 1 /\ <<token>> \in Seq(Token) /\ <<token>>[1] = token
    OBVIOUS
  <1>3. Managed /\ Lengths /\ HostViewOf(s)
    BY <1>1 DEF PoolInv, HostView
  <1>4. /\ q \in Row /\ q.unhashed \in Seq(Token) /\ Len(q.unhashed) \in Nat /\ Len(q.hashes) \in Nat
        /\ text[s] \in Seq(Token) /\ Len(text[s]) = q.scheduled /\ q.scheduled \in Nat /\ q.unresolved \in Nat
    BY <1>1, <1>3, RowFacts
  <1>5. /\ Len(tokens) = q.scheduled + 1
        /\ \A p \in 1 .. q.scheduled : tokens[p] = text[s][p]
        /\ tokens[q.scheduled + 1] = token
    BY <1>1, <1>3, TokensGrow
  <1>6. /\ q.unhashed \o <<token>> \in Seq(Token) /\ Len(q.unhashed \o <<token>>) = Len(q.unhashed) + 1
        /\ \A p \in 1 .. Len(q.unhashed) : (q.unhashed \o <<token>>)[p] = q.unhashed[p]
        /\ (q.unhashed \o <<token>>)[Len(q.unhashed) + 1] = token
    BY <1>4
  <1>7. h \in Seq(Token)
    BY <1>4, <1>6
  <1> HIDE DEF h
  <1>8. /\ r \in Row /\ r.unresolved = q.unresolved /\ r.unhashed = h /\ r.keys = q.keys /\ r.table = q.table
        /\ r.scheduled = q.scheduled /\ r.computed = q.computed /\ r.hashes = q.hashes
    <2> DEFINE u == q.unresolved
    <2>1. u \in Nat
      BY <1>4
    <2> HIDE DEF u, q
    <2>2. LET x == Resolved(q, u, h)
          IN  /\ x \in Row /\ x.unresolved = u /\ x.unhashed = h
              /\ x.keys = q.keys /\ x.table = q.table /\ x.scheduled = q.scheduled
              /\ x.computed = q.computed /\ x.hashes = q.hashes
      BY <1>4, <1>7, <2>1, ResolvedIs, ZenonT(30)
    <2> QED BY <2>2 DEF u
  <1>9. [q EXCEPT !.unhashed = h] = r
    <2> HIDE DEF q
    <2> QED BY <1>4, <1>7, ResolvedOne
  <1>10. base \in Nat
    BY <1>4, PoolAssumption
  <1>11. /\ PrefixCaching => /\ base + Len(q.unhashed) + q.unresolved = q.scheduled
                             /\ \A p \in 1 .. Len(q.unhashed) : q.unhashed[p] = text[s][base + p]
         /\ ~PrefixCaching => q.unhashed = <<>>
    BY <1>3 DEF HostViewOf
  <1> HIDE DEF base
  <1>12. ASSUME PrefixCaching
         PROVE  /\ base + Len(h) + q.unresolved = q.scheduled + 1
                /\ \A p \in 1 .. Len(h) : h[p] = tokens[base + p]
    <2>1. h = q.unhashed \o <<token>>
      BY <1>12 DEF h
    <2>2. Len(h) = Len(q.unhashed) + 1
      BY <1>6, <2>1
    <2>3. base + Len(q.unhashed) = q.scheduled
      BY <1>1, <1>4, <1>10, <1>11, <1>12
    <2>4. \A p \in 1 .. Len(q.unhashed) : h[p] = tokens[base + p]
      <3> SUFFICES ASSUME NEW p \in 1 .. Len(q.unhashed) PROVE h[p] = tokens[base + p]
        OBVIOUS
      <3>1. base + p \in 1 .. q.scheduled
        BY <1>4, <1>10, <2>3
      <3>2. tokens[base + p] = text[s][base + p]
        BY <1>5, <3>1
      <3>3. q.unhashed[p] = text[s][base + p]
        BY <1>11, <1>12
      <3> QED BY <1>6, <2>1, <3>2, <3>3
    <2>5. h[Len(q.unhashed) + 1] = tokens[base + (Len(q.unhashed) + 1)]
      <3>1. base + (Len(q.unhashed) + 1) = q.scheduled + 1
        BY <1>4, <1>10, <2>3
      <3> QED BY <1>5, <1>6, <2>1, <3>1
    <2>6. \A p \in 1 .. Len(h) : p = Len(q.unhashed) + 1 \/ p \in 1 .. Len(q.unhashed)
      BY <1>4, <2>2
    <2>7. base + Len(h) + q.unresolved = q.scheduled + 1
      BY <1>1, <1>4, <1>10, <2>2, <2>3
    <2> QED BY <2>4, <2>5, <2>6, <2>7
  <1>13. ~PrefixCaching => h = <<>>
    BY <1>11 DEF h
  <1>14. q.unresolved <= q.scheduled + 1
    BY <1>1, <1>4
  <1> HIDE DEF r
  <1>15. HostGrows(s, token, r)
    <2>1. r.unresolved <= q.scheduled + 1
      BY <1>8, <1>14
    <2>2. PrefixCaching => /\ base + Len(r.unhashed) + r.unresolved = q.scheduled + 1
                           /\ \A p \in 1 .. Len(r.unhashed) : r.unhashed[p] = tokens[base + p]
      BY <1>8, <1>12
    <2>3. ~PrefixCaching => r.unhashed = <<>>
      BY <1>8, <1>13
    <2> QED BY <1>8, <2>1, <2>2, <2>3 DEF HostGrows, base
  <1>16. Cost(mgr, r, 1) = Cost(mgr, q, 1)
    BY <1>8, SameCost
  <1>17. mgr' = Reserve(mgr, s, r, 1)
    <2>1. AppendTokens(mgr, s, q, <<token>>) = Reserve(mgr, s, [q EXCEPT !.unhashed = h], Len(<<token>>))
      BY DEF AppendTokens, h
    <2> QED BY <1>1, <1>2, <1>9, <2>1
  <1>18. Len(text[s]) < MaxTokens
    BY <1>1, <1>2, <1>4, ManagerAssumption
  <1>19. Cost(mgr, r, 1) <= Len(mgr.free)
    BY <1>1, <1>2, <1>16
  <1>20. Appends(s, token, r)
    BY <1>1, <1>15, <1>17, <1>18, <1>19 DEF Appends
  <1> QED BY <1>1, <1>20, AppendsPreserves

LEMMA AllocateUnresolvedPreserves ==
  ASSUME PoolInv, NEW s \in SequenceId, NEW token \in Token, AllocateUnresolvedStep(s, token)
  PROVE  PoolInv' /\ Abstract!Next
  <1> DEFINE q == mgr.sequences[s]
             r == Resolved(q, q.unresolved + 1, q.unhashed)
             tokens == text[s] \o <<token>>
             base == Len(q.hashes) * BlockTokens
  <1>1. /\ s \in Live(mgr) /\ Cost(mgr, q, 1) <= Len(mgr.free) /\ Len(text[s]) < MaxTokens
        /\ mgr' = Reserve(mgr, s, [q EXCEPT !.unresolved = q.unresolved + 1], 1)
        /\ text' = [text EXCEPT ![s] = Append(text[s], token)]
        /\ kv' = CopyBlock(kv, CopyOf(mgr, mgr', s)) /\ hit' = hit /\ written' = written
    BY DEF AllocateUnresolvedStep, CanAllocateUnresolved, AllocateUnresolved
  <1>2. Managed /\ Lengths /\ HostViewOf(s)
    BY <1>1 DEF PoolInv, HostView
  <1>3. /\ q \in Row /\ q.unhashed \in Seq(Token) /\ Len(q.unhashed) \in Nat /\ Len(q.hashes) \in Nat
        /\ text[s] \in Seq(Token) /\ Len(text[s]) = q.scheduled /\ q.scheduled \in Nat
        /\ q.unresolved \in Nat /\ q.unresolved <= q.scheduled
    BY <1>1, <1>2, RowFacts
  <1>4. Append(text[s], token) = text[s] \o <<token>>
    <2> DEFINE u == text[s]
    <2>1. u \in Seq(Token)
      BY <1>3
    <2> HIDE DEF u
    <2>2. Append(u, token) = u \o <<token>>
      BY <2>1, AppendIsConcat
    <2> QED BY <2>2 DEF u
  <1>5. \A p \in 1 .. q.scheduled : tokens[p] = text[s][p]
    BY <1>1, <1>2, TokensGrow
  <1>6. /\ r \in Row /\ r.unresolved = q.unresolved + 1 /\ r.unhashed = q.unhashed /\ r.keys = q.keys
        /\ r.table = q.table /\ r.scheduled = q.scheduled /\ r.computed = q.computed /\ r.hashes = q.hashes
    <2> DEFINE u == q.unresolved + 1
               h == q.unhashed
    <2>1. u \in Nat /\ h \in Seq(Token)
      BY <1>3
    <2> HIDE DEF u, h, q
    <2>2. LET x == Resolved(q, u, h)
          IN  /\ x \in Row /\ x.unresolved = u /\ x.unhashed = h
              /\ x.keys = q.keys /\ x.table = q.table /\ x.scheduled = q.scheduled
              /\ x.computed = q.computed /\ x.hashes = q.hashes
      BY <1>3, <2>1, ResolvedIs, ZenonT(30)
    <2> QED BY <2>2 DEF u, h
  <1>7. [q EXCEPT !.unresolved = q.unresolved + 1] = r
    <2> DEFINE u == q.unresolved + 1
    <2>1. u \in Nat /\ q.unhashed \in Seq(Token)
      BY <1>3
    <2> HIDE DEF q, u
    <2>2. [q EXCEPT !.unresolved = u] = Resolved(q, u, q.unhashed)
      BY <1>3, <2>1, ResolvedOne
    <2> QED BY <2>2 DEF u
  <1>8. base \in Nat
    BY <1>3, PoolAssumption
  <1>9. /\ PrefixCaching => /\ base + Len(q.unhashed) + q.unresolved = q.scheduled
                            /\ \A p \in 1 .. Len(q.unhashed) : q.unhashed[p] = text[s][base + p]
        /\ ~PrefixCaching => q.unhashed = <<>>
    BY <1>2 DEF HostViewOf
  <1> HIDE DEF base, r
  <1>10. HostGrows(s, token, r)
    <2>1. r.unresolved <= q.scheduled + 1
      BY <1>3, <1>6
    <2>2. PrefixCaching => base + Len(r.unhashed) + r.unresolved = q.scheduled + 1
      <3>1. PrefixCaching => base + Len(q.unhashed) + q.unresolved = q.scheduled
        BY <1>9
      <3>2. r.unresolved = q.unresolved + 1 /\ r.unhashed = q.unhashed
        BY <1>6
      <3> HIDE DEF q
      <3> QED BY <1>3, <1>8, <3>1, <3>2
    <2>3. PrefixCaching => \A p \in 1 .. Len(r.unhashed) : r.unhashed[p] = tokens[base + p]
      <3> SUFFICES ASSUME PrefixCaching, NEW p \in 1 .. Len(q.unhashed) PROVE q.unhashed[p] = tokens[base + p]
        BY <1>6
      <3>1. base + p \in 1 .. q.scheduled
        BY <1>3, <1>8, <1>9, SMTT(30)
      <3> QED BY <1>5, <1>9, <3>1
    <2>4. ~PrefixCaching => r.unhashed = <<>>
      BY <1>6, <1>9
    <2> QED BY <1>6, <2>1, <2>2, <2>3, <2>4 DEF HostGrows, base
  <1>11. Cost(mgr, r, 1) = Cost(mgr, q, 1)
    BY <1>6, SameCost
  <1>12. mgr' = Reserve(mgr, s, r, 1)
    BY <1>1, <1>7
  <1>13. Appends(s, token, r)
    BY <1>1, <1>4, <1>10, <1>11, <1>12 DEF Appends
  <1> QED BY <1>1, <1>13, AppendsPreserves


----------------------------------------------------------------------------
(* commit and commit_through.                                              *)

\* The key of the j-th block of s.
KeyAt(s, j) == HashBlocks(<<>>, text[s], mgr.sequences[s].keys, j)

LEMMA CommitNumbers ==
  ASSUME PoolInv, NEW s \in Live(mgr), NEW computed \in Nat, computed <= written[s]
  PROVE  LET q    == mgr.sequences[s]
             done == DoneOf(q, computed)
             base == Len(q.hashes)
             n    == MoreOf(q, computed)
         IN  /\ done \in Nat /\ done <= written[s] /\ base \in Nat /\ n \in Nat
             /\ (base + n) * BlockTokens <= done
             /\ n * BlockTokens \in Nat /\ n * BlockTokens <= Len(q.unhashed)
             /\ n # 0 => PrefixCaching
  <1> DEFINE q == mgr.sequences[s]
             done == DoneOf(q, computed)
             base == Len(q.hashes)
             h == Hashable(q, done)
             n == h \div BlockTokens
  <1>1. Managed /\ Lengths /\ LengthsOf(s) /\ HostViewOf(s)
    BY DEF PoolInv, HostView, Lengths
  <1>2. /\ q.computed \in 0 .. written[s] /\ Len(q.unhashed) \in Nat /\ base \in Nat
        /\ written[s] \in 0 .. q.scheduled /\ q.scheduled \in Nat
    BY <1>1, RowFacts
  <1>3. base * BlockTokens <= q.computed /\ (~PrefixCaching => q.unhashed = <<>>)
    BY <1>1 DEF LengthsOf, HostViewOf
  <1>4. MoreOf(q, computed) = n
    BY DEF MoreOf
  <1>5. done \in Nat /\ done <= written[s] /\ q.computed <= done
    BY <1>2 DEF DoneOf
  <1> HIDE DEF done
  <1>6. h \in Nat /\ h <= Len(q.unhashed) /\ (h # 0 => base * BlockTokens + h <= done)
    <2> DEFINE b == Len(q.hashes)
    <2>1. b \in Nat /\ b = Len(q.hashes) /\ Len(q.unhashed) \in Nat
      BY <1>2
    <2> HIDE DEF q, b
    <2>2. /\ Hashable(q, done) \in Nat /\ Hashable(q, done) <= Len(q.unhashed)
          /\ Hashable(q, done) # 0 => b * BlockTokens + Hashable(q, done) <= done
      BY <1>5, <2>1, HashableIs
    <2> QED BY <2>2 DEF b
  <1> HIDE DEF h
  <1>7. n \in Nat /\ h % BlockTokens \in 0 .. BlockTokens - 1 /\ h = n * BlockTokens + (h % BlockTokens)
    BY <1>6, PoolAssumption, Division
  <1> DEFINE k == h % BlockTokens
  <1> HIDE DEF n, k
  <1>8. n * BlockTokens \in Nat /\ n * BlockTokens <= h
    <2>1. n * BlockTokens \in Nat
      BY <1>7, PoolAssumption
    <2>2. h = n * BlockTokens + k /\ k \in Nat
      BY <1>7, PoolAssumption DEF k
    <2> QED BY <2>1, <2>2
  <1>9. (base + n) * BlockTokens <= done
    <2> HIDE DEF base
    <2>1. base * BlockTokens \in Nat /\ (base + n) * BlockTokens = base * BlockTokens + n * BlockTokens
      BY <1>2, <1>7, PoolAssumption
    <2>2. base * BlockTokens <= done
      BY <1>2, <1>3, <1>5, <2>1 DEF base
    <2>3. CASE h = 0
      <3>1. n * BlockTokens = 0
        BY <1>8, <2>3
      <3> QED BY <2>1, <2>2, <3>1
    <2>4. CASE h # 0
      BY <1>5, <1>6, <1>8, <2>1, <2>4
    <2> QED BY <2>3, <2>4
  <1>10. n # 0 => PrefixCaching
    <2> SUFFICES ASSUME ~PrefixCaching PROVE n = 0
      OBVIOUS
    <2>1. Len(q.unhashed) = 0
      BY <1>3
    <2>2. n * BlockTokens = 0
      BY <1>6, <1>8, <2>1
    <2> QED BY <1>7, <2>2, PoolAssumption
  <1>11. n * BlockTokens <= Len(q.unhashed)
    BY <1>2, <1>6, <1>8
  <1> QED BY <1>2, <1>4, <1>5, <1>7, <1>8, <1>9, <1>10, <1>11 DEF done, base

(* The keys are those of the sequence's tokens.                            *)
LEMMA CommitKeys ==
  ASSUME PoolInv, NEW s \in Live(mgr), NEW computed \in Nat, computed <= written[s]
  PROVE  LET q      == mgr.sequences[s]
             base   == Len(q.hashes)
             parent == IF base = 0 THEN <<>> ELSE Last(q.hashes)
         IN  \A i \in 1 .. MoreOf(q, computed) : HashBlocks(parent, q.unhashed, q.keys, i) = KeyAt(s, base + i)
  <1> DEFINE q == mgr.sequences[s]
             base == Len(q.hashes)
             n == MoreOf(q, computed)
             u == q.unhashed
             parent == IF base = 0 THEN <<>> ELSE Last(q.hashes)
  <1>1. base \in Nat /\ n \in Nat /\ n * BlockTokens <= Len(u) /\ (n # 0 => PrefixCaching)
    BY CommitNumbers
  <1>2. Len(u) \in Nat /\ q.hashes \in Seq(Hashes)
    BY RowFacts DEF PoolInv
  <1>3. /\ \A i \in 1 .. base : q.hashes[i] = HashBlocks(<<>>, text[s], q.keys, i)
        /\ PrefixCaching => \A p \in 1 .. Len(u) : u[p] = text[s][base * BlockTokens + p]
    BY DEF PoolInv, HostView, HostViewOf
  <1> HIDE DEF n
  <1>4. parent = HashBlocks(<<>>, text[s], q.keys, base)
    <2>1. CASE base = 0
      <3>1. Len(HashBlocks(<<>>, text[s], q.keys, 0)) = 0 /\ HashBlocks(<<>>, text[s], q.keys, 0)
              = [i \in 1 .. 0 |-> HashInput(i = 1, Chunk(text[s], i), q.keys)]
        BY HashIs
      <3>2. 1 .. 0 = {}
        OBVIOUS
      <3>3. HashBlocks(<<>>, text[s], q.keys, 0) = <<>>
        BY <3>1, <3>2
      <3> QED BY <2>1, <3>3
    <2>2. CASE base # 0
      <3>1. base \in 1 .. base
        BY <1>1, <2>2
      <3>2. Last(q.hashes) = q.hashes[base]
        BY DEF Last
      <3> QED BY <1>3, <2>2, <3>1, <3>2
    <2> QED BY <2>1, <2>2
  <1> HIDE DEF parent
  <1>5. ASSUME NEW i \in 1 .. n PROVE HashBlocks(parent, u, q.keys, i) = HashBlocks(<<>>, text[s], q.keys, base + i)
    <2> DEFINE b == Len(q.hashes)
    <2>1. i \in Nat \ {0} /\ i <= n /\ n # 0
      BY <1>1
    <2>2. i * BlockTokens <= Len(u)
      <3>1. i * BlockTokens <= n * BlockTokens /\ i * BlockTokens \in Nat /\ n * BlockTokens \in Nat
        BY <1>1, <2>1, PoolAssumption, TimesOrder
      <3> QED BY <1>1, <1>2, <3>1
    <2>3. \A p \in 1 .. i * BlockTokens : u[p] = text[s][b * BlockTokens + p]
      <3>1. \A p \in 1 .. i * BlockTokens : p \in 1 .. Len(u)
        BY <1>2, <2>1, <2>2, PoolAssumption
      <3> QED BY <1>1, <1>3, <2>1, <3>1
    <2>4. b \in Nat /\ parent = HashBlocks(<<>>, text[s], q.keys, b)
      BY <1>1, <1>4
    <2> HIDE DEF b, u, q
    <2> DEFINE tokens == text[s]
               keys == q.keys
    <2>5. parent = HashBlocks(<<>>, tokens, keys, b)
      BY <2>4
    <2>6. \A p \in 1 .. i * BlockTokens : u[p] = tokens[b * BlockTokens + p]
      BY <2>3
    <2>7. b \in Nat /\ i \in Nat \ {0}
      BY <2>1, <2>4
    <2> HIDE DEF tokens, keys
    <2>8. HashBlocks(parent, u, keys, i) = HashBlocks(<<>>, tokens, keys, b + i)
      BY ONLY <2>5, <2>6, <2>7, PoolAssumption, HashExtends
    <2> QED BY <2>8 DEF b, tokens, keys
  <1> QED BY <1>5 DEF KeyAt, parent, n


(* A block all of whose positions are written: its place, its contents.    *)
LEMMA PlaceFacts ==
  ASSUME PoolInv, NEW s \in Live(mgr), NEW j \in Nat \ {0}, j * BlockTokens <= written[s]
  PROVE  LET q == mgr.sequences[s]
             b == q.table[j]
         IN  /\ j \in 1 .. Len(q.table) /\ b \in BlockId /\ b \in Range(q.table)
             /\ j * BlockTokens \in Nat /\ j * BlockTokens <= Len(text[s]) /\ KeyAt(s, j) \in Hashes
             /\ b \in HeldBlocks[s] /\ b \notin UnwrittenBlocks[s] /\ b # OpenBlocks[s]
             /\ \A o \in 0 .. BlockTokens - 1 : kv[b][o] = Named(KeyAt(s, j), o)
  <1> DEFINE q == mgr.sequences[s]
             L == Len(q.table)
             b == q.table[j]
             N == q.scheduled
             e == j * BlockTokens
  <1>1. Managed /\ Lengths /\ OwnContentsOf(s)
    BY DEF PoolInv, OwnContents
  <1>2. /\ s \in SequenceId /\ q.table \in Seq(BlockId) /\ L \in Nat /\ L = DivCeil(N)
        /\ text[s] \in Seq(Token) /\ Len(text[s]) = N /\ N \in 1 .. MaxTokens /\ q.keys \in HashKeys
        /\ written[s] \in 0 .. N /\ \A i, k \in 1 .. L : q.table[i] = q.table[k] => i = k
    BY <1>1, RowFacts
  <1>3. N \in Nat /\ e \in Nat /\ e <= N /\ BlockTokens \in Nat \ {0} /\ N <= MaxTokens
    <2>1. N \in Nat /\ N <= MaxTokens
      <3>1. N \in 1 .. MaxTokens /\ MaxTokens \in Nat
        BY <1>2, ManagerAssumption
      <3> HIDE DEF N
      <3> QED BY <3>1
    <2>2. e \in Nat /\ BlockTokens \in Nat \ {0}
      BY PoolAssumption
    <2> HIDE DEF N, e
    <2>3. e <= written[s]
      BY DEF e
    <2> QED BY <1>2, <2>1, <2>2, <2>3
  <1> HIDE DEF N, L
  <1>4. L * BlockTokens \in Nat /\ N <= L * BlockTokens /\ L * BlockTokens < N + BlockTokens
        /\ (N % BlockTokens = 0 <=> N = L * BlockTokens)
    BY <1>2, <1>3, DivCeilIs
  <1>5. j \in 1 .. L
    <2> SUFFICES ASSUME L < j PROVE FALSE
      BY <1>2
    <2>1. L * BlockTokens + BlockTokens <= j * BlockTokens
      BY <1>2, <1>3, TimesOrder
    <2>2. L * BlockTokens + BlockTokens <= e
      BY <2>1
    <2> HIDE DEF e
    <2> QED BY <1>3, <1>4, <2>2
  <1>6. b \in BlockId /\ b \in Range(q.table)
    <2>1. b \in BlockId
      BY <1>2, <1>5, ElementOfSeq DEF L
    <2>2. \E i \in 1 .. Len(q.table) : q.table[i] = b
      BY <1>5 DEF L
    <2> QED BY <1>2, <2>1, <2>2, RangeIs
  <1>7. KeyAt(s, j) \in Hashes
    <2> DEFINE tokens == text[s]
               keys == q.keys
    <2>1. tokens \in Seq(Token) /\ Len(tokens) <= MaxTokens /\ keys \in HashKeys /\ j * BlockTokens <= Len(tokens)
      BY <1>2, <1>3
    <2> HIDE DEF tokens, keys
    <2>2. HashBlocks(<<>>, tokens, keys, j) \in Hashes
      BY <2>1, KeyIsHash
    <2> QED BY <2>2 DEF KeyAt, tokens, keys
  <1>8. b \in HeldBlocks[s]
    BY <1>2, <1>6 DEF HeldBlocks
  <1>9. b \notin UnwrittenBlocks[s]
    <2> SUFFICES ASSUME b \in UnwrittenBlocks[s] PROVE FALSE
      OBVIOUS
    <2>1. UnwrittenBlocks[s] = DirtyBlocks(s)
      BY <1>2 DEF UnwrittenBlocks
    <2>2. PICK p \in written[s] + 1 .. N : SlotBlock(q, p) = b
      BY <2>1 DEF DirtyBlocks, N
    <2>3. p \in 1 .. N
      BY <1>2, <1>3, <2>2
    <2>4. /\ At(p) \in 1 .. L /\ SlotBlock(q, p) = q.table[At(p)] /\ SlotOffset(p) \in 0 .. BlockTokens - 1
          /\ p = (At(p) - 1) * BlockTokens + SlotOffset(p) + 1
      <3>1. /\ At(p) \in DOMAIN q.table /\ SlotBlock(q, p) = q.table[At(p)]
            /\ SlotOffset(p) \in 0 .. BlockTokens - 1 /\ p = (At(p) - 1) * BlockTokens + SlotOffset(p) + 1
        <4>1. p \in 1 .. mgr.sequences[s].scheduled
          BY <2>3 DEF N
        <4> QED BY <1>1, <4>1, SlotFacts
      <3>2. DOMAIN q.table = 1 .. L
        BY <1>2, LenProperties DEF L
      <3> QED BY <3>1, <3>2
    <2>5. At(p) = j
      BY <1>2, <1>5, <2>2, <2>4
    <2>6. p = (j - 1) * BlockTokens + SlotOffset(p) + 1
      BY <2>4, <2>5
    <2>7. (j - 1) * BlockTokens \in Int /\ e = (j - 1) * BlockTokens + BlockTokens
      BY <1>3
    <2>8. p <= e
      BY <1>3, <2>4, <2>6, <2>7
    <2> QED BY <1>2, <1>3, <2>2, <2>8
  <1>10. b # OpenBlocks[s]
    <2>1. CASE N % BlockTokens = 0
      <3>1. OpenBlocks[s] = None
        BY <1>2, <2>1 DEF OpenBlocks, OpenBlock, N
      <3> QED BY <1>6, <3>1, ManagerAssumption
    <2>2. CASE N % BlockTokens # 0
      <3>1. OpenBlocks[s] = q.table[L]
        BY <1>2, <2>2 DEF OpenBlocks, OpenBlock, N, L, Last
      <3>2. j # L
        <4> SUFFICES ASSUME j = L PROVE FALSE
          OBVIOUS
        <4>1. N <= e
          BY <1>4
        <4>2. N = e
          BY <1>3, <4>1
        <4>3. e = L * BlockTokens
          OBVIOUS
        <4> QED BY <1>4, <2>2, <4>2, <4>3
      <3>3. L \in 1 .. L
        BY <1>2, <1>5
      <3> QED BY <1>2, <1>5, <3>1, <3>2, <3>3
    <2> QED BY <2>1, <2>2
  <1>11. ASSUME NEW o \in 0 .. BlockTokens - 1 PROVE kv[b][o] = Named(KeyAt(s, j), o)
    <2> DEFINE p == (j - 1) * BlockTokens + o + 1
    <2>1. p \in Nat \ {0} /\ At(p) = j /\ SlotOffset(p) = o
      BY SlotIs
    <2>2. p <= e
      <3>1. (j - 1) * BlockTokens \in Int /\ e = (j - 1) * BlockTokens + BlockTokens
        BY <1>3
      <3> HIDE DEF e
      <3> QED BY <1>3, <3>1
    <2> HIDE DEF p
    <2>3. p \in 1 .. written[s]
      BY <1>2, <1>3, <2>1, <2>2
    <2>4. SlotBlock(q, p) = b
      BY <2>1 DEF SlotBlock, At
    <2>5. kv[b][o] = Content(text[s], q.keys, p)
      BY <1>1, <2>1, <2>3, <2>4 DEF OwnContentsOf
    <2>6. Named(HashBlocks(<<>>, text[s], q.keys, j), o) = Content(text[s], q.keys, (j - 1) * BlockTokens + o + 1)
      BY NamedIs
    <2> QED BY <2>5, <2>6 DEF KeyAt, p
  <1> QED BY <1>2, <1>3, <1>5, <1>6, <1>7, <1>8, <1>9, <1>10, <1>11 DEF L


\* The blocks that a commit of `computed` tokens publishes, by their places.
PublishedPlaces(s, computed) ==
  LET q == mgr.sequences[s]
      base == Len(q.hashes)
  IN  {j \in base + 1 .. base + MoreOf(q, computed) :
         mgr.block_hashes[q.table[j]] = None /\ KeyAt(s, j) \notin DOMAIN mgr.cached}

(* Places to publish: written blocks without a key, keys without a block.  *)
LEMMA PublishedFacts ==
  ASSUME PoolInv, NEW s \in Live(mgr), NEW computed \in Nat, computed <= written[s],
         NEW j \in PublishedPlaces(s, computed)
  PROVE  LET b == mgr.sequences[s].table[j]
         IN  /\ j \in Nat \ {0} /\ j * BlockTokens <= written[s]
             /\ j \in 1 .. Len(mgr.sequences[s].table) /\ b \in BlockId /\ b \in Range(mgr.sequences[s].table)
             /\ mgr.block_hashes[b] = None /\ KeyAt(s, j) \in Hashes /\ KeyAt(s, j) \notin DOMAIN mgr.cached
             /\ \A i \in PublishedPlaces(s, computed) :
                  (mgr.sequences[s].table[i] = b \/ KeyAt(s, i) = KeyAt(s, j)) => i = j
  <1> DEFINE q == mgr.sequences[s]
             base == Len(q.hashes)
             n == MoreOf(q, computed)
             done == DoneOf(q, computed)
             P == PublishedPlaces(s, computed)
  <1>1. Managed /\ Lengths
    BY DEF PoolInv
  <1>2. /\ done \in Nat /\ done <= written[s] /\ base \in Nat /\ n \in Nat
        /\ (base + n) * BlockTokens <= done
    BY CommitNumbers
  <1>3. written[s] \in Nat /\ \A i, k \in 1 .. Len(q.table) : q.table[i] = q.table[k] => i = k
    BY <1>1, RowFacts DEF Managed
  <1> HIDE DEF n, done, base
  <1>4. ASSUME NEW i \in P
        PROVE  /\ i \in Nat \ {0} /\ i * BlockTokens <= written[s]
               /\ mgr.block_hashes[q.table[i]] = None /\ KeyAt(s, i) \notin DOMAIN mgr.cached
    <2>1. i \in base + 1 .. base + n /\ mgr.block_hashes[q.table[i]] = None /\ KeyAt(s, i) \notin DOMAIN mgr.cached
      BY <1>4 DEF PublishedPlaces, base, n
    <2>2. i \in Nat \ {0} /\ i <= base + n /\ base + n \in Nat
      BY <1>2, <2>1
    <2>3. i * BlockTokens <= (base + n) * BlockTokens
      <3> DEFINE m == base + n
      <3>1. m \in Nat /\ i <= m
        BY <2>2
      <3> HIDE DEF m
      <3>2. CASE i = m
        BY <2>2, <3>1, <3>2, PoolAssumption
      <3>3. CASE i < m
        <4>1. i * BlockTokens + BlockTokens <= m * BlockTokens
          BY <2>2, <3>1, <3>3, TimesOrder, PoolAssumption
        <4> QED BY <2>2, <3>1, <4>1, PoolAssumption
      <3> QED BY <2>2, <3>1, <3>2, <3>3 DEF m
    <2>4. i * BlockTokens \in Nat /\ (base + n) * BlockTokens \in Nat
      BY <2>2, PoolAssumption
    <2>5. i * BlockTokens <= written[s]
      BY <1>2, <1>3, <2>3, <2>4
    <2> QED BY <2>1, <2>2, <2>5
  <1>5. ASSUME NEW i \in P
        PROVE  i \in 1 .. Len(q.table) /\ q.table[i] \in BlockId /\ q.table[i] \in Range(q.table) /\ KeyAt(s, i) \in Hashes
    BY <1>4, PlaceFacts
  <1>6. ASSUME NEW i \in P, KeyAt(s, i) = KeyAt(s, j) PROVE i = j
    <2>1. i \in Nat \ {0} /\ j \in Nat \ {0}
      BY <1>4
    <2>2. Len(KeyAt(s, i)) = i
      BY <2>1, HashIs DEF KeyAt
    <2>3. Len(KeyAt(s, j)) = j
      BY <2>1, HashIs DEF KeyAt
    <2> QED BY <1>6, <2>2, <2>3
  <1>7. ASSUME NEW i \in P, q.table[i] = q.table[j] PROVE i = j
    <2>1. i \in 1 .. Len(q.table) /\ j \in 1 .. Len(q.table)
      BY <1>5
    <2> HIDE DEF q
    <2> QED BY <1>3, <1>7, <2>1
  <1>8. j \in P
    OBVIOUS
  <1> HIDE DEF P
  <1>9. /\ j \in Nat \ {0} /\ j * BlockTokens <= written[s]
        /\ mgr.block_hashes[q.table[j]] = None /\ KeyAt(s, j) \notin DOMAIN mgr.cached
    BY <1>4, <1>8
  <1>10. j \in 1 .. Len(q.table) /\ q.table[j] \in BlockId /\ q.table[j] \in Range(q.table) /\ KeyAt(s, j) \in Hashes
    BY <1>5, <1>8
  <1> QED BY <1>6, <1>7, <1>9, <1>10 DEF P

LEMMA CommitEffect ==
  ASSUME PoolInv, NEW s \in SequenceId, NEW computed \in Nat, CommitThroughStep(s, computed)
  PROVE  LET q == mgr.sequences[s]
             base == Len(q.hashes)
             n == MoreOf(q, computed)
             new == [i \in 1 .. n |-> KeyAt(s, base + i)]
             P == PublishedPlaces(s, computed)
         IN  /\ s \in Live(mgr) /\ computed <= written[s]
             /\ hit' = hit /\ text' = text /\ written' = written /\ kv' = kv
             /\ mgr'.sequences = With(mgr, s, Committed(q, DoneOf(q, computed), q.hashes \o new,
                                        SubSeq(q.unhashed, n * BlockTokens + 1, Len(q.unhashed))))
             /\ mgr'.ref_counts = mgr.ref_counts /\ mgr'.free = mgr.free
             /\ mgr' = Manager(mgr'.sequences, mgr'.ref_counts, mgr'.block_hashes, mgr'.free, mgr'.cached)
             /\ DOMAIN mgr'.cached = DOMAIN mgr.cached \cup {KeyAt(s, j) : j \in P}
             /\ \A j \in P : mgr'.block_hashes[q.table[j]] = KeyAt(s, j) /\ mgr'.cached[KeyAt(s, j)] = q.table[j]
             /\ \A b \in BlockId : (\A j \in P : q.table[j] # b) => mgr'.block_hashes[b] = mgr.block_hashes[b]
             /\ \A h \in DOMAIN mgr.cached : mgr'.cached[h] = mgr.cached[h]
             /\ mgr'.block_hashes = [b \in BlockId |-> mgr'.block_hashes[b]]
  <1> DEFINE q == mgr.sequences[s]
             base == Len(q.hashes)
             n == MoreOf(q, computed)
             done == DoneOf(q, computed)
             parent == IF base = 0 THEN <<>> ELSE Last(q.hashes)
             code == [i \in 1 .. n |-> HashBlocks(parent, q.unhashed, q.keys, i)]
             new == [i \in 1 .. n |-> KeyAt(s, base + i)]
             P == PublishedPlaces(s, computed)
             publish == {i \in 1 .. n : mgr.block_hashes[q.table[base + i]] = None /\ new[i] \notin DOMAIN mgr.cached}
             keyed == {q.table[base + i] : i \in publish}
             added == {new[i] : i \in publish}
             keys == [b \in BlockId |-> IF b \in keyed THEN new[CHOOSE i \in publish : q.table[base + i] = b]
                                        ELSE mgr.block_hashes[b]]
             map == [h \in DOMAIN mgr.cached \cup added |->
                       IF h \in added THEN q.table[base + (CHOOSE i \in publish : new[i] = h)] ELSE mgr.cached[h]]
             rest == SubSeq(q.unhashed, n * BlockTokens + 1, Len(q.unhashed))
             r == Committed(q, done, q.hashes \o new, rest)
  <1>1. /\ s \in Live(mgr) /\ computed <= written[s] /\ mgr' = CommitThrough(mgr, s, computed)
        /\ hit' = hit /\ text' = text /\ written' = written /\ kv' = kv
    BY DEF CommitThroughStep, CanCommit
  <1>2. IsManager(mgr)
    BY DEF PoolInv, Managed
  <1>3. code = new
    BY <1>1, CommitKeys
  <1>4. CommitThrough(mgr, s, computed) = Manager(With(mgr, s, r), mgr.ref_counts, keys, mgr.free, map)
    <2> DEFINE x == NewKeys(q, n)
    <2>1. CommitThrough(mgr, s, computed) =
            Manager(With(mgr, s, Committed(q, done, q.hashes \o x, rest)), mgr.ref_counts,
                    KeysCommitted(mgr, q, x, ToPublish(mgr, q, x, n)), mgr.free,
                    MapCommitted(mgr, q, x, ToPublish(mgr, q, x, n)))
      <3> HIDE DEF rest
      <3> QED BY <1>2, CommitIs DEF rest
    <2>2. x = new
      BY <1>3 DEF NewKeys
    <2> HIDE DEF x
    <2>3. Committed(q, done, q.hashes \o x, rest) = r
      BY <2>2
    <2> HIDE DEF r, new
    <2>4. ToPublish(mgr, q, x, n) = publish
      BY <2>2 DEF ToPublish
    <2> HIDE DEF publish
    <2>5. KeysCommitted(mgr, q, x, publish) = keys
      BY <2>2 DEF KeysCommitted
    <2>6. MapCommitted(mgr, q, x, publish) = map
      BY <2>2 DEF MapCommitted
    <2> HIDE DEF keys, map
    <2> QED BY <2>1, <2>3, <2>4, <2>5, <2>6
  <1>5. base \in Nat /\ n \in Nat
    BY <1>1, CommitNumbers
  <1>6. /\ \A i \in publish : base + i \in P /\ new[i] = KeyAt(s, base + i)
        /\ \A j \in P : j - base \in publish /\ base + (j - base) = j /\ new[j - base] = KeyAt(s, j)
    <2>1. ASSUME NEW i \in publish PROVE base + i \in P /\ new[i] = KeyAt(s, base + i)
      <3>1. i \in 1 .. n /\ mgr.block_hashes[q.table[base + i]] = None /\ new[i] \notin DOMAIN mgr.cached
        OBVIOUS
      <3>2. new[i] = KeyAt(s, base + i)
        BY <3>1
      <3>3. base + i \in base + 1 .. base + n
        BY <1>5, <3>1
      <3> QED BY <3>1, <3>2, <3>3 DEF PublishedPlaces
    <2>2. ASSUME NEW j \in P PROVE j - base \in publish /\ base + (j - base) = j /\ new[j - base] = KeyAt(s, j)
      <3>1. j \in base + 1 .. base + n /\ mgr.block_hashes[q.table[j]] = None /\ KeyAt(s, j) \notin DOMAIN mgr.cached
        BY DEF PublishedPlaces
      <3> HIDE DEF base, n
      <3>2. j - base \in 1 .. n /\ base + (j - base) = j
        BY <1>5, <3>1
      <3>3. new[j - base] = KeyAt(s, j)
        BY <3>2
      <3> QED BY <3>1, <3>2, <3>3
    <2> QED BY <2>1, <2>2
  <1>7. \A j \in P : /\ q.table[j] \in BlockId /\ KeyAt(s, j) \notin DOMAIN mgr.cached
                     /\ \A i \in P : (q.table[i] = q.table[j] \/ KeyAt(s, i) = KeyAt(s, j)) => i = j
    BY <1>1, PublishedFacts
  <1> HIDE DEF P, publish, new
  <1>8. ASSUME NEW j \in P PROVE keys[q.table[j]] = KeyAt(s, j) /\ map[KeyAt(s, j)] = q.table[j]
    <2>1. j - base \in publish /\ base + (j - base) = j /\ new[j - base] = KeyAt(s, j)
      BY <1>6
    <2>2. q.table[j] \in keyed /\ KeyAt(s, j) \in added
      BY <2>1
    <2> DEFINE i == CHOOSE i \in publish : q.table[base + i] = q.table[j]
               k == CHOOSE k \in publish : new[k] = KeyAt(s, j)
    <2>3. i \in publish /\ q.table[base + i] = q.table[j]
      <3>1. \E x \in publish : q.table[base + x] = q.table[j]
        BY <2>1
      <3> QED BY <3>1
    <2>4. k \in publish /\ new[k] = KeyAt(s, j)
      <3>1. \E x \in publish : new[x] = KeyAt(s, j)
        BY <2>1
      <3> QED BY <3>1
    <2>5. keys[q.table[j]] = new[i] /\ map[KeyAt(s, j)] = q.table[base + k]
      BY <1>7, <2>2
    <2> HIDE DEF i, k, keys, map
    <2>6. base + i = j
      BY <1>6, <1>7, <2>3
    <2>7. base + k = j
      BY <1>6, <1>7, <2>4
    <2>8. new[i] = KeyAt(s, base + i)
      BY <1>6, <2>3
    <2> QED BY <2>5, <2>6, <2>7, <2>8
  <1>9. ASSUME NEW b \in BlockId, \A j \in P : q.table[j] # b PROVE keys[b] = mgr.block_hashes[b]
    <2>1. b \notin keyed
      BY <1>6, <1>9
    <2> QED BY <2>1
  <1>10. ASSUME NEW h \in DOMAIN mgr.cached PROVE map[h] = mgr.cached[h]
    <2>1. h \notin added
      BY <1>6, <1>7
    <2> QED BY <2>1
  <1>11. DOMAIN map = DOMAIN mgr.cached \cup {KeyAt(s, j) : j \in P}
    <2>1. added = {KeyAt(s, j) : j \in P}
      <3>1. ASSUME NEW h \in added PROVE h \in {KeyAt(s, j) : j \in P}
        BY <1>6
      <3>2. ASSUME NEW j \in P PROVE KeyAt(s, j) \in added
        BY <1>6
      <3> QED BY <3>1, <3>2
    <2> QED BY <2>1
  <1>12. keys = [b \in BlockId |-> keys[b]]
    OBVIOUS
  <1> HIDE DEF keys, map, r
  <1>13. mgr' = Manager(With(mgr, s, r), mgr.ref_counts, keys, mgr.free, map)
    BY <1>1, <1>4
  <1>14. mgr'.sequences = With(mgr, s, r) /\ mgr'.ref_counts = mgr.ref_counts /\ mgr'.block_hashes = keys
         /\ mgr'.free = mgr.free /\ mgr'.cached = map
    BY <1>13, OneField
  <1> QED BY <1>1, <1>8, <1>9, <1>10, <1>11, <1>12, <1>13, <1>14 DEF r, P, new


(* What the host knows of the sequence that is committed.                  *)
LEMMA CommitRow ==
  ASSUME PoolInv, NEW s \in SequenceId, NEW computed \in Nat, CommitThroughStep(s, computed)
  PROVE  LET q == mgr.sequences[s]
             r == mgr'.sequences[s]
         IN  /\ r \in Row /\ r.keys = q.keys /\ r.table = q.table /\ r.scheduled = q.scheduled
             /\ mgr'.sequences = With(mgr, s, r)
             /\ LengthsOf(s)' /\ HostViewOf(s)'
  <1> DEFINE q == mgr.sequences[s]
             base == Len(q.hashes)
             n == MoreOf(q, computed)
             done == DoneOf(q, computed)
             new == [i \in 1 .. n |-> KeyAt(s, base + i)]
             hashes == q.hashes \o new
             l == Len(q.unhashed)
             k == n * BlockTokens
             rest == SubSeq(q.unhashed, k + 1, l)
             r == Committed(q, done, hashes, rest)
  <1>1. /\ s \in Live(mgr) /\ computed <= written[s] /\ text' = text /\ written' = written
        /\ mgr'.sequences = With(mgr, s, r)
    BY CommitEffect
  <1>2. LengthsOf(s) /\ HostViewOf(s) /\ Managed /\ Lengths
    BY <1>1 DEF PoolInv, Lengths, HostView
  <1>3. /\ q \in Row /\ q.hashes \in Seq(Hashes) /\ q.unhashed \in Seq(Token) /\ l \in Nat
        /\ text[s] \in Seq(Token) /\ q.scheduled \in Nat
    BY <1>1, <1>2, RowFacts
  <1>4. /\ done \in Nat /\ done <= written[s] /\ base \in Nat /\ n \in Nat
        /\ (base + n) * BlockTokens <= done /\ k \in Nat /\ k <= l /\ (n # 0 => PrefixCaching)
    BY <1>1, CommitNumbers
  <1>5. written[s] \in Nat
    BY <1>2 DEF Managed
  <1> HIDE DEF n, done
  <1>6. \A i \in 1 .. n : KeyAt(s, base + i) \in Hashes
    <2> SUFFICES ASSUME NEW i \in 1 .. n PROVE KeyAt(s, base + i) \in Hashes
      OBVIOUS
    <2> DEFINE j == base + i
               m == base + n
    <2>1. j \in Nat \ {0} /\ m \in Nat /\ j <= m
      BY <1>4, SMTT(30)
    <2> HIDE DEF j
    <2>2. j * BlockTokens <= written[s]
      <3>1. m * BlockTokens <= done
        BY <1>4
      <3> HIDE DEF m
      <3>2. CASE j = m
        BY <1>4, <1>5, <2>1, <3>1, <3>2, PoolAssumption
      <3>3. CASE j < m
        <4>1. j * BlockTokens + BlockTokens <= m * BlockTokens
          BY <2>1, <3>3, TimesOrder, PoolAssumption
        <4>2. j * BlockTokens \in Nat /\ m * BlockTokens \in Nat /\ BlockTokens \in Nat
          BY <2>1, PoolAssumption
        <4> QED BY <1>4, <1>5, <3>1, <4>1, <4>2
      <3> QED BY <2>1, <3>2, <3>3
    <2>3. KeyAt(s, j) \in Hashes
      BY <1>1, <2>1, <2>2, PlaceFacts
    <2> QED BY <2>3 DEF j
  <1>7. new \in Seq(Hashes) /\ Len(new) = n /\ \A i \in 1 .. n : new[i] = KeyAt(s, base + i)
    <2>1. new \in [1 .. n -> Hashes]
      BY <1>6
    <2>2. DOMAIN new = 1 .. n
      OBVIOUS
    <2>3. \A i \in 1 .. n : new[i] = KeyAt(s, base + i)
      OBVIOUS
    <2> HIDE DEF new
    <2> QED BY <1>4, <2>1, <2>2, <2>3, SeqDef, LenProperties
  <1> HIDE DEF new
  <1>8. /\ hashes \in Seq(Hashes) /\ Len(hashes) = base + n
        /\ \A i \in 1 .. base : hashes[i] = q.hashes[i]
        /\ \A i \in 1 .. n : hashes[base + i] = new[i]
    <2> DEFINE old == q.hashes
    <2>1. old \in Seq(Hashes) /\ Len(old) = base /\ base \in Nat /\ n \in Nat /\ new \in Seq(Hashes) /\ Len(new) = n
      BY <1>3, <1>4, <1>7
    <2> HIDE DEF old, base
    <2>2. /\ old \o new = [i \in 1 .. base + n |-> IF i <= base THEN old[i] ELSE new[i - base]]
          /\ Len(old \o new) = base + n /\ old \o new \in Seq(Hashes)
      BY ONLY <2>1, ConcatIs
    <2>3. \A i \in 1 .. base : i \in 1 .. base + n /\ i <= base
      BY <1>4
    <2>4. \A i \in 1 .. n : base + i \in 1 .. base + n /\ ~(base + i <= base) /\ (base + i) - base = i
      BY <1>4
    <2>5. hashes = old \o new
      BY DEF old
    <2> DEFINE x == old \o new
    <2> HIDE DEF hashes, x
    <2>6. x \in Seq(Hashes) /\ Len(x) = base + n
      BY <2>2 DEF x
    <2>7. x = [i \in 1 .. base + n |-> IF i <= base THEN old[i] ELSE new[i - base]]
      BY <2>2 DEF x
    <2>8. \A i \in 1 .. base : x[i] = old[i]
      BY <2>3, <2>7
    <2>9. \A i \in 1 .. n : x[base + i] = new[i]
      BY <2>4, <2>7
    <2>10. hashes = x
      BY <2>5 DEF x
    <2> QED BY <2>6, <2>8, <2>9, <2>10 DEF old
  <1> HIDE DEF hashes
  <1>9. /\ rest \in Seq(Token) /\ Len(rest) = l - k
        /\ \A p \in 1 .. l - k : rest[p] = q.unhashed[k + p]
    <2> DEFINE u == q.unhashed
    <2>1. u \in Seq(Token) /\ k + 1 \in Int /\ l \in Int /\ k + 1 <= l + 1
      BY <1>3, <1>4, SMTT(30)
    <2> HIDE DEF k, l, u
    <2>2. /\ SubSeq(u, k + 1, l) = [i \in 1 .. l - (k + 1) + 1 |-> u[k + 1 + i - 1]]
          /\ Len(SubSeq(u, k + 1, l)) = l - (k + 1) + 1
      BY <2>1, SubSeqIs
    <2>3. l - (k + 1) + 1 = l - k /\ l - k \in Nat /\ \A i \in 1 .. l - k : k + 1 + i - 1 = k + i /\ k + i \in 1 .. l
      BY <1>3, <1>4
    <2>4. SubSeq(u, k + 1, l) = [i \in 1 .. l - k |-> u[k + i]]
      BY <2>2, <2>3
    <2>5. \A i \in 1 .. l : u[i] \in Token
      BY <2>1, ElementOfSeq DEF l, u
    <2>6. [i \in 1 .. l - k |-> u[k + i]] \in [1 .. l - k -> Token]
      BY <2>3, <2>5
    <2>7. SubSeq(u, k + 1, l) \in Seq(Token)
      <3> DEFINE m == l - k
                 x == SubSeq(u, k + 1, l)
      <3>1. m \in Nat /\ x \in [1 .. m -> Token]
        BY <2>3, <2>4, <2>6
      <3> HIDE DEF m, x
      <3>2. x \in Seq(Token)
        BY <3>1, SeqDef
      <3> QED BY <3>2 DEF x
    <2> QED BY <2>2, <2>3, <2>4, <2>7 DEF u
  <1> HIDE DEF rest
  <1>10. /\ r \in Row /\ r.computed = done /\ r.hashes = hashes /\ r.unhashed = rest
         /\ r.keys = q.keys /\ r.table = q.table /\ r.scheduled = q.scheduled /\ r.unresolved = q.unresolved
    <2> HIDE DEF q
    <2> QED BY <1>3, <1>4, <1>8, <1>9, CommittedIs
  <1> HIDE DEF r
  <1>11. mgr'.sequences[s] = r
    <2>1. With(mgr, s, r)[s] = r
      BY DEF With
    <2> QED BY <1>1, <2>1
  <1>12. LengthsOf(s)'
    <2>1. /\ q.scheduled = Len(text[s]) /\ q.scheduled \in 1 .. MaxTokens
          /\ written[s] <= q.scheduled /\ q.unresolved <= q.scheduled
          /\ Len(q.table) = DivCeil(q.scheduled) /\ Once(q.table)
      BY <1>2 DEF LengthsOf
    <2>2. /\ r.scheduled = Len(text[s]) /\ r.scheduled \in 1 .. MaxTokens
          /\ written[s] <= r.scheduled /\ r.unresolved <= r.scheduled
          /\ Len(r.table) = DivCeil(r.scheduled) /\ Once(r.table)
      BY <1>10, <2>1
    <2>3. r.computed <= written[s] /\ Len(r.hashes) * BlockTokens <= r.computed
      BY <1>4, <1>8, <1>10
    <2> QED BY <1>1, <1>11, <2>2, <2>3 DEF LengthsOf
  <1>13. ASSUME NEW i \in 1 .. Len(r.hashes) PROVE r.hashes[i] = HashBlocks(<<>>, text[s], r.keys, i)
    <2>1. r.hashes[i] = hashes[i] /\ r.keys = q.keys /\ i \in 1 .. base + n
      BY <1>8, <1>10
    <2>2. CASE i \in 1 .. base
      <3>1. q.hashes[i] = HashBlocks(<<>>, text[s], q.keys, i)
        BY <1>2, <2>2 DEF HostViewOf
      <3> QED BY <1>8, <2>1, <2>2, <3>1
    <2>3. CASE i \notin 1 .. base
      <3> DEFINE e == i - base
      <3> HIDE DEF base
      <3>1. e \in 1 .. n /\ base + e = i
        BY <1>4, <2>1, <2>3
      <3>2. hashes[i] = KeyAt(s, i)
        BY <1>7, <1>8, <3>1
      <3> QED BY <2>1, <3>2 DEF KeyAt
    <2> QED BY <2>2, <2>3
  <1>14. ASSUME PrefixCaching
         PROVE  /\ Len(r.hashes) * BlockTokens + Len(r.unhashed) + r.unresolved = r.scheduled
                /\ \A p \in 1 .. Len(r.unhashed) : r.unhashed[p] = text[s][Len(r.hashes) * BlockTokens + p]
    <2> DEFINE a == base * BlockTokens
               z == (base + n) * BlockTokens
    <2>1. /\ a + l + q.unresolved = q.scheduled
          /\ \A p \in 1 .. l : q.unhashed[p] = text[s][a + p]
      BY <1>2, <1>14 DEF HostViewOf
    <2>2. a \in Nat /\ z = a + k
      <3> HIDE DEF base
      <3> QED BY <1>4, PoolAssumption
    <2>3. Len(r.hashes) * BlockTokens = z /\ Len(r.unhashed) = l - k /\ r.unhashed = rest
      BY <1>8, <1>9, <1>10
    <2>4. q.unresolved \in Nat
      BY <1>3 DEF Row
    <2> DEFINE v == q.unresolved
               c == q.scheduled
    <2>5. a + l + v = c /\ v \in Nat /\ c \in Nat
      BY <1>3, <2>1, <2>4
    <2> HIDE DEF a, z, k, l, v, c
    <2>6. z + (l - k) + v = c
      BY <1>3, <1>4, <2>2, <2>5
    <2>7. ASSUME NEW p \in 1 .. l - k PROVE rest[p] = text[s][z + p]
      <3>1. k + p \in 1 .. l /\ a + (k + p) = z + p
        BY <1>3, <1>4, <2>2
      <3>2. rest[p] = q.unhashed[k + p]
        BY <1>9
      <3> QED BY <2>1, <3>1, <3>2
    <2> QED BY <1>10, <2>3, <2>6, <2>7 DEF v, c
  <1>15. ~PrefixCaching => r.unhashed = <<>>
    <2> SUFFICES ASSUME ~PrefixCaching PROVE rest = <<>>
      BY <1>10
    <2>1. l = 0
      BY <1>2 DEF HostViewOf
    <2>2. Len(rest) = 0
      BY <1>4, <1>9, <2>1
    <2> QED BY <1>9, <2>2, EmptySeq
  <1>16. HostViewOf(s)'
    BY <1>1, <1>11, <1>13, <1>14, <1>15 DEF HostViewOf
  <1> QED BY <1>1, <1>10, <1>11, <1>12, <1>16


LEMMA CommitPreserves ==
  ASSUME PoolInv, NEW s \in SequenceId, NEW computed \in Nat, CommitThroughStep(s, computed)
  PROVE  PoolInv' /\ Abstract!Next
  <1> DEFINE q == mgr.sequences[s]
             r == mgr'.sequences[s]
             P == PublishedPlaces(s, computed)
             key == mgr.block_hashes
             keys == mgr'.block_hashes
             map == mgr'.cached
             K(j) == KeyAt(s, j)
             B(j) == q.table[j]
             full == {B(j) : j \in P}
  <1>1. /\ s \in Live(mgr) /\ computed <= written[s]
        /\ hit' = hit /\ text' = text /\ written' = written /\ kv' = kv
        /\ mgr'.ref_counts = mgr.ref_counts /\ mgr'.free = mgr.free
        /\ mgr' = Manager(mgr'.sequences, mgr'.ref_counts, mgr'.block_hashes, mgr'.free, mgr'.cached)
        /\ DOMAIN map = DOMAIN mgr.cached \cup {K(j) : j \in P}
        /\ \A j \in P : keys[B(j)] = K(j) /\ map[K(j)] = B(j)
        /\ \A b \in BlockId : (\A j \in P : B(j) # b) => keys[b] = key[b]
        /\ \A h \in DOMAIN mgr.cached : map[h] = mgr.cached[h]
        /\ keys = [b \in BlockId |-> keys[b]]
    BY CommitEffect
  <1>2. /\ r \in Row /\ r.keys = q.keys /\ r.table = q.table /\ r.scheduled = q.scheduled
        /\ mgr'.sequences = With(mgr, s, r) /\ LengthsOf(s)' /\ HostViewOf(s)'
    BY CommitRow
  <1>3. /\ Managed /\ Lengths /\ HostView /\ MapAgrees /\ Queue(mgr.free, key)
        /\ SharedAgree /\ KeyedByText /\ OwnContents /\ PublishedIsWritten /\ HitIsSound /\ Memory
    BY DEF PoolInv
  <1>4. \A j \in P : /\ j \in Nat \ {0} /\ j * BlockTokens <= written[s]
                     /\ j \in 1 .. Len(q.table) /\ B(j) \in BlockId /\ B(j) \in Range(q.table)
                     /\ key[B(j)] = None /\ K(j) \in Hashes /\ K(j) \notin DOMAIN mgr.cached
                     /\ \A i \in P : (B(i) = B(j) \/ K(i) = K(j)) => i = j
    BY <1>1, PublishedFacts
  <1>5. \A j \in P : /\ j * BlockTokens \in Nat /\ j * BlockTokens <= Len(text[s])
                     /\ B(j) \in HeldBlocks[s] /\ B(j) \notin UnwrittenBlocks[s] /\ B(j) # OpenBlocks[s]
                     /\ \A o \in 0 .. BlockTokens - 1 : kv[B(j)][o] = Named(K(j), o)
    BY <1>1, <1>4, PlaceFacts
  <1>6. None \notin Hashes
    BY ManagerAssumption
  <1>7. q.table \in Seq(BlockId) /\ DOMAIN q.table = 1 .. Len(q.table)
    BY <1>1, <1>3, RowFacts
  <1> HIDE DEF P, K
  <1>8. Live(mgr') = Live(mgr) /\ Live(mgr)' = Live(mgr)
    BY <1>1, <1>2 DEF With, Live
  <1>9. \A t \in Live(mgr) : t # s => mgr'.sequences[t] = mgr.sequences[t]
    BY <1>2 DEF With
  <1>10. \A t \in Live(mgr) : /\ mgr'.sequences[t].table = mgr.sequences[t].table
                              /\ mgr'.sequences[t].scheduled = mgr.sequences[t].scheduled
                              /\ mgr'.sequences[t].keys = mgr.sequences[t].keys
    <2> SUFFICES ASSUME NEW t \in Live(mgr)
                 PROVE  /\ mgr'.sequences[t].table = mgr.sequences[t].table
                        /\ mgr'.sequences[t].scheduled = mgr.sequences[t].scheduled
                        /\ mgr'.sequences[t].keys = mgr.sequences[t].keys
      OBVIOUS
    <2>1. CASE t = s
      BY <1>2, <2>1
    <2>2. CASE t # s
      BY <1>9, <2>2
    <2> QED BY <2>1, <2>2
  <1>11. HeldBlocks' = HeldBlocks /\ OpenBlocks' = OpenBlocks /\ UnwrittenBlocks' = UnwrittenBlocks
         /\ SharedAgree' /\ OwnContents'
    BY <1>1, <1>8, <1>10, SameTables
  <1>12. OthersStay(s)
    BY <1>1, <1>8, <1>9 DEF OthersStay
  <1>13. (Lengths /\ HostView)'
    BY <1>2, <1>12, OthersKeep
  <1>14. \A b \in BlockId : b \in full => \E j \in P : B(j) = b
    OBVIOUS
  <1>15. \A b \in BlockId : b \notin full => keys[b] = key[b]
    BY <1>1
  <1>16. \A b \in BlockId : keys[b] \in Hashes \cup {None}
    <2> SUFFICES ASSUME NEW b \in BlockId PROVE keys[b] \in Hashes \cup {None}
      OBVIOUS
    <2>1. key[b] \in Hashes \cup {None}
      BY <1>3 DEF Managed
    <2> QED BY <1>1, <1>4, <1>14, <1>15, <2>1
  <1>17. Managed'
    <2>1. \A h \in DOMAIN map : map[h] \in BlockId
      <3>1. \A h \in DOMAIN mgr.cached : mgr.cached[h] \in BlockId
        BY <1>3 DEF MapAgrees
      <3> QED BY <1>1, <1>4, <3>1
    <2>2. IsManager(mgr')
      BY <1>1, <1>3, <2>1 DEF Managed, IsManager, Manager
    <2>3. mgr'.sequences \in [Live(mgr') -> Row] /\ Live(mgr') \in SUBSET SequenceId
      <3>1. With(mgr, s, r) \in [Live(mgr) \cup {s} -> Row] /\ Live(mgr) \cup {s} \in SUBSET SequenceId
        <4> HIDE DEF r
        <4> QED BY <1>2, <1>3, WithTyped
      <3>2. Live(mgr) \cup {s} = Live(mgr)
        BY <1>1
      <3> QED BY <1>2, <1>8, <3>1, <3>2
    <2>4. keys \in [BlockId -> Hashes \cup {None}]
      <3> HIDE DEF keys
      <3> QED BY <1>1, <1>16
    <2>5. DOMAIN map \in SUBSET Hashes
      BY <1>1, <1>3, <1>4 DEF Managed
    <2> QED BY <1>1, <1>3, <2>2, <2>3, <2>4, <2>5 DEF Managed
  <1>18. MapAgrees'
    <2>1. ASSUME NEW b \in BlockId, keys[b] # None PROVE keys[b] \in DOMAIN map /\ map[keys[b]] = b
      <3>1. CASE b \in full
        <4>1. PICK j \in P : B(j) = b
          BY <1>14, <3>1
        <4> QED BY <1>1, <4>1
      <3>2. CASE b \notin full
        <4>1. key[b] \in DOMAIN mgr.cached /\ mgr.cached[key[b]] = b
          BY <1>3, <1>15, <2>1, <3>2 DEF MapAgrees
        <4> QED BY <1>1, <1>15, <3>2, <4>1
      <3> QED BY <3>1, <3>2
    <2>2. ASSUME NEW h \in DOMAIN map PROVE map[h] \in BlockId /\ keys[map[h]] = h
      <3>1. CASE h \in DOMAIN mgr.cached
        <4>1. mgr.cached[h] \in BlockId /\ key[mgr.cached[h]] = h /\ h # None
          BY <1>3, <1>6, <3>1 DEF MapAgrees, Managed
        <4>2. mgr.cached[h] \notin full
          BY <1>4, <4>1
        <4> QED BY <1>1, <1>15, <3>1, <4>1, <4>2
      <3>2. CASE h \notin DOMAIN mgr.cached
        <4>1. PICK j \in P : h = K(j)
          BY <1>1, <3>2
        <4> QED BY <1>1, <1>4, <4>1
      <3> QED BY <3>1, <3>2
    <2> QED BY <2>1, <2>2 DEF MapAgrees
  <1>19. Queue(mgr.free, key)'
    <2>1. \A i \in 1 .. Len(mgr.free) : keys[mgr.free[i]] = key[mgr.free[i]]
      <3> SUFFICES ASSUME NEW i \in 1 .. Len(mgr.free) PROVE keys[mgr.free[i]] = key[mgr.free[i]]
        OBVIOUS
      <3>1. mgr.free[i] \in BlockId /\ mgr.free[i] \in Range(mgr.free)
        <4>1. mgr.free \in Seq(BlockId)
          BY <1>3 DEF Queue
        <4> QED BY <4>1, ElementOfSeq, RangeIs
      <3>2. mgr.free[i] \notin Range(q.table)
        BY <1>1, <3>1, PoolFacts
      <3>3. mgr.free[i] \notin full
        BY <1>4, <3>2
      <3> QED BY <1>15, <3>1, <3>3
    <2> QED BY <1>1, <1>3, <2>1 DEF Queue, UnkeyedFirst
  <1>20. KeyedByText'
    <2>1. ASSUME NEW t \in Live(mgr), NEW i \in DOMAIN mgr.sequences[t].table,
                 keys[mgr.sequences[t].table[i]] # None
          PROVE  /\ i * BlockTokens <= Len(text[t])
                 /\ keys[mgr.sequences[t].table[i]] = HashBlocks(<<>>, text[t], mgr.sequences[t].keys, i)
      <3> DEFINE b == mgr.sequences[t].table[i]
      <3>1. b \in BlockId
        <4>1. mgr.sequences[t].table \in Seq(BlockId) /\ DOMAIN mgr.sequences[t].table = 1 .. Len(mgr.sequences[t].table)
          BY <1>3, RowFacts
        <4> QED BY <4>1, ElementOfSeq
      <3>2. CASE b \in full
        <4>1. PICK j \in P : B(j) = b
          BY <1>14, <3>1, <3>2
        <4>2. j \in DOMAIN q.table
          BY <1>4, <1>7, <4>1
        <4>3. Shared(s, t)
          BY <1>1, <1>3 DEF SharedAgree
        <4>4. j = i /\ q.keys = mgr.sequences[t].keys /\ Agree(s, t, j * BlockTokens)
          BY <4>1, <4>2, <4>3 DEF Shared
        <4>5. j \in Nat \ {0} /\ j * BlockTokens \in Nat /\ j * BlockTokens <= Len(text[s]) /\ Len(text[s]) \in Nat
          BY <1>1, <1>3, <1>4, <1>5, <4>1, RowFacts
        <4>6. \A p \in 1 .. j * BlockTokens : p <= Len(text[t]) /\ text[t][p] = text[s][p]
          <5> DEFINE e == j * BlockTokens
          <5>1. \A p \in 1 .. e : p \in 1 .. Len(text[s]) /\ p <= e
            <6>1. e \in Nat /\ e <= Len(text[s]) /\ Len(text[s]) \in Nat
              BY <4>5
            <6> HIDE DEF e
            <6> QED BY <6>1
          <5> QED BY <4>4, <5>1 DEF Agree
        <4>7. j * BlockTokens <= Len(text[t])
          <5>1. j * BlockTokens \in 1 .. j * BlockTokens
            BY <4>5, PoolAssumption
          <5> QED BY <4>6, <5>1
        <4>8. HashBlocks(<<>>, text[s], q.keys, j) = HashBlocks(<<>>, text[t], q.keys, j)
          <5> DEFINE u == text[s]
                     v == text[t]
                     k == q.keys
          <5>1. SameStart(u, v, j * BlockTokens)
            BY <4>6 DEF SameStart
          <5> HIDE DEF u, v, k
          <5>2. j \in Nat
            BY <4>5
          <5>3. HashBlocks(<<>>, u, k, j) = HashBlocks(<<>>, v, k, j)
            BY <5>1, <5>2, HashOfStart
          <5> QED BY <5>3 DEF u, v, k
        <4> QED BY <1>1, <4>1, <4>4, <4>7, <4>8 DEF K, KeyAt
      <3>3. CASE b \notin full
        <4>1. keys[b] = key[b]
          BY <1>15, <3>1, <3>3
        <4>2. KeyedOf(t)
          BY <1>3 DEF KeyedByText
        <4> QED BY <2>1, <4>1, <4>2 DEF KeyedOf
      <3> QED BY <3>2, <3>3
    <2>2. ASSUME NEW t \in Live(mgr) PROVE KeyedOf(t)'
      BY <1>1, <1>10, <2>1 DEF KeyedOf
    <2> QED BY <1>8, <2>2 DEF KeyedByText
  <1>21. PublishedIsWritten'
    <2>1. ASSUME NEW h \in DOMAIN map, NEW o \in 0 .. BlockTokens - 1 PROVE kv[map[h]][o] = Named(h, o)
      <3>1. CASE h \in DOMAIN mgr.cached
        <4>1. kv[mgr.cached[h]][o] = Named(h, o)
          BY <1>3, <3>1, PublishedIs
        <4> QED BY <1>1, <3>1, <4>1
      <3>2. CASE h \notin DOMAIN mgr.cached
        <4>1. PICK j \in P : h = K(j)
          BY <1>1, <3>2
        <4> QED BY <1>1, <1>5, <4>1
      <3> QED BY <3>1, <3>2
    <2>2. \A h \in DOMAIN mgr'.cached : \A o \in 0 .. BlockTokens - 1 : kv'[mgr'.cached[h]][o] = Named(h, o)
      BY <1>1, <2>1
    <2> QED BY <2>2 DEF PublishedIsWritten, Named
  <1>22. (HitIsSound /\ Memory)'
    BY <1>1, <1>3 DEF HitIsSound, Memory
  <1>23. Abstract!Next
    <2> DEFINE new == [b \in full |-> keys[b]]
    <2>1. full \in SUBSET BlockId
      BY <1>4
    <2>2. ASSUME NEW b \in full PROVE new[b] \in Hashes /\ \A c \in BlockId : key[c] # new[b]
      <3>1. PICK j \in P : B(j) = b
        OBVIOUS
      <3>2. new[b] = K(j)
        BY <1>1, <3>1
      <3>3. ASSUME NEW c \in BlockId, key[c] = K(j) PROVE FALSE
        <4>1. key[c] # None
          BY <1>4, <1>6, <3>1, <3>3
        <4>2. key[c] \in DOMAIN mgr.cached
          BY <1>3, <4>1 DEF MapAgrees
        <4> QED BY <1>4, <3>1, <3>3, <4>2
      <3> QED BY <1>4, <3>1, <3>2, <3>3
    <2>3. \A b, c \in full : new[b] = new[c] => b = c
      <3> SUFFICES ASSUME NEW b \in full, NEW c \in full, new[b] = new[c] PROVE b = c
        OBVIOUS
      <3>1. PICK j \in P : B(j) = b
        OBVIOUS
      <3>2. PICK i \in P : B(i) = c
        OBVIOUS
      <3>3. K(j) = K(i)
        BY <1>1, <3>1, <3>2
      <3> QED BY <1>4, <3>1, <3>2, <3>3
    <2>4. full \subseteq {b \in HeldBlocks[s] \ UnwrittenBlocks[s] : key[b] = None /\ b # OpenBlocks[s]}
      BY <1>4, <1>5
    <2>5. DOMAIN new = full
      OBVIOUS
    <2>6. keys = [b \in BlockId |-> IF b \in full THEN new[b] ELSE key[b]]
      <3> DEFINE g == [b \in BlockId |-> IF b \in full THEN new[b] ELSE key[b]]
      <3>1. \A b \in BlockId : g[b] = keys[b]
        BY <1>15
      <3>2. DOMAIN g = BlockId
        OBVIOUS
      <3>3. keys \in [BlockId -> Hashes \cup {None}]
        BY <1>17 DEF Managed
      <3> HIDE DEF keys
      <3>4. keys = [b \in BlockId |-> keys[b]]
        BY <3>3
      <3> QED BY <3>1, <3>4
    <2>7. new \in [full -> Hashes]
      BY <2>2
    <2> HIDE DEF new, full
    <2>8. Abstract!Publish(s, new)
      BY <1>1, <1>8, <1>11, <2>2, <2>3, <2>4, <2>5, <2>6 DEF Abstract!Publish
    <2> QED BY <2>1, <2>7, <2>8 DEF Abstract!Next
  <1>24. Abstract!LedgerInv'
    BY <1>23, LedgerMoves
  <1> QED BY <1>11, <1>13, <1>17, <1>18, <1>19, <1>20, <1>21, <1>22, <1>23, <1>24 DEF PoolInv


----------------------------------------------------------------------------
(* admit.                                                                  *)

\* The key of the i-th block of the prompt that was looked up.
HitKey(i) == HashBlocks(<<>>, hit.prompt, hit.keys, i)

(* A hit that is still valid: published blocks, each once, that hold what  *)
(* the prompt's own forward would have written.                            *)
LEMMA ValidHitFacts ==
  ASSUME PoolInv, hit # None, ValidHit(mgr, hit)
  PROVE  LET k == Len(hit.blocks)
         IN  /\ hit.prompt \in Seq(Token) /\ Len(hit.prompt) \in 1 .. MaxTokens /\ hit.keys \in HashKeys
             /\ hit.blocks \in Seq(BlockId) /\ hit.hashes \in Seq(Hashes) /\ k \in Nat
             /\ DOMAIN hit.blocks = 1 .. k /\ Len(hit.hashes) = k /\ Once(hit.blocks)
             /\ hit.cached_tokens = k * BlockTokens /\ k * BlockTokens \in Nat /\ k * BlockTokens < Len(hit.prompt)
             /\ \A i \in 1 .. k :
                  /\ hit.blocks[i] \in BlockId /\ hit.hashes[i] = HitKey(i)
                  /\ mgr.block_hashes[hit.blocks[i]] = HitKey(i) /\ HitKey(i) # None
                  /\ \A o \in 0 .. BlockTokens - 1 :
                       kv[hit.blocks[i]][o] = Content(hit.prompt, hit.keys, (i - 1) * BlockTokens + o + 1)
  <1> DEFINE k == Len(hit.blocks)
  <1>1. /\ hit.prompt \in Prompts /\ hit.keys \in HashKeys
        /\ hit.blocks \in Seq(BlockId) /\ hit.hashes \in Seq(Hashes)
        /\ Len(hit.hashes) = k /\ hit.cached_tokens = k * BlockTokens /\ k * BlockTokens < Len(hit.prompt)
        /\ \A i \in DOMAIN hit.hashes : hit.hashes[i] = HitKey(i)
    BY DEF PoolInv, HitIsSound, HitKey
  <1>2. hit.prompt \in Seq(Token) /\ Len(hit.prompt) \in 1 .. MaxTokens
    BY <1>1, ManagerAssumption
  <1>3. k \in Nat /\ DOMAIN hit.blocks = 1 .. k /\ DOMAIN hit.hashes = 1 .. k
    BY <1>1, LenProperties
  <1> HIDE DEF k
  <1>4. k * BlockTokens \in Nat
    BY <1>3, PoolAssumption
  <1>5. MapAgrees /\ Managed /\ PublishedIsWritten
    BY DEF PoolInv
  <1>6. ASSUME NEW i \in 1 .. k
        PROVE  /\ hit.blocks[i] \in BlockId /\ hit.hashes[i] = HitKey(i)
               /\ mgr.block_hashes[hit.blocks[i]] = HitKey(i) /\ HitKey(i) # None
               /\ Len(HitKey(i)) = i
               /\ \A o \in 0 .. BlockTokens - 1 :
                    kv[hit.blocks[i]][o] = Content(hit.prompt, hit.keys, (i - 1) * BlockTokens + o + 1)
    <2>1. hit.hashes[i] = HitKey(i)
      BY <1>1, <1>3
    <2>2. /\ mgr.block_hashes[hit.blocks[i]] = HitKey(i)
          /\ HitKey(i) \in DOMAIN mgr.cached /\ mgr.cached[HitKey(i)] = hit.blocks[i]
      BY <1>3, <2>1 DEF ValidHit
    <2>3. hit.blocks[i] \in BlockId /\ HitKey(i) # None
      BY <1>5, <2>2, ManagerAssumption DEF MapAgrees, Managed
    <2>4. i \in Nat \ {0}
      BY <1>3
    <2>5. Len(HitKey(i)) = i
      BY <2>4, HashIs DEF HitKey
    <2>6. ASSUME NEW o \in 0 .. BlockTokens - 1
          PROVE  kv[hit.blocks[i]][o] = Content(hit.prompt, hit.keys, (i - 1) * BlockTokens + o + 1)
      <3>1. kv[mgr.cached[HitKey(i)]][o] = Named(HitKey(i), o)
        BY <1>5, <2>2, PublishedIs
      <3>2. Named(HitKey(i), o) = Content(hit.prompt, hit.keys, (i - 1) * BlockTokens + o + 1)
        BY <2>4, NamedIs DEF HitKey
      <3> QED BY <2>2, <3>1, <3>2
    <2> QED BY <2>1, <2>2, <2>3, <2>5, <2>6
  <1>7. Once(hit.blocks)
    <2>1. \A i, j \in 1 .. k : hit.blocks[i] = hit.blocks[j] => i = j
      <3> SUFFICES ASSUME NEW i \in 1 .. k, NEW j \in 1 .. k, hit.blocks[i] = hit.blocks[j] PROVE i = j
        OBVIOUS
      <3>1. HitKey(i) = HitKey(j)
        BY <1>6
      <3>2. Len(HitKey(i)) = i /\ Len(HitKey(j)) = j
        BY <1>6
      <3> QED BY <3>1, <3>2
    <2> QED BY <2>1 DEF Once, k
  <1> QED BY <1>1, <1>2, <1>3, <1>4, <1>6, <1>7 DEF k

(* admit_cost counts the pinned blocks that are free, so that a chunk that *)
(* fits the cost finds its blocks on what the pins leave of the queue.     *)
LEMMA AdmitRoom ==
  ASSUME PoolInv, hit # None, ValidHit(mgr, hit), NEW chunk, NEW n \in Nat,
         n = DivCeil(hit.cached_tokens + Len(chunk)) - Len(hit.blocks),
         DivCeil(hit.cached_tokens + Len(chunk)) \in Nat,
         AdmitCost(mgr, hit, Len(chunk)) <= Len(mgr.free)
  PROVE  n <= Len(Keep(mgr.free, BlockId \ Range(hit.blocks)))
  <1> DEFINE k == Len(hit.blocks)
             P == Range(hit.blocks)
             R == Range(mgr.free)
             F == Keep(mgr.free, BlockId \ P)
             I == {i \in DOMAIN hit.blocks : mgr.ref_counts[hit.blocks[i]] = 0}
             m == DivCeil(hit.cached_tokens + Len(chunk))
             g == [i \in I |-> hit.blocks[i]]
  <1>1. hit.blocks \in Seq(BlockId) /\ k \in Nat /\ DOMAIN hit.blocks = 1 .. k /\ \A i \in 1 .. k : hit.blocks[i] \in BlockId
    BY ValidHitFacts
  <1>2. mgr.free \in Seq(BlockId) /\ Once(mgr.free) /\ \A b \in BlockId : b \in R <=> mgr.ref_counts[b] = 0
    BY PoolFacts DEF Queue
  <1>3. IsFiniteSet(I) /\ Cardinality(I) \in Nat
    <2>1. IsFiniteSet(1 .. k)
      <3>1. 1 \in Int /\ k \in Int
        BY <1>1
      <3> HIDE DEF k
      <3> QED BY <3>1, FS_Interval
    <2>2. I \in SUBSET (1 .. k)
      BY <1>1
    <2> HIDE DEF I, k
    <2>3. IsFiniteSet(I)
      BY <2>1, <2>2, FS_Subset
    <2> QED BY <2>3, FS_CardinalityType
  <1>4. g \in Surjection(I, R \cap P)
    <2>1. ASSUME NEW i \in I PROVE g[i] \in R \cap P
      <3>1. g[i] = hit.blocks[i] /\ i \in 1 .. k /\ mgr.ref_counts[hit.blocks[i]] = 0
        BY <1>1
      <3>2. g[i] \in P
        BY <1>1, <3>1, RangeIs
      <3> QED BY <1>1, <1>2, <3>1, <3>2
    <2>2. ASSUME NEW b \in R \cap P PROVE \E i \in I : g[i] = b
      <3>1. PICK i \in 1 .. k : hit.blocks[i] = b
        BY <1>1, <2>2, RangeIs
      <3>2. mgr.ref_counts[b] = 0
        BY <1>1, <1>2, <2>2, <3>1
      <3>3. i \in I
        BY <1>1, <3>1, <3>2
      <3> QED BY <3>1, <3>3
    <2>3. g \in [I -> R \cap P]
      BY <2>1
    <2> QED BY <2>2, <2>3 DEF Surjection
  <1> HIDE DEF g, I, R
  <1>5. IsFiniteSet(R \cap P) /\ Cardinality(R \cap P) <= Cardinality(I) /\ Cardinality(R \cap P) \in Nat
    <2> DEFINE J == R \cap P
    <2>1. g \in Surjection(I, J)
      BY <1>4
    <2> HIDE DEF J
    <2>2. IsFiniteSet(J) /\ Cardinality(J) <= Cardinality(I)
      BY <1>3, <2>1, FS_Surjection
    <2>3. Cardinality(J) \in Nat
      BY <2>2, FS_CardinalityType
    <2> QED BY <2>2, <2>3 DEF J
  <1>6. Len(mgr.free) = Cardinality(R) /\ IsFiniteSet(R) /\ Cardinality(R) \in Nat
    <2>1. Len(mgr.free) = Cardinality(Range(mgr.free)) /\ IsFiniteSet(Range(mgr.free))
      BY <1>2, OnceCounts
    <2> QED BY <2>1, FS_CardinalityType DEF R
  <1>7. Len(F) = Cardinality(R \ P)
    <2>1. F \in Seq(BlockId) /\ Range(F) = R \cap (BlockId \ P) /\ Once(F)
      BY <1>2, KeepProperties DEF R
    <2>2. R \cap (BlockId \ P) = R \ P
      <3>1. R \subseteq BlockId
        BY <1>2, RangeIs DEF R
      <3> QED BY <3>1
    <2> HIDE DEF F
    <2>3. Len(F) = Cardinality(Range(F))
      BY <2>1, OnceCounts
    <2> QED BY <2>1, <2>2, <2>3
  <1> HIDE DEF F
  <1>8. Cardinality(R \ P) = Cardinality(R) - Cardinality(R \cap P)
    BY <1>6, FS_Difference
  <1>9. AdmitCost(mgr, hit, Len(chunk)) = Cardinality(I) + m - k
    BY DEF AdmitCost, I
  <1> HIDE DEF m, P, k
  <1>10. n = m - k /\ m \in Nat /\ Cardinality(I) + m - k <= Len(mgr.free)
    BY <1>9 DEF m, k
  <1>11. n <= Len(F)
    BY <1>1, <1>3, <1>5, <1>6, <1>7, <1>8, <1>10
  <1> QED BY <1>11 DEF F, P


\* The chunk of an admission that ends at token e, after a hit of k blocks,
\* and that n blocks more must hold.
ChunkFits(k, start, e, chunk, tokens, n) ==
  /\ start = k * BlockTokens /\ k \in Nat /\ start \in Nat /\ start % BlockTokens = 0
  /\ e \in 1 .. MaxTokens /\ start < e /\ e <= Len(hit.prompt)
  /\ chunk \in Seq(Token) /\ Len(chunk) = e - start /\ Len(chunk) \in Nat \ {0} /\ start + Len(chunk) = e
  /\ \A p \in 1 .. e - start : chunk[p] = hit.prompt[start + p]
  /\ tokens \in Seq(Token) /\ Len(tokens) = e
  /\ \A p \in 1 .. e : tokens[p] = hit.prompt[p]
  /\ n \in Nat \ {0} /\ DivCeil(e) = k + n /\ DivCeil(e) \in Nat
  /\ (k + n) * BlockTokens < e + BlockTokens

(* Where the chunk ends and which tokens it holds.                         *)
LEMMA ChunkFacts ==
  ASSUME PoolInv, hit # None, ValidHit(mgr, hit), NEW budget \in Nat,
         NEW k, k = Len(hit.blocks), NEW start, start = hit.cached_tokens,
         NEW e, e = ChunkEnd(start, Len(hit.prompt), budget), e # start,
         NEW chunk, chunk = SubSeq(hit.prompt, start + 1, e),
         NEW tokens, tokens = SubSeq(hit.prompt, 1, e),
         NEW n, n = DivCeil(e) - k
  PROVE  ChunkFits(k, start, e, chunk, tokens, n)
  <1> DEFINE l == Len(hit.prompt)
             u == hit.prompt
  <1>1. /\ u \in Seq(Token) /\ l \in 1 .. MaxTokens /\ k \in Nat
        /\ start = k * BlockTokens /\ k * BlockTokens \in Nat /\ k * BlockTokens < l
    BY ValidHitFacts
  <1>2. start \in Nat /\ l \in Nat /\ MaxTokens \in Nat /\ l <= MaxTokens
    BY <1>1, ManagerAssumption
  <1> HIDE DEF l, u
  <1>3. e \in start .. l
    <2>1. start <= l /\ e = ChunkEnd(start, l, budget)
      BY <1>1, <1>2 DEF l
    <2> QED BY <1>2, <2>1, ChunkEndIs
  <1>4. e \in Nat /\ start < e /\ e <= l /\ e \in 1 .. MaxTokens
    BY <1>2, <1>3
  <1>5. start % BlockTokens = 0
    <2>1. k * BlockTokens + 0 = k * BlockTokens /\ 0 \in 0 .. BlockTokens - 1
      BY <1>1, PoolAssumption
    <2>2. (k * BlockTokens + 0) % BlockTokens = 0
      BY <1>1, <2>1, PoolAssumption, DivisionUnique
    <2> QED BY <1>1, <2>1, <2>2
  <1>6. \A p \in 1 .. l : u[p] \in Token
    BY <1>1, ElementOfSeq DEF l, u
  <1>7. /\ chunk \in Seq(Token) /\ Len(chunk) = e - start
        /\ \A p \in 1 .. e - start : chunk[p] = u[start + p]
    <2>0. start \in Nat /\ e \in Nat /\ l \in Nat /\ start < e /\ e <= l
      BY <1>2, <1>4
    <2> DEFINE m == start + 1
    <2>1. m \in Int /\ e \in Int /\ m <= e + 1
      BY ONLY <2>0
    <2> HIDE DEF m
    <2>2. /\ SubSeq(u, m, e) = [i \in 1 .. e - m + 1 |-> u[m + i - 1]]
          /\ Len(SubSeq(u, m, e)) = e - m + 1
      BY ONLY <2>1, SubSeqIs
    <2>3. /\ e - m + 1 = e - start /\ e - start \in Nat
          /\ \A i \in 1 .. e - start : m + i - 1 = start + i /\ start + i \in 1 .. l
      BY ONLY <2>0 DEF m
    <2>4. chunk = SubSeq(u, m, e)
      BY DEF u, m
    <2> DEFINE d == e - m + 1
    <2>a. SubSeq(u, m, e) = [i \in 1 .. d |-> u[m + i - 1]] /\ Len(SubSeq(u, m, e)) = d /\ d = e - start
      BY <2>2, <2>3
    <2> HIDE DEF d
    <2>b. [i \in 1 .. d |-> u[m + i - 1]] = [i \in 1 .. e - start |-> u[start + i]]
      <3>1. \A i \in 1 .. e - start : u[m + i - 1] = u[start + i]
        BY <2>3
      <3> QED BY <2>a, <3>1
    <2>5. chunk = [i \in 1 .. e - start |-> u[start + i]] /\ Len(chunk) = e - start
      BY <2>4, <2>a, <2>b
    <2>6. chunk \in [1 .. e - start -> Token]
      BY <1>6, <2>3, <2>5
    <2>7. chunk \in Seq(Token)
      <3> DEFINE w == e - start
      <3>1. w \in Nat /\ chunk \in [1 .. w -> Token]
        BY <2>3, <2>6
      <3> HIDE DEF w
      <3> QED BY <3>1, SeqDef
    <2> QED BY <2>5, <2>7
  <1>8. Len(chunk) \in Nat \ {0} /\ start + Len(chunk) = e
    <2>1. start \in Nat /\ e \in Nat /\ start < e /\ Len(chunk) = e - start
      BY <1>2, <1>4, <1>7
    <2> QED BY ONLY <2>1
  <1>9. tokens \in Seq(Token) /\ Len(tokens) = e /\ \A p \in 1 .. e : tokens[p] = u[p]
    <2>1. 1 \in Int /\ e \in Int /\ 1 <= e + 1
      BY <1>4
    <2>2. /\ SubSeq(u, 1, e) = [i \in 1 .. e - 1 + 1 |-> u[1 + i - 1]]
          /\ Len(SubSeq(u, 1, e)) = e - 1 + 1
      BY <2>1, SubSeqIs
    <2>3. e - 1 + 1 = e /\ \A i \in 1 .. e : 1 + i - 1 = i /\ i \in 1 .. l
      BY <1>2, <1>4
    <2>4. tokens = [i \in 1 .. e |-> u[i]] /\ Len(tokens) = e
      BY <2>2, <2>3 DEF u
    <2>5. tokens \in [1 .. e -> Token]
      BY <1>6, <2>3, <2>4
    <2>6. tokens \in Seq(Token)
      BY <1>4, <2>5, SeqDef
    <2> QED BY <2>4, <2>6
  <1>10. n \in Nat \ {0} /\ DivCeil(e) = k + n /\ DivCeil(e) \in Nat /\ (k + n) * BlockTokens < e + BlockTokens
    <2> DEFINE c == DivCeil(e)
    <2>1. c \in Nat /\ c * BlockTokens \in Nat /\ e <= c * BlockTokens /\ c * BlockTokens < e + BlockTokens
      BY <1>4, DivCeilIs
    <2> HIDE DEF c
    <2>2. ~(c <= k)
      <3> SUFFICES ASSUME c <= k PROVE FALSE
        OBVIOUS
      <3>1. c * BlockTokens <= k * BlockTokens
        <4>1. CASE c = k
          BY <1>1, <4>1
        <4>2. CASE c < k
          <5>1. c * BlockTokens + BlockTokens <= k * BlockTokens
            BY <1>1, <2>1, <4>2, TimesOrder, PoolAssumption
          <5> QED BY <1>1, <2>1, <5>1, PoolAssumption
        <4> QED BY <1>1, <2>1, <4>1, <4>2
      <3> QED BY <1>1, <1>2, <1>4, <2>1, <3>1
    <2>3. n \in Nat \ {0} /\ c = k + n
      BY <1>1, <2>1, <2>2, SMTT(30) DEF c
    <2> QED BY <2>1, <2>3 DEF c
  <1> QED BY <1>1, <1>2, <1>4, <1>5, <1>7, <1>8, <1>9, <1>10 DEF u, l, ChunkFits

\* Sequence s is admitted with the hit's blocks and with `taken`, of the
\* blocks T, for the rest of its first e tokens.
Admits(s, e, tokens, taken, T, row) ==
  LET k == Len(hit.blocks)
      P == Range(hit.blocks)
      n == Len(taken)
  IN  /\ s \notin Live(mgr)
      /\ e \in 1 .. MaxTokens /\ k * BlockTokens < e
      /\ tokens \in Seq(Token) /\ Len(tokens) = e /\ \A p \in 1 .. e : tokens[p] = hit.prompt[p]
      /\ taken \in Seq(BlockId) /\ n \in Nat \ {0} /\ Once(taken) /\ T = Range(taken)
      /\ DivCeil(e) = k + n /\ (k + n) * BlockTokens < e + BlockTokens
      /\ T \in SUBSET BlockId /\ T \subseteq Range(mgr.free) \ P
      /\ row \in Row /\ row.keys = hit.keys /\ row.table = hit.blocks \o taken
      /\ row.scheduled = e /\ row.computed = k * BlockTokens /\ row.hashes = hit.hashes
      /\ row.unresolved = 0
      /\ PrefixCaching => /\ k * BlockTokens + Len(row.unhashed) = e
                          /\ \A p \in 1 .. Len(row.unhashed) : row.unhashed[p] = tokens[k * BlockTokens + p]
      /\ ~PrefixCaching => row.unhashed = <<>>
      /\ mgr'.sequences = With(mgr, s, row)
      /\ mgr'.ref_counts = [b \in BlockId |-> IF b \in T THEN 1
                                              ELSE IF b \in P THEN mgr.ref_counts[b] + 1 ELSE mgr.ref_counts[b]]
      /\ mgr'.block_hashes = KeysTaken(mgr, T) /\ mgr'.cached = MapTaken(mgr, T)
      /\ Queue(mgr'.free, mgr'.block_hashes) /\ IsManager(mgr')
      /\ Range(mgr'.free) = Range(mgr.free) \ (P \cup T)
      /\ text' = [text EXCEPT ![s] = tokens] /\ written' = [written EXCEPT ![s] = k * BlockTokens]
      /\ hit' = None /\ kv' = kv

LEMMA AdmitEffect ==
  ASSUME PoolInv, NEW s \in SequenceId, AdmitStep(s)
  PROVE  /\ hit # None /\ ValidHit(mgr, hit)
         /\ \E e, tokens, taken, T, row : Admits(s, e, tokens, taken, T, row)
  <1>1. PICK budget \in 1 .. MaxTokens :
          LET start == hit.cached_tokens
              e     == ChunkEnd(start, Len(hit.prompt), budget)
              chunk == SubSeq(hit.prompt, start + 1, e)
          IN  /\ e # start
              /\ CanAdmit(mgr, s, hit, chunk)
              /\ mgr' = Admit(mgr, s, hit, chunk)
              /\ text' = [text EXCEPT ![s] = SubSeq(hit.prompt, 1, e)]
              /\ written' = [written EXCEPT ![s] = start]
    BY DEF AdmitStep
  <1>2. hit # None /\ hit' = None /\ kv' = kv
    BY DEF AdmitStep
  <1> DEFINE k == Len(hit.blocks)
             start == hit.cached_tokens
             e == ChunkEnd(start, Len(hit.prompt), budget)
             chunk == SubSeq(hit.prompt, start + 1, e)
             tokens == SubSeq(hit.prompt, 1, e)
             n == DivCeil(e) - k
             P == Range(hit.blocks)
             F == Keep(mgr.free, BlockId \ P)
             taken == SubSeq(F, 1, n)
             T == Range(taken)
             rest == SubSeq(F, n + 1, Len(F))
             unhashed == IF PrefixCaching THEN <<>> \o chunk ELSE <<>>
             row == AdmittedRow(hit, chunk, taken)
             refs == RefsAdmitted(mgr, P, T)
  <1>3. /\ e # start /\ s \notin Live(mgr) /\ ValidHit(mgr, hit)
        /\ AdmitCost(mgr, hit, Len(chunk)) <= Len(mgr.free)
        /\ mgr' = Admit(mgr, s, hit, chunk)
        /\ text' = [text EXCEPT ![s] = tokens] /\ written' = [written EXCEPT ![s] = start]
    BY <1>1 DEF CanAdmit
  <1>4. budget \in Nat
    BY ManagerAssumption
  <1> HIDE DEF e, chunk, tokens, n, k, start
  <1>5. /\ start = k * BlockTokens /\ k \in Nat /\ start \in Nat /\ start % BlockTokens = 0
        /\ e \in 1 .. MaxTokens /\ start < e /\ e <= Len(hit.prompt)
        /\ chunk \in Seq(Token) /\ Len(chunk) = e - start /\ Len(chunk) \in Nat \ {0} /\ start + Len(chunk) = e
        /\ \A p \in 1 .. e - start : chunk[p] = hit.prompt[start + p]
        /\ tokens \in Seq(Token) /\ Len(tokens) = e
        /\ \A p \in 1 .. e : tokens[p] = hit.prompt[p]
        /\ n \in Nat \ {0} /\ DivCeil(e) = k + n /\ DivCeil(e) \in Nat
        /\ (k + n) * BlockTokens < e + BlockTokens
    <2>1. /\ k = Len(hit.blocks) /\ start = hit.cached_tokens /\ e = ChunkEnd(start, Len(hit.prompt), budget)
          /\ chunk = SubSeq(hit.prompt, start + 1, e) /\ tokens = SubSeq(hit.prompt, 1, e) /\ n = DivCeil(e) - k
      BY DEF e, chunk, tokens, n, k, start
    <2>2. PoolInv
      OBVIOUS
    <2>3. hit # None
      BY <1>2
    <2>4. ValidHit(mgr, hit)
      BY <1>3
    <2>5. budget \in Nat
      BY <1>4
    <2>6. e # start
      BY <1>3
    <2>7. ChunkFits(k, start, e, chunk, tokens, n)
      BY ONLY <2>1, <2>2, <2>3, <2>4, <2>5, <2>6, ChunkFacts
    <2> QED BY <2>7 DEF ChunkFits
  <1>6. /\ hit.keys \in HashKeys /\ hit.blocks \in Seq(BlockId) /\ hit.hashes \in Seq(Hashes)
    BY <1>2, <1>3, ValidHitFacts
  <1>7. n <= Len(F) /\ n \in Nat
    <2>1. DivCeil(hit.cached_tokens + Len(chunk)) = DivCeil(e)
      BY <1>5 DEF start
    <2>2. n = DivCeil(hit.cached_tokens + Len(chunk)) - Len(hit.blocks) /\ n \in Nat
          /\ DivCeil(hit.cached_tokens + Len(chunk)) \in Nat
      BY <1>5, <2>1 DEF n, k
    <2> QED BY <1>2, <1>3, <2>2, AdmitRoom
  <1>8. IsManager(mgr) /\ Queue(mgr.free, mgr.block_hashes) /\ mgr.ref_counts \in [BlockId -> Nat]
    BY PoolFacts
  <1> HIDE DEF F
  <1>9. Queue(F, mgr.block_hashes) /\ Range(F) = Range(mgr.free) \cap (BlockId \ P)
    BY <1>8, QueueRetain DEF F
  <1>10. Len(F) \in Nat
    BY <1>9, LenProperties DEF Queue
  <1>11. /\ taken \in Seq(BlockId) /\ Len(taken) = n /\ Once(taken)
         /\ Queue(rest, KeysTaken(mgr, T)) /\ Range(taken) \subseteq Range(F) /\ Range(rest) = Range(F) \ Range(taken)
    <2>1. n \in 0 .. Len(F)
      BY <1>7, <1>10
    <2>2. \A b \in BlockId : b \notin Range(SubSeq(F, 1, n)) => KeysTaken(mgr, T)[b] = mgr.block_hashes[b]
      BY DEF KeysTaken
    <2> DEFINE keys == KeysTaken(mgr, T)
    <2> HIDE DEF keys
    <2>3. \A b \in BlockId : b \notin Range(SubSeq(F, 1, n)) => keys[b] = mgr.block_hashes[b]
      BY <2>2 DEF keys
    <2>4. /\ SubSeq(F, 1, n) \in Seq(BlockId) /\ Len(SubSeq(F, 1, n)) = n /\ Once(SubSeq(F, 1, n))
          /\ Queue(SubSeq(F, n + 1, Len(F)), keys) /\ Range(SubSeq(F, 1, n)) \subseteq Range(F)
          /\ Range(SubSeq(F, n + 1, Len(F))) = Range(F) \ Range(SubSeq(F, 1, n))
      BY <1>9, <2>1, <2>3, QueueTake
    <2> QED BY <2>4 DEF keys
  <1>12. mgr' = Manager(With(mgr, s, row), refs, KeysTaken(mgr, T), rest, MapTaken(mgr, T))
    <2>1. n = DivCeil(hit.cached_tokens + Len(chunk)) - Len(hit.blocks) /\ n \in Nat
          /\ hit.cached_tokens % BlockTokens = 0 /\ Len(chunk) \in Nat \ {0}
      BY <1>5 DEF n, k, start
    <2>2. IsManager(mgr) /\ hit.blocks \in Seq(BlockId)
      BY <1>6, <1>8
    <2>3. F = Keep(mgr.free, BlockId \ Range(hit.blocks))
      BY DEF F
    <2>4. Admit(mgr, s, hit, chunk) = Manager(With(mgr, s, row), refs, KeysTaken(mgr, T), rest, MapTaken(mgr, T))
      <3>1. Admit(mgr, s, hit, chunk) = Admitted(mgr, s, hit, chunk, n)
        BY ONLY <2>1, <2>2, AdmitIs
      <3> QED BY ONLY <3>1 DEF F, Admitted
    <2> QED BY <1>3, <2>4
  <1>13. unhashed \in Seq(Token)
    BY <1>5
  <1> HIDE DEF taken, rest, P, unhashed
  <1>14. T \in SUBSET BlockId /\ T \subseteq Range(mgr.free) \ P
    <2>1. T \subseteq Range(mgr.free) \cap (BlockId \ P)
      BY <1>9, <1>11
    <2> QED BY <2>1
  <1>15. hit.blocks \o taken \in Seq(BlockId)
    BY <1>6, <1>11, ConcatProperties
  <1>16. row \in Row /\ row.keys = hit.keys /\ row.table = hit.blocks \o taken
         /\ row.scheduled = e /\ row.computed = start /\ row.hashes = hit.hashes
         /\ row.unhashed = unhashed /\ row.unresolved = 0
    <2>1. e \in Nat
      BY <1>5
    <2>2. row = [keys |-> hit.keys, table |-> hit.blocks \o taken, scheduled |-> e, computed |-> start,
                 hashes |-> hit.hashes, unhashed |-> unhashed, unresolved |-> 0]
      BY <1>5 DEF AdmittedRow, start, unhashed
    <2>3. start \in Nat /\ unhashed \in Seq(Token)
      BY <1>5, <1>13
    <2> HIDE DEF row
    <2> QED BY <1>6, <1>15, <2>1, <2>2, <2>3 DEF Row
  <1>17. PrefixCaching => /\ k * BlockTokens + Len(unhashed) = e
                          /\ \A p \in 1 .. Len(unhashed) : unhashed[p] = tokens[k * BlockTokens + p]
    <2> SUFFICES ASSUME PrefixCaching
                 PROVE  start + Len(unhashed) = e /\ \A p \in 1 .. Len(unhashed) : unhashed[p] = tokens[start + p]
      BY <1>5
    <2>1. unhashed = chunk
      <3>1. <<>> \o chunk = chunk
        BY <1>5
      <3> QED BY <3>1 DEF unhashed
    <2>2. ASSUME NEW p \in 1 .. e - start PROVE chunk[p] = tokens[start + p]
      <3>1. start + p \in 1 .. e
        <4>1. start \in Nat /\ e \in Nat /\ p \in 1 .. e - start
          BY <1>5
        <4> QED BY ONLY <4>1
      <3> QED BY <1>5, <3>1
    <2> QED BY <1>5, <2>1, <2>2
  <1>18. ~PrefixCaching => unhashed = <<>>
    BY DEF unhashed
  <1> HIDE DEF row, refs, T
  <1>19. /\ mgr'.sequences = With(mgr, s, row) /\ mgr'.ref_counts = refs
         /\ mgr'.block_hashes = KeysTaken(mgr, T) /\ mgr'.free = rest /\ mgr'.cached = MapTaken(mgr, T)
    BY <1>12, OneField
  <1>20. IsManager(mgr')
    <2>1. refs \in [BlockId -> Nat]
      BY <1>8 DEF refs, RefsAdmitted
    <2>2. rest \in Seq(BlockId)
      BY <1>11 DEF Queue
    <2> QED BY <1>8, <1>12, <2>1, <2>2, ManagerKept
  <1>21. Range(mgr'.free) = Range(mgr.free) \ (P \cup T)
    <2>1. Range(mgr.free) \subseteq BlockId
      BY PoolFacts
    <2>2. T = Range(taken)
      BY DEF T
    <2> QED BY <1>9, <1>11, <1>19, <2>1, <2>2
  <1>22. Admits(s, e, tokens, taken, T, row)
    <2>1. /\ e \in 1 .. MaxTokens /\ k * BlockTokens < e
          /\ tokens \in Seq(Token) /\ Len(tokens) = e /\ \A p \in 1 .. e : tokens[p] = hit.prompt[p]
          /\ Len(taken) \in Nat \ {0} /\ DivCeil(e) = k + Len(taken)
          /\ (k + Len(taken)) * BlockTokens < e + BlockTokens
      BY <1>5, <1>11
    <2>2. row.computed = k * BlockTokens /\ written' = [written EXCEPT ![s] = k * BlockTokens]
      BY <1>3, <1>5, <1>16
    <2>3. T = Range(taken)
      BY DEF T
    <2>4. /\ PrefixCaching => /\ k * BlockTokens + Len(row.unhashed) = e
                              /\ \A p \in 1 .. Len(row.unhashed) : row.unhashed[p] = tokens[k * BlockTokens + p]
          /\ ~PrefixCaching => row.unhashed = <<>>
      BY <1>16, <1>17, <1>18
    <2>5. Queue(mgr'.free, mgr'.block_hashes)
      BY <1>11, <1>19
    <2>6. mgr'.ref_counts = [b \in BlockId |-> IF b \in T THEN 1
                               ELSE IF b \in P THEN mgr.ref_counts[b] + 1 ELSE mgr.ref_counts[b]]
      BY <1>19 DEF refs, RefsAdmitted
    <2> QED BY <1>2, <1>3, <1>11, <1>14, <1>16, <1>19, <1>20, <1>21, <2>1, <2>2, <2>3, <2>4, <2>5, <2>6
            DEF Admits, k, P
  <1> QED BY <1>2, <1>3, <1>22



(* Keys with the same salt and extras are the same.                        *)
LEMMA SameKeys ==
  ASSUME NEW k \in HashKeys, NEW l \in HashKeys, k.salt = l.salt, k.extras = l.extras
  PROVE  k = l
  <1> DEFINE A == {h.salt : h \in HashKeys}
             B == {h.extras : h \in HashKeys}
  <1>1. k \in [salt : A, extras : B] /\ l \in [salt : A, extras : B]
    BY ManagerAssumption
  <1> HIDE DEF A, B
  <1>2. k = [salt |-> k.salt, extras |-> k.extras] /\ l = [salt |-> l.salt, extras |-> l.extras]
    BY <1>1
  <1> QED BY <1>2

\* A table of k pinned blocks P and n taken ones T, for e tokens.
TableAdmitted(e, k, n, P, T, table) ==
  /\ k \in Nat /\ n \in Nat \ {0} /\ k * BlockTokens \in Nat /\ e \in Nat
  /\ table \in Seq(BlockId) /\ Len(table) = k + n /\ DOMAIN table = 1 .. k + n /\ Once(table)
  /\ \A i \in 1 .. k : table[i] = hit.blocks[i] /\ table[i] \in P /\ table[i] \notin T
  /\ \A i \in k + 1 .. k + n : table[i] \in T
  /\ \A b \in T : \E i \in k + 1 .. k + n : table[i] = b
  /\ Range(table) = P \cup T /\ P \subseteq BlockId /\ P \cap T = {}
  /\ \A b \in P : mgr.block_hashes[b] # None
  /\ \A t \in Live(mgr) : \A b \in Range(mgr.sequences[t].table) : b \in BlockId /\ b \notin T

(* The table of an admitted sequence: the pinned blocks, then the taken.   *)
LEMMA AdmitTable ==
  ASSUME PoolInv, hit # None, ValidHit(mgr, hit), NEW s \in SequenceId, NEW e, NEW tokens, NEW taken, NEW T,
         NEW row, Admits(s, e, tokens, taken, T, row),
         NEW k, k = Len(hit.blocks), NEW n, n = Len(taken), NEW P, P = Range(hit.blocks),
         NEW table, table = row.table
  PROVE  TableAdmitted(e, k, n, P, T, table)
  <1>1. /\ k \in Nat /\ k * BlockTokens \in Nat /\ hit.blocks \in Seq(BlockId) /\ Once(hit.blocks)
        /\ \A i \in 1 .. k : mgr.block_hashes[hit.blocks[i]] # None
    BY ValidHitFacts
  <1>2. /\ n \in Nat \ {0} /\ taken \in Seq(BlockId) /\ Once(taken) /\ T = Range(taken)
        /\ e \in 1 .. MaxTokens /\ T \subseteq Range(mgr.free) \ P /\ table = hit.blocks \o taken
    BY DEF Admits
  <1>3. e \in Nat
    BY <1>2, ManagerAssumption
  <1>4. /\ \A i \in 1 .. k + n : table[i] = IF i <= k THEN hit.blocks[i] ELSE taken[i - k]
        /\ Len(table) = k + n /\ table \in Seq(BlockId)
    <2>1. hit.blocks \in Seq(BlockId) /\ taken \in Seq(BlockId)
      BY <1>1, <1>2
    <2>2. k \in Nat /\ n \in Nat
      BY <1>1, <1>2
    <2>3. Len(hit.blocks) = k /\ Len(taken) = n
      OBVIOUS
    <2>4. table = hit.blocks \o taken
      BY <1>2
    <2>5. /\ hit.blocks \o taken \in Seq(BlockId) /\ Len(hit.blocks \o taken) = Len(hit.blocks) + Len(taken)
          /\ \A i \in 1 .. Len(hit.blocks) + Len(taken) :
               (hit.blocks \o taken)[i] = IF i <= Len(hit.blocks) THEN hit.blocks[i] ELSE taken[i - Len(hit.blocks)]
      BY ONLY <2>1, ConcatProperties
    <2> QED BY <2>3, <2>4, <2>5
  <1>5. /\ \A b : b \in P <=> \E i \in 1 .. k : hit.blocks[i] = b
        /\ P \subseteq BlockId
    BY <1>1, RangeIs
  <1>6. \A b : b \in T <=> \E i \in 1 .. n : taken[i] = b
    BY <1>2, RangeIs
  <1>7. \A b : b \in Range(table) <=> \E i \in 1 .. k + n : table[i] = b
    <2>1. table \in Seq(BlockId) /\ Len(table) = k + n
      BY <1>4
    <2> QED BY ONLY <2>1, RangeIs
  <1>8. P \cap T = {}
    BY <1>2
  <1>9. ASSUME NEW i \in 1 .. k
        PROVE  table[i] = hit.blocks[i] /\ table[i] \in P /\ table[i] \notin T /\ i \in 1 .. k + n
    <2>1. i \in 1 .. k + n /\ i <= k
      BY <1>1, <1>2
    <2>2. table[i] = hit.blocks[i]
      BY <1>4, <2>1
    <2>3. table[i] \in P
      BY <1>5, <2>2
    <2> QED BY <1>8, <2>1, <2>2, <2>3
  <1>10. ASSUME NEW i \in k + 1 .. k + n
         PROVE  table[i] = taken[i - k] /\ i - k \in 1 .. n /\ table[i] \in T /\ i \in 1 .. k + n
    <2>1. i \in 1 .. k + n /\ ~(i <= k) /\ i - k \in 1 .. n
      BY <1>1, <1>2
    <2>2. table[i] = taken[i - k]
      BY <1>4, <2>1
    <2> QED BY <1>6, <2>1, <2>2
  <1>11. ASSUME NEW j \in 1 .. n
         PROVE  k + j \in k + 1 .. k + n /\ table[k + j] = taken[j]
    <2>1. k + j \in k + 1 .. k + n /\ (k + j) - k = j
      BY <1>1, <1>2
    <2> QED BY <1>10, <2>1
  <1>12. \A i \in 1 .. k + n : i \in 1 .. k \/ i \in k + 1 .. k + n
    BY <1>1, <1>2
  <1>13. \A b \in T : \E i \in k + 1 .. k + n : table[i] = b
    BY <1>6, <1>11, SMTT(30)
  <1>14. Range(table) = P \cup T
    <2>1. \A b \in Range(table) : b \in P \cup T
      BY <1>7, <1>9, <1>10, <1>12
    <2>2. \A b \in P : b \in Range(table)
      BY <1>5, <1>7, <1>9
    <2>3. \A b \in T : b \in Range(table)
      BY <1>7, <1>10, <1>13
    <2> QED BY <2>1, <2>2, <2>3
  <1>15. Once(table)
    <2>1. ASSUME NEW i \in 1 .. k + n, NEW j \in 1 .. k + n, table[i] = table[j] PROVE i = j
      <3>1. CASE i \in 1 .. k /\ j \in 1 .. k
        BY <1>1, <1>9, <2>1, <3>1 DEF Once
      <3>2. CASE i \in k + 1 .. k + n /\ j \in k + 1 .. k + n
        <4>1. taken[i - k] = taken[j - k] /\ i - k \in 1 .. n /\ j - k \in 1 .. n
          BY <1>10, <2>1, <3>2
        <4>2. i - k = j - k
          BY <1>2, <4>1 DEF Once
        <4> QED BY <1>1, <1>2, <4>2
      <3>3. CASE i \in 1 .. k /\ j \in k + 1 .. k + n
        BY <1>9, <1>10, <2>1, <3>3
      <3>4. CASE i \in k + 1 .. k + n /\ j \in 1 .. k
        BY <1>9, <1>10, <2>1, <3>4
      <3> QED BY <1>12, <3>1, <3>2, <3>3, <3>4
    <2> QED BY <1>4, <2>1 DEF Once
  <1>16. \A b \in P : mgr.block_hashes[b] # None
    BY <1>1, <1>5
  <1>17. \A t \in Live(mgr) : \A b \in Range(mgr.sequences[t].table) : b \in BlockId /\ b \notin T
    BY <1>2, PoolFacts
  <1>18. DOMAIN table = 1 .. k + n
    BY <1>4, LenProperties
  <1> QED BY <1>1, <1>2, <1>3, <1>4, <1>5, <1>8, <1>9, <1>10, <1>13, <1>14, <1>15, <1>16, <1>17, <1>18 DEF TableAdmitted

(* The record of an admitted sequence and the rest of the pool.            *)
LEMMA AdmitKeeps ==
  ASSUME PoolInv, hit # None, ValidHit(mgr, hit), NEW s \in SequenceId, NEW e, NEW tokens, NEW taken, NEW T,
         NEW row, Admits(s, e, tokens, taken, T, row)
  PROVE  /\ (Managed /\ MapAgrees /\ Queue(mgr.free, mgr.block_hashes))'
         /\ (Lengths /\ HostView /\ PublishedIsWritten /\ HitIsSound /\ Memory)'
         /\ Live(mgr') = Live(mgr) \cup {s} /\ s \in Live(mgr') /\ s \notin Live(mgr) /\ Live(mgr)' = Live(mgr')
         /\ mgr'.sequences[s] = row /\ text'[s] = tokens /\ written'[s] = Len(hit.blocks) * BlockTokens
         /\ OthersStay(s)
  <1> DEFINE k == Len(hit.blocks)
             n == Len(taken)
             P == Range(hit.blocks)
             w == k * BlockTokens
  <1>1. /\ s \notin Live(mgr) /\ e \in 1 .. MaxTokens /\ w < e
        /\ tokens \in Seq(Token) /\ Len(tokens) = e /\ \A p \in 1 .. e : tokens[p] = hit.prompt[p]
        /\ DivCeil(e) = k + n /\ T \in SUBSET BlockId
        /\ row \in Row /\ row.keys = hit.keys
        /\ row.scheduled = e /\ row.computed = w /\ row.hashes = hit.hashes /\ row.unresolved = 0
        /\ mgr'.sequences = With(mgr, s, row)
        /\ mgr'.block_hashes = KeysTaken(mgr, T) /\ mgr'.cached = MapTaken(mgr, T)
        /\ Queue(mgr'.free, mgr'.block_hashes) /\ IsManager(mgr')
        /\ text' = [text EXCEPT ![s] = tokens] /\ written' = [written EXCEPT ![s] = w]
        /\ hit' = None /\ kv' = kv
    BY DEF Admits
  <1>2. /\ PrefixCaching => /\ w + Len(row.unhashed) = e
                            /\ \A p \in 1 .. Len(row.unhashed) : row.unhashed[p] = tokens[w + p]
        /\ ~PrefixCaching => row.unhashed = <<>>
    BY DEF Admits
  <1>3. /\ k \in Nat /\ n \in Nat \ {0} /\ w \in Nat /\ e \in Nat
        /\ Len(row.table) = k + n /\ Once(row.table)
    <2> DEFINE table == row.table
    <2>1. k = Len(hit.blocks) /\ n = Len(taken) /\ P = Range(hit.blocks) /\ table = row.table /\ w = k * BlockTokens
      OBVIOUS
    <2> HIDE DEF k, n, P, w, table
    <2>2. TableAdmitted(e, k, n, P, T, table)
      BY <2>1, AdmitTable
    <2> QED BY <2>1, <2>2 DEF TableAdmitted
  <1>4. /\ Len(hit.hashes) = k /\ \A i \in 1 .. k : hit.hashes[i] = HitKey(i)
    BY ValidHitFacts
  <1>5. /\ Managed /\ MapAgrees /\ PublishedIsWritten /\ Memory
    BY DEF PoolInv
  <1> HIDE DEF k, n, w
  <1>6. w \in 0 .. MaxTokens
    BY <1>1, <1>3, ManagerAssumption
  <1>7. /\ Live(mgr') = Live(mgr) \cup {s} /\ s \in Live(mgr') /\ Live(mgr)' = Live(mgr')
        /\ mgr'.sequences[s] = row /\ text'[s] = tokens /\ written'[s] = w
        /\ OthersStay(s)
        /\ mgr'.sequences \in [Live(mgr') -> Row] /\ Live(mgr') \in SUBSET SequenceId
        /\ text' \in [SequenceId -> Seq(Token)] /\ written' \in [SequenceId -> 0 .. MaxTokens]
    BY <1>1, <1>5, <1>6, PutStep, ZenonT(30)
  <1>8. MapAgrees' /\ mgr'.block_hashes \in [BlockId -> Hashes \cup {None}] /\ DOMAIN mgr'.cached \in SUBSET Hashes
    BY <1>1, <1>5, TakenKeys
  <1>9. Managed'
    BY <1>1, <1>7, <1>8 DEF Managed
  <1>10. PublishedIsWritten'
    BY <1>1, <1>5, StillPublished
  <1>11. Lengths'
    <2>1. Len(row.hashes) * BlockTokens = w /\ Len(row.table) = DivCeil(e)
      BY <1>1, <1>3, <1>4 DEF w
    <2>2. w <= e /\ 0 <= e /\ w <= w
      BY <1>1, <1>3
    <2>3. LengthsOf(s)'
      BY <1>1, <1>3, <1>7, <2>1, <2>2 DEF LengthsOf
    <2> QED BY <1>7, <2>3, OthersKeep
  <1>12. HostView'
    <2>1. ASSUME NEW i \in 1 .. k
          PROVE  row.hashes[i] = HashBlocks(<<>>, tokens, row.keys, i)
      <3>1. row.hashes[i] = HashBlocks(<<>>, hit.prompt, hit.keys, i)
        BY <1>1, <1>4 DEF HitKey
      <3>2. i \in Nat /\ i * BlockTokens \in Nat /\ i * BlockTokens <= w
        <4>1. i \in Nat /\ i <= k /\ BlockTokens \in Nat /\ i * BlockTokens \in Nat
          BY <1>3, PoolAssumption
        <4>2. CASE i < k
          <5>1. i * BlockTokens + BlockTokens <= k * BlockTokens
            BY <1>3, <4>1, <4>2, TimesOrder
          <5> QED BY <1>3, <4>1, <5>1 DEF w
        <4>3. CASE i = k
          BY <1>3, <4>1, <4>3 DEF w
        <4> QED BY <1>3, <4>1, <4>2, <4>3
      <3>3. \A p \in 1 .. i * BlockTokens : p \in 1 .. e
        BY <1>1, <1>3, <3>2
      <3>4. SameStart(hit.prompt, tokens, i * BlockTokens)
        BY <1>1, <3>3 DEF SameStart
      <3>5. HashBlocks(<<>>, hit.prompt, hit.keys, i) = HashBlocks(<<>>, tokens, hit.keys, i)
        BY <3>2, <3>4, HashOfStart
      <3> QED BY <1>1, <3>1, <3>5
    <2>2. Len(row.hashes) = k /\ Len(row.hashes) * BlockTokens = w
      BY <1>1, <1>4 DEF w
    <2>3. /\ PrefixCaching =>
               /\ Len(row.hashes) * BlockTokens + Len(row.unhashed) + row.unresolved = row.scheduled
               /\ \A p \in 1 .. Len(row.unhashed) : row.unhashed[p] = tokens[Len(row.hashes) * BlockTokens + p]
          /\ ~PrefixCaching => row.unhashed = <<>>
      BY <1>1, <1>2, <1>3, <2>2
    <2>4. HostViewOf(s)'
      BY <1>7, <2>1, <2>2, <2>3 DEF HostViewOf
    <2> QED BY <1>7, <2>4, OthersKeep
  <1>13. HitIsSound' /\ Memory'
    BY <1>1, <1>5 DEF HitIsSound, Memory
  <1> QED BY <1>1, <1>7, <1>8, <1>9, <1>10, <1>11, <1>12, <1>13 DEF w, k



(* i blocks of the first k are full within e tokens.                       *)
LEMMA BlocksWithin ==
  ASSUME NEW i \in Nat, NEW k \in Nat, i <= k
  PROVE  i * BlockTokens \in Nat /\ k * BlockTokens \in Nat /\ i * BlockTokens <= k * BlockTokens
  <1>1. BlockTokens \in Nat /\ i * BlockTokens \in Nat /\ k * BlockTokens \in Nat
    BY PoolAssumption
  <1>2. CASE i < k
    <2>1. i * BlockTokens + BlockTokens <= k * BlockTokens
      BY <1>1, <1>2, TimesOrder
    <2> QED BY <1>1, <2>1
  <1>3. CASE i = k
    BY <1>1, <1>3
  <1> QED BY <1>1, <1>2, <1>3

(* Whoever shares the pinned blocks agrees with the admitted sequence.     *)
LEMMA AdmitShares ==
  ASSUME PoolInv, hit # None, ValidHit(mgr, hit), NEW s \in SequenceId, NEW e, NEW tokens, NEW taken, NEW T,
         NEW row, Admits(s, e, tokens, taken, T, row)
  PROVE  (SharedAgree /\ KeyedByText /\ OwnContents)'
  <1> DEFINE k == Len(hit.blocks)
             n == Len(taken)
             P == Range(hit.blocks)
             w == k * BlockTokens
             table == row.table
  <1>1. /\ w < e /\ tokens \in Seq(Token) /\ Len(tokens) = e /\ \A p \in 1 .. e : tokens[p] = hit.prompt[p]
        /\ row.keys = hit.keys /\ T \in SUBSET BlockId
        /\ mgr'.block_hashes = KeysTaken(mgr, T) /\ mgr'.cached = MapTaken(mgr, T) /\ kv' = kv
    BY DEF Admits
  <1>2. TableAdmitted(e, k, n, P, T, table)
    <2>1. k = Len(hit.blocks) /\ n = Len(taken) /\ P = Range(hit.blocks) /\ table = row.table
      OBVIOUS
    <2> HIDE DEF k, n, P, table
    <2> QED BY <2>1, AdmitTable
  <1>3. /\ k \in Nat /\ n \in Nat \ {0} /\ w \in Nat /\ e \in Nat
        /\ table \in Seq(BlockId) /\ DOMAIN table = 1 .. k + n /\ Once(table) /\ Len(table) = k + n
        /\ \A i \in 1 .. k : table[i] = hit.blocks[i] /\ table[i] \in P /\ table[i] \notin T
        /\ \A i \in k + 1 .. k + n : table[i] \in T
        /\ \A t \in Live(mgr) : \A b \in Range(mgr.sequences[t].table) : b \in BlockId /\ b \notin T
    BY <1>2 DEF TableAdmitted
  <1>4. /\ hit.keys \in HashKeys
        /\ \A i \in 1 .. k :
             /\ hit.blocks[i] \in BlockId
             /\ mgr.block_hashes[hit.blocks[i]] = HitKey(i) /\ HitKey(i) # None
             /\ \A o \in 0 .. BlockTokens - 1 :
                  kv[hit.blocks[i]][o] = Content(hit.prompt, hit.keys, (i - 1) * BlockTokens + o + 1)
    BY ValidHitFacts
  <1>5. /\ Managed /\ Lengths /\ MapAgrees /\ SharedAgree /\ KeyedByText /\ OwnContents
    BY DEF PoolInv
  <1>6. /\ Live(mgr') = Live(mgr) \cup {s} /\ s \in Live(mgr') /\ s \notin Live(mgr) /\ Live(mgr)' = Live(mgr')
        /\ mgr'.sequences[s] = row /\ text'[s] = tokens /\ written'[s] = w
        /\ OthersStay(s)
    BY AdmitKeeps
  <1>7. \A t \in Live(mgr') : t # s =>
          /\ t \in Live(mgr) /\ mgr'.sequences[t] = mgr.sequences[t] /\ text'[t] = text[t]
          /\ mgr.sequences[t].table \in Seq(BlockId) /\ mgr.sequences[t].keys \in HashKeys
          /\ text[t] \in Seq(Token) /\ Len(text[t]) \in Nat
          /\ DOMAIN mgr.sequences[t].table = 1 .. Len(mgr.sequences[t].table)
    BY <1>5, <1>6, RowFacts DEF OthersStay
  <1>8. /\ \A b \in BlockId : mgr'.block_hashes[b] # None => b \notin T /\ mgr'.block_hashes[b] = mgr.block_hashes[b]
    BY <1>1, <1>5, TakenKeys
  <1> HIDE DEF k, n, P, w, table
  <1>9. \A i \in 1 .. k + n : i \in 1 .. k \/ i \in k + 1 .. k + n
    BY <1>3
  <1>10. ASSUME NEW i \in 1 .. k
         PROVE  /\ i \in Nat \ {0} /\ i * BlockTokens \in Nat /\ i * BlockTokens < e
                /\ SameStart(hit.prompt, tokens, i * BlockTokens)
                /\ HitKey(i) = HashBlocks(<<>>, tokens, hit.keys, i)
    <2>1. i \in Nat \ {0} /\ i <= k
      BY <1>3
    <2>2. i * BlockTokens \in Nat /\ i * BlockTokens <= w
      BY <1>3, <2>1, BlocksWithin DEF w
    <2>3. i * BlockTokens < e
      BY <1>1, <1>3, <2>2
    <2>4. \A p \in 1 .. i * BlockTokens : p \in 1 .. e
      BY <1>3, <2>2, <2>3
    <2>5. SameStart(hit.prompt, tokens, i * BlockTokens)
      BY <1>1, <2>4 DEF SameStart
    <2>6. HashBlocks(<<>>, hit.prompt, hit.keys, i) = HashBlocks(<<>>, tokens, hit.keys, i)
      BY <2>1, <2>5, HashOfStart
    <2> QED BY <2>1, <2>2, <2>3, <2>5, <2>6 DEF HitKey
  <1>11. ASSUME NEW t \in Live(mgr'), t # s, NEW i \in 1 .. k + n, NEW j \in DOMAIN mgr.sequences[t].table,
                table[i] = mgr.sequences[t].table[j]
         PROVE  /\ i = j /\ hit.keys = mgr.sequences[t].keys
                /\ \A p \in 1 .. e : p <= i * BlockTokens => p <= Len(text[t]) /\ text[t][p] = tokens[p]
                /\ \A p \in 1 .. Len(text[t]) : p <= i * BlockTokens => p <= e /\ tokens[p] = text[t][p]
    <2> DEFINE q == mgr.sequences[t]
    <2>1. t \in Live(mgr) /\ q.keys \in HashKeys /\ Len(text[t]) \in Nat /\ q.table \in Seq(BlockId)
          /\ DOMAIN q.table = 1 .. Len(q.table)
      BY <1>7, <1>11
    <2>2. table[i] \in Range(q.table)
      BY <1>11 DEF Range
    <2>3. table[i] \notin T
      BY <1>3, <2>1, <2>2
    <2>4. i \in 1 .. k
      BY <1>3, <1>9, <2>3
    <2>5. mgr.block_hashes[q.table[j]] = HashBlocks(<<>>, tokens, hit.keys, i)
          /\ mgr.block_hashes[q.table[j]] # None
      BY <1>3, <1>4, <1>10, <1>11, <2>4, SMTT(30)
    <2>6. j * BlockTokens <= Len(text[t])
          /\ mgr.block_hashes[q.table[j]] = HashBlocks(<<>>, text[t], q.keys, j)
      BY <1>5, <2>1, <2>5 DEF KeyedByText, KeyedOf
    <2>7. i \in Nat \ {0} /\ j \in Nat \ {0} /\ i * BlockTokens \in Nat /\ i * BlockTokens < e
      BY <1>10, <2>1, <2>4
    <2>8. HashBlocks(<<>>, tokens, hit.keys, i) = HashBlocks(<<>>, text[t], q.keys, j)
      BY <2>5, <2>6
    <2>9. i = j /\ SameStart(tokens, text[t], i * BlockTokens)
          /\ hit.keys.salt = q.keys.salt /\ hit.keys.extras = q.keys.extras
      <3> HIDE DEF q
      <3> QED BY <2>7, <2>8, HashInjective, SMTT(30)
    <2>10. hit.keys = q.keys
      <3> HIDE DEF q
      <3> QED BY <1>4, <2>1, <2>9, SameKeys
    <2>11. ASSUME NEW p \in 1 .. e, p <= i * BlockTokens
           PROVE  p <= Len(text[t]) /\ text[t][p] = tokens[p]
      <3>1. p \in 1 .. i * BlockTokens /\ p <= Len(text[t])
        BY <1>3, <2>1, <2>6, <2>7, <2>9, <2>11
      <3> QED BY <2>9, <3>1 DEF SameStart
    <2>12. ASSUME NEW p \in 1 .. Len(text[t]), p <= i * BlockTokens
           PROVE  p <= e /\ tokens[p] = text[t][p]
      <3>1. p \in 1 .. i * BlockTokens /\ p <= e
        BY <1>3, <2>1, <2>7, <2>12
      <3> QED BY <2>9, <3>1 DEF SameStart
    <2> QED BY <2>9, <2>10, <2>11, <2>12
  <1>12. SharedAgree'
    <2>1. ASSUME NEW t \in Live(mgr'), t # s PROVE Shared(s, t)' /\ Shared(t, s)'
      <3>1. mgr'.sequences[t] = mgr.sequences[t] /\ text'[t] = text[t]
        BY <1>7, <2>1
      <3>2. Shared(s, t)'
        <4> SUFFICES ASSUME NEW i \in DOMAIN mgr'.sequences[s].table, NEW j \in DOMAIN mgr'.sequences[t].table,
                            mgr'.sequences[s].table[i] = mgr'.sequences[t].table[j]
                     PROVE  /\ i = j /\ mgr'.sequences[s].keys = mgr'.sequences[t].keys
                            /\ \A p \in 1 .. Len(text'[s]) : p <= i * BlockTokens =>
                                 p <= Len(text'[t]) /\ text'[t][p] = text'[s][p]
          BY DEF Shared, Agree
        <4>1. i \in 1 .. k + n /\ j \in DOMAIN mgr.sequences[t].table /\ table[i] = mgr.sequences[t].table[j]
          BY <1>3, <1>6, <3>1 DEF table
        <4>2. mgr'.sequences[s].keys = hit.keys /\ text'[s] = tokens /\ Len(text'[s]) = e
          BY <1>1, <1>6
        <4> QED BY <1>11, <2>1, <3>1, <4>1, <4>2
      <3>3. Shared(t, s)'
        <4> SUFFICES ASSUME NEW j \in DOMAIN mgr'.sequences[t].table, NEW i \in DOMAIN mgr'.sequences[s].table,
                            mgr'.sequences[t].table[j] = mgr'.sequences[s].table[i]
                     PROVE  /\ j = i /\ mgr'.sequences[t].keys = mgr'.sequences[s].keys
                            /\ \A p \in 1 .. Len(text'[t]) : p <= j * BlockTokens =>
                                 p <= Len(text'[s]) /\ text'[s][p] = text'[t][p]
          BY DEF Shared, Agree
        <4>1. i \in 1 .. k + n /\ j \in DOMAIN mgr.sequences[t].table /\ table[i] = mgr.sequences[t].table[j]
          BY <1>3, <1>6, <3>1 DEF table
        <4>2. mgr'.sequences[s].keys = hit.keys /\ text'[s] = tokens /\ Len(text'[s]) = e
          BY <1>1, <1>6
        <4> QED BY <1>11, <2>1, <3>1, <4>1, <4>2
      <3> QED BY <3>2, <3>3
    <2>2. Shared(s, s)'
      <3>1. \A i, j \in 1 .. k + n : table[i] = table[j] => i = j
        BY <1>3 DEF Once
      <3> QED BY <1>1, <1>3, <1>6, <3>1, SMTT(30) DEF Shared, Agree, table
    <2>3. \A t \in Live(mgr') : Shared(s, t)' /\ Shared(t, s)'
      BY <2>1, <2>2
    <2> QED BY <1>6, <2>3, OthersKeep
  <1>13. KeyedByText'
    <2>1. ASSUME NEW t \in Live(mgr'), t # s PROVE KeyedOf(t)'
      <3>1. t \in Live(mgr) /\ mgr'.sequences[t] = mgr.sequences[t] /\ text'[t] = text[t] /\ KeyedOf(t)
            /\ mgr.sequences[t].table \in Seq(BlockId)
        BY <1>5, <1>7, <2>1 DEF KeyedByText
      <3>2. \A i \in DOMAIN mgr.sequences[t].table : mgr.sequences[t].table[i] \in BlockId
        BY <3>1, ElementOfSeq, LenProperties
      <3> QED BY <1>8, <3>1, <3>2 DEF KeyedOf
    <2>2. KeyedOf(s)'
      <3>1. ASSUME NEW i \in 1 .. k + n, mgr'.block_hashes[table[i]] # None
            PROVE  i * BlockTokens <= e /\ mgr'.block_hashes[table[i]] = HashBlocks(<<>>, tokens, hit.keys, i)
        <4>1. table[i] \in BlockId
          BY <1>3, ElementOfSeq
        <4>2. table[i] \notin T /\ mgr'.block_hashes[table[i]] = mgr.block_hashes[table[i]]
          BY <1>8, <3>1, <4>1
        <4>3. i \in 1 .. k
          BY <1>3, <1>9, <4>2
        <4>4. i * BlockTokens \in Nat /\ i * BlockTokens < e
          BY <1>10, <4>3
        <4> QED BY <1>3, <1>4, <1>10, <4>2, <4>3, <4>4
      <3> QED BY <1>1, <1>3, <1>6, <3>1 DEF KeyedOf, table
    <2> QED BY <1>6, <2>1, <2>2 DEF KeyedByText
  <1>14. OwnContents'
    <2>1. ASSUME NEW p \in 1 .. w
          PROVE  kv[table[At(p)]][SlotOffset(p)] = Content(tokens, hit.keys, p)
      <3>1. p \in Nat \ {0} /\ DivCeil(w) = k
        <4>1. w = k * BlockTokens /\ w <= k * BlockTokens /\ k * BlockTokens < w + BlockTokens
          BY <1>3, PoolAssumption DEF w
        <4> QED BY <1>3, <4>1, DivCeilUnique
      <3>2. At(p) \in 1 .. k
        BY <1>3, <3>1, SlotInside
      <3>3. SlotOffset(p) \in 0 .. BlockTokens - 1 /\ p = (At(p) - 1) * BlockTokens + SlotOffset(p) + 1
        BY <3>1, SlotOf
      <3>4. kv[table[At(p)]][SlotOffset(p)] = Content(hit.prompt, hit.keys, p)
        BY <1>3, <1>4, <3>2, <3>3, SMTT(30)
      <3>5. \A i \in 1 .. p : i \in 1 .. e
        BY <1>1, <1>3
      <3>6. SameStart(hit.prompt, tokens, p)
        BY <1>1, <3>5 DEF SameStart
      <3>7. Content(hit.prompt, hit.keys, p) = Content(tokens, hit.keys, p)
        BY <3>1, <3>6, SameContent
      <3> QED BY <3>4, <3>7
    <2>2. OwnContentsOf(s)'
      BY <1>1, <1>6, <2>1 DEF OwnContentsOf, SlotBlock, At, Content, table
    <2>3. kv' = kv
      BY <1>1
    <2> QED BY <1>6, <2>2, <2>3, OthersOwn
  <1> QED BY <1>12, <1>13, <1>14



(* The ledger pins the hit's blocks and takes those of T.                  *)
LEMMA AdmitLedger ==
  ASSUME PoolInv, hit # None, ValidHit(mgr, hit), NEW s \in SequenceId, NEW e, NEW tokens, NEW taken, NEW T,
         NEW row, Admits(s, e, tokens, taken, T, row)
  PROVE  Abstract!Next
  <1> DEFINE k == Len(hit.blocks)
             n == Len(taken)
             P == Range(hit.blocks)
             w == k * BlockTokens
             table == row.table
  <1>1. /\ w < e /\ DivCeil(e) = k + n /\ (k + n) * BlockTokens < e + BlockTokens
        /\ row.scheduled = e /\ T \in SUBSET BlockId /\ T \subseteq Range(mgr.free) \ P
        /\ mgr'.block_hashes = KeysTaken(mgr, T)
        /\ mgr'.ref_counts = [b \in BlockId |-> IF b \in T THEN 1
                                ELSE IF b \in P THEN mgr.ref_counts[b] + 1 ELSE mgr.ref_counts[b]]
        /\ Range(mgr'.free) = Range(mgr.free) \ (P \cup T)
    BY DEF Admits
  <1>2. TableAdmitted(e, k, n, P, T, table)
    <2>1. k = Len(hit.blocks) /\ n = Len(taken) /\ P = Range(hit.blocks) /\ table = row.table
      OBVIOUS
    <2> HIDE DEF k, n, P, table
    <2> QED BY <2>1, AdmitTable
  <1>3. /\ k \in Nat /\ n \in Nat \ {0} /\ w \in Nat /\ e \in Nat
        /\ Len(table) = k + n
        /\ \A i \in k + 1 .. k + n : table[i] \in T
        /\ \A b \in T : \E i \in k + 1 .. k + n : table[i] = b
        /\ Range(table) = P \cup T /\ P \subseteq BlockId
        /\ \A b \in P : mgr.block_hashes[b] # None
    BY <1>2 DEF TableAdmitted
  <1>4. /\ Live(mgr') = Live(mgr) \cup {s} /\ s \in Live(mgr') /\ s \notin Live(mgr) /\ Live(mgr)' = Live(mgr')
        /\ mgr'.sequences[s] = row /\ written'[s] = w /\ OthersStay(s)
    BY AdmitKeeps
  <1>5. /\ HeldBlocks' = [HeldBlocks EXCEPT ![s] = HeldBlocks'[s]]
        /\ OpenBlocks' = [OpenBlocks EXCEPT ![s] = OpenBlocks'[s]]
        /\ UnwrittenBlocks' = [UnwrittenBlocks EXCEPT ![s] = UnwrittenBlocks'[s]]
    BY <1>4, OthersKeep
  <1> HIDE DEF k, n, P, w, table
  <1>6. HeldBlocks'[s] = P \cup T
    BY <1>3, <1>4 DEF HeldBlocks, table
  <1>7. OpenBlocks'[s] \in T \cup {None}
    <2>1. Last(table) \in T
      <3>1. k + n \in k + 1 .. k + n
        BY <1>3
      <3> QED BY <1>3, <3>1 DEF Last
    <2>2. OpenBlocks'[s] = IF e % BlockTokens = 0 THEN None ELSE Last(table)
      BY <1>1, <1>4 DEF OpenBlocks, OpenBlock, table
    <2> QED BY <2>1, <2>2
  <1>8. UnwrittenBlocks'[s] = T
    <2>1. UnwrittenBlocks'[s] = {table[At(p)] : p \in w + 1 .. e}
      BY <1>1, <1>4 DEF UnwrittenBlocks, DirtyBlocks, SlotBlock, At, table
    <2>2. ASSUME NEW p \in w + 1 .. e PROVE table[At(p)] \in T
      <3>1. p \in 1 .. e /\ p \in Nat \ {0} /\ w < p
        BY <1>3
      <3>2. At(p) \in 1 .. k + n
        BY <1>1, <1>3, <3>1, SlotInside
      <3>3. At(p) \in Nat \ {0} /\ SlotOffset(p) \in 0 .. BlockTokens - 1
            /\ p = (At(p) - 1) * BlockTokens + SlotOffset(p) + 1
        BY <3>1, SlotOf
      <3>4. ~(At(p) <= k)
        <4> SUFFICES ASSUME At(p) <= k PROVE FALSE
          OBVIOUS
        <4> DEFINE i == At(p)
                   o == SlotOffset(p)
                   a == (i - 1) * BlockTokens
        <4>1. i * BlockTokens \in Nat /\ i * BlockTokens <= w
          BY <1>3, <3>3, BlocksWithin DEF w
        <4>2. a \in Nat /\ i * BlockTokens = a + BlockTokens
          BY <3>3, ChunkIs
        <4>3. BlockTokens \in Nat /\ o \in 0 .. BlockTokens - 1 /\ p = a + o + 1
          BY <3>3, PoolAssumption
        <4> HIDE DEF i, o, a
        <4>4. p <= i * BlockTokens
          BY <4>2, <4>3
        <4> QED BY <1>3, <3>1, <4>1, <4>4
      <3>5. At(p) \in k + 1 .. k + n
        BY <1>3, <3>2, <3>3, <3>4
      <3> QED BY <1>3, <3>5
    <2>3. ASSUME NEW b \in T PROVE \E p \in w + 1 .. e : table[At(p)] = b
      <3>1. PICK i \in k + 1 .. k + n : table[i] = b
        BY <1>3
      <3>2. i \in Nat \ {0} /\ i - 1 \in Nat /\ k <= i - 1 /\ i - 1 < k + n /\ k + n \in Nat
        BY <1>3
      <3> DEFINE a == (i - 1) * BlockTokens
                 c == (k + n) * BlockTokens
                 p == a + 0 + 1
      <3>3. a \in Nat /\ w <= a
        BY <1>3, <3>2, BlocksWithin DEF w
      <3>4. a + BlockTokens <= c /\ c \in Nat /\ BlockTokens \in Nat
        BY <3>2, TimesOrder, PoolAssumption
      <3>5. c < e + BlockTokens
        BY <1>1
      <3>6. At(p) = i
        <4> DEFINE o == 0
        <4>1. o \in 0 .. BlockTokens - 1
          BY PoolAssumption
        <4> HIDE DEF o
        <4>2. At((i - 1) * BlockTokens + o + 1) = i
          BY <3>2, <4>1, SlotIs
        <4> QED BY <4>2 DEF o
      <3> HIDE DEF a, c
      <3>7. p \in w + 1 .. e
        <4>1. w \in Nat /\ e \in Nat
          BY <1>3
        <4> QED BY ONLY <3>3, <3>4, <3>5, <4>1
      <3> QED BY <3>1, <3>6, <3>7
    <2> QED BY <2>1, <2>2, <2>3
  <1>9. Abstract!Admit(s, P, T)
    <2>1. \E tail \in T \cup {None} : OpenBlocks' = [OpenBlocks EXCEPT ![s] = tail]
      BY <1>5, <1>7
    <2>2. HeldBlocks' = [HeldBlocks EXCEPT ![s] = P \cup T] /\ UnwrittenBlocks' = [UnwrittenBlocks EXCEPT ![s] = T]
      BY <1>5, <1>6, <1>8
    <2>3. mgr'.block_hashes = Abstract!Evict(T)
      BY <1>1 DEF Abstract!Evict, KeysTaken
    <2>4. T # {}
      <3>1. k + 1 \in k + 1 .. k + n
        BY <1>3
      <3> QED BY <1>3, <3>1
    <2>5. s \in SequenceId \ Live(mgr) /\ Live(mgr)' = Live(mgr) \cup {s}
      BY <1>4
    <2> QED BY <1>1, <1>3, <2>1, <2>2, <2>3, <2>4, <2>5 DEF Abstract!Admit
  <1>10. P \in SUBSET BlockId /\ T \in SUBSET BlockId
    BY <1>1, <1>3
  <1> QED BY <1>9, <1>10 DEF Abstract!Next

LEMMA AdmitPreserves ==
  ASSUME PoolInv, NEW s \in SequenceId, AdmitStep(s)
  PROVE  PoolInv' /\ Abstract!Next
  <1>1. hit # None /\ ValidHit(mgr, hit)
    BY AdmitEffect
  <1>2. PICK e, tokens, taken, T, row : Admits(s, e, tokens, taken, T, row)
    BY AdmitEffect
  <1>3. Abstract!Next
    BY <1>1, <1>2, AdmitLedger
  <1>4. Abstract!LedgerInv'
    BY <1>3, LedgerMoves
  <1>5. /\ (Managed /\ MapAgrees /\ Queue(mgr.free, mgr.block_hashes))'
        /\ (Lengths /\ HostView /\ PublishedIsWritten /\ HitIsSound /\ Memory)'
    BY <1>1, <1>2, AdmitKeeps
  <1>6. (SharedAgree /\ KeyedByText /\ OwnContents)'
    BY <1>1, <1>2, AdmitShares
  <1> QED BY <1>3, <1>4, <1>5, <1>6 DEF PoolInv


----------------------------------------------------------------------------
(* The invariant is inductive, and every step is a step of the ledger.     *)

LEMMA PoolStep ==
  ASSUME PoolInv, [Next]_vars
  PROVE  PoolInv' /\ [Abstract!Next]_(Abstract!ledgerVars)
  <1>1. CASE UNCHANGED vars
    <2>1. mgr' = mgr /\ hit' = hit /\ text' = text /\ written' = written /\ kv' = kv
      BY <1>1 DEF vars
    <2>2. UNCHANGED Abstract!ledgerVars
      BY <2>1 DEF Abstract!ledgerVars, HeldBlocks, OpenBlocks, UnwrittenBlocks, OpenBlock, DirtyBlocks, SlotBlock, Live
    <2>3. Abstract!LedgerInv'
      BY <2>2, LedgerMoves
    <2>4. (Managed /\ Lengths)'
      BY <2>1 DEF PoolInv, Managed, Lengths, LengthsOf, Live
    <2>5. HostView'
      BY <2>1 DEF PoolInv, HostView, HostViewOf, Live
    <2>6. (MapAgrees /\ Queue(mgr.free, mgr.block_hashes))'
      BY <2>1 DEF PoolInv, MapAgrees
    <2>7. SharedAgree'
      BY <2>1 DEF PoolInv, SharedAgree, Shared, Agree, Live
    <2>8. KeyedByText'
      BY <2>1 DEF PoolInv, KeyedByText, KeyedOf, Live
    <2>9. OwnContents'
      BY <2>1 DEF PoolInv, OwnContents, OwnContentsOf, SlotBlock, Content, Live
    <2>10. PublishedIsWritten'
      BY <2>1 DEF PoolInv, PublishedIsWritten
    <2>11. (HitIsSound /\ Memory)'
      BY <2>1 DEF PoolInv, HitIsSound, Memory
    <2> QED BY <2>2, <2>3, <2>4, <2>5, <2>6, <2>7, <2>8, <2>9, <2>10, <2>11 DEF PoolInv
  <1>2. CASE \E prompt \in Prompts, keys \in HashKeys : LookupPrefixStep(prompt, keys)
    BY <1>2, LookupPreserves
  <1>3. ASSUME NEW s \in SequenceId, AdmitStep(s)
        PROVE  PoolInv' /\ [Abstract!Next]_(Abstract!ledgerVars)
    BY <1>3, AdmitPreserves
  <1>4. ASSUME NEW s \in SequenceId, NEW token \in Token, AllocateStep(s, <<token>>)
        PROVE  PoolInv' /\ [Abstract!Next]_(Abstract!ledgerVars)
    BY <1>4, AllocatePreserves
  <1>5. ASSUME NEW s \in SequenceId, NEW token \in Token, AllocateUnresolvedStep(s, token)
        PROVE  PoolInv' /\ [Abstract!Next]_(Abstract!ledgerVars)
    BY <1>5, AllocateUnresolvedPreserves
  <1>6. ASSUME NEW s \in SequenceId, ResolveStep(s)
        PROVE  PoolInv' /\ [Abstract!Next]_(Abstract!ledgerVars)
    BY <1>6, ResolvePreserves
  <1>7. ASSUME NEW s \in SequenceId, Forward(s)
        PROVE  PoolInv' /\ [Abstract!Next]_(Abstract!ledgerVars)
    <2>1. PoolInv' /\ Abstract!Forward(s)
      BY <1>7, ForwardPreserves
    <2> QED BY <2>1 DEF Abstract!Next
  <1>8. ASSUME NEW s \in SequenceId, NEW computed \in 1 .. MaxTokens, CommitThroughStep(s, computed)
        PROVE  PoolInv' /\ [Abstract!Next]_(Abstract!ledgerVars)
    <2>1. computed \in Nat
      BY ManagerAssumption
    <2> QED BY <1>8, <2>1, CommitPreserves
  <1>9. ASSUME NEW s \in SequenceId, NEW child \in SequenceId, ForkStep(s, child)
        PROVE  PoolInv' /\ [Abstract!Next]_(Abstract!ledgerVars)
    <2>1. PoolInv' /\ Abstract!Fork(s, child)
      BY <1>9, ForkPreserves
    <2> QED BY <2>1 DEF Abstract!Next
  <1>10. ASSUME NEW s \in SequenceId, FreeStep(s)
         PROVE  PoolInv' /\ [Abstract!Next]_(Abstract!ledgerVars)
    <2>1. PoolInv' /\ Abstract!Free(s)
      BY <1>10, FreePreserves
    <2> QED BY <2>1 DEF Abstract!Next
  <1> QED BY <1>1, <1>2, <1>3, <1>4, <1>5, <1>6, <1>7, <1>8, <1>9, <1>10 DEF Next

(* Every reachable state of the manager and of the device memory behind it *)
(* satisfies the inductive invariant.                                      *)
THEOREM PoolInvariant == Spec => []PoolInv
  <1>1. PoolInv /\ [Next]_vars => PoolInv'
    BY PoolStep
  <1> QED BY <1>1, InitPool, PTL DEF Spec

----------------------------------------------------------------------------
(* What the invariant gives.                                               *)

(* A key of at most MaxTokens tokens is a list of hashed blocks.           *)
LEMMA HashesTyped ==
  Hashes \subseteq Seq([salt : {k.salt : k \in HashKeys} \cup {None},
                        extras : {k.extras : k \in HashKeys}, tokens : Seq(Token)])
  <1> DEFINE S == {k.salt : k \in HashKeys} \cup {None}
             X == {k.extras : k \in HashKeys}
             R == [salt : S, extras : X, tokens : Seq(Token)]
  <1> SUFFICES ASSUME NEW h \in Hashes PROVE h \in Seq(R)
    OBVIOUS
  <1>1. PICK n \in 1 .. MaxTokens \div BlockTokens :
          \E t \in [1 .. n * BlockTokens -> Token], k \in HashKeys : h = HashBlocks(<<>>, t, k, n)
    BY DEF Hashes
  <1>2. PICK t \in [1 .. n * BlockTokens -> Token], k \in HashKeys : h = HashBlocks(<<>>, t, k, n)
    BY <1>1
  <1>3. n \in Nat \ {0}
    <2> DEFINE m == MaxTokens \div BlockTokens
    <2>1. m \in Nat
      BY ManagerAssumption, PoolAssumption, Division
    <2> HIDE DEF m
    <2>2. n \in 1 .. m
      BY DEF m
    <2> QED BY <2>1, <2>2
  <1>4. ASSUME NEW i \in 1 .. n PROVE Chunk(t, i) \in Seq(Token)
    <2>1. i \in Nat \ {0} /\ i <= n
      BY <1>3
    <2> DEFINE a == (i - 1) * BlockTokens
               c == n * BlockTokens
    <2>2. Chunk(t, i) = [o \in 1 .. BlockTokens |-> t[a + o]] /\ a \in Nat /\ i * BlockTokens = a + BlockTokens
      BY <2>1, ChunkIs
    <2>3. a + BlockTokens <= c /\ c \in Nat /\ BlockTokens \in Nat
      BY <1>3, <2>1, <2>2, BlocksWithin, PoolAssumption
    <2>4. t \in [1 .. c -> Token]
      OBVIOUS
    <2> HIDE DEF a, c
    <2>5. \A o \in 1 .. BlockTokens : a + o \in 1 .. c
      BY <2>2, <2>3
    <2>6. Chunk(t, i) \in [1 .. BlockTokens -> Token]
      BY <2>2, <2>4, <2>5
    <2> QED BY <2>3, <2>6, SeqDef
  <1>5. ASSUME NEW i \in 1 .. n PROVE HashInput(i = 1, Chunk(t, i), k) \in R
    BY <1>4 DEF HashInput
  <1>6. h = [i \in 1 .. n |-> HashInput(i = 1, Chunk(t, i), k)] /\ n \in Nat
    BY <1>2, <1>3, HashIs
  <1> HIDE DEF R
  <1>7. h \in [1 .. n -> R]
    BY <1>5, <1>6
  <1> QED BY <1>6, <1>7, SeqDef



LEMMA TypesHold == PoolInv => TypeOK
  <1> SUFFICES ASSUME PoolInv PROVE TypeOK
    OBVIOUS
  <1> DEFINE Hash == Seq([salt : {k.salt : k \in HashKeys} \cup {None},
                          extras : {k.extras : k \in HashKeys}, tokens : Seq(Token)])
             c == Cardinality(SequenceId)
  <1>1. Managed /\ Lengths /\ MapAgrees /\ Abstract!CountsExact
    BY DEF PoolInv, Abstract!LedgerInv
  <1>2. Hashes \subseteq Hash
    BY HashesTyped
  <1> HIDE DEF Hash
  <1>3. mgr.ref_counts \in [BlockId -> 0 .. c]
    <2>1. mgr.ref_counts \in [BlockId -> Nat]
      BY PoolFacts
    <2>2. ASSUME NEW b \in BlockId PROVE mgr.ref_counts[b] \in 0 .. c
      <3> DEFINE H == Abstract!Holders(b)
      <3>1. H \subseteq SequenceId
        BY DEF Abstract!Holders
      <3>2. mgr.ref_counts[b] = Cardinality(H)
        BY <1>1 DEF Abstract!CountsExact, Abstract!Cardinality, Cardinality
      <3> HIDE DEF H
      <3>3. IsFiniteSet(H) /\ Cardinality(H) <= c
        BY <3>1, ManagerAssumption, FS_Subset
      <3>4. c \in Nat /\ Cardinality(H) \in Nat
        BY <3>3, ManagerAssumption, FS_CardinalityType
      <3> HIDE DEF c
      <3> QED BY <3>2, <3>3, <3>4
    <2> HIDE DEF c
    <2> QED BY <2>1, <2>2
  <1>4. mgr.block_hashes \in [BlockId -> Hash \cup {None}] /\ DOMAIN mgr.cached \subseteq Hash
    BY <1>1, <1>2 DEF Managed
  <1>5. mgr.free \in Seq(BlockId)
    BY PoolFacts DEF Queue
  <1>6. Range(mgr.cached) \subseteq BlockId
    BY <1>1 DEF MapAgrees, Range
  <1>7. Live(mgr) \subseteq SequenceId /\ text \in [SequenceId -> Seq(Token)] /\ written \in [SequenceId -> 0 .. MaxTokens]
    BY <1>1 DEF Managed
  <1>8. ASSUME NEW s \in Live(mgr)
        PROVE  mgr.sequences[s] \in
                 [keys: HashKeys, table: Seq(BlockId), scheduled: 0 .. MaxTokens,
                  computed: 0 .. MaxTokens, hashes: Seq(Hash), unhashed: Seq(Token),
                  unresolved: 0 .. MaxTokens]
    <2> DEFINE q == mgr.sequences[s]
    <2>1. /\ q \in Row /\ q.table \in Seq(BlockId) /\ q.hashes \in Seq(Hashes) /\ q.unhashed \in Seq(Token)
          /\ q.keys \in HashKeys /\ q.scheduled \in 1 .. MaxTokens
          /\ written[s] \in 0 .. q.scheduled /\ q.computed \in 0 .. written[s] /\ q.unresolved \in 0 .. q.scheduled
      BY <1>1, RowFacts
    <2>2. q = [keys |-> q.keys, table |-> q.table, scheduled |-> q.scheduled, computed |-> q.computed,
               hashes |-> q.hashes, unhashed |-> q.unhashed, unresolved |-> q.unresolved]
      <3> HIDE DEF q
      <3> QED BY <2>1 DEF Row
    <2> HIDE DEF q
    <2>3. q.scheduled \in 0 .. MaxTokens /\ q.computed \in 0 .. MaxTokens /\ q.unresolved \in 0 .. MaxTokens
      <3> DEFINE n == q.scheduled
                 w == written[s]
      <3>1. n \in 1 .. MaxTokens /\ w \in 0 .. n /\ q.computed \in 0 .. w /\ q.unresolved \in 0 .. n
        BY <2>1
      <3>2. MaxTokens \in Nat
        BY ManagerAssumption
      <3> HIDE DEF n, w
      <3>3. n \in 0 .. MaxTokens /\ q.computed \in 0 .. MaxTokens /\ q.unresolved \in 0 .. MaxTokens
        BY ONLY <3>1, <3>2
      <3> QED BY <3>3 DEF n
    <2>4. q.hashes \in Seq(Hash)
      <3>1. Len(q.hashes) \in Nat /\ \A i \in 1 .. Len(q.hashes) : q.hashes[i] \in Hash
        BY <1>2, <2>1, LenProperties, ElementOfSeq
      <3>2. q.hashes = [i \in 1 .. Len(q.hashes) |-> q.hashes[i]]
        BY <2>1, LenProperties
      <3> DEFINE m == Len(q.hashes)
                 x == q.hashes
      <3>3. m \in Nat /\ x \in [1 .. m -> Hash]
        BY <3>1, <3>2
      <3> HIDE DEF m, x
      <3>4. x \in Seq(Hash)
        BY <3>3, SeqDef
      <3> QED BY <3>4 DEF x
    <2>5. q \in [keys: HashKeys, table: Seq(BlockId), scheduled: 0 .. MaxTokens,
                 computed: 0 .. MaxTokens, hashes: Seq(Hash), unhashed: Seq(Token),
                 unresolved: 0 .. MaxTokens]
      BY <2>1, <2>2, <2>3, <2>4
    <2> QED BY <2>5 DEF q
  <1> QED BY <1>3, <1>4, <1>5, <1>6, <1>7, <1>8 DEF TypeOK, Hash, c

LEMMA AccountsHold == PoolInv => Accounting
  <1> SUFFICES ASSUME PoolInv PROVE Accounting
    OBVIOUS
  <1>1. Managed /\ Lengths /\ Abstract!CountsExact
    BY DEF PoolInv, Abstract!LedgerInv
  <1>2. \A b \in BlockId : mgr.ref_counts[b] = Cardinality(Holders(b)) /\ (b \in Range(mgr.free) <=> Holders(b) = {})
    <2> SUFFICES ASSUME NEW b \in BlockId
                 PROVE  mgr.ref_counts[b] = Cardinality(Holders(b)) /\ (b \in Range(mgr.free) <=> Holders(b) = {})
      OBVIOUS
    <2> DEFINE H == Holders(b)
    <2>1. Live(mgr) \subseteq SequenceId
      BY <1>1 DEF Managed
    <2>2. H = Abstract!Holders(b)
      BY <2>1 DEF Abstract!Holders, HeldBlocks, Holders
    <2>3. mgr.ref_counts[b] = Cardinality(H) /\ (b \in Range(mgr.free) <=> mgr.ref_counts[b] = 0)
      BY <1>1, <2>2 DEF Abstract!CountsExact, Abstract!Cardinality, Cardinality
    <2>4. H \subseteq SequenceId
      BY <2>1 DEF Holders
    <2> HIDE DEF H
    <2>5. IsFiniteSet(H)
      BY <2>4, ManagerAssumption, FS_Subset
    <2>6. Cardinality(H) = 0 <=> H = {}
      BY <2>5, FS_EmptySet
    <2>7. mgr.ref_counts[b] = Cardinality(H) /\ (b \in Range(mgr.free) <=> H = {})
      BY <2>3, <2>6
    <2> QED BY <2>7 DEF H
  <1>3. mgr.free \in Seq(BlockId) /\ Once(mgr.free)
    BY PoolFacts DEF Queue
  <1>4. ASSUME NEW b \in BlockId
        PROVE  Cardinality({i \in DOMAIN mgr.free : mgr.free[i] = b}) = (IF Holders(b) = {} THEN 1 ELSE 0)
    <2>1. DOMAIN mgr.free = 1 .. Len(mgr.free) /\ \A i, j \in 1 .. Len(mgr.free) : mgr.free[i] = mgr.free[j] => i = j
      BY <1>3, LenProperties DEF Once
    <2> DEFINE Q == {i \in DOMAIN mgr.free : mgr.free[i] = b}
    <2>2. CASE b \in Range(mgr.free)
      <3>1. PICK i \in DOMAIN mgr.free : mgr.free[i] = b
        BY <2>2 DEF Range
      <3>2. Q = {i}
        BY <2>1, <3>1
      <3>3. Cardinality({i}) = 1
        BY FS_Singleton
      <3> QED BY <1>2, <2>2, <3>2, <3>3
    <2>3. CASE b \notin Range(mgr.free)
      <3>1. Q = {}
        BY <2>3 DEF Range
      <3>2. Cardinality({}) = 0
        BY FS_EmptySet
      <3> QED BY <1>2, <2>3, <3>1, <3>2
    <2> QED BY <2>2, <2>3
  <1>5. ASSUME NEW s \in Live(mgr)
        PROVE  Len(mgr.sequences[s].table) = DivCeil(mgr.sequences[s].scheduled) /\ IsInjective(mgr.sequences[s].table)
    <2>1. /\ Len(mgr.sequences[s].table) = DivCeil(mgr.sequences[s].scheduled)
          /\ DOMAIN mgr.sequences[s].table = 1 .. Len(mgr.sequences[s].table)
          /\ \A i, j \in 1 .. Len(mgr.sequences[s].table) :
               mgr.sequences[s].table[i] = mgr.sequences[s].table[j] => i = j
      BY <1>1, RowFacts
    <2> QED BY <2>1 DEF IsInjective
  <1> QED BY <1>2, <1>4, <1>5, TypesHold DEF Accounting

LEMMA CacheHolds == PoolInv => CacheConsistent
  <1> SUFFICES ASSUME PoolInv PROVE CacheConsistent
    OBVIOUS
  <1>1. PublishedIsWritten /\ MapAgrees /\ HostView
    BY DEF PoolInv
  <1>2. PrefixCaching => \A s \in Live(mgr) :
          LET q == mgr.sequences[s]
          IN  Len(q.hashes) * BlockTokens + Len(q.unhashed) + q.unresolved = q.scheduled
    BY <1>1 DEF HostView, HostViewOf
  <1> QED BY <1>1, <1>2 DEF CacheConsistent, MapAgrees

LEMMA ReadsHold == PoolInv => ReadsOwnTokens
  <1> SUFFICES ASSUME PoolInv PROVE ReadsOwnTokens
    OBVIOUS
  <1>1. SharedAgree /\ OwnContents
    BY DEF PoolInv
  <1>2. SaltsNeverShare
    <2> SUFFICES ASSUME NEW s \in Live(mgr), NEW t \in Live(mgr),
                        Range(mgr.sequences[s].table) \cap Range(mgr.sequences[t].table) # {}
                 PROVE  mgr.sequences[s].keys = mgr.sequences[t].keys
      BY DEF SaltsNeverShare
    <2>1. PICK i \in DOMAIN mgr.sequences[s].table, j \in DOMAIN mgr.sequences[t].table :
            mgr.sequences[s].table[i] = mgr.sequences[t].table[j]
      BY DEF Range
    <2> QED BY <1>1, <2>1 DEF SharedAgree, Shared
  <1> QED BY <1>1, <1>2 DEF ReadsOwnTokens, OwnContents, OwnContentsOf

LEMMA OrderHolds == PoolInv => UnkeyedReusedFirst
  <1> SUFFICES ASSUME PoolInv PROVE UnkeyedReusedFirst
    OBVIOUS
  <1>1. mgr.free \in Seq(BlockId) /\ UnkeyedFirst(mgr.free, mgr.block_hashes)
    BY PoolFacts DEF Queue
  <1>2. DOMAIN mgr.free = 1 .. Len(mgr.free)
    BY <1>1, LenProperties
  <1> QED BY <1>1, <1>2 DEF UnkeyedReusedFirst, UnkeyedFirst

(* Reference counts are the tables that hold a block, the free queue has   *)
(* each unheld block once and no other, and a table has exactly the blocks *)
(* its tokens need (Pool::take_free, add_ref, release; check_invariants).  *)
THEOREM PoolAccounts == Spec => []Accounting
  BY PoolInvariant, AccountsHold, PTL

(* What the prefix cache may serve is written, named by its key and mapped *)
(* both ways, and the host's view of a tail covers its scheduled tokens    *)
(* (commit_through, take_free, resolve).                                   *)
THEOREM CacheIsConsistent == Spec => []CacheConsistent
  BY PoolInvariant, CacheHolds, PTL

(* A written position of a live sequence holds what its own forward would  *)
(* have written there, however the block was shared, copied or reused, and *)
(* sequences with different keys share no block (reserve, fork, admit).    *)
THEOREM SequencesReadTheirOwn == Spec => []ReadsOwnTokens
  BY PoolInvariant, ReadsHold, PTL

(* No cached block stands before an unkeyed one on the free queue          *)
(* (Pool::release).                                                        *)
THEOREM UnkeyedGoFirst == Spec => []UnkeyedReusedFirst
  BY PoolInvariant, OrderHolds, PTL

----------------------------------------------------------------------------
(* The refinement.                                                         *)

LEMMA LedgerStarts == Abstract!Init => Ledger!Init
  BY DEF Abstract!Init, Ledger!Init

LEMMA LedgerSteps == [Abstract!Next]_(Abstract!ledgerVars) => [Ledger!Next]_(Ledger!ledgerVars)
  <1>1. UNCHANGED Abstract!ledgerVars => UNCHANGED Ledger!ledgerVars
    BY DEF Abstract!ledgerVars, Ledger!ledgerVars
  <1>2. ASSUME NEW s \in SequenceId, NEW P \in SUBSET BlockId, NEW T \in SUBSET BlockId, Abstract!Admit(s, P, T)
        PROVE  Ledger!Admit(s, P, T)
    BY <1>2 DEF Abstract!Admit, Ledger!Admit, Abstract!Evict, Ledger!Evict
  <1>3. ASSUME NEW s \in SequenceId, Abstract!AppendInPlace(s)
        PROVE  Ledger!AppendInPlace(s)
    BY <1>3 DEF Abstract!AppendInPlace, Ledger!AppendInPlace, Abstract!NeedsCopy, Ledger!NeedsCopy
  <1>4. ASSUME NEW s \in SequenceId, NEW T \in SUBSET BlockId, Abstract!AppendTaking(s, T)
        PROVE  Ledger!AppendTaking(s, T)
    BY <1>4 DEF Abstract!AppendTaking, Ledger!AppendTaking, Abstract!NeedsCopy, Ledger!NeedsCopy,
                Abstract!Evict, Ledger!Evict
  <1>5. ASSUME NEW s \in SequenceId, Abstract!Forward(s)
        PROVE  Ledger!Forward(s)
    BY <1>5 DEF Abstract!Forward, Ledger!Forward
  <1>6. ASSUME NEW s \in SequenceId, NEW full \in SUBSET BlockId, NEW new \in [full -> Hashes], Abstract!Publish(s, new)
        PROVE  Ledger!Publish(s, new)
    BY <1>6 DEF Abstract!Publish, Ledger!Publish
  <1>7. ASSUME NEW s \in SequenceId, NEW t \in SequenceId, Abstract!Fork(s, t)
        PROVE  Ledger!Fork(s, t)
    BY <1>7 DEF Abstract!Fork, Ledger!Fork
  <1>8. ASSUME NEW s \in SequenceId, Abstract!Free(s)
        PROVE  Ledger!Free(s)
    BY <1>8 DEF Abstract!Free, Ledger!Free
  <1> QED BY <1>1, <1>2, <1>3, <1>4, <1>5, <1>6, <1>7, <1>8 DEF Abstract!Next, Ledger!Next

(* The manager, with its ordered queue, its tables and its hash chains,    *)
(* implements the ledger: every call is a step of the ledger or leaves it. *)
THEOREM ManagerImplementsLedger == Spec => ImplementsLedger
  <1>1. Init => Ledger!Init
    BY InitLedger, LedgerStarts
  <1>2. PoolInv /\ [Next]_vars => [Ledger!Next]_(Ledger!ledgerVars)
    BY PoolStep, LedgerSteps
  <1> QED BY <1>1, <1>2, PoolInvariant, PTL DEF Spec, ImplementsLedger, Ledger!LedgerSpec


=============================================================================
