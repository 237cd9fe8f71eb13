---------------------------- MODULE WeightStore ----------------------------
(***************************************************************************)
(* The weights directory of a checkpoint larger than the disk budget       *)
(* (crates/app/cli/src/range_fetch.rs): tensors fetched on a miss, evicted *)
(* a whole routed expert at a time, their receipts kept; and the journal   *)
(* that carries recency across restarts.  Reads of single tensors          *)
(* (FetchingSource::read_range) by several threads; row reads are in       *)
(* RowPack.                                                                *)
(*                                                                         *)
(* A tensor is one byte long, and its content stands for its digest.  The  *)
(* process may stop between any two steps and part-way through the         *)
(* unlinks of an eviction.  Writes are renames and either happen or not; a *)
(* failed one is the failure of the read.                                  *)
(***************************************************************************)
EXTENDS Integers, Sequences, FiniteSets, FiniteSetsExt, Functions, Lines

CONSTANTS
  Thread,
  Tensor,
  ExpertOf,        \* [Tensor -> a number or 0]: routed_expert, 0 for other tensors
  Pinned,          \* experts of pinned-experts.json
  MaxAcquired,     \* Envelope::max_acquired_bytes
  Squeeze,         \* bytes by which free space may be short of min_free_bytes
  Content,         \* [Tensor -> what the host may serve for it]
  JournalFactor, JournalSlack,  \* touch: lines beyond which the journal is rewritten
  MaxDownloads,    \* bound: fetches
  MaxRestarts      \* bound: restarts

NotStored == 0

ASSUME WeightAssumption ==
  /\ IsFiniteSet(Tensor) /\ ExpertOf \in [Tensor -> Nat]
  /\ DOMAIN Content = Tensor /\ \A x \in Tensor : NotStored \notin Content[x]
  /\ Squeeze \subseteq Nat /\ Squeeze # {}
  /\ {MaxAcquired, JournalFactor, JournalSlack, MaxDownloads, MaxRestarts} \subseteq Nat

VARIABLES
  bins, receipts,  \* [Tensor -> content or NotStored]: the directory
  journal,         \* the lines of JOURNAL, or NoJournal
  store,           \* Store: [acquired, bytes, age, last, lines]
  fetcher,         \* who holds `acquiring`
  reader,          \* what each thread is doing
  downloads, restarts

weightVars == <<bins, receipts, journal, store, fetcher, reader, downloads, restarts>>

NoJournal == <<0>>
NoExpert == 0
Experts == {ExpertOf[x] : x \in Tensor} \ {NoExpert}
PartsOf(e) == {x \in Tensor : ExpertOf[x] = e}
BinsOf(disk, S) == {x \in S : disk[x] # NotStored}
AtRest == [at |-> "idle"]

----------------------------------------------------------------------------
(* Store: bytes and age are its maps by expert and by last use.            *)

\* mark_used, of an expert that is stored
MarkUsed(age, e) == Append(Keep(age, Experts \ {e}), e)

\* A mutated Touch: a use is not written down.
TouchUnwritten(e) ==
  IF store.last = e \/ e \notin DOMAIN store.bytes THEN UNCHANGED <<store, journal>>
  ELSE /\ store' = [store EXCEPT !.age = MarkUsed(@, e), !.last = e]
       /\ UNCHANGED journal

\* touch, with append and compact_journal
Touch(e) ==
  IF store.last = e \/ e \notin DOMAIN store.bytes THEN UNCHANGED <<store, journal>>
  ELSE LET age == MarkUsed(store.age, e)
           compacts == store.lines > JournalFactor * Cardinality(DOMAIN store.bytes) + JournalSlack
       IN  /\ journal' = IF compacts THEN age ELSE IF journal = NoJournal THEN <<e>> ELSE Append(journal, e)
           /\ store' = [store EXCEPT !.age = age, !.last = e,
                                     !.lines = IF compacts THEN Len(age) ELSE @ + 1]

\* A mutated Evictable: pins are not looked at.
EvictableAll(keep) == Keep(store.age, Experts \ {keep})

Evictable(keep) == Keep(store.age, Experts \ (Pinned \cup {keep}))

\* A mutated Shortfall: the bytes about to be stored are not counted.
ShortfallStored(length, squeeze) == Max({0, store.acquired - MaxAcquired, squeeze})

Shortfall(length, squeeze) == Max({0, store.acquired + length - MaxAcquired, squeeze})

\* victims: how many of the evictable ones it takes, longest unused first, or
\* Refused when they do not suffice
NoRoom == -1
Victims(length, squeeze, keep) ==
  LET candidates == Evictable(keep)
      frees(n) == SumFunctionOnSet(store.bytes, {candidates[i] : i \in 1 .. n})
      enough == {n \in 0 .. Len(candidates) : frees(n) >= Shortfall(length, squeeze)}
  IN  IF enough = {} THEN NoRoom ELSE Min(enough)

\* A mutated Evicted: the bytes are still counted.
EvictedCounted(s, es) ==
  [s EXCEPT !.bytes = [e \in DOMAIN @ \ es |-> @[e]],
            !.age = Keep(@, Experts \ es),
            !.last = IF @ \in es THEN NoExpert ELSE @]

\* evict, for each of `es`
Evicted(s, es) ==
  [s EXCEPT !.acquired = @ - SumFunctionOnSet(s.bytes, es),
            !.bytes = [e \in DOMAIN @ \ es |-> @[e]],
            !.age = Keep(@, Experts \ es),
            !.last = IF @ \in es THEN NoExpert ELSE @]

\* stored
Counted(s, x, replaced) ==
  LET e == ExpertOf[x]
      before == IF e \in DOMAIN s.bytes THEN s.bytes[e] ELSE 0
  IN  [s EXCEPT !.acquired = @ - replaced + 1,
                !.bytes = IF e = NoExpert THEN @
                          ELSE [f \in DOMAIN @ \cup {e} |-> IF f = e THEN before - replaced + 1 ELSE @[f]],
                !.age = IF e = NoExpert \/ e \in DOMAIN s.bytes THEN @ ELSE MarkUsed(@, e)]

\* Store::open: every expert by its last use in the journal; those the journal
\* never saw are the oldest, in name order
Opened(disk) ==
  LET bytes == [e \in {f \in Experts : BinsOf(disk, PartsOf(f)) # {}} |->
                  Cardinality(BinsOf(disk, PartsOf(e)))]
      inOrder == AtPlaces([e \in Experts |-> e], DOMAIN bytes)
      uses == IF journal = NoJournal THEN inOrder ELSE inOrder \o journal
      age == AtPlaces(uses, {i \in DOMAIN uses : /\ uses[i] \in DOMAIN bytes
                                                 /\ \A j \in DOMAIN uses : j > i => uses[j] # uses[i]})
  IN  [acquired |-> Cardinality(BinsOf(disk, Tensor)), bytes |-> bytes, age |-> age,
       last |-> NoExpert, lines |-> IF journal = NoJournal THEN 0 ELSE Len(age)]

WeightInit ==
  /\ bins = [x \in Tensor |-> NotStored] /\ receipts = [x \in Tensor |-> NotStored]
  /\ journal = NoJournal
  /\ store = Opened(bins)
  /\ fetcher = {} /\ reader = [t \in Thread |-> AtRest]
  /\ downloads = 0 /\ restarts = 0

----------------------------------------------------------------------------
(* FetchingSource::read_range.                                             *)

Goes(t, next) == reader' = [reader EXCEPT ![t] = next]

\* V41LocalWeightsSource::read_range: a payload that matches its receipt
LocalRead(x) ==
  IF receipts[x] = NotStored \/ bins[x] = NotStored THEN "not local"
  ELSE IF bins[x] = receipts[x] THEN "read" ELSE "hash mismatch"

\* The first local read, then acquire_tensor or the touch
ReadTensor(t, x) ==
  /\ reader[t] = AtRest
  /\ Goes(t, CASE LocalRead(x) = "read" -> [at |-> "touching", tensor |-> x]
               [] LocalRead(x) = "not local" -> [at |-> "missing", tensor |-> x]
               [] OTHER -> AtRest)
  /\ UNCHANGED <<bins, receipts, journal, store, fetcher, downloads, restarts>>

\* A mutated BeginFetch: the lock is not awaited.
BeginFetchUnlocked(t) ==
  /\ reader[t].at = "missing" /\ downloads < MaxDownloads
  /\ Goes(t, [reader[t] EXCEPT !.at = "fetching"]) /\ fetcher' = fetcher \cup {t}
  /\ UNCHANGED <<bins, receipts, journal, store, downloads, restarts>>

\* acquire_tensor: the lock, then a refusal before the download
BeginFetch(t) ==
  /\ reader[t].at = "missing" /\ fetcher = {} /\ downloads < MaxDownloads
  /\ \E squeeze \in Squeeze :
       IF Victims(1, squeeze, ExpertOf[reader[t].tensor]) = NoRoom
       THEN Goes(t, AtRest) /\ UNCHANGED fetcher
       ELSE Goes(t, [reader[t] EXCEPT !.at = "fetching"]) /\ fetcher' = {t}
  /\ UNCHANGED <<bins, receipts, journal, store, downloads, restarts>>

\* A mutated Reproduced: the receipt of an evicted tensor is not looked at.
ReproducedAlways(x, content) == TRUE

Reproduced(x, content) == receipts[x] \in {NotStored, content}

\* The download fails, or does not reproduce the receipt
DownloadFails(t) ==
  /\ reader[t].at = "fetching"
  /\ Goes(t, AtRest) /\ fetcher' = {}
  /\ downloads' = downloads + 1
  /\ UNCHANGED <<bins, receipts, journal, store, restarts>>

WithoutBins(disk, S) == [x \in Tensor |-> IF x \in S THEN NotStored ELSE disk[x]]

\* With the bytes in hand: evict, write the payload, count it
StorePayload(t) ==
  /\ reader[t].at = "fetching"
  /\ \E content \in Content[reader[t].tensor], squeeze \in Squeeze :
       LET x == reader[t].tensor
           n == Victims(1, squeeze, ExpertOf[x])
           es == {Evictable(ExpertOf[x])[i] : i \in 1 .. n}
           gone == UNION {PartsOf(e) : e \in es}
           replaced == IF bins[x] = NotStored THEN 0 ELSE 1
       IN  /\ n # NoRoom
           /\ Reproduced(x, content)
           /\ bins' = [WithoutBins(bins, gone) EXCEPT ![x] = content]
           /\ store' = Counted(Evicted(store, es), x, replaced)
           /\ Goes(t, [at |-> "receipt", tensor |-> x, content |-> content])
  /\ downloads' = downloads + 1
  /\ UNCHANGED <<receipts, journal, fetcher, restarts>>

\* The receipt, unless there is one; then the lock is released
WriteReceipt(t) ==
  /\ reader[t].at = "receipt"
  /\ receipts' = [receipts EXCEPT ![reader[t].tensor] = IF @ = NotStored THEN reader[t].content ELSE @]
  /\ fetcher' = {}
  /\ Goes(t, [at |-> "reread", tensor |-> reader[t].tensor])
  /\ UNCHANGED <<bins, journal, store, downloads, restarts>>

\* The second local read.  Another thread may have evicted the tensor since:
\* the read then fails with NotLocal.
Reread(t) ==
  /\ reader[t].at = "reread"
  /\ Goes(t, IF LocalRead(reader[t].tensor) = "read" THEN [reader[t] EXCEPT !.at = "touching"] ELSE AtRest)
  /\ UNCHANGED <<bins, receipts, journal, store, fetcher, downloads, restarts>>

TouchRead(t) ==
  /\ reader[t].at = "touching"
  /\ Touch(ExpertOf[reader[t].tensor])
  /\ Goes(t, AtRest)
  /\ UNCHANGED <<bins, receipts, fetcher, downloads, restarts>>

\* note_memory_hit
MemoryHit(e) ==
  /\ store.last # e /\ e \in DOMAIN store.bytes
  /\ Touch(e)
  /\ UNCHANGED <<bins, receipts, fetcher, reader, downloads, restarts>>

\* The process stops, perhaps part-way through the unlinks of an eviction,
\* and opens the directory again.
Restart ==
  /\ restarts < MaxRestarts
  /\ \E lost \in {{}} \cup {s \in SUBSET UNION {PartsOf(e) : e \in Experts \ Pinned} :
                              \E t \in Thread : reader[t].at = "fetching"} :
       LET disk == WithoutBins(bins, lost)
       IN  /\ \E e \in Experts : lost \subseteq PartsOf(e)
           /\ bins' = disk
           /\ store' = Opened(disk)
           /\ journal' = IF journal = NoJournal THEN NoJournal ELSE Opened(disk).age
  /\ fetcher' = {} /\ reader' = [t \in Thread |-> AtRest]
  /\ restarts' = restarts + 1
  /\ UNCHANGED <<receipts, downloads>>

WeightNext ==
  \/ \E t \in Thread :
       \/ \E x \in Tensor : ReadTensor(t, x)
       \/ BeginFetch(t)
       \/ DownloadFails(t)
       \/ StorePayload(t)
       \/ WriteReceipt(t)
       \/ Reread(t)
       \/ TouchRead(t)
  \/ \E e \in Experts : MemoryHit(e)
  \/ Restart

WeightSpec == WeightInit /\ [][WeightNext]_weightVars

----------------------------------------------------------------------------
(* Properties.                                                             *)

WeightTypeOK ==
  /\ \A x \in Tensor : {bins[x], receipts[x]} \subseteq Content[x] \cup {NotStored}
  /\ DOMAIN bins = Tensor /\ DOMAIN receipts = Tensor
  /\ store.last \in Experts \cup {NoExpert}
  /\ Cardinality(fetcher) <= 1

\* The store counts what is on disk: all payloads, those of each expert, and
\* every expert with a payload has one place in the order of use; through
\* evictions, payloads written over others, and stops half-way.
AcquiredExact ==
  /\ store.acquired = Cardinality(BinsOf(bins, Tensor))
  /\ DOMAIN store.bytes = {e \in Experts : BinsOf(bins, PartsOf(e)) # {}}
  /\ \A e \in DOMAIN store.bytes : store.bytes[e] = Cardinality(BinsOf(bins, PartsOf(e)))
  /\ Range(store.age) = DOMAIN store.bytes /\ Len(store.age) = Cardinality(DOMAIN store.bytes)

\* A payload with a receipt hashes to it: a tensor evicted and fetched again,
\* or whose payload was written but not its receipt when the process stopped,
\* does not fail every later read.
PayloadMatchesReceipt ==
  \A x \in Tensor : NotStored \in {bins[x], receipts[x]} \/ bins[x] = receipts[x]

\* Concurrent misses never overrun the envelope jointly, nor with a restart
\* in between; the store's counts and its receipts are those of the disk.
WithinEnvelope ==
  /\ WeightTypeOK
  /\ AcquiredExact
  /\ PayloadMatchesReceipt
  /\ Cardinality(BinsOf(bins, Tensor)) <= MaxAcquired

\* Nothing ever deletes a pinned expert's payload.
PinnedStay ==
  \A e \in Pinned \cap Experts : BinsOf(bins, PartsOf(e)) \subseteq BinsOf(bins', PartsOf(e))

\* Experts whose last use a reader has still to write down
InFlight == {ExpertOf[reader[t].tensor] : t \in {u \in Thread : reader[u].at \in {"receipt", "reread", "touching"}}}

\* A restart keeps the order in which experts were used, but for uses that were
\* being made when the process stopped.
RestartKeepsRecency ==
  restarts' # restarts =>
    LET settled == DOMAIN store'.bytes \ InFlight
    IN  Keep(store'.age, settled) = Keep(store.age, settled)

\* What is evicted first: never a pinned expert, and what was longest unused,
\* also after a restart.
EvictionFollowsUse == [][PinnedStay /\ RestartKeepsRecency]_weightVars
=============================================================================
