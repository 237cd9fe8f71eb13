---------------------------- MODULE PrefixReuse ----------------------------
(***************************************************************************)
(* Reuse of prefilled prompt K/V by a serial chat worker: the in-memory    *)
(* cache (crates/app/cli/src/qwen_prefix_cache.rs) and the store that      *)
(* keeps entries on disk across restarts (crates/app/cli/src/              *)
(* prefix_store.rs), with its background writer.                           *)
(*                                                                         *)
(* The K/V of a position is the number of the turn that computed it, so an *)
(* entry's K/V is a sequence of turn numbers, and whether values of two    *)
(* computations were joined can be seen.  Keys are the salt and the tokens *)
(* themselves: SHA-256 is taken to be injective, and both are compared on  *)
(* every hit.  A position costs one byte in memory and on disk, a token    *)
(* one more in memory.  Clocks are kept as the order they put entries in.  *)
(* The process may be killed at any moment (the front process kills a      *)
(* child that missed its deadline); a file whose header and length do not  *)
(* agree and one that is missing fail the same check, so one kind of       *)
(* damage stands for both.                                                 *)
(***************************************************************************)
EXTENDS Integers, Sequences, FiniteSets, SequencesExt, FiniteSetsExt

CONSTANTS
  Identity,      \* identity records a restart may come up with
  Prompt,        \* records [salt, ids, preamble, conversation]: cache salt (one value may
                 \* stand for none), tokens and boundaries
  CacheBudget,   \* PrefixCache::budget_bytes
  StoreBudget,   \* [0 .. MaxKills -> Nat]: Index::budget_bytes after so many restarts
  WriteQueue,    \* QUEUE
  MaxTurns,      \* bound: turns
  MaxKills,      \* bound: restarts
  MaxStoreFaults \* bound: files damaged from outside and writes that fail

ASSUME ReuseAssumption ==
  /\ \A p \in Prompt : 0 <= p.preamble /\ p.preamble <= p.conversation /\ p.conversation < Len(p.ids)
  /\ {CacheBudget, WriteQueue, MaxTurns, MaxKills, MaxStoreFaults} \subseteq Nat
  /\ StoreBudget \in [0 .. MaxKills -> Nat]

VARIABLES
  cache,      \* PrefixCache: [entries, used, order], order from least recently used
  index,      \* Index: [order, used], the keys from least recently used
  files,      \* [Identity -> the entry files of its directory, oldest first]
  jobs,       \* writes queued for the writer
  writer,     \* the writer's job and how far it is
  turn,       \* the turn between its prefill and its end, or NoTurn
  identity,   \* of the running process
  turns,      \* what each turn so far was asked and the K/V it computed
  kills, damage, errors

cacheVars == <<cache, turn, turns>>
storeVars == <<index, files, writer>>
faultVars == <<identity, kills, damage, errors>>
reuseVars == <<cacheVars, storeVars, jobs, faultVars>>

NoTurn == <<>>
IdleWriter == [at |-> "idle"]
EmptyCache == [entries |-> <<>>, used |-> 0, order |-> <<>>]

ReuseInit ==
  /\ cache = EmptyCache
  /\ index = [order |-> <<>>, used |-> 0]
  /\ files = [i \in Identity |-> <<>>]
  /\ jobs = <<>>
  /\ writer = IdleWriter
  /\ turn = NoTurn
  /\ identity \in Identity
  /\ turns = <<>>
  /\ kills = 0 /\ damage = 0 /\ errors = 0

----------------------------------------------------------------------------
(* PrefixCache.  An entry is [id, base, kv, bytes, role, parent, children]:*)
(* id stands for the address of its snapshot, base for the snapshot it     *)
(* extends, and kv for the values of all its positions.                    *)

NoParent == <<>>
Without(s, k) == SelectSeq(s, LAMBDA l : l # k)

\* A mutated Reusable: the salt is in the key only.
ReusableAnySalt(keys, salt, ids) == {k \in keys : IsStrictPrefix(k[2], ids)}

\* PrefixCache::longest, Index candidates: whole entries that leave a prompt token
Reusable(keys, salt, ids) == {k \in keys : k[1] = salt /\ IsStrictPrefix(k[2], ids)}
Longest(keys) == CHOOSE k \in keys : \A l \in keys : Len(l[2]) <= Len(k[2])
LongestLen(keys) == IF keys = {} THEN 0 ELSE Len(Longest(keys)[2])

\* PrefixCache::lookup: a shared parent stays as recent as its child
Refresh(c, k) ==
  LET parent == c.entries[k].parent
      others == Without(Without(c.order, k), parent)
  IN  [c EXCEPT !.order = others \o (IF parent = NoParent THEN <<k>> ELSE <<parent, k>>)]

\* A mutated Drop: the parent is not told.
DropUntold(c, k) ==
  [entries |-> Restrict(c.entries, DOMAIN c.entries \ {k}),
   used |-> c.used - c.entries[k].bytes, order |-> Without(c.order, k)]

\* PrefixCache::remove
Drop(c, k) ==
  [entries |-> [l \in DOMAIN c.entries \ {k} |->
                  IF l = c.entries[k].parent THEN [c.entries[l] EXCEPT !.children = @ - 1]
                  ELSE c.entries[l]],
   used |-> c.used - c.entries[k].bytes, order |-> Without(c.order, k)]

EntryBytes(own, tokens) == own + Len(tokens)

\* PrefixCache::admits
Admits(c, k, own) ==
  /\ k[2] # <<>>
  /\ EntryBytes(own, k[2]) <= CacheBudget
  /\ k \notin DOMAIN c.entries

\* Earlier turns of the same conversation
Superseded(c, k, role) ==
  {l \in DOMAIN c.entries : /\ role = "conversation" /\ c.entries[l].role = "conversation"
                            /\ l[1] = k[1] /\ IsStrictPrefix(l[2], k[2])}

\* The entries insert may evict: nothing shares them, and the new one does not
Leaves(c, parent) == {l \in DOMAIN c.entries : c.entries[l].children = 0 /\ l # parent}

\* Insert's eviction loop
EvictUntil(c, bytes, parent) ==
  FoldLeft(LAMBDA d, i :
             IF d.used + bytes <= CacheBudget \/ Leaves(d, parent) = {} THEN d
             ELSE Drop(d, SelectSeq(d.order, LAMBDA l : l \in Leaves(d, parent))[1]),
           c, c.order)

\* PrefixCache::insert: the cache afterwards, and whether the entry is in it
Insert(c, k, snapshot, own, role, parent) ==
  LET bytes == EntryBytes(own, k[2])
      c1 == FoldSet(LAMBDA l, d : Drop(d, l), c, Superseded(c, k, role))
      c2 == EvictUntil(c1, bytes, parent)
      entry == snapshot @@ [bytes |-> bytes, role |-> role, parent |-> parent, children |-> 0]
      counted == [l \in DOMAIN c2.entries |->
                    IF l = parent THEN [c2.entries[l] EXCEPT !.children = @ + 1] ELSE c2.entries[l]]
  IN  IF \/ ~Admits(c, k, own)
         \/ parent # NoParent /\ parent \notin DOMAIN c.entries
         \/ parent # NoParent /\ c.entries[parent].bytes + bytes > CacheBudget
      THEN [cache |-> c, ok |-> FALSE]
      ELSE IF c2.used + bytes > CacheBudget THEN [cache |-> c2, ok |-> FALSE]
      ELSE [cache |-> [entries |-> counted @@ (k :> entry), used |-> c2.used + bytes,
                       order |-> Append(c2.order, k)],
            ok |-> TRUE]

----------------------------------------------------------------------------
(* The store's index and directory.  A file is [key, kv, role, intact].    *)

StoreLimit == StoreBudget[kills]
Indexed == ToSet(index.order)
Files == files[identity]
FileOf(dir, k) == dir[CHOOSE i \in DOMAIN dir : dir[i].key = k]
WithoutFiles(dir, keys) == SelectSeq(dir, LAMBDA f : f.key \notin keys)
FileBytes(k) == Len(k[2])
BytesOf(keys) == MapThenSumSet(FileBytes, keys)

\* Index::make_room: what is left of a store [order, used, dir]
MakeRoom(s, incoming, budget) ==
  FoldLeft(LAMBDA t, k :
             IF t.used + incoming <= budget THEN t
             ELSE [order |-> Tail(t.order), used |-> t.used - FileBytes(k),
                   dir |-> WithoutFiles(t.dir, {k})],
           s, s.order)

\* IndexEntry insertion
Indexes(s, k) == [s EXCEPT !.order = Append(Without(@, k), k), !.used = @ + FileBytes(k)]

\* A mutated OpenDir: the files are met newest first.
OpenDirNewestFirst(dir, budget) ==
  FoldLeft(LAMBDA s, f :
             LET room == MakeRoom(s, FileBytes(f.key), budget)
             IN  IF FileBytes(f.key) > budget THEN [room EXCEPT !.dir = WithoutFiles(@, {f.key})]
                 ELSE Indexes(room, f.key),
           [order |-> <<>>, used |-> 0, dir |-> SelectSeq(dir, LAMBDA f : f.intact)],
           Reverse(SelectSeq(dir, LAMBDA f : f.intact)))

\* PrefixStore::open on the files of a directory
OpenDir(dir, budget) ==
  LET readable == SelectSeq(dir, LAMBDA f : f.intact)
  IN  FoldLeft(LAMBDA s, f :
                 LET room == MakeRoom(s, FileBytes(f.key), budget)
                 IN  IF FileBytes(f.key) > budget
                     THEN [room EXCEPT !.dir = WithoutFiles(@, {f.key})]
                     ELSE Indexes(room, f.key),
               [order |-> <<>>, used |-> 0, dir |-> readable], readable)

\* A mutated Lookup: the file of a forgotten entry stays.
LookupKeepingFiles(s, salt, ids) ==
  LET candidates == Reusable(ToSet(s.order), salt, ids)
      good == {k \in candidates : FileOf(s.dir, k).intact}
      bad == {k \in candidates \ good : Len(k[2]) > LongestLen(good)}
      rest == SelectSeq(s.order, LAMBDA k : k \notin bad)
  IN  [order |-> IF good = {} THEN rest ELSE Append(Without(rest, Longest(good)), Longest(good)),
       used |-> s.used - BytesOf(bad), dir |-> s.dir, found |-> good]

\* PrefixStore::lookup: longest first, forgetting what cannot be read; `found`
\* is empty or holds the entry read and shorter ones
Lookup(s, salt, ids) ==
  LET candidates == Reusable(ToSet(s.order), salt, ids)
      good == {k \in candidates : FileOf(s.dir, k).intact}
      bad == {k \in candidates \ good : Len(k[2]) > LongestLen(good)}
      rest == SelectSeq(s.order, LAMBDA k : k \notin bad)
  IN  [order |-> IF good = {} THEN rest ELSE Append(Without(rest, Longest(good)), Longest(good)),
       used |-> s.used - BytesOf(bad), dir |-> WithoutFiles(s.dir, bad), found |-> good]

StoreNow == [order |-> index.order, used |-> index.used, dir |-> Files]
SetStore(s) ==
  /\ index' = [order |-> s.order, used |-> s.used]
  /\ files' = [files EXCEPT ![identity] = s.dir]

----------------------------------------------------------------------------
(* A turn of the worker (chat_generation.rs generate_with_deadline).       *)

\* restore: whether the disk has a longer prefix than memory
DiskIsLonger(salt, ids) ==
  LongestLen(Reusable(Indexed, salt, ids)) > LongestLen(Reusable(DOMAIN cache.entries, salt, ids))

\* restore's insert of what the lookup found; it shares nothing
Restored(salt, ids, n) ==
  LET found == Lookup(StoreNow, salt, ids).found
      k == Longest(found)
      stored == FileOf(Files, k)
      snapshot == [id |-> <<n, "restored", Len(k[2])>>, base |-> <<>>, kv |-> stored.kv]
  IN  IF found = {} THEN cache
      ELSE Insert(cache, k, snapshot, Len(k[2]), stored.role, NoParent).cache

\* prefill: restore, then look up, then compute the rest.  A snapshot that
\* does not decode is skipped.
Prefill(p) ==
  /\ turn = NoTurn /\ Len(turns) < MaxTurns
  /\ \E decodes \in BOOLEAN :
       LET n == Len(turns) + 1
           salt == p.salt
           restores == DiskIsLonger(salt, p.ids)
           c == IF restores /\ decodes THEN Restored(salt, p.ids, n) ELSE cache
           hits == Reusable(DOMAIN c.entries, salt, p.ids)
           hit == IF hits = {} THEN <<>> ELSE c.entries[Longest(hits)].kv
           kv == hit \o [i \in 1 .. Len(p.ids) - Len(hit) |-> n]
       IN  /\ cache' = IF hits = {} THEN c ELSE Refresh(c, Longest(hits))
           /\ IF restores THEN SetStore(Lookup(StoreNow, salt, p.ids)) ELSE UNCHANGED <<index, files>>
           /\ turn' = [prompt |-> p, kv |-> kv]
           /\ turns' = Append(turns, [identity |-> identity, salt |-> salt, ids |-> p.ids, kv |-> kv])
  /\ UNCHANGED <<jobs, writer, faultVars>>

\* A mutated Saved: the queue has no limit.
SavedAlways(queue, k, snapshot, role) ==
  IF k \in Indexed THEN queue
  ELSE Append(queue, [key |-> k, kv |-> snapshot.kv, role |-> role, intact |-> TRUE])

\* PrefixStore::save, after the contains of its caller
Saved(queue, k, snapshot, role) ==
  IF k \in Indexed \/ Len(queue) >= WriteQueue THEN queue
  ELSE Append(queue, [key |-> k, kv |-> snapshot.kv, role |-> role, intact |-> TRUE])

\* boundaries: the preamble, then the conversation unless it is no longer
Boundaries(p) ==
  SelectSeq(<<[tokens |-> p.preamble, role |-> "preamble"],
              [tokens |-> p.conversation, role |-> "conversation"]>>,
            LAMBDA b : b.tokens > 0 /\ (b.role = "conversation" => p.conversation > p.preamble))

\* A mutated Holds: a cached preamble is taken for the executor's own.
HoldsAlways(restored, cached) == TRUE

\* remember's holds: the executor was restored from `cached` or from an entry
\* that extends it
Holds(restored, cached) == restored # {} /\ \E r \in restored : cached.id \in {r.id, r.base}

\* One boundary of remember, on [cache, jobs, shared]
Remembered(s, b, restored) ==
  LET ids == SubSeq(turn.prompt.ids, 1, b.tokens)
      k == <<turn.prompt.salt, ids>>
      extends == s.shared # NoParent
      base == s.cache.entries[s.shared]
      snapshot == [id |-> <<Len(turns), "stored", b.tokens>>,
                   base |-> IF extends THEN base.id ELSE <<>>,
                   kv |-> IF extends THEN base.kv \o SubSeq(turn.kv, Len(base.kv) + 1, b.tokens)
                          ELSE SubSeq(turn.kv, 1, b.tokens)]
      own == IF extends THEN b.tokens - Len(base.kv) ELSE b.tokens
      inserted == Insert(s.cache, k, snapshot, own, b.role, s.shared)
  IN  IF k \in DOMAIN s.cache.entries
      THEN IF b.role = "preamble" /\ Holds(restored, s.cache.entries[k])
           THEN [s EXCEPT !.shared = k] ELSE s
      ELSE IF ~Admits(s.cache, k, b.tokens) THEN s
      ELSE IF ~inserted.ok THEN [s EXCEPT !.cache = inserted.cache]
      ELSE [cache |-> inserted.cache, jobs |-> Saved(s.jobs, k, snapshot, b.role),
            shared |-> IF b.role = "preamble" THEN k ELSE s.shared]

\* remember, after the last token
Remember ==
  /\ turn # NoTurn
  /\ LET hits == Reusable(DOMAIN cache.entries, turn.prompt.salt, turn.prompt.ids)
         restored == IF hits = {} THEN {} ELSE {cache.entries[Longest(hits)]}
         after == FoldLeft(LAMBDA s, b : Remembered(s, b, restored),
                           [cache |-> cache, jobs |-> jobs, shared |-> NoParent],
                           Boundaries(turn.prompt))
     IN  cache' = after.cache /\ jobs' = after.jobs
  /\ turn' = NoTurn
  /\ UNCHANGED <<turns, storeVars, faultVars>>

\* A turn that fails or passes its deadline remembers nothing
TurnFails ==
  /\ turn # NoTurn
  /\ turn' = NoTurn
  /\ UNCHANGED <<cache, turns, jobs, storeVars, faultVars>>

----------------------------------------------------------------------------
(* write_entries, the writer's thread.                                     *)

\* A mutated Refused: a prefix queued twice is written twice.
RefusedBySize(job) == FileBytes(job.key) > StoreLimit

Refused(job) == job.key \in Indexed \/ FileBytes(job.key) > StoreLimit

WriterTakes ==
  /\ writer = IdleWriter /\ jobs # <<>>
  /\ writer' = IF Refused(Head(jobs)) THEN IdleWriter ELSE [at |-> "writing", job |-> Head(jobs)]
  /\ jobs' = Tail(jobs)
  /\ UNCHANGED <<cacheVars, index, files, faultVars>>

Renamed == Append(WithoutFiles(Files, {writer.job.key}), writer.job)

\* write_atomically: the temporary file, then the rename
WriterRenames ==
  /\ writer.at = "writing"
  /\ files' = [files EXCEPT ![identity] = Renamed]
  /\ writer' = [writer EXCEPT !.at = "renamed"]
  /\ UNCHANGED <<cacheVars, index, jobs, faultVars>>

\* It fails before the rename, or at the sync after it; the entry is not
\* indexed, and only the temporary file is removed.
WriterFails ==
  /\ writer.at = "writing" /\ damage + errors < MaxStoreFaults
  /\ \E dir \in {Files, Renamed} : files' = [files EXCEPT ![identity] = dir]
  /\ writer' = IdleWriter
  /\ errors' = errors + 1
  /\ UNCHANGED <<cacheVars, index, jobs, identity, kills, damage>>

WriterCommits ==
  /\ writer.at = "renamed"
  /\ SetStore(Indexes(MakeRoom(StoreNow, FileBytes(writer.job.key), StoreLimit), writer.job.key))
  /\ writer' = IdleWriter
  /\ UNCHANGED <<cacheVars, jobs, faultVars>>

----------------------------------------------------------------------------
(* From outside.                                                           *)

Damage ==
  /\ damage + errors < MaxStoreFaults
  /\ \E i \in DOMAIN Files : Files[i].intact
                             /\ files' = [files EXCEPT ![identity][i].intact = FALSE]
  /\ damage' = damage + 1
  /\ UNCHANGED <<cacheVars, index, jobs, writer, identity, kills, errors>>

\* The process is killed; another, perhaps of another model state, opens its store
KillAndOpen ==
  /\ kills < MaxKills
  /\ kills' = kills + 1
  /\ \E i \in Identity :
       LET s == OpenDir(files[i], StoreBudget[kills + 1])
       IN  /\ identity' = i
           /\ index' = [order |-> s.order, used |-> s.used]
           /\ files' = [files EXCEPT ![i] = s.dir]
  /\ cache' = EmptyCache /\ turn' = NoTurn /\ jobs' = <<>> /\ writer' = IdleWriter
  /\ UNCHANGED <<turns, damage, errors>>

ReuseNext ==
  \/ \E p \in Prompt : Prefill(p)
  \/ Remember
  \/ TurnFails
  \/ WriterTakes
  \/ WriterRenames
  \/ WriterFails
  \/ WriterCommits
  \/ Damage
  \/ KillAndOpen

ReuseSpec == ReuseInit /\ [][ReuseNext]_reuseVars

----------------------------------------------------------------------------
(* Properties.                                                             *)

Keys == UNION {{p.salt} \X Prefixes(p.ids) : p \in Prompt}

\* The cache and the store hold entries of the prompts asked, the queue keeps
\* to its limit and the writer works on a job only while it is busy.
ReuseTypeOK ==
  /\ DOMAIN cache.entries \subseteq Keys /\ Indexed \subseteq Keys
  /\ ToSet(cache.order) = DOMAIN cache.entries
  /\ Len(cache.order) = Cardinality(DOMAIN cache.entries)
  /\ Len(index.order) = Cardinality(Indexed)
  /\ Len(jobs) <= WriteQueue
  /\ writer.at \in {"idle", "writing", "renamed"}
  /\ identity \in Identity /\ kills \in 0 .. MaxKills
  /\ Len(turns) <= MaxTurns

Values ==
  {cache.entries[k].kv : k \in DOMAIN cache.entries} \cup {job.kv : job \in ToSet(jobs)}
    \cup UNION {{f.kv : f \in ToSet(files[i])} : i \in Identity}

\* remember's promise: the values of every entry, in memory and on disk, are
\* those of one turn.  Sharing a preamble that the turn did not start from, or
\* a preamble cached anew under the same key, would join two computations.
OneComputation == \A kv \in Values : \E n \in DOMAIN turns : IsPrefix(kv, turns[n].kv)

\* A turn uses only values that were computed for the same tokens, under the
\* same salt and the same model state, however often the process was killed
\* in between and whatever was evicted or restored.
OwnValuesOnly ==
  turn # NoTurn =>
    \A i \in DOMAIN turn.kv :
      LET t == turns[turn.kv[i]]
      IN  /\ t.salt = turn.prompt.salt /\ t.identity = identity
          /\ SubSeq(t.ids, 1, i) = SubSeq(turn.prompt.ids, 1, i)

\* Restored, shared, evicted or computed again: a turn continues values of its
\* own tokens, salt and model state, and no entry joins two computations.
ReusesOwnValues == OneComputation /\ OwnValuesOnly

\* PrefixCache's bytes are those of its entries and stay within the budget; an
\* entry others share is there and knows how many share it, so that it is
\* neither evicted under them nor kept for ever.
CacheAccounting ==
  /\ cache.used = MapThenSumSet(LAMBDA k : cache.entries[k].bytes, DOMAIN cache.entries)
  /\ cache.used <= CacheBudget
  /\ \A k \in DOMAIN cache.entries :
       /\ cache.entries[k].parent \in DOMAIN cache.entries \cup {NoParent}
       /\ cache.entries[k].children = Cardinality({l \in DOMAIN cache.entries : cache.entries[l].parent = k})

\* Index's bytes are those of its entries, which all have their file, and stay
\* within the budget, although the writer prepares files without the lock and
\* the same prefix can be queued twice.
StoreAccounting ==
  /\ index.used = BytesOf(Indexed)
  /\ index.used <= StoreLimit
  /\ Indexed \subseteq {f.key : f \in ToSet(Files)}

\* A file that no entry names is the one the writer is about to index, or was
\* left by a write whose directory sync failed: nothing else fills the disk.
NoStrayFiles ==
  Cardinality({f \in ToSet(Files) : f.key \notin Indexed})
    <= errors + (IF writer.at = "renamed" THEN 1 ELSE 0)

\* The bytes both caches count are those they hold, within their budgets, and
\* every entry has what it stands on: its parent in memory, its file on disk.
BytesExact == ReuseTypeOK /\ CacheAccounting /\ StoreAccounting /\ NoStrayFiles

\* PrefixStore::open keeps what a kill left whole: the newest readable files,
\* as many as fit.
RestartKeepsNewest ==
  [][kills' # kills =>
       LET readable == SelectSeq(files[identity'], LAMBDA f : f.intact)
           kept == files'[identity']
           lost == Len(readable) - Len(kept)
       IN  /\ IsSuffix(kept, readable)
           /\ index'.order = [i \in DOMAIN kept |-> kept[i].key]
           /\ \/ lost = 0
              \/ \E i \in DOMAIN readable : FileBytes(readable[i].key) > StoreBudget[kills']
              \/ BytesOf({kept[i].key : i \in DOMAIN kept}) + FileBytes(readable[lost].key)
                   > StoreBudget[kills']]_reuseVars
=============================================================================
