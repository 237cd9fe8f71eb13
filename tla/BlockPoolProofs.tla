--------------------------- MODULE BlockPoolProofs ---------------------------
(***************************************************************************)
(* What the operations of BlockPool do to a manager, and the arithmetic of *)
(* blocks, slots and prefix keys.                                          *)
(***************************************************************************)
EXTENDS BlockPool, CollectionTheorems

IsManager(m) ==
  /\ m = [sequences |-> m.sequences, ref_counts |-> m.ref_counts,
          block_hashes |-> m.block_hashes, free |-> m.free, cached |-> m.cached]
  /\ m.ref_counts \in [BlockId -> Nat]
  /\ m.free \in Seq(BlockId)
  /\ \A h \in DOMAIN m.cached : m.cached[h] \in BlockId

(* The block and the offset of the p-th token.                             *)
At(p) == (p - 1) \div BlockTokens + 1

LEMMA SlotOf ==
  ASSUME NEW p \in Nat \ {0}
  PROVE  /\ At(p) \in Nat \ {0} /\ SlotOffset(p) \in 0 .. BlockTokens - 1
         /\ p = (At(p) - 1) * BlockTokens + SlotOffset(p) + 1
  <1>1. p - 1 \in Nat /\ BlockTokens \in Nat \ {0}
    BY PoolAssumption
  <1>2. (p - 1) \div BlockTokens \in Nat /\ (p - 1) % BlockTokens \in 0 .. BlockTokens - 1
        /\ p - 1 = ((p - 1) \div BlockTokens) * BlockTokens + ((p - 1) % BlockTokens)
    BY <1>1, Division
  <1> DEFINE q == (p - 1) \div BlockTokens
             r == (p - 1) % BlockTokens
  <1>3. q \in Nat /\ r \in 0 .. BlockTokens - 1 /\ p - 1 = q * BlockTokens + r
    BY <1>2
  <1>4. At(p) = q + 1 /\ SlotOffset(p) = r
    BY DEF At, SlotOffset
  <1> HIDE DEF q, r
  <1>5. At(p) - 1 = q /\ p = q * BlockTokens + r + 1
    BY <1>1, <1>3, <1>4
  <1> QED BY <1>3, <1>4, <1>5

LEMMA SlotIs ==
  ASSUME NEW i \in Nat \ {0}, NEW o \in 0 .. BlockTokens - 1
  PROVE  LET p == (i - 1) * BlockTokens + o + 1
         IN  p \in Nat \ {0} /\ At(p) = i /\ SlotOffset(p) = o
  <1>1. BlockTokens \in Nat \ {0} /\ i - 1 \in Nat /\ (i - 1) * BlockTokens \in Nat
    BY PoolAssumption
  <1>2. ((i - 1) * BlockTokens + o) \div BlockTokens = i - 1
        /\ ((i - 1) * BlockTokens + o) % BlockTokens = o
    BY <1>1, DivisionUnique
  <1>3. (i - 1) * BlockTokens + o + 1 - 1 = (i - 1) * BlockTokens + o
    BY <1>1
  <1> QED BY <1>1, <1>2, <1>3 DEF At, SlotOffset

(* How many blocks n tokens need.                                          *)
LEMMA DivCeilIs ==
  ASSUME NEW n \in Nat
  PROVE  /\ DivCeil(n) \in Nat /\ DivCeil(n) * BlockTokens \in Nat
         /\ n <= DivCeil(n) * BlockTokens /\ DivCeil(n) * BlockTokens < n + BlockTokens
         /\ n % BlockTokens = 0 <=> n = DivCeil(n) * BlockTokens
  <1>1. DivCeil(n) = CeilDiv(n, BlockTokens)
    BY DEF DivCeil, CeilDiv
  <1>2. BlockTokens \in Nat \ {0}
    BY PoolAssumption
  <1> QED BY <1>1, <1>2, CeilDivIs

LEMMA DivCeilUnique ==
  ASSUME NEW n \in Nat, NEW k \in Nat, n <= k * BlockTokens, k * BlockTokens < n + BlockTokens
  PROVE  DivCeil(n) = k
  <1>1. DivCeil(n) = CeilDiv(n, BlockTokens)
    BY DEF DivCeil, CeilDiv
  <1>2. BlockTokens \in Nat \ {0}
    BY PoolAssumption
  <1> QED BY <1>1, <1>2, CeilDivUnique

LEMMA DivCeilNext ==
  ASSUME NEW n \in Nat
  PROVE  /\ n % BlockTokens = 0 => DivCeil(n + 1) = DivCeil(n) + 1
         /\ n % BlockTokens # 0 => DivCeil(n + 1) = DivCeil(n)
  <1>1. DivCeil(n) = CeilDiv(n, BlockTokens) /\ DivCeil(n + 1) = CeilDiv(n + 1, BlockTokens)
    BY DEF DivCeil, CeilDiv
  <1>2. BlockTokens \in Nat \ {0}
    BY PoolAssumption
  <1> QED BY <1>1, <1>2, CeilDivNext

(* The p-th of n tokens falls into one of their blocks.                    *)
LEMMA SlotInside ==
  ASSUME NEW n \in Nat, NEW p \in 1 .. n
  PROVE  At(p) \in 1 .. DivCeil(n)
  <1> DEFINE d == DivCeil(n)
             i == At(p)
             o == SlotOffset(p)
  <1>1. BlockTokens \in Nat \ {0} /\ d \in Nat /\ n <= d * BlockTokens /\ d * BlockTokens \in Nat
    BY DivCeilIs, PoolAssumption
  <1>2. i \in Nat \ {0} /\ o \in 0 .. BlockTokens - 1 /\ p = (i - 1) * BlockTokens + o + 1
    BY SlotOf
  <1> HIDE DEF d, i, o
  <1>3. i - 1 \in Nat /\ (i - 1) * BlockTokens \in Nat
    BY <1>1, <1>2
  <1>4. ~(d < i)
    <2> SUFFICES ASSUME d <= i - 1 PROVE FALSE
      BY <1>1, <1>2
    <2>1. d * BlockTokens <= (i - 1) * BlockTokens
      <3>1. CASE d = i - 1
        BY <1>3, <3>1
      <3>2. CASE d < i - 1
        <4>1. d * BlockTokens + BlockTokens <= (i - 1) * BlockTokens
          BY <1>1, <1>3, <3>2, TimesOrder
        <4> QED BY <1>1, <1>3, <4>1
      <3> QED BY <1>1, <1>3, <3>1, <3>2
    <2> QED BY <1>1, <1>2, <1>3, <2>1
  <1>5. i \in 1 .. d
    BY <1>1, <1>2, <1>4
  <1> QED BY <1>5 DEF d, i


----------------------------------------------------------------------------
(* Prefix keys.                                                            *)

(* The i-th run of tokens, token by token.                                 *)
LEMMA ChunkIs ==
  ASSUME NEW tokens, NEW i \in Nat \ {0}
  PROVE  /\ Chunk(tokens, i) = [o \in 1 .. BlockTokens |-> tokens[(i - 1) * BlockTokens + o]]
         /\ (i - 1) * BlockTokens \in Nat /\ i * BlockTokens = (i - 1) * BlockTokens + BlockTokens
  <1> DEFINE a == (i - 1) * BlockTokens
  <1>1. BlockTokens \in Nat \ {0} /\ a \in Nat /\ i * BlockTokens = a + BlockTokens
    BY PoolAssumption
  <1>2. Chunk(tokens, i) = SubSeq(tokens, a + 1, a + BlockTokens)
    BY <1>1 DEF Chunk
  <1> HIDE DEF a
  <1> DEFINE m == a + 1
             n == a + BlockTokens
  <1>3. m \in Int /\ n \in Int /\ m <= n + 1 /\ n - m + 1 = BlockTokens
        /\ \A o \in 1 .. BlockTokens : m + o - 1 = a + o
    BY <1>1
  <1> HIDE DEF m, n
  <1>4. SubSeq(tokens, m, n) = [o \in 1 .. n - m + 1 |-> tokens[m + o - 1]]
    BY <1>3, SubSeqIs
  <1>5. SubSeq(tokens, m, n) = [o \in 1 .. BlockTokens |-> tokens[a + o]]
    BY <1>3, <1>4
  <1> QED BY <1>1, <1>2, <1>5 DEF a, m, n

LEMMA HashIs ==
  ASSUME NEW tokens, NEW keys, NEW n \in Nat
  PROVE  LET h == HashBlocks(<<>>, tokens, keys, n)
         IN  /\ h = [i \in 1 .. n |-> HashInput(i = 1, Chunk(tokens, i), keys)]
             /\ Len(h) = n /\ DOMAIN h = 1 .. n
  <1> DEFINE f == [i \in 1 .. n |-> HashInput(i = 1, Chunk(tokens, i), keys)]
             S == {f[i] : i \in 1 .. n}
  <1>1. HashBlocks(<<>>, tokens, keys, n) = <<>> \o f
    BY DEF HashBlocks
  <1>2. f \in [1 .. n -> S]
    OBVIOUS
  <1>3. DOMAIN f = 1 .. n
    OBVIOUS
  <1> HIDE DEF f, S
  <1>4. f \in Seq(S) /\ Len(f) = n
    BY <1>2, <1>3, SeqDef, LenProperties
  <1>5. <<>> \o f = f
    BY <1>4, ConcatEmptySeq
  <1> QED BY <1>1, <1>3, <1>4, <1>5 DEF f

\* Two texts that begin with the same n tokens.
SameStart(u, v, n) == \A p \in 1 .. n : u[p] = v[p]

LEMMA SameChunks ==
  ASSUME NEW u, NEW v, NEW i \in Nat \ {0}, NEW n \in Nat, i <= n, SameStart(u, v, n * BlockTokens)
  PROVE  Chunk(u, i) = Chunk(v, i)
  <1>1. BlockTokens \in Nat \ {0} /\ (i - 1) * BlockTokens \in Nat /\ n * BlockTokens \in Nat
        /\ (i - 1) * BlockTokens + BlockTokens <= n * BlockTokens
    <2>1. BlockTokens \in Nat /\ i - 1 \in Nat /\ i - 1 < n /\ n * BlockTokens \in Nat
      BY PoolAssumption
    <2>2. (i - 1) * BlockTokens + BlockTokens <= n * BlockTokens
      BY <2>1, TimesOrder
    <2> QED BY <2>1, <2>2, ChunkIs, PoolAssumption
  <1> DEFINE a == (i - 1) * BlockTokens
             b == n * BlockTokens
  <1>2. Chunk(u, i) = [o \in 1 .. BlockTokens |-> u[a + o]]
        /\ Chunk(v, i) = [o \in 1 .. BlockTokens |-> v[a + o]]
    BY ChunkIs
  <1>3. a \in Nat /\ b \in Nat /\ a + BlockTokens <= b /\ \A p \in 1 .. b : u[p] = v[p]
    BY <1>1 DEF SameStart
  <1> HIDE DEF a, b
  <1>4. \A o \in 1 .. BlockTokens : a + o \in 1 .. b
    BY <1>1, <1>3
  <1> QED BY <1>2, <1>3, <1>4

LEMMA HashOfStart ==
  ASSUME NEW u, NEW v, NEW keys, NEW n \in Nat, SameStart(u, v, n * BlockTokens)
  PROVE  HashBlocks(<<>>, u, keys, n) = HashBlocks(<<>>, v, keys, n)
  <1>1. \A i \in 1 .. n : Chunk(u, i) = Chunk(v, i)
    BY SameChunks
  <1> QED BY <1>1, HashIs

(* A key names its tokens, its extra keys and its salt.                    *)
LEMMA HashNames ==
  ASSUME NEW tokens, NEW keys, NEW n \in Nat, NEW p \in 1 .. n * BlockTokens
  PROVE  LET h == HashBlocks(<<>>, tokens, keys, n)
         IN  /\ h[At(p)].tokens[SlotOffset(p) + 1] = tokens[p]
             /\ h[n].extras = keys.extras /\ h[1].salt = keys.salt /\ n # 0
  <1> DEFINE i == At(p)
             o == SlotOffset(p)
             h == HashBlocks(<<>>, tokens, keys, n)
  <1>1. BlockTokens \in Nat \ {0} /\ n * BlockTokens \in Nat /\ n # 0 /\ p \in Nat \ {0} /\ p <= n * BlockTokens
    <2>1. BlockTokens \in Nat \ {0} /\ n * BlockTokens \in Nat
      BY PoolAssumption
    <2> QED BY <2>1
  <1>2. i \in Nat \ {0} /\ o \in 0 .. BlockTokens - 1 /\ p = (i - 1) * BlockTokens + o + 1
    BY <1>1, SlotOf
  <1>3. i \in 1 .. n
    <2>1. DivCeil(n * BlockTokens) = n
      BY <1>1, DivCeilUnique
    <2> QED BY <1>1, <2>1, SlotInside
  <1>4. h = [j \in 1 .. n |-> HashInput(j = 1, Chunk(tokens, j), keys)]
    BY HashIs
  <1> HIDE DEF h
  <1>5. h[i].tokens = Chunk(tokens, i) /\ h[n].extras = keys.extras /\ h[1].salt = keys.salt
    BY <1>1, <1>3, <1>4 DEF HashInput
  <1>6. Chunk(tokens, i) = [q \in 1 .. BlockTokens |-> tokens[(i - 1) * BlockTokens + q]]
        /\ (i - 1) * BlockTokens \in Nat
    BY <1>2, ChunkIs
  <1> HIDE DEF i, o
  <1>7. o + 1 \in 1 .. BlockTokens /\ (i - 1) * BlockTokens + (o + 1) = p
    BY <1>1, <1>2, <1>6
  <1>8. h[i].tokens[o + 1] = tokens[p]
    BY <1>5, <1>6, <1>7
  <1> QED BY <1>1, <1>5, <1>8 DEF h, i, o

LEMMA HashInjective ==
  ASSUME NEW u, NEW v, NEW k, NEW l, NEW m \in Nat \ {0}, NEW n \in Nat \ {0},
         HashBlocks(<<>>, u, k, m) = HashBlocks(<<>>, v, l, n)
  PROVE  m = n /\ SameStart(u, v, m * BlockTokens) /\ k.salt = l.salt /\ k.extras = l.extras
  <1>1. m = n
    BY HashIs
  <1>2. ASSUME NEW p \in 1 .. m * BlockTokens
        PROVE  u[p] = v[p] /\ k.salt = l.salt /\ k.extras = l.extras
    BY <1>1, <1>2, HashNames
  <1>3. 1 \in 1 .. m * BlockTokens
    <2>1. m * BlockTokens \in Nat \ {0}
      BY PoolAssumption
    <2> QED BY <2>1
  <1> QED BY <1>1, <1>2, <1>3 DEF SameStart

(* Hashing goes on from the last key of a chain.                           *)
LEMMA HashExtends ==
  ASSUME NEW tokens, NEW rest, NEW keys, NEW n \in Nat, NEW i \in Nat \ {0}, NEW parent,
         parent = HashBlocks(<<>>, tokens, keys, n),
         \A p \in 1 .. i * BlockTokens : rest[p] = tokens[n * BlockTokens + p]
  PROVE  HashBlocks(parent, rest, keys, i) = HashBlocks(<<>>, tokens, keys, n + i)
  <1> DEFINE f == [j \in 1 .. i |-> HashInput(parent = <<>> /\ j = 1, Chunk(rest, j), keys)]
             g == [j \in 1 .. n |-> HashInput(j = 1, Chunk(tokens, j), keys)]
             h == [j \in 1 .. n + i |-> HashInput(j = 1, Chunk(tokens, j), keys)]
  <1>1. parent = g /\ DOMAIN parent = 1 .. n /\ Len(parent) = n /\ HashBlocks(<<>>, tokens, keys, n + i) = h
    BY HashIs
  <1>2. (parent = <<>>) <=> n = 0
    <2>1. ASSUME parent = <<>> PROVE n = 0
      BY <1>1, <2>1
    <2>2. ASSUME n = 0 PROVE parent = <<>>
      <3> HIDE DEF g, h
      <3>1. DOMAIN parent = {} /\ parent = [j \in 1 .. n |-> g[j]]
        BY <1>1, <2>2 DEF g
      <3> QED BY <3>1, <2>2
    <2> QED BY <2>1, <2>2
  <1>3. ASSUME NEW j \in 1 .. i PROVE Chunk(rest, j) = Chunk(tokens, n + j)
    <2> DEFINE a == (j - 1) * BlockTokens
               b == n * BlockTokens
               c == i * BlockTokens
    <2>1. BlockTokens \in Nat \ {0} /\ a \in Nat /\ b \in Nat /\ c \in Nat
          /\ (n + j - 1) * BlockTokens = b + a
      BY PoolAssumption
    <2>2. a + BlockTokens <= c
      <3>1. j - 1 \in Nat /\ j - 1 < i /\ BlockTokens \in Nat
        BY PoolAssumption
      <3> QED BY <3>1, TimesOrder
    <2>3. Chunk(rest, j) = [o \in 1 .. BlockTokens |-> rest[a + o]]
          /\ Chunk(tokens, n + j) = [o \in 1 .. BlockTokens |-> tokens[(n + j - 1) * BlockTokens + o]]
      <3> HIDE DEF b, c
      <3>1. j \in Nat \ {0} /\ n + j \in Nat \ {0}
        OBVIOUS
      <3>2. Chunk(rest, j) = [o \in 1 .. BlockTokens |-> rest[(j - 1) * BlockTokens + o]]
        BY <3>1, ChunkIs
      <3> DEFINE k == n + j
      <3>3. k \in Nat \ {0} /\ (n + j - 1) * BlockTokens = (k - 1) * BlockTokens
        BY <3>1
      <3> HIDE DEF k
      <3>4. Chunk(tokens, k) = [o \in 1 .. BlockTokens |-> tokens[(k - 1) * BlockTokens + o]]
        BY <3>3, ChunkIs
      <3>5. Chunk(tokens, k) = [o \in 1 .. BlockTokens |-> tokens[(n + j - 1) * BlockTokens + o]]
        BY <3>3, <3>4
      <3> QED BY <3>2, <3>5 DEF k
    <2>4. \A p \in 1 .. c : rest[p] = tokens[b + p]
      OBVIOUS
    <2> HIDE DEF a, b, c
    <2>5. \A o \in 1 .. BlockTokens : rest[a + o] = tokens[b + a + o]
      <3>1. \A o \in 1 .. BlockTokens : a + o \in 1 .. c /\ b + (a + o) = b + a + o
        BY <2>1, <2>2
      <3> QED BY <2>4, <3>1
    <2> QED BY <2>1, <2>3, <2>5
  <1>4. \A j \in 1 .. i : f[j] = h[n + j]
    <2>1. \A j \in 1 .. i : (parent = <<>> /\ j = 1) <=> (n + j = 1)
      BY <1>2
    <2>2. \A j \in 1 .. i : n + j \in 1 .. n + i
      OBVIOUS
    <2>3. TAKE j \in 1 .. i
    <2>4. f[j] = HashInput(parent = <<>> /\ j = 1, Chunk(rest, j), keys)
      OBVIOUS
    <2>5. h[n + j] = HashInput(n + j = 1, Chunk(tokens, n + j), keys)
      BY <2>2
    <2> QED BY <1>3, <2>1, <2>4, <2>5 DEF HashInput
  <1>5. \A j \in 1 .. n : parent[j] = h[j]
    BY <1>1
  <1>6. HashBlocks(parent, rest, keys, i) = parent \o f /\ DOMAIN f = 1 .. i /\ DOMAIN h = 1 .. n + i
    BY DEF HashBlocks
  <1>7. f \in Seq({f[j] : j \in 1 .. i}) /\ Len(f) = i
    <2>1. f \in [1 .. i -> {f[j] : j \in 1 .. i}]
      OBVIOUS
    <2> HIDE DEF f
    <2> QED BY <1>6, <2>1, SeqDef, LenProperties
  <1>8. parent \o f = [j \in 1 .. n + i |-> IF j <= n THEN parent[j] ELSE f[j - n]]
    <2> DEFINE S == {f[j] : j \in 1 .. i} \cup {parent[j] : j \in 1 .. n}
    <2>1. f \in Seq(S) /\ parent \in Seq(S)
      <3>1. f \in [1 .. i -> S] /\ parent \in [1 .. n -> S]
        BY <1>1, <1>6
      <3> HIDE DEF S, f
      <3> QED BY <3>1, SeqDef
    <2> HIDE DEF f, g, h, S
    <2>2. Len(parent) = n /\ Len(f) = i /\ n \in Nat /\ i \in Nat
      BY <1>1, <1>7
    <2> DEFINE u == parent \o f
    <2>3. /\ u \in Seq(S) /\ Len(u) = Len(parent) + Len(f)
          /\ \A j \in 1 .. Len(parent) + Len(f) : u[j] = IF j <= Len(parent) THEN parent[j] ELSE f[j - Len(parent)]
      BY <2>1, ConcatProperties
    <2> HIDE DEF u
    <2>4. DOMAIN u = 1 .. n + i /\ \A j \in 1 .. n + i : u[j] = IF j <= n THEN parent[j] ELSE f[j - n]
      BY <2>2, <2>3, LenProperties
    <2>5. u = [j \in 1 .. n + i |-> u[j]]
      BY <2>3, <2>4, LenProperties
    <2>6. u = [j \in 1 .. n + i |-> IF j <= n THEN parent[j] ELSE f[j - n]]
      BY <2>4, <2>5
    <2> QED BY <2>6 DEF u
  <1>9. \A j \in 1 .. n + i : (IF j <= n THEN parent[j] ELSE f[j - n]) = h[j]
    <2> HIDE DEF f, g, h
    <2> TAKE j \in 1 .. n + i
    <2>1. CASE j <= n
      BY <1>5, <2>1
    <2>2. CASE ~(j <= n)
      <3>1. j - n \in 1 .. i /\ n + (j - n) = j
        BY <2>2
      <3> QED BY <1>4, <2>2, <3>1
    <2> QED BY <2>1, <2>2
  <1>10. h = [j \in 1 .. n + i |-> h[j]]
    OBVIOUS
  <1> HIDE DEF f, g, h
  <1> QED BY <1>1, <1>6, <1>8, <1>9, <1>10

----------------------------------------------------------------------------
(* Queues of blocks.                                                       *)

\* A block stands once on the queue, and none with a key before one without.
UnkeyedFirst(f, key) ==
  \A i, j \in 1 .. Len(f) : i < j /\ key[f[i]] # None => key[f[j]] # None
Queue(f, key) == f \in Seq(BlockId) /\ Once(f) /\ UnkeyedFirst(f, key)

(* Some blocks leave a queue (add_ref).                                    *)
LEMMA QueueRetain ==
  ASSUME NEW f, NEW key, Queue(f, key), NEW S
  PROVE  Queue(Keep(f, S), key) /\ Range(Keep(f, S)) = Range(f) \cap S
  <1>1. f \in Seq(BlockId) /\ Once(f) /\ UnkeyedFirst(f, key) /\ DOMAIN f = 1 .. Len(f)
    BY LenProperties DEF Queue
  <1> DEFINE g == Keep(f, S)
  <1>2. g \in Seq(BlockId) /\ Range(g) = Range(f) \cap S /\ Once(g)
    BY <1>1, KeepProperties
  <1>3. DOMAIN g = 1 .. Len(g)
    <2> HIDE DEF g
    <2> QED BY <1>2, LenProperties
  <1>4. \A m, n \in DOMAIN g : m < n => \E i, j \in DOMAIN f : i < j /\ f[i] = g[m] /\ f[j] = g[n]
    BY <1>1, KeepOrder
  <1> HIDE DEF g
  <1>5. UnkeyedFirst(g, key)
    BY <1>1, <1>3, <1>4 DEF UnkeyedFirst
  <1>6. Queue(g, key) /\ Range(g) = Range(f) \cap S
    BY <1>2, <1>5 DEF Queue
  <1> QED BY <1>6 DEF g

(* Blocks are taken from the front (take_free): their keys are forgotten.  *)
LEMMA QueueTake ==
  ASSUME NEW f, NEW key, Queue(f, key), NEW n \in 0 .. Len(f), NEW key2,
         \A b \in BlockId : b \notin Range(SubSeq(f, 1, n)) => key2[b] = key[b]
  PROVE  LET taken == SubSeq(f, 1, n)
             rest  == SubSeq(f, n + 1, Len(f))
         IN  /\ taken \in Seq(BlockId) /\ Len(taken) = n /\ Once(taken)
             /\ \A i \in 1 .. n : taken[i] = f[i]
             /\ Queue(rest, key2) /\ Len(rest) = Len(f) - n
             /\ Range(taken) \subseteq Range(f) /\ Range(rest) = Range(f) \ Range(taken)
  <1> DEFINE taken == SubSeq(f, 1, n)
             rest  == SubSeq(f, n + 1, Len(f))
             L     == Len(f)
  <1>1. f \in Seq(BlockId) /\ Once(f) /\ UnkeyedFirst(f, key) /\ DOMAIN f = 1 .. L /\ L \in Nat
        /\ n \in Nat /\ n <= L /\ \A i \in 1 .. L : f[i] \in BlockId
    BY LenProperties, ElementOfSeq DEF Queue
  <1>2. taken = [i \in 1 .. n |-> f[i]] /\ Len(taken) = n
    <2>1. n - 1 + 1 = n /\ 1 <= n + 1 /\ 1 \in Int /\ n \in Int /\ \A i \in 1 .. n : 1 + i - 1 = i
      BY <1>1
    <2>2. taken = [i \in 1 .. n - 1 + 1 |-> f[1 + i - 1]] /\ Len(taken) = n - 1 + 1
      BY <2>1, SubSeqIs
    <2> QED BY <2>1, <2>2
  <1>3. rest = [i \in 1 .. L - n |-> f[n + i]] /\ Len(rest) = L - n
    <2> DEFINE m == n + 1
    <2>1. L - m + 1 = L - n /\ m <= L + 1 /\ m \in Int /\ L \in Int /\ \A i \in 1 .. L - n : m + i - 1 = n + i
      BY <1>1
    <2> HIDE DEF m, L
    <2>2. SubSeq(f, m, L) = [i \in 1 .. L - m + 1 |-> f[m + i - 1]] /\ Len(SubSeq(f, m, L)) = L - m + 1
      BY <2>1, SubSeqIs
    <2>3. SubSeq(f, m, L) = [i \in 1 .. L - n |-> f[n + i]] /\ Len(SubSeq(f, m, L)) = L - n
      BY <2>1, <2>2
    <2> QED BY <2>3 DEF L, m
  <1>4. \A b \in BlockId : b \notin Range(taken) => key2[b] = key[b]
    OBVIOUS
  <1> HIDE DEF taken, rest, L
  <1>5. taken \in Seq(BlockId) /\ rest \in Seq(BlockId)
    <2>1. \A i \in 1 .. n : f[i] \in BlockId
      BY <1>1
    <2>2. \A i \in 1 .. L - n : f[n + i] \in BlockId
      BY <1>1
    <2>3. L - n \in Nat
      BY <1>1
    <2>4. taken \in [1 .. n -> BlockId] /\ rest \in [1 .. L - n -> BlockId]
      BY <1>2, <1>3, <2>1, <2>2
    <2> QED BY <1>1, <2>3, <2>4, SeqDef
  <1>6. Once(taken) /\ \A i \in 1 .. n : taken[i] = f[i]
    BY <1>1, <1>2 DEF Once, L
  <1>7. Once(rest) /\ \A i \in 1 .. L - n : rest[i] = f[n + i] /\ n + i \in 1 .. L
    <2>1. \A i \in 1 .. L - n : rest[i] = f[n + i] /\ n + i \in 1 .. L
      BY <1>1, <1>3
    <2>2. \A i, j \in 1 .. L - n : rest[i] = rest[j] => n + i = n + j
      BY <1>1, <2>1 DEF Once, L
    <2>3. \A i, j \in 1 .. L - n : n + i = n + j => i = j
      BY <1>1
    <2>4. \A i, j \in 1 .. L - n : rest[i] = rest[j] => i = j
      BY <2>2, <2>3
    <2>5. Once(rest)
      BY <1>3, <2>4 DEF Once
    <2> QED BY <2>1, <2>5
  <1>8. Range(taken) \subseteq Range(f) /\ Range(rest) = Range(f) \ Range(taken)
    <2>1. Range(f) = {f[i] : i \in 1 .. L} /\ Range(taken) = {f[i] : i \in 1 .. n}
          /\ Range(rest) = {f[n + i] : i \in 1 .. L - n}
      BY <1>1, <1>2, <1>3 DEF Range
    <2>2. \A i, j \in 1 .. L : f[i] = f[j] => i = j
      BY <1>1 DEF Once, L
    <2>3. \A i \in 1 .. L : i \in 1 .. n \/ (i - n \in 1 .. L - n /\ n + (i - n) = i)
      BY <1>1
    <2>4. \A i \in 1 .. n : i \in 1 .. L
      BY <1>1
    <2>5. \A i \in 1 .. L - n : n + i \in 1 .. L /\ n + i \notin 1 .. n
      BY <1>1
    <2>6. Range(taken) \subseteq Range(f) /\ Range(rest) \subseteq Range(f)
      BY <2>1, <2>4, <2>5
    <2>7. Range(taken) \cap Range(rest) = {}
      <3> SUFFICES ASSUME NEW i \in 1 .. n, NEW j \in 1 .. L - n, f[i] = f[n + j] PROVE FALSE
        BY <2>1
      <3> QED BY <2>2, <2>4, <2>5
    <2>8. ASSUME NEW i \in 1 .. L PROVE f[i] \in Range(taken) \cup Range(rest)
      <3>1. CASE i \in 1 .. n
        BY <2>1, <3>1
      <3>2. CASE i - n \in 1 .. L - n /\ n + (i - n) = i
        <4>1. f[n + (i - n)] \in Range(rest)
          BY <2>1, <3>2
        <4> QED BY <3>2, <4>1
      <3> QED BY <2>3, <3>1, <3>2
    <2>9. Range(f) \subseteq Range(taken) \cup Range(rest)
      BY <2>1, <2>8
    <2> QED BY <2>6, <2>7, <2>9
  <1>9. UnkeyedFirst(rest, key2)
    <2>1. \A i \in 1 .. L - n : rest[i] \in BlockId /\ rest[i] \notin Range(taken)
      <3>1. \A i \in 1 .. L - n : rest[i] \in Range(rest)
        BY <1>3 DEF Range
      <3> QED BY <1>1, <1>7, <1>8, <3>1
    <2>2. \A i \in 1 .. L - n : key2[rest[i]] = key[f[n + i]]
      BY <1>4, <1>7, <2>1
    <2>3. \A i, j \in 1 .. L - n : i < j => n + i < n + j
      BY <1>1
    <2> QED BY <1>1, <1>3, <1>7, <2>2, <2>3, SMTT(30) DEF UnkeyedFirst, L
  <1> QED BY <1>2, <1>3, <1>5, <1>6, <1>7, <1>8, <1>9 DEF Queue, taken, rest, L

LEMMA ReverseIs ==
  ASSUME NEW u \in Seq(BlockId), Once(u)
  PROVE  /\ Reverse(u) \in Seq(BlockId) /\ Len(Reverse(u)) = Len(u) /\ Once(Reverse(u))
         /\ Range(Reverse(u)) = Range(u) /\ \A i \in 1 .. Len(u) : Reverse(u)[i] \in Range(u)
  <1> DEFINE r == Reverse(u)
             a == Len(u)
  <1>0. a \in Nat /\ DOMAIN u = 1 .. a
    BY LenProperties
  <1>1. r = [i \in 1 .. a |-> u[a - i + 1]]
    BY DEF Reverse
  <1>2. \A i \in 1 .. a : a - i + 1 \in 1 .. a /\ u[a - i + 1] \in BlockId
    BY <1>0, ElementOfSeq
  <1>3. r \in [1 .. a -> BlockId]
    BY <1>1, <1>2
  <1>4. \A i, j \in 1 .. a : u[i] = u[j] => i = j
    BY DEF Once
  <1> HIDE DEF r, a
  <1>5. r \in Seq(BlockId) /\ Len(r) = a
    BY <1>0, <1>3, SeqDef, LenProperties
  <1>6. \A i, j \in 1 .. a : a - i + 1 = a - j + 1 => i = j
    BY <1>0
  <1>7. Once(r)
    <2>1. \A i, j \in 1 .. a : r[i] = r[j] => a - i + 1 = a - j + 1
      BY <1>1, <1>2, <1>4
    <2>2. \A i, j \in 1 .. a : r[i] = r[j] => i = j
      BY <1>6, <2>1
    <2> QED BY <1>5, <2>2 DEF Once
  <1>8. Range(r) = {u[a - i + 1] : i \in 1 .. a} /\ Range(u) = {u[i] : i \in 1 .. a}
    BY <1>0, <1>1 DEF Range
  <1>9. \A i \in 1 .. a : a - (a - i + 1) + 1 = i
    BY <1>0
  <1>10. Range(r) = Range(u)
    BY <1>2, <1>8, <1>9
  <1>11. \A i \in 1 .. a : r[i] \in Range(r)
    BY <1>8, <1>1
  <1> QED BY <1>5, <1>7, <1>10, <1>11 DEF r, a

(* Blocks come back (release): those without a key to the front, those     *)
(* with a key to the back.                                                 *)
LEMMA QueueReturn ==
  ASSUME NEW f, NEW key, Queue(f, key), NEW u \in Seq(BlockId), NEW k \in Seq(BlockId),
         Once(u), Once(k), Range(u) \cap Range(f) = {}, Range(k) \cap Range(f) = {},
         \A b \in Range(u) : key[b] = None, \A b \in Range(k) : key[b] # None
  PROVE  LET g == Reverse(u) \o f \o k
         IN  Queue(g, key) /\ Range(g) = Range(u) \cup Range(f) \cup Range(k)
  <1> DEFINE r == Reverse(u)
             a == Len(u)
             b == Len(f)
             c == Len(k)
             g == r \o f \o k
  <1>1. f \in Seq(BlockId) /\ Once(f) /\ UnkeyedFirst(f, key) /\ a \in Nat /\ b \in Nat /\ c \in Nat
        /\ DOMAIN f = 1 .. b /\ DOMAIN u = 1 .. a /\ DOMAIN k = 1 .. c
    BY LenProperties DEF Queue
  <1>2. r \in Seq(BlockId) /\ Len(r) = a /\ Once(r) /\ Range(r) = Range(u)
        /\ \A i \in 1 .. a : r[i] \in Range(u)
    BY ReverseIs
  <1> HIDE DEF r
  <1>3. r \o f \in Seq(BlockId) /\ Len(r \o f) = a + b /\ Range(r \o f) = Range(u) \cup Range(f)
        /\ \A i \in 1 .. a + b : (r \o f)[i] = IF i <= a THEN r[i] ELSE f[i - a]
    <2>1. r \in Seq(BlockId) /\ f \in Seq(BlockId) /\ Len(r) = a /\ Len(f) = b /\ Range(r) = Range(u)
      BY <1>1, <1>2
    <2> HIDE DEF a, b
    <2>2. Range(r \o f) = Range(u) \cup Range(f)
      BY <2>1, RangeConcatenation
    <2>3. r \o f \in Seq(BlockId) /\ Len(r \o f) = Len(r) + Len(f)
          /\ \A i \in 1 .. Len(r) + Len(f) : (r \o f)[i] = IF i <= Len(r) THEN r[i] ELSE f[i - Len(r)]
      BY <2>1, ConcatProperties
    <2> QED BY <2>1, <2>2, <2>3
  <1> DEFINE h == r \o f
  <1> HIDE DEF h
  <1>4. h \in Seq(BlockId) /\ Len(h) = a + b /\ Range(h) = Range(u) \cup Range(f)
        /\ \A i \in 1 .. a + b : h[i] = IF i <= a THEN r[i] ELSE f[i - a]
    BY <1>3 DEF h
  <1>5. h \o k \in Seq(BlockId) /\ Len(h \o k) = a + b + c /\ Range(h \o k) = Range(u) \cup Range(f) \cup Range(k)
        /\ \A i \in 1 .. a + b + c : (h \o k)[i] = IF i <= a + b THEN h[i] ELSE k[i - (a + b)]
    <2> DEFINE ab == a + b
    <2>1. h \in Seq(BlockId) /\ k \in Seq(BlockId) /\ Len(h) = ab /\ Len(k) = c /\ Range(h) = Range(u) \cup Range(f)
      BY <1>4
    <2> HIDE DEF ab, c
    <2>2. Range(h \o k) = Range(u) \cup Range(f) \cup Range(k)
      BY <2>1, RangeConcatenation
    <2>3. h \o k \in Seq(BlockId) /\ Len(h \o k) = Len(h) + Len(k)
          /\ \A i \in 1 .. Len(h) + Len(k) : (h \o k)[i] = IF i <= Len(h) THEN h[i] ELSE k[i - Len(h)]
      <3>1. h \in Seq(BlockId) /\ k \in Seq(BlockId)
        BY <2>1
      <3> QED BY ONLY <3>1, ConcatProperties
    <2>4. h \o k \in Seq(BlockId) /\ Len(h \o k) = ab + c
          /\ \A i \in 1 .. ab + c : (h \o k)[i] = IF i <= ab THEN h[i] ELSE k[i - ab]
      BY <2>1, <2>3
    <2> QED BY <2>2, <2>4 DEF ab, c
  <1>6. g = h \o k
    BY DEF h
  <1> HIDE DEF a, b, c, g
  <1>7. g \in Seq(BlockId) /\ Len(g) = a + b + c /\ Range(g) = Range(u) \cup Range(f) \cup Range(k)
        /\ \A i \in 1 .. a + b + c : g[i] = IF i <= a THEN r[i] ELSE IF i <= a + b THEN f[i - a] ELSE k[i - (a + b)]
    <2>1. \A i \in 1 .. a + b + c : i <= a => i <= a + b
      BY <1>1
    <2>2. \A i \in 1 .. a + b + c : i <= a + b => i \in 1 .. a + b
      BY <1>1
    <2> QED BY <1>1, <1>4, <1>5, <1>6, <2>1, <2>2
  \* Which part of g a place is in.
  <1>8. ASSUME NEW i \in 1 .. a + b + c
        PROVE  \/ i \in 1 .. a /\ g[i] = r[i] /\ g[i] \in Range(u)
               \/ i - a \in 1 .. b /\ g[i] = f[i - a] /\ g[i] \in Range(f)
               \/ i - (a + b) \in 1 .. c /\ g[i] = k[i - (a + b)] /\ g[i] \in Range(k)
    <2>1. CASE i <= a
      <3>1. i \in 1 .. a
        BY <1>1, <2>1
      <3> QED BY <1>2, <1>7, <2>1, <3>1
    <2>2. CASE ~(i <= a) /\ i <= a + b
      <3>1. i - a \in 1 .. b
        BY <1>1, <2>2
      <3>2. f[i - a] \in Range(f)
        BY <1>1, <3>1 DEF Range
      <3> QED BY <1>7, <2>2, <3>1, <3>2
    <2>3. CASE ~(i <= a) /\ ~(i <= a + b)
      <3>1. i - (a + b) \in 1 .. c
        BY <1>1, <2>3
      <3>2. k[i - (a + b)] \in Range(k)
        BY <1>1, <3>1 DEF Range
      <3> QED BY <1>7, <2>3, <3>1, <3>2
    <2> QED BY <2>1, <2>2, <2>3
  <1>9. Once(g)
    <2> SUFFICES ASSUME NEW i \in 1 .. a + b + c, NEW j \in 1 .. a + b + c, g[i] = g[j] PROVE i = j
      BY <1>7 DEF Once
    <2>1. Range(u) \cap Range(k) = {} /\ Range(u) \cap Range(f) = {} /\ Range(k) \cap Range(f) = {}
      OBVIOUS
    <2>2. CASE g[i] \in Range(u)
      <3>1. i \in 1 .. a /\ j \in 1 .. a /\ r[i] = r[j]
        BY <1>8, <2>1, <2>2
      <3> QED BY <1>2, <3>1 DEF Once
    <2>3. CASE g[i] \in Range(f)
      <3>1. i - a \in 1 .. b /\ j - a \in 1 .. b /\ f[i - a] = f[j - a]
        BY <1>8, <2>1, <2>3
      <3>2. i - a = j - a
        BY <1>1, <3>1 DEF Once, b
      <3> QED BY <1>1, <3>2
    <2>4. CASE g[i] \in Range(k)
      <3>1. i - (a + b) \in 1 .. c /\ j - (a + b) \in 1 .. c /\ k[i - (a + b)] = k[j - (a + b)]
        BY <1>8, <2>1, <2>4
      <3>2. i - (a + b) = j - (a + b)
        BY <3>1 DEF Once, c
      <3> QED BY <1>1, <3>2
    <2> QED BY <1>8, <2>2, <2>3, <2>4
  <1>10. UnkeyedFirst(g, key)
    <2> SUFFICES ASSUME NEW i \in 1 .. a + b + c, NEW j \in 1 .. a + b + c, i < j, key[g[i]] # None
                 PROVE  key[g[j]] # None
      BY <1>7 DEF UnkeyedFirst
    <2>1. i \notin 1 .. a
      BY <1>7, <1>2
    <2>2. CASE g[j] \in Range(k)
      BY <2>2
    <2>3. CASE i - a \in 1 .. b /\ g[i] = f[i - a] /\ j - a \in 1 .. b /\ g[j] = f[j - a]
      <3>1. i - a < j - a
        BY <1>1
      <3> QED BY <1>1, <2>3, <3>1 DEF UnkeyedFirst, b
    <2>4. CASE j \in 1 .. a
      BY <1>1, <2>1, <2>4
    <2>5. CASE i - (a + b) \in 1 .. c /\ j - a \in 1 .. b
      BY <1>1, <2>5
    <2> QED BY <1>8, <2>1, <2>2, <2>3, <2>4, <2>5
  <1>11. Queue(g, key) /\ Range(g) = Range(u) \cup Range(f) \cup Range(k)
    BY <1>7, <1>9, <1>10 DEF Queue
  <1> QED BY <1>11 DEF g, r


----------------------------------------------------------------------------
(* The primitives and the operations, field by field.                      *)

Manager(sequences, ref_counts, block_hashes, free, cached) ==
  [sequences |-> sequences, ref_counts |-> ref_counts, block_hashes |-> block_hashes,
   free |-> free, cached |-> cached]

LEMMA OneField ==
  ASSUME NEW m, NEW a, NEW b, NEW c, NEW d, NEW e, m = Manager(a, b, c, d, e), NEW x
  PROVE  /\ [m EXCEPT !.sequences = x] = Manager(x, b, c, d, e)
         /\ [m EXCEPT !.ref_counts = x] = Manager(a, x, c, d, e)
         /\ [m EXCEPT !.block_hashes = x] = Manager(a, b, x, d, e)
         /\ [m EXCEPT !.free = x] = Manager(a, b, c, x, e)
         /\ [m EXCEPT !.cached = x] = Manager(a, b, c, d, x)
         /\ m.sequences = a /\ m.ref_counts = b /\ m.block_hashes = c /\ m.free = d /\ m.cached = e
  BY DEF Manager

\* The fields once the first n free blocks are taken, or a table is pinned or
\* released, or sequence s is q.
TakenOf(m, n) == Range(SubSeq(m.free, 1, n))
RefsTaken(m, T) == [b \in BlockId |-> IF b \in T THEN 1 ELSE m.ref_counts[b]]
KeysTaken(m, T) == [b \in BlockId |-> IF b \in T THEN None ELSE m.block_hashes[b]]
MapTaken(m, T) == Restrict(m.cached, DOMAIN m.cached \ {m.block_hashes[b] : b \in T})
RefsPinned(m, P) == [b \in BlockId |-> IF b \in P THEN m.ref_counts[b] + 1 ELSE m.ref_counts[b]]
RefsReleased(m, P) == [b \in BlockId |-> IF b \in P THEN m.ref_counts[b] - 1 ELSE m.ref_counts[b]]
With(m, s, q) == [t \in Live(m) \cup {s} |-> IF t = s THEN q ELSE m.sequences[t]]

Reserved(q, table, scheduled) == [q EXCEPT !.table = table, !.scheduled = scheduled]

LEMMA ManagerIs ==
  ASSUME NEW m, IsManager(m)
  PROVE  m = Manager(m.sequences, m.ref_counts, m.block_hashes, m.free, m.cached)
  BY DEF IsManager, Manager

LEMMA TakeFreeIs ==
  ASSUME NEW m, IsManager(m), NEW n
  PROVE  TakeFree(m, n) =
           Manager(m.sequences, RefsTaken(m, TakenOf(m, n)), KeysTaken(m, TakenOf(m, n)),
                   SubSeq(m.free, n + 1, Len(m.free)), MapTaken(m, TakenOf(m, n)))
  <1> DEFINE r == RefsTaken(m, TakenOf(m, n))
             k == KeysTaken(m, TakenOf(m, n))
             f == SubSeq(m.free, n + 1, Len(m.free))
             h == MapTaken(m, TakenOf(m, n))
  <1>1. TakeFree(m, n) = [m EXCEPT !.free = f, !.ref_counts = r, !.block_hashes = k, !.cached = h]
    BY DEF TakeFree, RefsTaken, KeysTaken, MapTaken, TakenOf
  <1>2. m = Manager(m.sequences, m.ref_counts, m.block_hashes, m.free, m.cached)
    BY ManagerIs
  <1> HIDE DEF r, k, f, h
  <1>3. TakeFree(m, n) = Manager(m.sequences, r, k, f, h)
    <2>1. [m EXCEPT !.free = f, !.ref_counts = r, !.block_hashes = k, !.cached = h]
            = [[[[m EXCEPT !.free = f] EXCEPT !.ref_counts = r] EXCEPT !.block_hashes = k] EXCEPT !.cached = h]
      OBVIOUS
    <2>2. [m EXCEPT !.free = f] = Manager(m.sequences, m.ref_counts, m.block_hashes, f, m.cached)
      BY <1>2, OneField
    <2>3. [Manager(m.sequences, m.ref_counts, m.block_hashes, f, m.cached) EXCEPT !.ref_counts = r]
            = Manager(m.sequences, r, m.block_hashes, f, m.cached)
      BY OneField
    <2>4. [Manager(m.sequences, r, m.block_hashes, f, m.cached) EXCEPT !.block_hashes = k]
            = Manager(m.sequences, r, k, f, m.cached)
      BY OneField
    <2>5. [Manager(m.sequences, r, k, f, m.cached) EXCEPT !.cached = h] = Manager(m.sequences, r, k, f, h)
      BY OneField
    <2> QED BY <1>1, <2>1, <2>2, <2>3, <2>4, <2>5
  <1> QED BY <1>3 DEF r, k, f, h

LEMMA AddRefsIs ==
  ASSUME NEW m, IsManager(m), NEW table
  PROVE  AddRefs(m, table) =
           Manager(m.sequences, RefsPinned(m, Range(table)), m.block_hashes,
                   Keep(m.free, BlockId \ Range(table)), m.cached)
  <1> DEFINE r == RefsPinned(m, Range(table))
             f == Keep(m.free, BlockId \ Range(table))
  <1>1. AddRefs(m, table) = [m EXCEPT !.ref_counts = r, !.free = f]
    BY DEF AddRefs, RefsPinned
  <1>2. m = Manager(m.sequences, m.ref_counts, m.block_hashes, m.free, m.cached)
    BY ManagerIs
  <1> HIDE DEF r, f
  <1>3. AddRefs(m, table) = Manager(m.sequences, r, m.block_hashes, f, m.cached)
    <2>1. [m EXCEPT !.ref_counts = r, !.free = f] = [[m EXCEPT !.ref_counts = r] EXCEPT !.free = f]
      OBVIOUS
    <2>2. [m EXCEPT !.ref_counts = r] = Manager(m.sequences, r, m.block_hashes, m.free, m.cached)
      BY <1>2, OneField
    <2>3. [Manager(m.sequences, r, m.block_hashes, m.free, m.cached) EXCEPT !.free = f]
            = Manager(m.sequences, r, m.block_hashes, f, m.cached)
      BY OneField
    <2> QED BY <1>1, <2>1, <2>2, <2>3
  <1> QED BY <1>3 DEF r, f

Unkeyed(m, table) == Keep(table, {b \in {c \in Range(table) : m.ref_counts[c] = 1} : m.block_hashes[b] = None})
Keyed(m, table) == Keep(table, {b \in {c \in Range(table) : m.ref_counts[c] = 1} : m.block_hashes[b] # None})

LEMMA ReleaseAllIs ==
  ASSUME NEW m, IsManager(m), NEW table
  PROVE  ReleaseAll(m, table) =
           Manager(m.sequences, RefsReleased(m, Range(table)), m.block_hashes,
                   Reverse(Unkeyed(m, table)) \o m.free \o Keyed(m, table), m.cached)
  <1> DEFINE r == RefsReleased(m, Range(table))
             f == Reverse(Unkeyed(m, table)) \o m.free \o Keyed(m, table)
  <1>1. ReleaseAll(m, table) = [m EXCEPT !.ref_counts = r, !.free = f]
    BY DEF ReleaseAll, RefsReleased, Keyed, Unkeyed
  <1>2. m = Manager(m.sequences, m.ref_counts, m.block_hashes, m.free, m.cached)
    BY ManagerIs
  <1> HIDE DEF r, f
  <1>3. ReleaseAll(m, table) = Manager(m.sequences, r, m.block_hashes, f, m.cached)
    <2>1. [m EXCEPT !.ref_counts = r, !.free = f] = [[m EXCEPT !.ref_counts = r] EXCEPT !.free = f]
      OBVIOUS
    <2>2. [m EXCEPT !.ref_counts = r] = Manager(m.sequences, r, m.block_hashes, m.free, m.cached)
      BY <1>2, OneField
    <2>3. [Manager(m.sequences, r, m.block_hashes, m.free, m.cached) EXCEPT !.free = f]
            = Manager(m.sequences, r, m.block_hashes, f, m.cached)
      BY OneField
    <2> QED BY <1>1, <2>1, <2>2, <2>3
  <1> QED BY <1>3 DEF r, f

LEMMA PutIs ==
  ASSUME NEW m, m = Manager(m.sequences, m.ref_counts, m.block_hashes, m.free, m.cached), NEW s, NEW q
  PROVE  PutSequence(m, s, q) =
           Manager(With(m, s, q), m.ref_counts, m.block_hashes, m.free, m.cached)
  <1>1. PutSequence(m, s, q) = [m EXCEPT !.sequences = With(m, s, q)]
    BY DEF PutSequence, With, Live
  <1> QED BY <1>1, OneField

LEMMA DropIs ==
  ASSUME NEW m, m = Manager(m.sequences, m.ref_counts, m.block_hashes, m.free, m.cached), NEW s
  PROVE  DropSequence(m, s) =
           Manager(Restrict(m.sequences, Live(m) \ {s}), m.ref_counts, m.block_hashes, m.free, m.cached)
  <1>1. DropSequence(m, s) = [m EXCEPT !.sequences = Restrict(m.sequences, Live(m) \ {s})]
    BY DEF DropSequence, Live
  <1> QED BY <1>1, OneField

(* A reservation that copies nothing.                                      *)
LEMMA ReserveIs ==
  ASSUME NEW m, IsManager(m), NEW s, NEW q, NEW count \in Nat \ {0}, ~NeedsCopy(m, q),
         NEW n \in Nat, n = DivCeil(q.scheduled + count) - Len(q.table)
  PROVE  /\ Cost(m, q, count) = n
         /\ Reserve(m, s, q, count) =
              Manager(With(m, s, Reserved(q, q.table \o SubSeq(m.free, 1, n), q.scheduled + count)),
                      RefsTaken(m, TakenOf(m, n)), KeysTaken(m, TakenOf(m, n)),
                      SubSeq(m.free, n + 1, Len(m.free)), MapTaken(m, TakenOf(m, n)))
  <1>1. Cost(m, q, count) = n
    BY DEF Cost
  <1> DEFINE M == TakeFree(m, n)
             r == Reserved(q, q.table \o SubSeq(m.free, 1, n), q.scheduled + count)
  <1>2. Reserve(m, s, q, count) = PutSequence(M, s, r)
    BY <1>1 DEF Reserve, Reserved
  <1>3. M = Manager(m.sequences, RefsTaken(m, TakenOf(m, n)), KeysTaken(m, TakenOf(m, n)),
                    SubSeq(m.free, n + 1, Len(m.free)), MapTaken(m, TakenOf(m, n)))
    BY TakeFreeIs
  <1> HIDE DEF M, r
  <1>4. M.sequences = m.sequences /\ M.ref_counts = RefsTaken(m, TakenOf(m, n))
        /\ M.block_hashes = KeysTaken(m, TakenOf(m, n)) /\ M.free = SubSeq(m.free, n + 1, Len(m.free))
        /\ M.cached = MapTaken(m, TakenOf(m, n))
    <2> DEFINE R == RefsTaken(m, TakenOf(m, n))
               K == KeysTaken(m, TakenOf(m, n))
               F == SubSeq(m.free, n + 1, Len(m.free))
               H == MapTaken(m, TakenOf(m, n))
    <2>1. M = Manager(m.sequences, R, K, F, H)
      BY <1>3
    <2> HIDE DEF R, K, F, H
    <2>2. M.sequences = m.sequences /\ M.ref_counts = R /\ M.block_hashes = K /\ M.free = F /\ M.cached = H
      BY <2>1, OneField
    <2> QED BY <2>2 DEF R, K, F, H
  <1>5. PutSequence(M, s, r) = Manager(With(M, s, r), M.ref_counts, M.block_hashes, M.free, M.cached)
    <2>1. M = Manager(M.sequences, M.ref_counts, M.block_hashes, M.free, M.cached)
      BY <1>3, <1>4
    <2> QED BY <2>1, PutIs
  <1>6. With(M, s, r) = With(m, s, r)
    BY <1>4 DEF With, Live
  <1> QED BY <1>1, <1>2, <1>4, <1>5, <1>6 DEF r


LEMMA KeepNone ==
  ASSUME NEW S, NEW s \in Seq(S)
  PROVE  Keep(s, {}) = <<>>
  <1> DEFINE t == Keep(s, {})
  <1>1. t \in Seq(S) /\ Range(t) = {}
    BY KeepProperties
  <1> HIDE DEF t
  <1>2. Len(t) = 0
    <2>1. Len(t) \in Nat /\ \A i \in 1 .. Len(t) : t[i] \in Range(t)
      BY <1>1, RangeIs
    <2>2. Len(t) # 0 => 1 \in 1 .. Len(t)
      BY <2>1
    <2> QED BY <1>1, <2>1, <2>2
  <1>3. t = <<>>
    BY <1>1, <1>2, EmptySeq
  <1> QED BY <1>3 DEF t

(* A reservation that copies the shared tail block.                        *)
RefsCopied(m, T, last) ==
  [b \in BlockId |-> IF b \in T THEN 1 ELSE IF b = last THEN m.ref_counts[b] - 1 ELSE m.ref_counts[b]]

LEMMA ReserveCopyIs ==
  ASSUME NEW m, IsManager(m), NEW s, NEW q, q.table \in Seq(BlockId), NeedsCopy(m, q),
         DivCeil(q.scheduled + 1) = Len(q.table), Len(m.free) >= 1,
         \A b \in Range(m.free) : m.ref_counts[b] = 0
  PROVE  /\ Cost(m, q, 1) = 1
         /\ Reserve(m, s, q, 1) =
              Manager(With(m, s, Reserved(q, Front(q.table) \o SubSeq(m.free, 1, 1), q.scheduled + 1)),
                      RefsCopied(m, TakenOf(m, 1), Last(q.table)), KeysTaken(m, TakenOf(m, 1)),
                      SubSeq(m.free, 2, Len(m.free)), MapTaken(m, TakenOf(m, 1)))
  <1> DEFINE last == Last(q.table)
             T == TakenOf(m, 1)
             F == SubSeq(m.free, 2, Len(m.free))
             M == TakeFree(m, 1)
             N == ReleaseAll(M, <<last>>)
             r == Reserved(q, Front(q.table) \o SubSeq(m.free, 1, 1), q.scheduled + 1)
  <1>0. Len(q.table) \in Nat /\ Len(q.table) # 0 /\ last \in BlockId /\ m.ref_counts[last] > 1
    <2>1. Len(q.table) \in Nat /\ q.table # <<>> /\ m.ref_counts[last] > 1
      BY LenProperties DEF NeedsCopy
    <2>2. Len(q.table) # 0
      BY <2>1, EmptySeq
    <2>3. Len(q.table) \in 1 .. Len(q.table)
      BY <2>1, <2>2
    <2>4. last \in BlockId
      BY <2>3, ElementOfSeq DEF Last
    <2> QED BY <2>1, <2>2, <2>4
  <1>1. Cost(m, q, 1) = 1
    BY <1>0 DEF Cost
  <1>2. Reserve(m, s, q, 1) = PutSequence(N, s, r)
    <2> DEFINE copy == 1 > 0 /\ NeedsCopy(m, q)
    <2>1. copy
      OBVIOUS
    <2>2. Reserve(m, s, q, 1) =
            PutSequence(IF copy THEN N ELSE M, s,
              [q EXCEPT !.table = (IF copy THEN Front(q.table) ELSE q.table) \o SubSeq(m.free, 1, 1),
                        !.scheduled = q.scheduled + 1])
      BY <1>1 DEF Reserve
    <2> HIDE DEF copy, M, N
    <2> QED BY <2>1, <2>2 DEF Reserved
  <1>3. M = Manager(m.sequences, RefsTaken(m, T), KeysTaken(m, T), F, MapTaken(m, T))
    BY TakeFreeIs
  <1>4. T \subseteq Range(m.free) /\ F \in Seq(BlockId)
    <2> DEFINE f == m.free
    <2>1. f \in Seq(BlockId) /\ Len(f) \in Nat /\ Len(f) >= 1 /\ DOMAIN f = 1 .. Len(f)
      BY LenProperties DEF IsManager
    <2>2. f[1] \in Range(f) /\ f[1] \in BlockId
      BY <2>1, ElementOfSeq DEF Range
    <2> HIDE DEF f
    <2>3. SubSeq(f, 1, 1) = [i \in 1 .. 1 |-> f[i]]
      BY <2>1
    <2>4. Range(SubSeq(f, 1, 1)) = {f[1]}
      BY <2>3 DEF Range
    <2>5. \A i \in 2 .. Len(f) : f[i] \in BlockId
      BY <2>1, ElementOfSeq
    <2>6. SubSeq(f, 2, Len(f)) \in Seq(BlockId)
      BY <2>1, <2>5, SubSeqProperties
    <2> QED BY <2>2, <2>4, <2>6 DEF f, TakenOf
  <1>5. last \notin T
    BY <1>0, <1>4
  <1> DEFINE R == RefsTaken(m, T)
             K == KeysTaken(m, T)
             H == MapTaken(m, T)
  <1>6. R \in [BlockId -> Nat] /\ \A h \in DOMAIN H : H[h] \in BlockId
    BY DEF RefsTaken, MapTaken, Restrict, IsManager
  <1>7. R[last] = m.ref_counts[last]
    BY <1>0, <1>5 DEF RefsTaken
  <1> HIDE DEF M, N, R, K, H, F, r, T, last
  <1>8. M = Manager(m.sequences, R, K, F, H)
    BY <1>3 DEF R, K, H
  <1>9. M.sequences = m.sequences /\ M.ref_counts = R /\ M.block_hashes = K /\ M.free = F /\ M.cached = H
    BY <1>8, OneField
  <1>10. IsManager(M)
    BY <1>4, <1>6, <1>8, <1>9 DEF IsManager, Manager
  <1>11. Range(<<last>>) = {last} /\ <<last>> \in Seq(BlockId)
    BY <1>0 DEF Range
  <1>12. Unkeyed(M, <<last>>) = <<>> /\ Keyed(M, <<last>>) = <<>>
    <2>1. {c \in {last} : M.ref_counts[c] = 1} = {}
      BY <1>0, <1>7, <1>9
    <2>2. Unkeyed(M, <<last>>) = Keep(<<last>>, {}) /\ Keyed(M, <<last>>) = Keep(<<last>>, {})
      BY <1>11, <2>1 DEF Unkeyed, Keyed
    <2> QED BY <1>11, <2>2, KeepNone
  <1>13. Reverse(<<>>) \o F \o <<>> = F
    <2>1. Reverse(<<>>) = <<>>
      BY DEF Reverse
    <2> QED BY <1>4, <2>1, ConcatEmptySeq
  <1>14. N = Manager(M.sequences, RefsReleased(M, {last}), M.block_hashes, M.free, M.cached)
    <2>1. N = Manager(M.sequences, RefsReleased(M, Range(<<last>>)), M.block_hashes,
                   Reverse(Unkeyed(M, <<last>>)) \o M.free \o Keyed(M, <<last>>), M.cached)
      BY <1>10, ReleaseAllIs DEF N
    <2> QED BY <1>9, <1>11, <1>12, <1>13, <2>1
  <1>15. RefsReleased(M, {last}) = RefsCopied(m, T, last)
    <2>1. \A b \in BlockId : R[b] = IF b \in T THEN 1 ELSE m.ref_counts[b]
      BY DEF R, RefsTaken
    <2> QED BY <1>5, <1>9, <2>1 DEF RefsReleased, RefsCopied
  <1> DEFINE C == RefsCopied(m, T, last)
  <1> HIDE DEF C
  <1>16. N = Manager(m.sequences, C, K, F, H)
    BY <1>9, <1>14, <1>15 DEF C
  <1>17. N.sequences = m.sequences /\ N.ref_counts = C /\ N.block_hashes = K /\ N.free = F /\ N.cached = H
    BY <1>16, OneField
  <1>18. PutSequence(N, s, r) = Manager(With(N, s, r), C, K, F, H)
    <2>1. N = Manager(N.sequences, N.ref_counts, N.block_hashes, N.free, N.cached)
      BY <1>16, <1>17
    <2>2. PutSequence(N, s, r) = Manager(With(N, s, r), N.ref_counts, N.block_hashes, N.free, N.cached)
      BY <2>1, PutIs
    <2> QED BY <1>17, <2>2
  <1>19. With(N, s, r) = With(m, s, r)
    BY <1>17 DEF With, Live
  <1> QED BY <1>1, <1>2, <1>18, <1>19 DEF C, K, H, F, r, T, last


(* The operations.                                                         *)
LEMMA ForkIs ==
  ASSUME NEW m, IsManager(m), NEW parent, NEW child
  PROVE  LET q == m.sequences[parent]
         IN  Fork(m, parent, child) =
               Manager(With(m, child, q), RefsPinned(m, Range(q.table)), m.block_hashes,
                       Keep(m.free, BlockId \ Range(q.table)), m.cached)
  <1> DEFINE q == m.sequences[parent]
             M == AddRefs(m, q.table)
             R == RefsPinned(m, Range(q.table))
             F == Keep(m.free, BlockId \ Range(q.table))
  <1>1. Fork(m, parent, child) = PutSequence(M, child, q)
    BY DEF Fork
  <1>2. M = Manager(m.sequences, R, m.block_hashes, F, m.cached)
    BY AddRefsIs
  <1> HIDE DEF M, R, F, q
  <1>3. M.sequences = m.sequences /\ M.ref_counts = R /\ M.block_hashes = m.block_hashes
        /\ M.free = F /\ M.cached = m.cached
    BY <1>2, OneField
  <1>4. M = Manager(M.sequences, M.ref_counts, M.block_hashes, M.free, M.cached)
    BY <1>2, <1>3
  <1>5. PutSequence(M, child, q) = Manager(With(M, child, q), M.ref_counts, M.block_hashes, M.free, M.cached)
    BY <1>4, PutIs
  <1>6. With(M, child, q) = With(m, child, q)
    BY <1>3 DEF With, Live
  <1> QED BY <1>1, <1>3, <1>5, <1>6 DEF R, F, q

LEMMA FreeIs ==
  ASSUME NEW m, IsManager(m), NEW s
  PROVE  LET table == Reverse(m.sequences[s].table)
         IN  FreeSequence(m, s) =
               Manager(Restrict(m.sequences, Live(m) \ {s}), RefsReleased(m, Range(table)), m.block_hashes,
                       Reverse(Unkeyed(m, table)) \o m.free \o Keyed(m, table), m.cached)
  <1> DEFINE table == Reverse(m.sequences[s].table)
             M == ReleaseAll(m, table)
             R == RefsReleased(m, Range(table))
             F == Reverse(Unkeyed(m, table)) \o m.free \o Keyed(m, table)
  <1>1. FreeSequence(m, s) = DropSequence(M, s)
    BY DEF FreeSequence
  <1>2. M = Manager(m.sequences, R, m.block_hashes, F, m.cached)
    BY ReleaseAllIs
  <1> HIDE DEF M, R, F, table
  <1>3. M.sequences = m.sequences /\ M.ref_counts = R /\ M.block_hashes = m.block_hashes
        /\ M.free = F /\ M.cached = m.cached
    BY <1>2, OneField
  <1>4. M = Manager(M.sequences, M.ref_counts, M.block_hashes, M.free, M.cached)
    BY <1>2, <1>3
  <1>5. DropSequence(M, s) =
          Manager(Restrict(M.sequences, Live(M) \ {s}), M.ref_counts, M.block_hashes, M.free, M.cached)
    BY <1>4, DropIs
  <1>6. Live(M) = Live(m)
    BY <1>3 DEF Live
  <1> QED BY <1>1, <1>3, <1>5, <1>6 DEF R, F, table

\* The record of a sequence admitted with `chunk` in the blocks `taken`, and
\* the counts once the blocks P are pinned and the blocks T taken.
AdmittedRow(hit, chunk, taken) ==
  [keys       |-> hit.keys,
   table      |-> hit.blocks \o taken,
   scheduled  |-> hit.cached_tokens + Len(chunk),
   computed   |-> hit.cached_tokens,
   hashes     |-> hit.hashes,
   unhashed   |-> IF PrefixCaching THEN <<>> \o chunk ELSE <<>>,
   unresolved |-> 0]
RefsAdmitted(m, P, T) ==
  [b \in BlockId |-> IF b \in T THEN 1
                     ELSE IF b \in P THEN m.ref_counts[b] + 1 ELSE m.ref_counts[b]]

\* The manager once s is admitted with n free blocks.
Admitted(m, s, hit, chunk, n) ==
  LET P == Range(hit.blocks)
      F == Keep(m.free, BlockId \ P)
      T == Range(SubSeq(F, 1, n))
  IN  Manager(With(m, s, AdmittedRow(hit, chunk, SubSeq(F, 1, n))), RefsAdmitted(m, P, T),
              KeysTaken(m, T), SubSeq(F, n + 1, Len(F)), MapTaken(m, T))

(* admit, when the hit's blocks leave enough free ones for the chunk.      *)
LEMMA AdmitIs ==
  ASSUME NEW m, IsManager(m), NEW s, NEW hit, NEW chunk, hit.cached_tokens % BlockTokens = 0,
         Len(chunk) \in Nat \ {0}, hit.blocks \in Seq(BlockId),
         NEW n \in Nat, n = DivCeil(hit.cached_tokens + Len(chunk)) - Len(hit.blocks)
  PROVE  Admit(m, s, hit, chunk) = Admitted(m, s, hit, chunk, n)
  <1> DEFINE P == Range(hit.blocks)
             F == Keep(m.free, BlockId \ P)
             T == Range(SubSeq(F, 1, n))
             R == RefsPinned(m, P)
             M == AddRefs(m, hit.blocks)
             u == IF PrefixCaching THEN <<>> \o chunk ELSE <<>>
             q == [keys       |-> hit.keys,
                   table      |-> hit.blocks,
                   scheduled  |-> hit.cached_tokens,
                   computed   |-> hit.cached_tokens,
                   hashes     |-> hit.hashes,
                   unhashed   |-> <<>>,
                   unresolved |-> 0]
             r == [q EXCEPT !.unhashed = u]
             z == Reserved(r, r.table \o SubSeq(M.free, 1, n), r.scheduled + Len(chunk))
  <1>1. Admit(m, s, hit, chunk) = Reserve(M, s, r, Len(chunk))
    BY DEF Admit, AppendTokens
  <1>2. M = Manager(m.sequences, R, m.block_hashes, F, m.cached)
    BY AddRefsIs
  <1>3. F \in Seq(BlockId)
    BY KeepProperties DEF IsManager
  <1>4. R \in [BlockId -> Nat]
    BY DEF RefsPinned, IsManager
  <1>5. r.table = hit.blocks /\ r.scheduled = hit.cached_tokens
    OBVIOUS
  <1> HIDE DEF M, R, F
  <1>6. M.sequences = m.sequences /\ M.ref_counts = R /\ M.block_hashes = m.block_hashes
        /\ M.free = F /\ M.cached = m.cached
    BY <1>2, OneField
  <1>7. IsManager(M)
    BY <1>2, <1>3, <1>4, <1>6 DEF IsManager, Manager
  <1>8. ~NeedsCopy(M, r)
    BY <1>5 DEF NeedsCopy
  <1>9. z = [keys       |-> hit.keys,
             table      |-> hit.blocks \o SubSeq(F, 1, n),
             scheduled  |-> hit.cached_tokens + Len(chunk),
             computed   |-> hit.cached_tokens,
             hashes     |-> hit.hashes,
             unhashed   |-> u,
             unresolved |-> 0]
    <2> HIDE DEF u
    <2>1. r = [keys       |-> hit.keys,
               table      |-> hit.blocks,
               scheduled  |-> hit.cached_tokens,
               computed   |-> hit.cached_tokens,
               hashes     |-> hit.hashes,
               unhashed   |-> u,
               unresolved |-> 0]
      OBVIOUS
    <2> DEFINE t == hit.blocks \o SubSeq(F, 1, n)
               l == hit.cached_tokens + Len(chunk)
    <2>2. z = [[r EXCEPT !.table = t] EXCEPT !.scheduled = l]
      BY <1>5, <1>6 DEF Reserved
    <2> HIDE DEF r, z, t, l
    <2>3. [r EXCEPT !.table = t]
            = [keys       |-> hit.keys,
                 table      |-> t,
                 scheduled  |-> hit.cached_tokens,
                 computed   |-> hit.cached_tokens,
                 hashes     |-> hit.hashes,
                 unhashed   |-> u,
                 unresolved |-> 0]
      BY <2>1
    <2>4. z = [keys       |-> hit.keys,
               table      |-> t,
               scheduled  |-> l,
               computed   |-> hit.cached_tokens,
               hashes     |-> hit.hashes,
               unhashed   |-> u,
               unresolved |-> 0]
      BY <2>2, <2>3
    <2> QED BY <2>4 DEF t, l
  <1>10. Reserve(M, s, r, Len(chunk)) =
           Manager(With(M, s, z), RefsTaken(M, TakenOf(M, n)), KeysTaken(M, TakenOf(M, n)),
                   SubSeq(M.free, n + 1, Len(M.free)), MapTaken(M, TakenOf(M, n)))
    <2> HIDE DEF r
    <2>1. n = DivCeil(r.scheduled + Len(chunk)) - Len(r.table)
      BY <1>5
    <2> QED BY <1>7, <1>8, <2>1, ReserveIs
  <1>11. TakenOf(M, n) = T
    BY <1>6 DEF TakenOf
  <1> HIDE DEF T
  <1>12. /\ With(M, s, z) = With(m, s, z)
         /\ RefsTaken(M, T) = [b \in BlockId |-> IF b \in T THEN 1
                               ELSE IF b \in P THEN m.ref_counts[b] + 1 ELSE m.ref_counts[b]]
         /\ KeysTaken(M, T) = KeysTaken(m, T) /\ MapTaken(M, T) = MapTaken(m, T)
    <2> HIDE DEF z, P
    <2>1. With(M, s, z) = With(m, s, z)
      BY <1>6 DEF With, Live
    <2>2. KeysTaken(M, T) = KeysTaken(m, T) /\ MapTaken(M, T) = MapTaken(m, T)
      BY <1>6 DEF KeysTaken, MapTaken
    <2>3. RefsTaken(M, T) = [b \in BlockId |-> IF b \in T THEN 1
                               ELSE IF b \in P THEN m.ref_counts[b] + 1 ELSE m.ref_counts[b]]
      BY <1>6 DEF RefsTaken, R, RefsPinned
    <2> QED BY <2>1, <2>2, <2>3
  <1> HIDE DEF z, r, P
  <1>13. Admit(m, s, hit, chunk) =
           Manager(With(m, s, z),
                   [b \in BlockId |-> IF b \in T THEN 1
                                      ELSE IF b \in P THEN m.ref_counts[b] + 1 ELSE m.ref_counts[b]],
                   KeysTaken(m, T), SubSeq(F, n + 1, Len(F)), MapTaken(m, T))
    BY <1>1, <1>6, <1>10, <1>11, <1>12
  <1>14. z = AdmittedRow(hit, chunk, SubSeq(F, 1, n))
    BY <1>9 DEF AdmittedRow, u
  <1> QED BY <1>13, <1>14 DEF T, F, P, RefsAdmitted, Admitted


(* commit_through, field by field.                                         *)
Committed(q, computed, hashes, unhashed) ==
  [q EXCEPT !.computed = computed, !.hashes = hashes, !.unhashed = unhashed]

\* What a commit of `computed` tokens makes of a record: how many tokens are
\* computed, how many blocks more are hashed, and their keys.
DoneOf(q, computed) == IF computed > q.computed THEN computed ELSE q.computed
MoreOf(q, computed) == Hashable(q, DoneOf(q, computed)) \div BlockTokens
NewKeys(q, n) ==
  [i \in 1 .. n |-> HashBlocks(IF Len(q.hashes) = 0 THEN <<>> ELSE Last(q.hashes), q.unhashed, q.keys, i)]

\* Which of the keys `new` are published, and the keys and the map after it.
ToPublish(m, q, new, n) ==
  {i \in 1 .. n : m.block_hashes[q.table[Len(q.hashes) + i]] = None /\ new[i] \notin DOMAIN m.cached}
KeysCommitted(m, q, new, publish) ==
  [b \in BlockId |-> IF b \in {q.table[Len(q.hashes) + i] : i \in publish}
                     THEN new[CHOOSE i \in publish : q.table[Len(q.hashes) + i] = b]
                     ELSE m.block_hashes[b]]
MapCommitted(m, q, new, publish) ==
  [h \in DOMAIN m.cached \cup {new[i] : i \in publish} |->
     IF h \in {new[i] : i \in publish}
     THEN q.table[Len(q.hashes) + (CHOOSE i \in publish : new[i] = h)]
     ELSE m.cached[h]]

LEMMA CommitIs ==
  ASSUME NEW m, IsManager(m), NEW s, NEW computed
  PROVE  LET q == m.sequences[s]
             n == MoreOf(q, computed)
             new == NewKeys(q, n)
             publish == ToPublish(m, q, new, n)
         IN  CommitThrough(m, s, computed) =
               Manager(With(m, s, Committed(q, DoneOf(q, computed), q.hashes \o new,
                                            SubSeq(q.unhashed, n * BlockTokens + 1, Len(q.unhashed)))),
                       m.ref_counts, KeysCommitted(m, q, new, publish), m.free,
                       MapCommitted(m, q, new, publish))
  <1> DEFINE q        == m.sequences[s]
             done     == IF computed > q.computed THEN computed ELSE q.computed
             base     == Len(q.hashes)
             n        == Hashable(q, done) \div BlockTokens
             parent   == IF base = 0 THEN <<>> ELSE Last(q.hashes)
             new      == [i \in 1 .. n |-> HashBlocks(parent, q.unhashed, q.keys, i)]
             publish  == {i \in 1 .. n : /\ m.block_hashes[q.table[base + i]] = None
                                         /\ new[i] \notin DOMAIN m.cached}
             keyed    == {q.table[base + i] : i \in publish}
             added    == {new[i] : i \in publish}
             K == [b \in BlockId |-> IF b \in keyed
                                     THEN new[CHOOSE i \in publish : q.table[base + i] = b]
                                     ELSE m.block_hashes[b]]
             H == [h \in DOMAIN m.cached \cup added |->
                     IF h \in added THEN q.table[base + (CHOOSE i \in publish : new[i] = h)]
                     ELSE m.cached[h]]
             r == Committed(q, done, q.hashes \o new,
                            SubSeq(q.unhashed, n * BlockTokens + 1, Len(q.unhashed)))
             M == [m EXCEPT !.block_hashes = K, !.cached = H]
  <1>1. CommitThrough(m, s, computed) = PutSequence(M, s, r)
    BY DEF CommitThrough, Committed
  <1>2. m = Manager(m.sequences, m.ref_counts, m.block_hashes, m.free, m.cached)
    BY ManagerIs
  <1> HIDE DEF K, H, r
  <1>3. M = Manager(m.sequences, m.ref_counts, K, m.free, H)
    <2>1. M = [[m EXCEPT !.block_hashes = K] EXCEPT !.cached = H]
      OBVIOUS
    <2>2. [m EXCEPT !.block_hashes = K] = Manager(m.sequences, m.ref_counts, K, m.free, m.cached)
      BY <1>2, OneField
    <2>3. [Manager(m.sequences, m.ref_counts, K, m.free, m.cached) EXCEPT !.cached = H]
            = Manager(m.sequences, m.ref_counts, K, m.free, H)
      BY OneField
    <2> QED BY <2>1, <2>2, <2>3
  <1> HIDE DEF M
  <1>4. M.sequences = m.sequences /\ M.ref_counts = m.ref_counts /\ M.block_hashes = K
        /\ M.free = m.free /\ M.cached = H
    BY <1>3, OneField
  <1>5. M = Manager(M.sequences, M.ref_counts, M.block_hashes, M.free, M.cached)
    BY <1>3, <1>4
  <1>6. PutSequence(M, s, r) = Manager(With(M, s, r), M.ref_counts, M.block_hashes, M.free, M.cached)
    BY <1>5, PutIs
  <1>7. With(M, s, r) = With(m, s, r)
    BY <1>4 DEF With, Live
  <1>8. CommitThrough(m, s, computed) = Manager(With(m, s, r), m.ref_counts, K, m.free, H)
    BY <1>1, <1>4, <1>6, <1>7
  <1> QED BY <1>8 DEF K, H, r, DoneOf, MoreOf, NewKeys, ToPublish, KeysCommitted, MapCommitted

(* Only computed tokens that the host knows are hashed.                    *)
LEMMA HashableIs ==
  ASSUME NEW q, NEW done \in Nat, Len(q.unhashed) \in Nat, NEW base \in Nat, base = Len(q.hashes)
  PROVE  /\ Hashable(q, done) \in Nat /\ Hashable(q, done) <= Len(q.unhashed)
         /\ Hashable(q, done) # 0 => base * BlockTokens + Hashable(q, done) <= done
  <1> DEFINE a == base * BlockTokens
             b == Len(q.unhashed)
             c == done - a
             l == Min({c, b})
             h == Max({0, l})
  <1>1. a \in Nat /\ b \in Nat /\ c \in Int
    BY PoolAssumption
  <1>2. Hashable(q, done) = h
    BY DEF Hashable
  <1> HIDE DEF a, b, c
  <1>3. l = IF c <= b THEN c ELSE b
    <2>1. CASE c <= b
      <3>1. \A x \in {c, b} : (\A y \in {c, b} : x <= y) <=> x = c
        BY <1>1, <2>1
      <3> QED BY <2>1, <3>1 DEF Min
    <2>2. CASE ~(c <= b)
      <3>1. \A x \in {c, b} : (\A y \in {c, b} : x <= y) <=> x = b
        BY <1>1, <2>2
      <3> QED BY <2>2, <3>1 DEF Min
    <2> QED BY <2>1, <2>2
  <1> HIDE DEF l
  <1>4. h = IF l >= 0 THEN l ELSE 0
    <2>0. l \in Int
      BY <1>1, <1>3
    <2>1. CASE l >= 0
      <3>1. \A x \in {0, l} : (\A y \in {0, l} : x >= y) <=> x = l
        BY <2>0, <2>1
      <3> QED BY <2>1, <3>1 DEF Max
    <2>2. CASE ~(l >= 0)
      <3>1. \A x \in {0, l} : (\A y \in {0, l} : x >= y) <=> x = 0
        BY <2>0, <2>2
      <3> QED BY <2>2, <3>1 DEF Max
    <2> QED BY <2>1, <2>2
  <1> HIDE DEF h
  <1>5. h \in Nat /\ h <= b /\ (h # 0 => a + h <= done)
    BY <1>1, <1>3, <1>4 DEF c
  <1> QED BY <1>2, <1>5 DEF a, b

(* Where a chunk of a prompt ends.                                         *)
LEMMA ChunkEndIs ==
  ASSUME NEW start \in Nat, NEW len \in Nat, NEW budget \in Nat, start <= len
  PROVE  ChunkEnd(start, len, budget) \in start .. len
  <1> DEFINE end == start + budget
             q == end \div BlockTokens
             aligned == q * BlockTokens
  <1>1. end \in Nat /\ BlockTokens \in Nat \ {0}
    BY PoolAssumption
  <1>2. q \in Nat /\ end % BlockTokens \in 0 .. BlockTokens - 1 /\ end = q * BlockTokens + (end % BlockTokens)
    <2> HIDE DEF end
    <2> QED BY <1>1, Division
  <1>3. ChunkEnd(start, len, budget) = IF end >= len THEN len ELSE IF aligned > start THEN aligned ELSE start
    BY DEF ChunkEnd
  <1> HIDE DEF end, q
  <1>4. aligned \in Nat /\ aligned <= end
    BY <1>1, <1>2
  <1> HIDE DEF aligned
  <1> QED BY <1>1, <1>3, <1>4


(* lookup_prefix finds a run of cached blocks, short of the last token.    *)
LEMMA LookupIs ==
  ASSUME NEW m, NEW prompt, NEW keys, Len(prompt) \in Nat \ {0}
  PROVE  \E run \in Nat :
           /\ run * BlockTokens < Len(prompt)
           /\ \A i \in 1 .. run : HashBlocks(<<>>, prompt, keys, i) \in DOMAIN m.cached
           /\ LookupPrefix(m, prompt, keys) =
                [keys          |-> keys,
                 hashes        |-> [i \in 1 .. run |-> HashBlocks(<<>>, prompt, keys, i)],
                 blocks        |-> [i \in 1 .. run |-> m.cached[HashBlocks(<<>>, prompt, keys, i)]],
                 cached_tokens |-> run * BlockTokens,
                 prompt        |-> prompt]
  <1> DEFINE Key(i) == HashBlocks(<<>>, prompt, keys, i)
             limit == IF PrefixCaching THEN (Len(prompt) - 1) \div BlockTokens ELSE 0
             Found(n) == \A i \in 1 .. n : Key(i) \in DOMAIN m.cached
             Ends(n) == n = limit \/ Key(n + 1) \notin DOMAIN m.cached
             run == CHOOSE n \in 0 .. limit : Found(n) /\ Ends(n)
             S == {n \in 0 .. limit : Ends(n)}
  <1>1. LookupPrefix(m, prompt, keys) =
          [keys          |-> keys,
           hashes        |-> [i \in 1 .. run |-> Key(i)],
           blocks        |-> [i \in 1 .. run |-> m.cached[Key(i)]],
           cached_tokens |-> run * BlockTokens,
           prompt        |-> prompt]
    BY DEF LookupPrefix
  <1>2. limit \in Nat /\ limit * BlockTokens < Len(prompt)
    <2> DEFINE l == Len(prompt) - 1
               d == l \div BlockTokens
    <2>1. l \in Nat /\ BlockTokens \in Nat \ {0} /\ Len(prompt) = l + 1
      BY PoolAssumption
    <2>2. d \in Nat /\ l % BlockTokens \in 0 .. BlockTokens - 1 /\ l = d * BlockTokens + (l % BlockTokens)
      <3> HIDE DEF l
      <3> QED BY <2>1, Division
    <2>3. limit = IF PrefixCaching THEN d ELSE 0
      OBVIOUS
    <2> HIDE DEF l, d, limit
    <2>4. CASE PrefixCaching
      <3>1. limit = d /\ d * BlockTokens \in Nat
        BY <2>1, <2>2, <2>3, <2>4
      <3> QED BY <2>1, <2>2, <3>1
    <2>5. CASE ~PrefixCaching
      BY <2>1, <2>3, <2>5
    <2> QED BY <2>4, <2>5
  <1> HIDE DEF limit, Key
  <1>3. \E n \in 0 .. limit : Found(n) /\ Ends(n)
    <2>0. limit \in S /\ \A n \in 0 .. limit : n \in Nat
      BY <1>2
    <2>1. S \in SUBSET Nat /\ S # {}
      BY <2>0
    <2>2. PICK n \in S : \A k \in S : n <= k
      BY <2>1, LeastNatural
    <2>3. ASSUME NEW i \in 1 .. n PROVE Key(i) \in DOMAIN m.cached
      <3>1. i - 1 \in 0 .. limit /\ ~(n <= i - 1) /\ (i - 1) + 1 = i /\ i - 1 # limit
        BY <1>2
      <3>2. i - 1 \notin S
        BY <2>2, <3>1
      <3> QED BY <3>1, <3>2
    <2>4. Found(n) /\ Ends(n) /\ n \in 0 .. limit
      BY <2>3
    <2> QED BY <2>4
  <1>4. run \in 0 .. limit /\ Found(run)
    BY <1>3
  <1> HIDE DEF run
  <1>5. run \in Nat /\ run * BlockTokens < Len(prompt)
    <2>1. run \in Nat /\ run <= limit /\ BlockTokens \in Nat \ {0}
      BY <1>2, <1>4, PoolAssumption
    <2>2. CASE run = limit
      BY <1>2, <2>1, <2>2
    <2>3. CASE run < limit
      <3>1. run * BlockTokens + BlockTokens <= limit * BlockTokens
        BY <1>2, <2>1, <2>3, TimesOrder
      <3>2. run * BlockTokens \in Nat /\ limit * BlockTokens \in Nat
        BY <1>2, <2>1
      <3> QED BY <1>2, <2>1, <3>1, <3>2
    <2> QED BY <1>2, <2>1, <2>2, <2>3
  <1> QED BY <1>1, <1>4, <1>5 DEF Key


=============================================================================
