--------------------------- MODULE EngineLoopProofs ---------------------------
(***************************************************************************)
(* The safety properties of EngineLoop, for every set of requests, prompt  *)
(* and token limits, pool, batch limit and combination of what may fail,   *)
(* expire or be cancelled.                                                 *)
(***************************************************************************)
EXTENDS EngineLoop, CollectionTheorems

(***************************************************************************)
(* The inductive invariant.  Its parts are about an engine record e, which *)
(* may be one in the middle of a step: `leaving` are turns that have left  *)
(* their place and whose blocks are still to be released, `ahead` those    *)
(* whose step was read back and whose token is not accepted yet.           *)
(***************************************************************************)
Slots == UNION {[D -> Nat \ {0}] : D \in SUBSET Ids}

EngineTyped(e) ==
  /\ e \in [waiting : Seq(Request), running : Seq(Request), prefilling : Request \cup {None},
            id : [Request -> Ids \cup {0}], new : [Request -> Nat], queued : SUBSET Ids,
            retired : SUBSET (Ids \X Request), slots : Slots, chunked : BOOLEAN]
  /\ Cardinality(e.queued) <= Cardinality(Request)

Pre(e) == IF e.prefilling = None THEN {} ELSE {e.prefilling}
Active(e, leaving) == Range(e.running) \cup Pre(e) \cup leaving
Members(e, leaving) == Active(e, leaving) \cup Range(e.waiting)

\* A turn is in one place.
Places(e, leaving) ==
  /\ Once(e.running) /\ Once(e.waiting) /\ leaving \subseteq Request
  /\ Range(e.running) \cap Range(e.waiting) = {}
  /\ Pre(e) \cap (Range(e.running) \cup Range(e.waiting)) = {}
  /\ leaving \cap (Range(e.running) \cup Range(e.waiting) \cup Pre(e)) = {}

\* IDs name turns, and an ID with blocks has an owner.
Owned(e, leaving) ==
  /\ \A i \in DOMAIN e.slots : (\E r \in Active(e, leaving) : e.id[r] = i) \/ (\E p \in e.retired : p[1] = i)
  /\ \A r \in Members(e, leaving) : e.id[r] \in Ids
  /\ \A r, t \in Members(e, leaving) : e.id[r] = e.id[t] => r = t
  /\ \A p \in e.retired : \A r \in Members(e, leaving) : p[1] # e.id[r]
  /\ \A p, q \in e.retired : p[1] = q[1] => p = q
  /\ e.queued \subseteq DOMAIN e.slots
  /\ \A r \in Range(e.waiting) : e.id[r] \notin DOMAIN e.slots
  /\ \A r \in Pre(e) : e.id[r] \notin e.queued

RetiredQueued(e) == \A p \in e.retired : p[1] \in e.queued
Fits(e) == FreeBlocks(e) \in Nat
Tokens(e) ==
  /\ \A r \in Request : e.new[r] <= MaxNew[r]
  /\ \A r \in Members(e, {}) : e.new[r] < MaxNew[r]

EngineOK(e, leaving) == EngineTyped(e) /\ Places(e, leaving) /\ Owned(e, leaving) /\ Fits(e) /\ Tokens(e)

Context(e, ahead) ==
  \A r \in Range(e.running) :
    /\ e.id[r] \in DOMAIN e.slots
    /\ e.slots[e.id[r]] = PromptTokens[r] + e.new[r] + (IF r \in ahead THEN 1 ELSE 0)
                            - (IF e.id[r] \in e.queued THEN 0 ELSE 1)

Outcomes == {"unsent", "live"} \cup Ended
LiveIn(o) == {r \in Request : o[r] = "live"}

\* An engine and the outcomes that belong to it.
Sound(e, o) ==
  /\ EngineOK(e, {}) /\ RetiredQueued(e) /\ Context(e, {})
  /\ o \in [Request -> Outcomes] /\ LiveIn(o) = Members(e, {})
  /\ \A r \in Request : o[r] = "unsent" => e.new[r] = 0

EngineInv ==
  /\ Sound(engine, outcome)
  /\ phase \in {"top", "admit", "decode"}
  /\ cancel \subseteq MayCancel /\ gone \subseteq cancel /\ expired \subseteq MayExpire
  /\ phase = "admit" /\ engine.running = <<>> => engine.queued = {}

----------------------------------------------------------------------------
(* The pool.                                                               *)

LEMMA DivCeilFacts ==
  ASSUME NEW n \in Nat
  PROVE  /\ DivCeil(n) \in Nat /\ DivCeil(n) * BlockTokens \in Nat /\ n <= DivCeil(n) * BlockTokens
         /\ DivCeil(n + 1) = DivCeil(n) + (IF n % BlockTokens = 0 THEN 1 ELSE 0)
  <1>1. DivCeil(n) = CeilDiv(n, BlockTokens) /\ DivCeil(n + 1) = CeilDiv(n + 1, BlockTokens)
    BY DEF DivCeil, CeilDiv
  <1>2. BlockTokens \in Nat \ {0}
    BY EngineAssumption
  <1>3. DivCeil(n) \in Nat /\ DivCeil(n) * BlockTokens \in Nat /\ n <= DivCeil(n) * BlockTokens
    BY <1>1, <1>2, CeilDivIs
  <1>4. /\ n % BlockTokens = 0 => DivCeil(n + 1) = DivCeil(n) + 1
        /\ n % BlockTokens # 0 => DivCeil(n + 1) = DivCeil(n)
    BY <1>1, <1>2, CeilDivNext
  <1>5. CASE n % BlockTokens = 0
    BY <1>3, <1>4, <1>5
  <1>6. CASE n % BlockTokens # 0
    BY <1>3, <1>4, <1>6
  <1> QED BY <1>5, <1>6

LEMMA FieldTypes ==
  ASSUME NEW e, EngineTyped(e)
  PROVE  /\ e = [waiting |-> e.waiting, running |-> e.running, prefilling |-> e.prefilling,
                 id |-> e.id, new |-> e.new, queued |-> e.queued, retired |-> e.retired,
                 slots |-> e.slots, chunked |-> e.chunked]
         /\ e.waiting \in Seq(Request) /\ e.running \in Seq(Request)
         /\ e.prefilling \in Request \cup {None}
         /\ e.id \in [Request -> Ids \cup {0}] /\ e.new \in [Request -> Nat]
         /\ e.queued \in SUBSET Ids /\ e.retired \in SUBSET (Ids \X Request)
         /\ e.slots \in Slots /\ e.chunked \in BOOLEAN
         /\ Cardinality(e.queued) <= Cardinality(Request)
         /\ Range(e.waiting) \subseteq Request /\ Range(e.running) \subseteq Request
         /\ Pre(e) \subseteq Request
  <1>1. /\ e = [waiting |-> e.waiting, running |-> e.running, prefilling |-> e.prefilling,
                id |-> e.id, new |-> e.new, queued |-> e.queued, retired |-> e.retired,
                slots |-> e.slots, chunked |-> e.chunked]
        /\ e.waiting \in Seq(Request) /\ e.running \in Seq(Request)
        /\ e.prefilling \in Request \cup {None}
        /\ e.id \in [Request -> Ids \cup {0}] /\ e.new \in [Request -> Nat]
        /\ e.queued \in SUBSET Ids /\ e.retired \in SUBSET (Ids \X Request)
        /\ e.slots \in Slots /\ e.chunked \in BOOLEAN
        /\ Cardinality(e.queued) <= Cardinality(Request)
    BY DEF EngineTyped
  <1>2. Range(e.waiting) \subseteq Request /\ Range(e.running) \subseteq Request
    BY <1>1, RangeIs
  <1>3. Pre(e) \subseteq Request
    BY <1>1 DEF Pre
  <1> QED BY <1>1, <1>2, <1>3

LEMMA IdsFinite ==
  /\ Cardinality(Request) \in Nat /\ IsFiniteSet(Ids)
  /\ \A i \in Ids : i \in Nat \ {0}
  <1>1. Cardinality(Request) \in Nat
    BY EngineAssumption, FS_CardinalityType
  <1>2. 1 \in Int /\ 4 * Cardinality(Request) \in Int
    BY <1>1
  <1> QED BY <1>1, <1>2, FS_Interval DEF Ids

LEMMA SlotsAre ==
  ASSUME NEW f \in Slots
  PROVE  /\ f = [i \in DOMAIN f |-> f[i]] /\ DOMAIN f \in SUBSET Ids /\ IsFiniteSet(DOMAIN f)
         /\ \A i \in DOMAIN f : f[i] \in Nat \ {0}
  <1>1. PICK D \in SUBSET Ids : f \in [D -> Nat \ {0}]
    BY DEF Slots
  <1>2. DOMAIN f = D
    BY <1>1
  <1> QED BY <1>1, <1>2, IdsFinite, FS_Subset

LEMMA SlotsFrom ==
  ASSUME NEW f, f = [i \in DOMAIN f |-> f[i]], DOMAIN f \in SUBSET Ids, \A i \in DOMAIN f : f[i] \in Nat \ {0}
  PROVE  f \in Slots
  <1>1. f \in [DOMAIN f -> Nat \ {0}]
    OBVIOUS
  <1> QED BY <1>1 DEF Slots

\* The blocks of a map of slots, and how many are taken.
BlocksOf(f) == [i \in DOMAIN f |-> DivCeil(f[i])]
Taken(f) == SumFunctionOnSet(BlocksOf(f), DOMAIN f)

LEMMA FreeIs ==
  \A e : FreeBlocks(e) = NumBlocks - Taken(e.slots)
  BY DEF FreeBlocks, Taken, BlocksOf

LEMMA TakenIs ==
  ASSUME NEW f \in Slots
  PROVE  /\ Taken(f) \in Nat /\ IsFiniteSet(DOMAIN f)
         /\ \A i \in DOMAIN f : BlocksOf(f)[i] = DivCeil(f[i]) /\ BlocksOf(f)[i] \in Nat
  <1>1. IsFiniteSet(DOMAIN f) /\ \A i \in DOMAIN f : f[i] \in Nat
    BY SlotsAre
  <1>2. \A i \in DOMAIN f : BlocksOf(f)[i] = DivCeil(f[i]) /\ BlocksOf(f)[i] \in Nat
    BY <1>1, DivCeilFacts DEF BlocksOf
  <1> QED BY <1>1, <1>2, SumNat DEF Taken

(* Blocks that are given back are free again.                              *)
LEMMA TakenFewer ==
  ASSUME NEW f \in Slots, NEW g \in Slots, DOMAIN g \subseteq DOMAIN f, \A i \in DOMAIN g : g[i] = f[i]
  PROVE  Taken(g) <= Taken(f)
  <1>1. /\ IsFiniteSet(DOMAIN f) /\ IsFiniteSet(DOMAIN g)
        /\ \A i \in DOMAIN f : BlocksOf(f)[i] \in Nat
    BY TakenIs
  <1>2. \A i \in DOMAIN g : BlocksOf(g)[i] = BlocksOf(f)[i]
    BY DEF BlocksOf
  <1>3. SumFunctionOnSet(BlocksOf(g), DOMAIN g) = SumFunctionOnSet(BlocksOf(f), DOMAIN g)
    BY <1>1, <1>2, SumAgree
  <1>4. SumFunctionOnSet(BlocksOf(f), DOMAIN g) <= SumFunctionOnSet(BlocksOf(f), DOMAIN f)
    BY <1>1, SumMonotone
  <1> QED BY <1>3, <1>4 DEF Taken

(* A prompt that gets slots up to `end` takes the blocks it had not.       *)
LEMMA TakenPut ==
  ASSUME NEW f \in Slots, NEW g \in Slots, NEW i \in Ids, NEW end \in Nat, NEW done \in Nat,
         DOMAIN g = DOMAIN f \cup {i}, g[i] = end,
         \A j \in DOMAIN f : j # i => g[j] = f[j],
         done = IF i \in DOMAIN f THEN f[i] ELSE 0
  PROVE  Taken(g) = Taken(f) + DivCeil(end) - DivCeil(done)
  <1> DEFINE rest == DOMAIN f \ {i}
  <1>1. /\ IsFiniteSet(DOMAIN f) /\ IsFiniteSet(DOMAIN g) /\ IsFiniteSet(rest)
        /\ \A j \in DOMAIN f : BlocksOf(f)[j] = DivCeil(f[j]) /\ BlocksOf(f)[j] \in Nat
        /\ \A j \in DOMAIN g : BlocksOf(g)[j] = DivCeil(g[j]) /\ BlocksOf(g)[j] \in Nat
    BY TakenIs, FS_Subset
  <1>2. \A j \in rest : BlocksOf(g)[j] = BlocksOf(f)[j]
    BY <1>1
  <1>3. SumFunctionOnSet(BlocksOf(g), rest) = SumFunctionOnSet(BlocksOf(f), rest)
    BY <1>1, <1>2, SumAgree
  <1>4. rest = DOMAIN g \ {i} /\ i \in DOMAIN g
    OBVIOUS
  <1>5. Taken(g) = DivCeil(end) + SumFunctionOnSet(BlocksOf(g), rest)
    <2>1. SumFunctionOnSet(BlocksOf(g), DOMAIN g)
            = BlocksOf(g)[i] + SumFunctionOnSet(BlocksOf(g), DOMAIN g \ {i})
      BY <1>1, <1>4, SumRemove
    <2> QED BY <1>1, <1>4, <2>1 DEF Taken
  <1>6. SumFunctionOnSet(BlocksOf(f), rest) \in Nat /\ DivCeil(end) \in Nat /\ DivCeil(done) \in Nat
    BY <1>1, SumNat, DivCeilFacts
  <1>7. Taken(f) = DivCeil(done) + SumFunctionOnSet(BlocksOf(f), rest)
    <2>1. CASE i \in DOMAIN f
      <3>1. SumFunctionOnSet(BlocksOf(f), DOMAIN f)
              = BlocksOf(f)[i] + SumFunctionOnSet(BlocksOf(f), DOMAIN f \ {i})
        BY <1>1, <2>1, SumRemove
      <3> QED BY <1>1, <2>1, <3>1 DEF Taken
    <2>2. CASE i \notin DOMAIN f
      <3>1. rest = DOMAIN f /\ done = 0
        BY <2>2
      <3>2. DivCeil(0) = 0
        BY EngineAssumption DEF DivCeil
      <3> QED BY <1>6, <3>1, <3>2 DEF Taken
    <2> QED BY <2>1, <2>2
  <1> HIDE DEF rest
  <1> QED BY <1>3, <1>5, <1>6, <1>7

(* A step of some rows takes a block for each whose last one is full.      *)
FullRows(f, rows) == {i \in rows : f[i] % BlockTokens = 0}

LEMMA TakenStep ==
  ASSUME NEW f \in Slots, NEW g \in Slots, NEW rows \in SUBSET DOMAIN f,
         DOMAIN g = DOMAIN f, \A i \in DOMAIN f : g[i] = IF i \in rows THEN f[i] + 1 ELSE f[i]
  PROVE  Taken(g) = Taken(f) + Cardinality(FullRows(f, rows))
  <1> DEFINE full == FullRows(f, rows)
  <1>1. /\ IsFiniteSet(DOMAIN f)
        /\ \A j \in DOMAIN f : BlocksOf(f)[j] = DivCeil(f[j]) /\ BlocksOf(f)[j] \in Nat
        /\ \A j \in DOMAIN f : BlocksOf(g)[j] = DivCeil(g[j])
        /\ \A j \in DOMAIN f : f[j] \in Nat
    BY TakenIs, SlotsAre
  <1>0. \A j : j \in full <=> j \in rows /\ f[j] % BlockTokens = 0
    BY DEF FullRows
  <1>2. ASSUME NEW j \in DOMAIN f
        PROVE  BlocksOf(f)[j] \in Int /\ BlocksOf(g)[j] = BlocksOf(f)[j] + (IF j \in full THEN 1 ELSE 0)
    <2>1. CASE j \in rows
      <3>1. g[j] = f[j] + 1 /\ DivCeil(f[j] + 1) = DivCeil(f[j]) + (IF f[j] % BlockTokens = 0 THEN 1 ELSE 0)
        BY <1>1, <2>1, DivCeilFacts
      <3> QED BY <1>0, <1>1, <2>1, <3>1
    <2>2. CASE j \notin rows
      BY <1>0, <1>1, <2>2
    <2> QED BY <2>1, <2>2
  <1>3. DOMAIN f \cap full = full
    BY DEF FullRows
  <1> HIDE DEF full
  <1>4. SumFunctionOnSet(BlocksOf(g), DOMAIN f) = SumFunctionOnSet(BlocksOf(f), DOMAIN f) + Cardinality(DOMAIN f \cap full)
    BY <1>1, <1>2, SumGrows
  <1> QED BY <1>3, <1>4 DEF Taken, full

(* The blocks of one ID are among those taken, and so are those of all.    *)
LEMMA TakenAtLeast ==
  ASSUME NEW f \in Slots, NEW i \in DOMAIN f
  PROVE  /\ DivCeil(f[i]) <= Taken(f)
         /\ DOMAIN f = {i} => DivCeil(f[i]) = Taken(f)
  <1>1. /\ IsFiniteSet(DOMAIN f) /\ IsFiniteSet(DOMAIN f \ {i})
        /\ \A j \in DOMAIN f : BlocksOf(f)[j] = DivCeil(f[j]) /\ BlocksOf(f)[j] \in Nat
    BY TakenIs, FS_Subset
  <1>2. Taken(f) = DivCeil(f[i]) + SumFunctionOnSet(BlocksOf(f), DOMAIN f \ {i})
    BY <1>1, SumRemove DEF Taken
  <1>3. SumFunctionOnSet(BlocksOf(f), DOMAIN f \ {i}) \in Nat /\ DivCeil(f[i]) \in Nat
    BY <1>1, SumNat
  <1>4. DOMAIN f = {i} => SumFunctionOnSet(BlocksOf(f), DOMAIN f \ {i}) = 0
    <2>1. DOMAIN f = {i} => DOMAIN f \ {i} = {}
      OBVIOUS
    <2> QED BY <2>1, SumEmpty
  <1> QED BY <1>2, <1>3, <1>4

----------------------------------------------------------------------------
(* Giving blocks back.                                                     *)

\* f has everything of e but the slots and the retired list.
SameTurns(e, f) ==
  /\ f.waiting = e.waiting /\ f.running = e.running /\ f.prefilling = e.prefilling
  /\ f.id = e.id /\ f.new = e.new /\ f.queued = e.queued /\ f.chunked = e.chunked

\* f has the slots of e but for those of some IDs.
Cut(e, f, ids) ==
  /\ \A i : i \in DOMAIN f.slots <=> i \in DOMAIN e.slots /\ i \notin ids
  /\ \A i \in DOMAIN f.slots : f.slots[i] = e.slots[i]

LEMMA FreeIdsIs ==
  ASSUME NEW e, EngineTyped(e), NEW ids
  PROVE  LET f == FreeIds(e, ids)
         IN  SameTurns(e, f) /\ f.retired = e.retired /\ Cut(e, f, ids) /\ EngineTyped(f)
  <1> DEFINE s == [i \in DOMAIN e.slots \ ids |-> e.slots[i]]
             f == FreeIds(e, ids)
  <1>1. /\ e = [waiting |-> e.waiting, running |-> e.running, prefilling |-> e.prefilling,
                id |-> e.id, new |-> e.new, queued |-> e.queued, retired |-> e.retired,
                slots |-> e.slots, chunked |-> e.chunked]
        /\ e.slots \in Slots
    BY FieldTypes
  <1>2. f = [waiting |-> e.waiting, running |-> e.running, prefilling |-> e.prefilling,
             id |-> e.id, new |-> e.new, queued |-> e.queued, retired |-> e.retired,
             slots |-> s, chunked |-> e.chunked]
    <2>1. f = [e EXCEPT !.slots = s]
      BY DEF FreeIds
    <2> HIDE DEF s, f
    <2> QED BY <1>1, <2>1
  <1>3. s \in Slots
    <2>1. DOMAIN e.slots \in SUBSET Ids /\ \A i \in DOMAIN e.slots : e.slots[i] \in Nat \ {0}
      BY <1>1, SlotsAre
    <2>2. s = [i \in DOMAIN s |-> s[i]] /\ DOMAIN s = DOMAIN e.slots \ ids /\ \A i \in DOMAIN s : s[i] = e.slots[i]
      OBVIOUS
    <2> HIDE DEF s
    <2> QED BY <2>1, <2>2, SlotsFrom
  <1>4. /\ \A i : i \in DOMAIN s <=> i \in DOMAIN e.slots /\ i \notin ids
        /\ \A i \in DOMAIN s : s[i] = e.slots[i]
    OBVIOUS
  <1> HIDE DEF s, f
  <1>5. SameTurns(e, f) /\ f.retired = e.retired /\ f.slots = s
    BY <1>2 DEF SameTurns
  <1>6. EngineTyped(f)
    BY <1>2, <1>3, FieldTypes DEF EngineTyped
  <1>7. Cut(e, f, ids)
    BY <1>4, <1>5 DEF Cut
  <1> QED BY <1>5, <1>6, <1>7 DEF f

\* What release_sequence does for each of rs.
Released(e, f, rs) ==
  /\ SameTurns(e, f)
  /\ \A p : p \in f.retired <=> p \in e.retired \/ \E r \in rs : e.id[r] \in e.queued /\ p = <<e.id[r], r>>
  /\ Cut(e, f, {e.id[r] : r \in {t \in rs : e.id[t] \notin e.queued}})

LEMMA ReleaseIs ==
  ASSUME NEW e, EngineTyped(e), NEW rs \in SUBSET Request
  PROVE  Released(e, Release(e, rs), rs) /\ EngineTyped(Release(e, rs))
  <1> DEFINE kept == {r \in rs : e.id[r] \in e.queued}
             R == e.retired \cup {<<e.id[r], r>> : r \in kept}
             d == [e EXCEPT !.retired = R]
             ids == {e.id[r] : r \in rs \ kept}
             f == Release(e, rs)
  <1>1. /\ e = [waiting |-> e.waiting, running |-> e.running, prefilling |-> e.prefilling,
                id |-> e.id, new |-> e.new, queued |-> e.queued, retired |-> e.retired,
                slots |-> e.slots, chunked |-> e.chunked]
        /\ e.id \in [Request -> Ids \cup {0}] /\ e.queued \in SUBSET Ids /\ e.retired \in SUBSET (Ids \X Request)
    BY FieldTypes
  <1>2. R \in SUBSET (Ids \X Request)
    BY <1>1
  <1>3. /\ \A p : p \in R <=> p \in e.retired \/ \E r \in rs : e.id[r] \in e.queued /\ p = <<e.id[r], r>>
        /\ ids = {e.id[r] : r \in {t \in rs : e.id[t] \notin e.queued}}
    OBVIOUS
  <1>4. f = FreeIds(d, ids)
    BY DEF Release
  <1> HIDE DEF R, ids
  <1>5. d = [waiting |-> e.waiting, running |-> e.running, prefilling |-> e.prefilling,
             id |-> e.id, new |-> e.new, queued |-> e.queued, retired |-> R,
             slots |-> e.slots, chunked |-> e.chunked]
    BY <1>1
  <1> HIDE DEF d, f
  <1>6. EngineTyped(d)
    BY <1>2, <1>5, FieldTypes DEF EngineTyped
  <1>7. SameTurns(d, f) /\ f.retired = d.retired /\ Cut(d, f, ids) /\ EngineTyped(f)
    BY <1>4, <1>6, FreeIdsIs
  <1>8. SameTurns(e, f) /\ f.retired = R /\ Cut(e, f, ids)
    BY <1>5, <1>7 DEF SameTurns, Cut
  <1> QED BY <1>3, <1>7, <1>8 DEF Released, f

LEMMA CutFits ==
  ASSUME NEW e, EngineTyped(e), NEW f, EngineTyped(f), NEW ids, Cut(e, f, ids), Fits(e)
  PROVE  Fits(f) /\ FreeBlocks(e) <= FreeBlocks(f)
  <1>1. e.slots \in Slots /\ f.slots \in Slots
    BY FieldTypes
  <1>2. Taken(f.slots) <= Taken(e.slots)
    <2>1. DOMAIN f.slots \subseteq DOMAIN e.slots /\ \A i \in DOMAIN f.slots : f.slots[i] = e.slots[i]
      BY DEF Cut
    <2> QED BY <1>1, <2>1, TakenFewer
  <1>3. Taken(e.slots) \in Nat /\ Taken(f.slots) \in Nat /\ NumBlocks \in Nat
    BY <1>1, TakenIs, EngineAssumption
  <1>4. NumBlocks - Taken(e.slots) \in Nat
    BY FreeIs DEF Fits
  <1>5. NumBlocks - Taken(f.slots) \in Nat /\ NumBlocks - Taken(e.slots) <= NumBlocks - Taken(f.slots)
    BY ONLY <1>2, <1>3, <1>4
  <1> QED BY <1>5, FreeIs DEF Fits

(* release_sequence for turns that have left their places.                 *)
LEMMA ReleaseOK ==
  ASSUME NEW e, NEW leaving, EngineOK(e, leaving), NEW rs \in SUBSET leaving
  PROVE  LET f == Release(e, rs)
         IN  /\ EngineOK(f, leaving \ rs) /\ Released(e, f, rs)
             /\ RetiredQueued(e) => RetiredQueued(f)
             /\ \A ahead : Context(e, ahead) => Context(f, ahead)
             /\ FreeBlocks(e) <= FreeBlocks(f)
  <1> DEFINE f == Release(e, rs)
             L == leaving \ rs
  <1>1. EngineTyped(e) /\ Places(e, leaving) /\ Owned(e, leaving) /\ Fits(e) /\ Tokens(e)
    BY DEF EngineOK
  <1>2. leaving \subseteq Request /\ rs \in SUBSET Request
    BY <1>1 DEF Places
  <1>3. Released(e, f, rs) /\ EngineTyped(f)
    BY <1>1, <1>2, ReleaseIs
  <1> HIDE DEF f
  <1>4. SameTurns(e, f)
    BY <1>3 DEF Released
  <1>5. /\ f.waiting = e.waiting /\ f.running = e.running /\ f.prefilling = e.prefilling
        /\ f.id = e.id /\ f.new = e.new /\ f.queued = e.queued /\ Pre(f) = Pre(e)
    BY <1>4 DEF SameTurns, Pre
  <1>6. Fits(f) /\ FreeBlocks(e) <= FreeBlocks(f)
    BY <1>1, <1>3, CutFits DEF Released
  <1>7. Tokens(f)
    BY <1>1, <1>5 DEF Tokens, Members, Active
  <1>8. Places(f, L)
    BY <1>1, <1>5 DEF Places
  <1>9. /\ \A p : p \in f.retired <=> p \in e.retired \/ \E r \in rs : e.id[r] \in e.queued /\ p = <<e.id[r], r>>
        /\ \A i : i \in DOMAIN f.slots <=>
             i \in DOMAIN e.slots /\ ~ \E r \in rs : e.id[r] = i /\ i \notin e.queued
        /\ \A i \in DOMAIN f.slots : f.slots[i] = e.slots[i]
    <2>1. \A i : i \in {e.id[r] : r \in {t \in rs : e.id[t] \notin e.queued}}
                   <=> \E r \in rs : e.id[r] = i /\ i \notin e.queued
      OBVIOUS
    <2> QED BY <1>3, <2>1 DEF Released, Cut
  <1>10. /\ Members(f, L) \subseteq Members(e, leaving) /\ rs \subseteq Members(e, leaving)
         /\ Active(e, leaving) = Active(f, L) \cup rs /\ rs \cap Members(f, L) = {}
    BY <1>1, <1>5 DEF Members, Active, Places
  <1>11. Owned(f, L)
    <2>1. ASSUME NEW i \in DOMAIN f.slots
          PROVE  (\E r \in Active(f, L) : f.id[r] = i) \/ (\E p \in f.retired : p[1] = i)
      <3>1. (\E r \in Active(e, leaving) : e.id[r] = i) \/ (\E p \in e.retired : p[1] = i)
        BY <1>1, <1>9, <2>1 DEF Owned
      <3>2. CASE \E p \in e.retired : p[1] = i
        BY <1>9, <3>2
      <3>3. ASSUME NEW r \in Active(e, leaving), e.id[r] = i
            PROVE  (\E t \in Active(f, L) : f.id[t] = i) \/ (\E p \in f.retired : p[1] = i)
        <4>1. CASE r \in rs
          <5>1. i \in e.queued
            BY <1>9, <2>1, <3>3, <4>1
          <5>2. <<i, r>> \in f.retired /\ <<i, r>>[1] = i
            BY <1>9, <3>3, <4>1, <5>1
          <5> QED BY <5>2
        <4>2. CASE r \notin rs
          BY <1>5, <1>10, <3>3, <4>2
        <4> QED BY <4>1, <4>2
      <3> QED BY <3>1, <3>2, <3>3
    <2>2. \A r \in Members(f, L) : f.id[r] \in Ids /\ \A t \in Members(f, L) : f.id[r] = f.id[t] => r = t
      BY <1>1, <1>5, <1>10 DEF Owned
    <2>3. ASSUME NEW p \in f.retired, NEW r \in Members(f, L) PROVE p[1] # f.id[r]
      <3>1. CASE p \in e.retired
        <4>1. r \in Members(e, leaving)
          BY <1>10
        <4>2. \A a \in e.retired : \A t \in Members(e, leaving) : a[1] # e.id[t]
          BY <1>1 DEF Owned
        <4> QED BY ONLY <1>5, <3>1, <4>1, <4>2
      <3>2. ASSUME NEW t \in rs, p = <<e.id[t], t>> PROVE p[1] # f.id[r]
        <4>1. p[1] = e.id[t] /\ t # r /\ t \in Members(e, leaving) /\ r \in Members(e, leaving)
          BY <1>10, <3>2
        <4> QED BY <1>1, <1>5, <4>1 DEF Owned
      <3> QED BY <1>9, <3>1, <3>2
    <2>4. ASSUME NEW p \in f.retired, NEW q \in f.retired, p[1] = q[1] PROVE p = q
      <3>1. ASSUME NEW a \in e.retired, NEW t \in rs PROVE a[1] # e.id[t]
        BY <1>1, <1>10 DEF Owned
      <3>2. \A t, u \in rs : e.id[t] = e.id[u] => t = u
        BY <1>1, <1>10 DEF Owned
      <3>3. \A a, b \in e.retired : a[1] = b[1] => a = b
        BY <1>1 DEF Owned
      <3>4. \A t : <<e.id[t], t>>[1] = e.id[t]
        OBVIOUS
      <3>5. /\ p \in e.retired \/ \E t \in rs : p = <<e.id[t], t>>
            /\ q \in e.retired \/ \E t \in rs : q = <<e.id[t], t>>
        BY <1>9
      <3> QED BY <2>4, <3>1, <3>2, <3>3, <3>4, <3>5
    <2>5. f.queued \subseteq DOMAIN f.slots
      BY <1>1, <1>5, <1>9 DEF Owned
    <2>6. \A r \in Range(f.waiting) : f.id[r] \notin DOMAIN f.slots
      BY <1>1, <1>5, <1>9 DEF Owned
    <2>7. \A r \in Pre(f) : f.id[r] \notin f.queued
      BY <1>1, <1>5 DEF Owned
    <2> QED BY <2>1, <2>2, <2>3, <2>4, <2>5, <2>6, <2>7 DEF Owned
  <1>12. RetiredQueued(e) => RetiredQueued(f)
    <2>1. ASSUME RetiredQueued(e), NEW p \in f.retired PROVE p[1] \in f.queued
      BY <1>5, <1>9, <2>1 DEF RetiredQueued
    <2> QED BY <2>1 DEF RetiredQueued
  <1>13. ASSUME NEW ahead, Context(e, ahead) PROVE Context(f, ahead)
    <2>1. ASSUME NEW r \in Range(e.running) PROVE \A t \in rs : e.id[t] # e.id[r]
      BY <1>1, <1>5, <1>10 DEF Owned, Members, Active
    <2>2. ASSUME NEW r \in Range(e.running)
          PROVE  f.id[r] \in DOMAIN f.slots /\ f.slots[f.id[r]] = e.slots[e.id[r]]
      BY <1>5, <1>9, <1>13, <2>1 DEF Context
    <2> QED BY <1>5, <1>13, <2>2 DEF Context
  <1>14. EngineOK(f, L)
    BY <1>3, <1>6, <1>7, <1>8, <1>11 DEF EngineOK
  <1> QED BY <1>3, <1>6, <1>12, <1>13, <1>14 DEF f

----------------------------------------------------------------------------
(* IDs and places.                                                         *)

\* The values that e gives as IDs to some turns.
IdsOf(e, S) == {e.id[r] : r \in S}

LEMMA IdsOfFew ==
  ASSUME NEW e, NEW S \in SUBSET Request
  PROVE  IsFiniteSet(IdsOf(e, S)) /\ Cardinality(IdsOf(e, S)) <= Cardinality(Request)
         /\ Cardinality(IdsOf(e, S)) \in Nat
  <1> DEFINE g == [r \in S |-> e.id[r]]
             T == IdsOf(e, S)
  <1>1. IsFiniteSet(S) /\ Cardinality(S) <= Cardinality(Request) /\ IsFiniteSet(Request)
    BY EngineAssumption, FS_Subset
  <1>2. g \in Surjection(S, T)
    BY DEF Surjection, IdsOf
  <1> HIDE DEF g, T
  <1>3. IsFiniteSet(T) /\ Cardinality(T) <= Cardinality(S)
    BY <1>1, <1>2, FS_Surjection
  <1>4. Cardinality(T) \in Nat /\ Cardinality(S) \in Nat /\ Cardinality(Request) \in Nat
    BY <1>1, <1>3, FS_CardinalityType
  <1>5. Cardinality(T) <= Cardinality(Request)
    BY ONLY <1>1, <1>3, <1>4
  <1> QED BY <1>3, <1>4, <1>5 DEF T

(* There is always an ID that nothing refers to, and it is a small one.    *)
LEMMA FreshIs ==
  ASSUME NEW e, EngineOK(e, {}), RetiredQueued(e), NEW r \in Request
  PROVE  /\ FreshId(e) \in Ids /\ FreshId(e) \notin DOMAIN e.slots /\ FreshId(e) \notin e.queued
         /\ \A p \in e.retired : p[1] # FreshId(e)
         /\ \A t \in Members(e, {}) : e.id[t] # FreshId(e)
  <1> DEFINE used == IdsInUse(e)
             n == Cardinality(used)
             room == (1 .. n + 1) \ used
             N == Cardinality(Request)
             all == e.queued \cup IdsOf(e, Request)
  <1>1. EngineTyped(e) /\ Owned(e, {})
    BY DEF EngineOK
  <1>2. /\ e.queued \in SUBSET Ids /\ Cardinality(e.queued) <= N
        /\ Range(e.waiting) \subseteq Request /\ Range(e.running) \subseteq Request /\ Pre(e) \subseteq Request
        /\ e.prefilling \in Request \cup {None}
    BY <1>1, FieldTypes
  <1>3. used \subseteq all
    <2>1. \A i \in DOMAIN e.slots : i \in all
      <3>1. \A i \in DOMAIN e.slots :
              (\E t \in Range(e.running) \cup Pre(e) : e.id[t] = i) \/ (\E p \in e.retired : p[1] = i)
        BY <1>1 DEF Owned, Active
      <3> QED BY <1>2, <3>1 DEF RetiredQueued, IdsOf
    <2>2. \A p \in e.retired : p[1] \in all
      BY DEF RetiredQueued
    <2>3. \A t \in Request : e.id[t] \in all
      BY DEF IdsOf
    <2>4. e.prefilling = None \/ e.id[e.prefilling] \in all
      BY <1>2, <2>3
    <2> HIDE DEF all
    <2>5. e.queued \subseteq all
      BY DEF all
    <2> QED BY <1>2, <2>1, <2>2, <2>3, <2>4, <2>5 DEF IdsInUse
  <1>4. N \in Nat /\ N # 0
    <2>1. IsFiniteSet(Request) /\ Request # {}
      BY EngineAssumption
    <2> QED BY <2>1, FS_EmptySet, FS_CardinalityType
  <1>5. IsFiniteSet(all) /\ Cardinality(all) <= 2 * N
    <2> DEFINE A == e.queued
               B == IdsOf(e, Request)
    <2>1. IsFiniteSet(B) /\ Cardinality(B) <= N /\ Cardinality(B) \in Nat
      BY IdsOfFew
    <2>2. IsFiniteSet(A) /\ Cardinality(A) <= N
      BY <1>2, IdsFinite, FS_Subset
    <2> HIDE DEF A, B
    <2>3. IsFiniteSet(A \cup B) /\ Cardinality(A \cup B) = Cardinality(A) + Cardinality(B) - Cardinality(A \cap B)
      BY <2>1, <2>2, FS_Union
    <2>4. Cardinality(A \cap B) \in Nat /\ Cardinality(A) \in Nat
      BY <2>1, <2>2, FS_Intersection, FS_CardinalityType
    <2>5. Cardinality(A \cup B) <= 2 * N
      BY ONLY <1>4, <2>1, <2>2, <2>3, <2>4
    <2> QED BY <2>3, <2>5 DEF A, B
  <1>6. IsFiniteSet(used) /\ n <= 2 * N /\ n \in Nat
    <2>1. IsFiniteSet(used) /\ Cardinality(used) <= Cardinality(all) /\ Cardinality(used) \in Nat /\ Cardinality(all) \in Nat
      <3> HIDE DEF used, all
      <3> QED BY <1>3, <1>5, FS_Subset, FS_CardinalityType
    <2> QED BY <1>4, <1>5, <2>1
  <1>7. room # {}
    <2> SUFFICES ASSUME 1 .. n + 1 \subseteq used PROVE FALSE
      OBVIOUS
    <2> HIDE DEF used
    <2>1. n + 1 \in Nat /\ 1 \in Int /\ n + 1 \in Int
      BY <1>6
    <2>2. Cardinality(1 .. n + 1) = n + 1
      BY <1>6, <2>1, FS_Interval
    <2>3. Cardinality(1 .. n + 1) <= n
      BY <1>6, FS_Subset
    <2> QED BY <1>6, <2>2, <2>3
  <1>8. room \in SUBSET Nat
    BY <1>6
  <1>9. \E least \in room : \A k \in room : least <= k
    <2> HIDE DEF room
    <2> QED BY <1>7, <1>8, LeastNatural
  <1>10. FreshId(e) \in room
    <2>1. FreshId(e) = Min(room)
      BY DEF FreshId
    <2> HIDE DEF room
    <2> QED BY <1>9, <2>1 DEF Min
  <1>11. FreshId(e) \in Ids
    <2>1. FreshId(e) \in 1 .. n + 1
      BY <1>10
    <2> HIDE DEF n, N
    <2>2. FreshId(e) \in 1 .. 4 * N
      BY ONLY <1>4, <1>6, <2>1
    <2> QED BY <2>2 DEF Ids, N
  <1>12. FreshId(e) \notin used
    BY <1>10
  <1> HIDE DEF used
  <1>13. /\ FreshId(e) \notin DOMAIN e.slots /\ FreshId(e) \notin e.queued
         /\ \A p \in e.retired : p[1] # FreshId(e)
         /\ \A t \in Range(e.waiting) \cup Range(e.running) : e.id[t] # FreshId(e)
         /\ e.prefilling # None => e.id[e.prefilling] # FreshId(e)
    BY <1>12 DEF used, IdsInUse
  <1> QED BY <1>11, <1>13 DEF Members, Active, Pre

\* f is e but for who is where.
Moved(e, f) ==
  /\ f.id = e.id /\ f.new = e.new /\ f.queued = e.queued
  /\ f.retired = e.retired /\ f.slots = e.slots

(* Turns that change places, and that leave them.                          *)
LEMMA MoveOK ==
  ASSUME NEW e, NEW L, NEW f, NEW K, EngineOK(e, L), Moved(e, f), EngineTyped(f), Places(f, K),
         Members(f, K) \subseteq Members(e, L), Members(f, {}) \subseteq Members(e, {}),
         \A r \in Active(e, L) : r \in Active(f, K) \/ e.id[r] \notin DOMAIN e.slots,
         \A r \in Range(f.waiting) : e.id[r] \notin DOMAIN e.slots,
         \A r \in Pre(f) : e.id[r] \notin e.queued
  PROVE  EngineOK(f, K) /\ (RetiredQueued(e) => RetiredQueued(f)) /\ FreeBlocks(f) = FreeBlocks(e)
  <1>1. EngineTyped(e) /\ Places(e, L) /\ Owned(e, L) /\ Fits(e) /\ Tokens(e)
    BY DEF EngineOK
  <1>2. f.id = e.id /\ f.new = e.new /\ f.queued = e.queued /\ f.retired = e.retired /\ f.slots = e.slots
    BY DEF Moved
  <1>3. Fits(f) /\ FreeBlocks(f) = FreeBlocks(e)
    BY <1>1, <1>2, FreeIs DEF Fits
  <1>4. Tokens(f)
    BY <1>1, <1>2 DEF Tokens
  <1>5. Owned(f, K)
    <2>1. ASSUME NEW i \in DOMAIN f.slots
          PROVE  (\E r \in Active(f, K) : f.id[r] = i) \/ (\E p \in f.retired : p[1] = i)
      <3>1. (\E r \in Active(e, L) : e.id[r] = i) \/ (\E p \in e.retired : p[1] = i)
        BY <1>1, <1>2 DEF Owned
      <3> QED BY <1>2, <2>1, <3>1
    <2>2. /\ \A r \in Members(f, K) : f.id[r] \in Ids
          /\ \A r, t \in Members(f, K) : f.id[r] = f.id[t] => r = t
          /\ \A p \in f.retired : \A r \in Members(f, K) : p[1] # f.id[r]
      BY <1>1, <1>2 DEF Owned
    <2>3. /\ \A p, q \in f.retired : p[1] = q[1] => p = q
          /\ f.queued \subseteq DOMAIN f.slots
      BY <1>1, <1>2 DEF Owned
    <2> QED BY <1>2, <2>1, <2>2, <2>3 DEF Owned
  <1> QED BY <1>2, <1>3, <1>4, <1>5 DEF EngineOK, RetiredQueued

\* f is e but for r, which waits under a fresh ID.
Joined(e, f, r) ==
  /\ f.running = e.running /\ f.prefilling = e.prefilling /\ f.new = e.new
  /\ f.queued = e.queued /\ f.retired = e.retired /\ f.slots = e.slots
  /\ Range(f.waiting) = Range(e.waiting) \cup {r} /\ Once(f.waiting)
  /\ f.id[r] = FreshId(e) /\ \A t \in Request \ {r} : f.id[t] = e.id[t]

(* A turn that joins the queue.                                            *)
LEMMA JoinOK ==
  ASSUME NEW e, EngineOK(e, {}), RetiredQueued(e), NEW r \in Request, r \notin Members(e, {}),
         e.new[r] < MaxNew[r], NEW f, EngineTyped(f), Joined(e, f, r)
  PROVE  /\ EngineOK(f, {}) /\ RetiredQueued(f) /\ Members(f, {}) = Members(e, {}) \cup {r}
         /\ \A ahead : Context(e, ahead) => Context(f, ahead)
  <1>1. EngineTyped(e) /\ Places(e, {}) /\ Owned(e, {}) /\ Fits(e) /\ Tokens(e)
    BY DEF EngineOK
  <1>2. /\ f.running = e.running /\ f.prefilling = e.prefilling /\ f.new = e.new
        /\ f.queued = e.queued /\ f.retired = e.retired /\ f.slots = e.slots
        /\ Range(f.waiting) = Range(e.waiting) \cup {r} /\ Once(f.waiting)
        /\ f.id[r] = FreshId(e) /\ \A t \in Request \ {r} : f.id[t] = e.id[t]
    BY DEF Joined
  <1>3. Pre(f) = Pre(e) /\ Active(f, {}) = Active(e, {}) /\ Members(f, {}) = Members(e, {}) \cup {r}
    BY <1>2 DEF Members, Active, Pre
  <1>4. Members(e, {}) \subseteq Request /\ Active(e, {}) \subseteq Members(e, {})
    BY <1>1, FieldTypes DEF Members, Active
  <1>5. \A t \in Members(e, {}) : f.id[t] = e.id[t]
    BY <1>2, <1>4
  <1>6. /\ FreshId(e) \in Ids /\ FreshId(e) \notin DOMAIN e.slots /\ FreshId(e) \notin e.queued
        /\ \A p \in e.retired : p[1] # FreshId(e)
        /\ \A t \in Members(e, {}) : e.id[t] # FreshId(e)
    BY FreshIs
  <1>7. Fits(f)
    BY <1>1, <1>2, FreeIs DEF Fits
  <1>8. Tokens(f)
    BY <1>1, <1>2, <1>3 DEF Tokens
  <1>9. Places(f, {})
    BY <1>1, <1>2, <1>3 DEF Places, Members, Active
  <1>10. Owned(f, {})
    <2>1. ASSUME NEW i \in DOMAIN f.slots
          PROVE  (\E t \in Active(f, {}) : f.id[t] = i) \/ (\E p \in f.retired : p[1] = i)
      <3>1. (\E t \in Active(e, {}) : e.id[t] = i) \/ (\E p \in e.retired : p[1] = i)
        BY <1>1, <1>2 DEF Owned
      <3> QED BY <1>2, <1>3, <1>4, <1>5, <3>1
    <2>2. \A t, u \in Members(f, {}) : f.id[t] \in Ids /\ (f.id[t] = f.id[u] => t = u)
      <3>1. \A t, u \in Members(e, {}) : e.id[t] \in Ids /\ (e.id[t] = e.id[u] => t = u)
        BY <1>1 DEF Owned
      <3> QED BY ONLY <1>2, <1>3, <1>5, <1>6, <3>1
    <2>3. \A p \in f.retired : \A t \in Members(f, {}) : p[1] # f.id[t]
      <3>1. \A p \in e.retired : \A t \in Members(e, {}) : p[1] # e.id[t]
        BY <1>1 DEF Owned
      <3> QED BY ONLY <1>2, <1>3, <1>5, <1>6, <3>1
    <2>4. /\ \A p, q \in f.retired : p[1] = q[1] => p = q
          /\ f.queued \subseteq DOMAIN f.slots
      BY <1>1, <1>2 DEF Owned
    <2>5. \A t \in Range(f.waiting) : f.id[t] \notin DOMAIN f.slots
      <3>1. \A t \in Range(e.waiting) : e.id[t] \notin DOMAIN e.slots /\ t \in Members(e, {})
        BY <1>1 DEF Owned, Members
      <3> QED BY <1>2, <1>5, <1>6, <3>1
    <2>6. \A t \in Pre(f) : f.id[t] \notin f.queued
      <3>1. \A t \in Pre(e) : e.id[t] \notin e.queued /\ t \in Members(e, {})
        BY <1>1 DEF Owned, Members, Active
      <3> QED BY <1>2, <1>3, <1>5, <3>1
    <2> QED BY <2>1, <2>2, <2>3, <2>4, <2>5, <2>6 DEF Owned
  <1>11. ASSUME NEW ahead, Context(e, ahead) PROVE Context(f, ahead)
    <2>1. \A t \in Range(e.running) : t \in Members(e, {})
      BY DEF Members, Active
    <2> QED BY <1>2, <1>5, <1>11, <2>1 DEF Context
  <1> QED BY <1>1, <1>2, <1>3, <1>7, <1>8, <1>9, <1>10, <1>11 DEF EngineOK, RetiredQueued

\* What Requeue leaves of the turns' places and tokens.
Requeued(e, f, r) ==
  /\ f.waiting = <<r>> \o e.waiting /\ f.running = e.running /\ f.prefilling = e.prefilling
  /\ f.new = e.new /\ f.queued = e.queued

LEMMA RequeueOK ==
  ASSUME NEW e, NEW r \in Request, EngineOK(e, {r}), RetiredQueued(e), e.new[r] < MaxNew[r]
  PROVE  LET f == Requeue(e, r)
         IN  /\ EngineOK(f, {}) /\ RetiredQueued(f) /\ Requeued(e, f, r)
             /\ Members(f, {}) = Members(e, {}) \cup {r}
             /\ \A ahead : Context(e, ahead) => Context(f, ahead)
  <1> DEFINE e1 == Release(e, {r})
             f == Requeue(e, r)
             w == <<r>> \o e1.waiting
             id == [e1.id EXCEPT ![r] = FreshId(e1)]
  <1>1. f = [e1 EXCEPT !.waiting = w, !.id = id]
    BY DEF Requeue
  <1>2. /\ EngineOK(e1, {r} \ {r}) /\ Released(e, e1, {r}) /\ RetiredQueued(e1)
        /\ \A ahead : Context(e, ahead) => Context(e1, ahead)
    BY ReleaseOK
  <1>3. {r} \ {r} = {}
    OBVIOUS
  <1> HIDE DEF e1
  <1>4. EngineOK(e1, {}) /\ EngineTyped(e1) /\ Places(e1, {})
    BY <1>2, <1>3 DEF EngineOK
  <1>5. /\ e1.waiting = e.waiting /\ e1.running = e.running /\ e1.prefilling = e.prefilling
        /\ e1.id = e.id /\ e1.new = e.new /\ e1.queued = e.queued /\ Pre(e1) = Pre(e)
        /\ Members(e1, {}) = Members(e, {})
    BY <1>2 DEF Released, SameTurns, Pre, Members, Active
  <1>6. r \notin Members(e1, {})
    BY <1>5 DEF EngineOK, Places, Members, Active
  <1>7. /\ e1 = [waiting |-> e1.waiting, running |-> e1.running, prefilling |-> e1.prefilling,
                 id |-> e1.id, new |-> e1.new, queued |-> e1.queued, retired |-> e1.retired,
                 slots |-> e1.slots, chunked |-> e1.chunked]
        /\ e1.waiting \in Seq(Request) /\ e1.id \in [Request -> Ids \cup {0}]
    BY <1>4, FieldTypes
  <1>8. w \in Seq(Request) /\ Range(w) = Range(e1.waiting) \cup {r} /\ Once(w)
    <2>1. Once(e1.waiting) /\ r \notin Range(e1.waiting)
      BY <1>4, <1>6 DEF Places, Members
    <2> QED BY <1>7, <2>1, JoinLine
  <1>9. FreshId(e1) \in Ids
    BY <1>2, <1>4, FreshIs
  <1>10. id \in [Request -> Ids \cup {0}] /\ id[r] = FreshId(e1) /\ \A t \in Request \ {r} : id[t] = e1.id[t]
    BY <1>7, <1>9
  <1>11. w = <<r>> \o e.waiting
    BY <1>5
  <1> HIDE DEF w, id, f
  <1>12. f = [waiting |-> w, running |-> e1.running, prefilling |-> e1.prefilling,
              id |-> id, new |-> e1.new, queued |-> e1.queued, retired |-> e1.retired,
              slots |-> e1.slots, chunked |-> e1.chunked]
    BY <1>1, <1>7
  <1>13. EngineTyped(f) /\ Joined(e1, f, r)
    BY <1>4, <1>8, <1>10, <1>12, FieldTypes DEF EngineTyped, Joined
  <1>14. e1.new[r] < MaxNew[r]
    BY <1>5
  <1>15. /\ EngineOK(f, {}) /\ RetiredQueued(f) /\ Members(f, {}) = Members(e1, {}) \cup {r}
         /\ \A ahead : Context(e1, ahead) => Context(f, ahead)
    BY <1>2, <1>4, <1>6, <1>13, <1>14, JoinOK
  <1>16. Requeued(e, f, r)
    BY <1>5, <1>11, <1>12 DEF Requeued
  <1>17. Members(f, {}) = Members(e, {}) \cup {r} /\ \A ahead : Context(e, ahead) => Context(f, ahead)
    BY <1>2, <1>5, <1>15
  <1> QED BY <1>15, <1>16, <1>17 DEF f

----------------------------------------------------------------------------
(* The order of the turns.                                                 *)

\* t is s without `out`, in s's order.
Thinned(s, t, out) ==
  /\ t \in Seq(Request) /\ Once(t) /\ Range(t) = Range(s) \ out
  /\ \A a, b \in Range(t) : Before(s, a, b) => Before(t, a, b)

LEMMA ThinIs ==
  ASSUME NEW s \in Seq(Request), Once(s), NEW out
  PROVE  /\ Thinned(s, Without(s, out), out)
         /\ Range(s) \cap out = {} => Thinned(s, s, out)
         /\ Range(s) \subseteq out => Thinned(s, <<>>, out)
  <1>1. Thinned(s, Without(s, out), out)
    <2> DEFINE t == Keep(s, Request \ out)
    <2>1. t \in Seq(Request) /\ Range(t) = Range(s) \cap (Request \ out) /\ Once(t)
      BY KeepProperties
    <2>2. Range(s) \cap (Request \ out) = Range(s) \ out
      BY RangeIs
    <2>3. \A a, b \in Range(t) : Before(s, a, b) => Before(t, a, b)
      BY KeepBefore
    <2> QED BY <2>1, <2>2, <2>3 DEF Thinned, Without
  <1>2. Range(s) \cap out = {} => Thinned(s, s, out)
    BY DEF Thinned
  <1>3. Range(s) \subseteq out => Thinned(s, <<>>, out)
    <2>1. <<>> \in Seq(Request) /\ Len(<<>>) = 0
      BY EmptySeq
    <2>2. Range(<<>>) = {}
      <3>1. \A b : b \in Range(<<>>) <=> \E i \in 1 .. 0 : <<>>[i] = b
        BY <2>1, RangeIs
      <3> QED BY <3>1
    <2>3. Once(<<>>)
      BY <2>1 DEF Once
    <2> QED BY <2>1, <2>2, <2>3 DEF Thinned
  <1> QED BY <1>1, <1>2, <1>3

LEMMA ThinEnds ==
  ASSUME NEW s \in Seq(Request), Once(s), s # <<>>
  PROVE  /\ Head(s) \in Request /\ Head(s) \in Range(s) /\ Thinned(s, Tail(s), {Head(s)})
         /\ Last(s) \in Request /\ Last(s) \in Range(s) /\ Thinned(s, Front(s), {Last(s)})
         /\ Front(s) = <<>> <=> Len(s) = 1
         /\ \A b : ~ Before(s, Last(s), b)
  <1>1. Head(s) \in Request /\ Head(s) \in Range(s) /\ Thinned(s, Tail(s), {Head(s)})
    <2>1. /\ Head(s) \in Request /\ Head(s) \in Range(s) /\ Tail(s) \in Seq(Request)
          /\ Once(Tail(s)) /\ Range(Tail(s)) = Range(s) \ {Head(s)}
      BY LeaveLine
    <2>2. \A a, b \in Range(Tail(s)) : Before(s, a, b) => Before(Tail(s), a, b)
      BY TailBefore
    <2> QED BY <2>1, <2>2 DEF Thinned
  <1>2. /\ Last(s) \in Request /\ Last(s) \in Range(s) /\ Thinned(s, Front(s), {Last(s)})
        /\ Front(s) = <<>> <=> Len(s) = 1
    <2>1. Front(s) \in Seq(Request) /\ Last(s) \in Request /\ LineWithout(s, Front(s), Last(s))
      BY LeaveLineLast DEF Front, Last
    <2> QED BY <2>1 DEF LineWithout, Thinned
  <1>3. ASSUME NEW b, Before(s, Last(s), b) PROVE FALSE
    <2>1. Len(s) \in Nat /\ DOMAIN s = 1 .. Len(s)
      BY LenProperties
    <2>2. PICK i, j \in 1 .. Len(s) : i < j /\ s[i] = s[Len(s)] /\ s[j] = b
      BY <1>3, <2>1 DEF Before, Last
    <2>3. Len(s) \in 1 .. Len(s) /\ \A k, l \in 1 .. Len(s) : s[k] = s[l] => k = l
      BY <2>1, <2>2 DEF Once
    <2>4. i = Len(s)
      BY <2>2, <2>3
    <2> QED BY <2>1, <2>2, <2>4
  <1> QED BY <1>1, <1>2, <1>3

\* The order of Line, place by place.
Sooner(e, a, b) ==
  \/ Before(e.running, a, b) \/ Before(e.waiting, a, b)
  \/ a \in Range(e.running) /\ b \in Pre(e) \cup Range(e.waiting)
  \/ a \in Pre(e) /\ b \in Range(e.waiting)

SoonerKept(e, f) ==
  \A a, b \in Members(e, {}) \cap Members(f, {}) : Sooner(e, a, b) => Sooner(f, a, b)

LEMMA BeforeIn ==
  ASSUME NEW s \in Seq(Request), NEW a, NEW b, Before(s, a, b)
  PROVE  a \in Range(s) /\ b \in Range(s)
  <1>1. DOMAIN s = 1 .. Len(s)
    BY LenProperties
  <1>2. PICK i, j \in 1 .. Len(s) : s[i] = a /\ s[j] = b
    BY <1>1 DEF Before
  <1>3. \A x : x \in Range(s) <=> \E k \in 1 .. Len(s) : s[k] = x
    BY RangeIs
  <1> QED BY <1>2, <1>3

(* Turns that leave their places.                                          *)
LEMMA LeaveOK ==
  ASSUME NEW e, EngineOK(e, {}), NEW f, EngineTyped(f), Moved(e, f), NEW out, NEW K,
         Thinned(e.running, f.running, out), Thinned(e.waiting, f.waiting, out), Pre(f) = Pre(e) \ out,
         out \cap Active(e, {}) \subseteq K, K \subseteq out \cap Members(e, {})
  PROVE  /\ EngineOK(f, K) /\ (RetiredQueued(e) => RetiredQueued(f)) /\ FreeBlocks(f) = FreeBlocks(e)
         /\ Members(f, {}) = Members(e, {}) \ out /\ SoonerKept(e, f)
         /\ \A ahead : Context(e, ahead) => Context(f, ahead)
  <1>1. EngineTyped(e) /\ Places(e, {}) /\ Owned(e, {})
    BY DEF EngineOK
  <1>2. /\ f.id = e.id /\ f.new = e.new /\ f.queued = e.queued /\ f.retired = e.retired /\ f.slots = e.slots
    BY DEF Moved
  <1>3. /\ Range(f.running) = Range(e.running) \ out /\ Range(f.waiting) = Range(e.waiting) \ out
        /\ Once(f.running) /\ Once(f.waiting)
        /\ \A a, b \in Range(f.running) : Before(e.running, a, b) => Before(f.running, a, b)
        /\ \A a, b \in Range(f.waiting) : Before(e.waiting, a, b) => Before(f.waiting, a, b)
    BY DEF Thinned
  <1>4. Members(f, {}) = Members(e, {}) \ out /\ Members(f, K) \subseteq Members(e, {})
    BY <1>3 DEF Members, Active
  <1>5. Members(e, {}) \subseteq Request
    BY <1>1, FieldTypes DEF Members, Active
  <1>6. Places(f, K)
    BY <1>1, <1>3, <1>5 DEF Places
  <1>7. \A r \in Active(e, {}) : r \in Active(f, K)
    BY <1>3 DEF Active
  <1>8. /\ \A r \in Range(f.waiting) : e.id[r] \notin DOMAIN e.slots
        /\ \A r \in Pre(f) : e.id[r] \notin e.queued
    BY <1>1, <1>3 DEF Owned
  <1>9. EngineOK(f, K) /\ (RetiredQueued(e) => RetiredQueued(f)) /\ FreeBlocks(f) = FreeBlocks(e)
    <2>1. Members(f, {}) \subseteq Members(e, {})
      BY <1>4
    <2> QED BY <1>4, <1>6, <1>7, <1>8, <2>1, MoveOK
  <1>10. ASSUME NEW ahead, Context(e, ahead) PROVE Context(f, ahead)
    BY <1>2, <1>3, <1>10 DEF Context
  <1>11. SoonerKept(e, f)
    <2>1. ASSUME NEW a \in Members(f, {}), NEW b \in Members(f, {}), Sooner(e, a, b)
          PROVE  Sooner(f, a, b)
      <3>1. a \notin out /\ b \notin out
        BY <1>4
      <3>2. CASE Before(e.running, a, b)
        <4>1. a \in Range(e.running) /\ b \in Range(e.running)
          BY <1>1, <3>2, FieldTypes, BeforeIn
        <4> QED BY <1>3, <3>1, <3>2, <4>1 DEF Sooner
      <3>3. CASE Before(e.waiting, a, b)
        <4>1. a \in Range(e.waiting) /\ b \in Range(e.waiting)
          BY <1>1, <3>3, FieldTypes, BeforeIn
        <4> QED BY <1>3, <3>1, <3>3, <4>1 DEF Sooner
      <3>4. CASE a \in Range(e.running) /\ b \in Pre(e) \cup Range(e.waiting)
        BY <1>3, <3>1, <3>4 DEF Sooner
      <3>5. CASE a \in Pre(e) /\ b \in Range(e.waiting)
        BY <1>3, <3>1, <3>5 DEF Sooner
      <3> QED BY <2>1, <3>2, <3>3, <3>4, <3>5 DEF Sooner
    <2> QED BY <2>1 DEF SoonerKept
  <1> QED BY <1>4, <1>9, <1>10, <1>11

\* f is e after `out` went, for whatever reason.
Left(e, f, out) ==
  /\ EngineOK(f, {}) /\ (RetiredQueued(e) => RetiredQueued(f)) /\ f.queued = e.queued
  /\ Members(f, {}) = Members(e, {}) \ out /\ SoonerKept(e, f)
  /\ Range(f.running) = Range(e.running) \ out /\ Range(f.waiting) = Range(e.waiting) \ out

(* Turns that leave their places and are released.                         *)
LEMMA LeaveRelease ==
  ASSUME NEW e, EngineOK(e, {}), NEW h, EngineTyped(h), Moved(e, h), NEW out, NEW rs,
         Thinned(e.running, h.running, out), Thinned(e.waiting, h.waiting, out), Pre(h) = Pre(e) \ out,
         out \cap Active(e, {}) \subseteq rs, rs \subseteq out \cap Members(e, {})
  PROVE  LET f == Release(h, rs)
         IN  /\ Left(e, f, out) /\ f.new = e.new /\ FreeBlocks(e) <= FreeBlocks(f)
             /\ \A ahead : Context(e, ahead) => Context(f, ahead)
             /\ SameTurns(h, f) /\ f.prefilling = h.prefilling /\ f.running = h.running
  <1> DEFINE f == Release(h, rs)
  <1>1. /\ EngineOK(h, rs) /\ (RetiredQueued(e) => RetiredQueued(h)) /\ FreeBlocks(h) = FreeBlocks(e)
        /\ Members(h, {}) = Members(e, {}) \ out /\ SoonerKept(e, h)
        /\ \A ahead : Context(e, ahead) => Context(h, ahead)
    BY LeaveOK
  <1>2. /\ EngineOK(f, rs \ rs) /\ Released(h, f, rs)
        /\ RetiredQueued(h) => RetiredQueued(f)
        /\ \A ahead : Context(h, ahead) => Context(f, ahead)
        /\ FreeBlocks(h) <= FreeBlocks(f)
    BY <1>1, ReleaseOK
  <1>3. rs \ rs = {}
    OBVIOUS
  <1> HIDE DEF f
  <1>4. EngineOK(f, {})
    BY <1>2, <1>3
  <1>5. SameTurns(h, f)
    BY <1>2 DEF Released
  <1>6. /\ f.waiting = h.waiting /\ f.running = h.running /\ f.prefilling = h.prefilling
        /\ f.new = h.new /\ f.queued = h.queued /\ Pre(f) = Pre(h)
    BY <1>5 DEF SameTurns, Pre
  <1>7. h.new = e.new /\ h.queued = e.queued
    BY DEF Moved
  <1>8. Range(h.running) = Range(e.running) \ out /\ Range(h.waiting) = Range(e.waiting) \ out
    BY DEF Thinned
  <1>9. Members(f, {}) = Members(h, {}) /\ SoonerKept(e, f)
    BY <1>1, <1>6 DEF Members, Active, SoonerKept, Sooner
  <1>10. Left(e, f, out)
    BY <1>1, <1>2, <1>4, <1>6, <1>7, <1>8, <1>9 DEF Left
  <1>11. FreeBlocks(e) <= FreeBlocks(f) /\ \A ahead : Context(e, ahead) => Context(f, ahead)
    BY <1>1, <1>2
  <1> QED BY <1>5, <1>6, <1>7, <1>10, <1>11 DEF f

(* release_retired: no block of a row that was read back is kept.          *)
LEMMA ReleaseRetiredOK ==
  ASSUME NEW e, NEW leaving, EngineOK(e, leaving)
  PROVE  LET f == ReleaseRetired(e)
         IN  /\ EngineOK(f, leaving) /\ RetiredQueued(f) /\ SameTurns(e, f)
             /\ \A ahead : Context(e, ahead) => Context(f, ahead)
  <1> DEFINE R == {p \in e.retired : p[1] \in e.queued}
             d == [e EXCEPT !.retired = R]
             ids == {p[1] : p \in e.retired} \ e.queued
             f == ReleaseRetired(e)
  <1>1. EngineTyped(e) /\ Places(e, leaving) /\ Owned(e, leaving) /\ Fits(e) /\ Tokens(e)
    BY DEF EngineOK
  <1>2. /\ e = [waiting |-> e.waiting, running |-> e.running, prefilling |-> e.prefilling,
                id |-> e.id, new |-> e.new, queued |-> e.queued, retired |-> e.retired,
                slots |-> e.slots, chunked |-> e.chunked]
        /\ e.retired \in SUBSET (Ids \X Request)
    BY <1>1, FieldTypes
  <1>3. /\ \A p : p \in R <=> p \in e.retired /\ p[1] \in e.queued
        /\ \A i : i \in ids <=> i \notin e.queued /\ \E p \in e.retired : p[1] = i
        /\ R \in SUBSET (Ids \X Request)
    BY <1>2
  <1>4. f = FreeIds(d, ids)
    BY DEF ReleaseRetired
  <1> HIDE DEF R, ids
  <1>5. d = [waiting |-> e.waiting, running |-> e.running, prefilling |-> e.prefilling,
             id |-> e.id, new |-> e.new, queued |-> e.queued, retired |-> R,
             slots |-> e.slots, chunked |-> e.chunked]
    BY <1>2
  <1> HIDE DEF d, f
  <1>6. EngineTyped(d)
    BY <1>1, <1>3, <1>5, FieldTypes DEF EngineTyped
  <1>7. SameTurns(d, f) /\ f.retired = d.retired /\ Cut(d, f, ids) /\ EngineTyped(f)
    BY <1>4, <1>6, FreeIdsIs
  <1>8. SameTurns(e, f) /\ f.retired = R /\ Cut(e, f, ids)
    BY <1>5, <1>7 DEF SameTurns, Cut
  <1>9. /\ f.waiting = e.waiting /\ f.running = e.running /\ f.prefilling = e.prefilling
        /\ f.id = e.id /\ f.new = e.new /\ f.queued = e.queued /\ Pre(f) = Pre(e)
        /\ \A L : Members(f, L) = Members(e, L) /\ Active(f, L) = Active(e, L)
    BY <1>8 DEF SameTurns, Pre, Members, Active
  <1>10. Fits(f)
    BY <1>1, <1>7, <1>8, CutFits
  <1>11. Tokens(f) /\ Places(f, leaving)
    BY <1>1, <1>9 DEF Tokens, Places
  <1>12. /\ \A i : i \in DOMAIN f.slots <=> i \in DOMAIN e.slots /\ i \notin ids
         /\ \A i \in DOMAIN f.slots : f.slots[i] = e.slots[i]
    BY <1>8 DEF Cut
  <1>13. Owned(f, leaving)
    <2>1. ASSUME NEW i \in DOMAIN f.slots
          PROVE  (\E r \in Active(f, leaving) : f.id[r] = i) \/ (\E p \in f.retired : p[1] = i)
      <3>1. (\E r \in Active(e, leaving) : e.id[r] = i) \/ (\E p \in e.retired : p[1] = i)
        BY <1>1, <1>12, <2>1 DEF Owned
      <3> QED BY <1>3, <1>8, <1>9, <1>12, <2>1, <3>1
    <2>2. /\ \A r \in Members(f, leaving) : f.id[r] \in Ids
          /\ \A r, t \in Members(f, leaving) : f.id[r] = f.id[t] => r = t
      BY <1>1, <1>9 DEF Owned
    <2>3. \A p \in f.retired : \A r \in Members(f, leaving) : p[1] # f.id[r]
      <3>1. \A p \in e.retired : \A r \in Members(e, leaving) : p[1] # e.id[r]
        BY <1>1 DEF Owned
      <3> QED BY ONLY <1>3, <1>8, <1>9, <3>1
    <2>4. \A p, q \in f.retired : p[1] = q[1] => p = q
      BY <1>1, <1>3, <1>8 DEF Owned
    <2>5. f.queued \subseteq DOMAIN f.slots
      BY <1>1, <1>3, <1>9, <1>12 DEF Owned
    <2>6. /\ \A r \in Range(f.waiting) : f.id[r] \notin DOMAIN f.slots
          /\ \A r \in Pre(f) : f.id[r] \notin f.queued
      BY <1>1, <1>9, <1>12 DEF Owned
    <2> QED BY <2>1, <2>2, <2>3, <2>4, <2>5, <2>6 DEF Owned
  <1>14. RetiredQueued(f)
    BY <1>3, <1>8, <1>9 DEF RetiredQueued
  <1>15. ASSUME NEW ahead, Context(e, ahead) PROVE Context(f, ahead)
    <2>1. ASSUME NEW r \in Range(e.running) PROVE e.id[r] \notin ids
      <3>1. \A p \in e.retired : \A t \in Members(e, leaving) : p[1] # e.id[t]
        BY <1>1 DEF Owned
      <3>2. r \in Members(e, leaving)
        BY DEF Members, Active
      <3> QED BY ONLY <1>3, <3>1, <3>2
    <2>2. ASSUME NEW r \in Range(e.running)
          PROVE  f.id[r] \in DOMAIN f.slots /\ f.slots[f.id[r]] = e.slots[e.id[r]]
      BY <1>9, <1>12, <1>15, <2>1 DEF Context
    <2> QED BY <1>9, <1>15, <2>2 DEF Context
  <1> QED BY <1>7, <1>8, <1>10, <1>11, <1>13, <1>14, <1>15 DEF EngineOK, f

----------------------------------------------------------------------------
(* Steps and tokens.                                                       *)

\* f has the turns of e, in their places and under their IDs.
SamePlaces(e, f) ==
  /\ f.waiting = e.waiting /\ f.running = e.running /\ f.prefilling = e.prefilling
  /\ f.id = e.id /\ f.new = e.new

LEMMA RowsAre ==
  ASSUME NEW e, EngineOK(e, {}), NEW ahead, Context(e, ahead)
  PROVE  /\ \A i : i \in Rows(e) <=> \E r \in Range(e.running) : e.id[r] = i
         /\ Rows(e) \in SUBSET DOMAIN e.slots /\ Rows(e) \in SUBSET Ids
         /\ Cardinality(Rows(e)) <= Cardinality(Request)
  <1>1. EngineTyped(e)
    BY DEF EngineOK
  <1>2. \A i : i \in Rows(e) <=> \E r \in Range(e.running) : e.id[r] = i
    BY DEF Rows
  <1>3. Rows(e) \in SUBSET DOMAIN e.slots
    BY <1>2 DEF Context
  <1>4. Range(e.running) \in SUBSET Request /\ e.slots \in Slots
    BY <1>1, FieldTypes
  <1>5. Rows(e) = IdsOf(e, Range(e.running))
    BY DEF Rows, IdsOf
  <1>6. Cardinality(Rows(e)) <= Cardinality(Request)
    BY <1>4, <1>5, IdsOfFew
  <1>7. DOMAIN e.slots \in SUBSET Ids
    BY <1>4, SlotsAre
  <1> QED BY <1>2, <1>3, <1>6, <1>7

(* Another step is queued, or none, and the queued one is read back.       *)
LEMMA QueueOK ==
  ASSUME NEW e, EngineOK(e, {}), NEW ahead, Context(e, ahead), NEW Q, NEW now,
         (Q = {} /\ ahead = {}) \/ (Q = Rows(e) /\ ahead = Range(e.running)),
         \A r \in Range(e.running) : r \in now <=> e.id[r] \in e.queued
  PROVE  LET f == [e EXCEPT !.queued = Q]
         IN  /\ EngineOK(f, {}) /\ SamePlaces(e, f) /\ f.queued = Q /\ f.slots = e.slots
             /\ Context(f, now)
  <1> DEFINE f == [e EXCEPT !.queued = Q]
  <1>1. EngineTyped(e) /\ Places(e, {}) /\ Owned(e, {}) /\ Fits(e) /\ Tokens(e)
    BY DEF EngineOK
  <1>2. /\ e = [waiting |-> e.waiting, running |-> e.running, prefilling |-> e.prefilling,
                id |-> e.id, new |-> e.new, queued |-> e.queued, retired |-> e.retired,
                slots |-> e.slots, chunked |-> e.chunked]
        /\ e.id \in [Request -> Ids \cup {0}] /\ e.new \in [Request -> Nat]
        /\ e.slots \in Slots /\ Range(e.running) \subseteq Request
    BY <1>1, FieldTypes
  <1>3. f = [waiting |-> e.waiting, running |-> e.running, prefilling |-> e.prefilling,
             id |-> e.id, new |-> e.new, queued |-> Q, retired |-> e.retired,
             slots |-> e.slots, chunked |-> e.chunked]
    BY <1>2
  <1>4. /\ \A i : i \in Rows(e) <=> \E r \in Range(e.running) : e.id[r] = i
        /\ Rows(e) \in SUBSET DOMAIN e.slots /\ Rows(e) \in SUBSET Ids
        /\ Cardinality(Rows(e)) <= Cardinality(Request)
    BY RowsAre
  <1>5. Q \in SUBSET Ids /\ Q \subseteq DOMAIN e.slots /\ Q \subseteq Rows(e) /\ Cardinality(Q) <= Cardinality(Request)
    <2>1. Cardinality({}) = 0 /\ Cardinality(Request) \in Nat
      BY FS_EmptySet, IdsFinite
    <2> QED BY <1>4, <2>1
  <1> HIDE DEF f
  <1>6. EngineTyped(f)
    BY <1>1, <1>3, <1>5, FieldTypes DEF EngineTyped
  <1>7. SamePlaces(e, f) /\ f.queued = Q /\ f.slots = e.slots /\ f.retired = e.retired
    BY <1>3 DEF SamePlaces
  <1>8. Pre(f) = Pre(e) /\ \A L : Members(f, L) = Members(e, L) /\ Active(f, L) = Active(e, L)
    BY <1>7 DEF SamePlaces, Pre, Members, Active
  <1>9. Places(f, {}) /\ Tokens(f)
    BY <1>1, <1>7, <1>8 DEF Places, Tokens, SamePlaces
  <1>10. Fits(f)
    BY <1>1, <1>7, FreeIs DEF Fits
  <1>11. Owned(f, {})
    <2>1. ASSUME NEW r \in Pre(f) PROVE f.id[r] \notin f.queued
      <3>1. \A t \in Range(e.running) : e.id[t] # e.id[r]
        <4>1. \A t, u \in Members(e, {}) : e.id[t] = e.id[u] => t = u
          BY <1>1 DEF Owned
        <4>2. r \in Members(e, {}) /\ \A t \in Range(e.running) : t \in Members(e, {}) /\ t # r
          BY <1>1, <1>8, <2>1 DEF Places, Members, Active
        <4> QED BY ONLY <4>1, <4>2
      <3> QED BY <1>4, <1>5, <1>7, <3>1 DEF SamePlaces
    <2> QED BY <1>1, <1>5, <1>7, <1>8, <2>1 DEF Owned, SamePlaces
  <1>12. Context(f, now)
    <2>1. ASSUME NEW r \in Range(e.running)
          PROVE  /\ e.id[r] \in DOMAIN e.slots
                 /\ e.slots[e.id[r]] = PromptTokens[r] + e.new[r] + (IF r \in now THEN 1 ELSE 0)
                                         - (IF e.id[r] \in Q THEN 0 ELSE 1)
      <3>1. /\ e.id[r] \in DOMAIN e.slots /\ r \in Request
            /\ e.slots[e.id[r]] = PromptTokens[r] + e.new[r] + (IF r \in ahead THEN 1 ELSE 0)
                                    - (IF e.id[r] \in e.queued THEN 0 ELSE 1)
        BY <1>2 DEF Context
      <3>2. e.new[r] \in Nat /\ PromptTokens[r] \in Nat
        BY <1>2, <3>1, EngineAssumption
      <3>3. r \in now <=> e.id[r] \in e.queued
        OBVIOUS
      <3>4. (r \in ahead /\ e.id[r] \in Q) \/ (r \notin ahead /\ e.id[r] \notin Q)
        BY <1>4
      <3> QED BY ONLY <3>1, <3>2, <3>3, <3>4
    <2> QED BY <1>7, <2>1 DEF Context, SamePlaces
  <1> QED BY <1>6, <1>7, <1>9, <1>10, <1>11, <1>12 DEF EngineOK, f

(* A step of the running turns.                                            *)
LEMMA ExtendOK ==
  ASSUME NEW e, EngineOK(e, {}), Context(e, {}), StepCost(e, Rows(e)) <= FreeBlocks(e)
  PROVE  LET f == Extend(e, Rows(e))
         IN  /\ EngineOK(f, {}) /\ SamePlaces(e, f) /\ f.queued = e.queued
             /\ Context(f, Range(e.running)) /\ Rows(f) = Rows(e)
  <1> DEFINE rows == Rows(e)
             s == [i \in DOMAIN e.slots |-> IF i \in rows THEN e.slots[i] + 1 ELSE e.slots[i]]
             f == Extend(e, Rows(e))
  <1>1. EngineTyped(e) /\ Places(e, {}) /\ Owned(e, {}) /\ Fits(e) /\ Tokens(e)
    BY DEF EngineOK
  <1>2. /\ e = [waiting |-> e.waiting, running |-> e.running, prefilling |-> e.prefilling,
                id |-> e.id, new |-> e.new, queued |-> e.queued, retired |-> e.retired,
                slots |-> e.slots, chunked |-> e.chunked]
        /\ e.id \in [Request -> Ids \cup {0}] /\ e.new \in [Request -> Nat]
        /\ e.slots \in Slots /\ Range(e.running) \subseteq Request
    BY <1>1, FieldTypes
  <1>3. /\ \A i : i \in Rows(e) <=> \E r \in Range(e.running) : e.id[r] = i
        /\ Rows(e) \in SUBSET DOMAIN e.slots
    BY RowsAre
  <1>4. f = [e EXCEPT !.slots = s]
    BY DEF Extend
  <1>5. /\ DOMAIN s = DOMAIN e.slots /\ s = [i \in DOMAIN s |-> s[i]]
        /\ \A i \in DOMAIN e.slots : s[i] = IF i \in rows THEN e.slots[i] + 1 ELSE e.slots[i]
    OBVIOUS
  <1> HIDE DEF s, f
  <1>6. s \in Slots
    <2>1. DOMAIN e.slots \in SUBSET Ids /\ \A i \in DOMAIN e.slots : e.slots[i] \in Nat \ {0}
      BY <1>2, SlotsAre
    <2>2. \A i \in DOMAIN s : s[i] \in Nat \ {0}
      BY <1>5, <2>1
    <2> QED BY <1>5, <2>1, <2>2, SlotsFrom
  <1>7. f = [waiting |-> e.waiting, running |-> e.running, prefilling |-> e.prefilling,
             id |-> e.id, new |-> e.new, queued |-> e.queued, retired |-> e.retired,
             slots |-> s, chunked |-> e.chunked]
    BY <1>2, <1>4
  <1>8. EngineTyped(f)
    BY <1>1, <1>6, <1>7, FieldTypes DEF EngineTyped
  <1>9. SamePlaces(e, f) /\ f.queued = e.queued /\ f.slots = s /\ f.retired = e.retired
    BY <1>7 DEF SamePlaces
  <1>10. /\ Pre(f) = Pre(e) /\ \A L : Members(f, L) = Members(e, L) /\ Active(f, L) = Active(e, L)
         /\ Rows(f) = Rows(e)
    BY <1>9 DEF SamePlaces, Pre, Members, Active, Rows
  <1>11. Places(f, {}) /\ Tokens(f)
    BY <1>1, <1>9, <1>10 DEF Places, Tokens, SamePlaces
  <1>12. Owned(f, {})
    BY <1>1, <1>5, <1>9, <1>10 DEF Owned, SamePlaces
  <1>13. Fits(f)
    <2> DEFINE cost == StepCost(e, Rows(e))
    <2>1. Taken(s) = Taken(e.slots) + Cardinality(FullRows(e.slots, rows))
      BY <1>2, <1>3, <1>5, <1>6, TakenStep
    <2>2. cost = Cardinality(FullRows(e.slots, rows))
      BY DEF StepCost, FullRows
    <2>3. Taken(s) \in Nat /\ Taken(e.slots) \in Nat /\ NumBlocks \in Nat
      BY <1>2, <1>6, TakenIs, EngineAssumption
    <2>4. cost \in Nat
      <3>1. IsFiniteSet(DOMAIN e.slots)
        BY <1>2, SlotsAre
      <3> DEFINE F == FullRows(e.slots, rows)
      <3>2. F \subseteq DOMAIN e.slots
        BY <1>3 DEF FullRows
      <3> HIDE DEF F
      <3>3. Cardinality(F) \in Nat
        BY <3>1, <3>2, FS_Subset, FS_CardinalityType
      <3> QED BY <2>2, <3>3 DEF F
    <2>5. cost <= NumBlocks - Taken(e.slots)
      BY FreeIs
    <2> HIDE DEF cost
    <2>6. Taken(s) = Taken(e.slots) + cost
      BY <2>1, <2>2
    <2>7. NumBlocks - Taken(s) \in Nat
      BY ONLY <2>3, <2>4, <2>5, <2>6
    <2> QED BY <1>9, <2>7, FreeIs DEF Fits
  <1>14. Context(f, Range(e.running))
    <2>1. ASSUME NEW r \in Range(e.running)
          PROVE  /\ e.id[r] \in DOMAIN s
                 /\ s[e.id[r]] = PromptTokens[r] + e.new[r] + (IF r \in Range(e.running) THEN 1 ELSE 0)
                                         - (IF e.id[r] \in e.queued THEN 0 ELSE 1)
      <3>1. /\ e.id[r] \in DOMAIN e.slots /\ r \in Request
            /\ e.slots[e.id[r]] = PromptTokens[r] + e.new[r] + (IF r \in {} THEN 1 ELSE 0)
                                    - (IF e.id[r] \in e.queued THEN 0 ELSE 1)
        BY <1>2 DEF Context
      <3>2. e.new[r] \in Nat /\ PromptTokens[r] \in Nat
        BY <1>2, <3>1, EngineAssumption
      <3>3. s[e.id[r]] = e.slots[e.id[r]] + 1 /\ e.id[r] \in DOMAIN s
        BY <1>3, <1>5, <3>1
      <3> QED BY <2>1, <3>1, <3>2, <3>3
    <2> QED BY <1>9, <2>1 DEF Context, SamePlaces
  <1> QED BY <1>8, <1>9, <1>10, <1>11, <1>12, <1>13, <1>14 DEF EngineOK, f

(* accepted: the tokens of the turns whose step was read back.             *)
LEMMA AcceptOK ==
  ASSUME NEW e, EngineOK(e, {}), NEW rs \in SUBSET Range(e.running), Context(e, rs),
         NEW stops \in SUBSET rs, MustStop(e, rs) \subseteq stops
  PROVE  LET f == Accept(e, rs, stops)
             leaving == rs \cap (stops \cup gone)
         IN  /\ Left(e, f, leaving) /\ Context(f, {})
             /\ f.waiting = e.waiting /\ f.prefilling = e.prefilling
             /\ \A r \in Request \ rs : f.new[r] = e.new[r]
  <1> DEFINE leaving == rs \cap (stops \cup gone)
             run == Without(e.running, leaving)
             new == [r \in Request |-> IF r \in rs THEN e.new[r] + 1 ELSE e.new[r]]
             d == [e EXCEPT !.running = run]
             h == [e EXCEPT !.new = new, !.running = run]
             f == Accept(e, rs, stops)
  <1>1. EngineTyped(e) /\ Places(e, {}) /\ Owned(e, {}) /\ Fits(e) /\ Tokens(e)
    BY DEF EngineOK
  <1>2. /\ e = [waiting |-> e.waiting, running |-> e.running, prefilling |-> e.prefilling,
                id |-> e.id, new |-> e.new, queued |-> e.queued, retired |-> e.retired,
                slots |-> e.slots, chunked |-> e.chunked]
        /\ e.new \in [Request -> Nat] /\ e.running \in Seq(Request) /\ Range(e.running) \subseteq Request
        /\ e.waiting \in Seq(Request)
    BY <1>1, FieldTypes
  <1>3. f = Release(h, leaving)
    BY DEF Accept
  <1>4. Thinned(e.running, run, leaving) /\ Thinned(e.waiting, e.waiting, leaving)
    <2>1. Once(e.running) /\ Once(e.waiting) /\ Range(e.waiting) \cap leaving = {}
      BY <1>1 DEF Places
    <2> HIDE DEF leaving
    <2> QED BY <1>2, <2>1, ThinIs
  <1>5. new \in [Request -> Nat] /\ \A r \in Request : new[r] = e.new[r] + (IF r \in rs THEN 1 ELSE 0)
    BY <1>2
  <1>6. rs \subseteq Request /\ leaving \subseteq rs /\ stops \subseteq leaving
    BY <1>2
  <1>0. d = [e EXCEPT !.running = run] /\ h = [e EXCEPT !.new = new, !.running = run]
    OBVIOUS
  <1> HIDE DEF leaving, run, new, d, h, f
  <1>7. /\ d = [waiting |-> e.waiting, running |-> run, prefilling |-> e.prefilling,
                id |-> e.id, new |-> e.new, queued |-> e.queued, retired |-> e.retired,
                slots |-> e.slots, chunked |-> e.chunked]
        /\ h = [waiting |-> e.waiting, running |-> run, prefilling |-> e.prefilling,
                id |-> e.id, new |-> new, queued |-> e.queued, retired |-> e.retired,
                slots |-> e.slots, chunked |-> e.chunked]
    <2>1. d = [waiting |-> e.waiting, running |-> run, prefilling |-> e.prefilling,
               id |-> e.id, new |-> e.new, queued |-> e.queued, retired |-> e.retired,
               slots |-> e.slots, chunked |-> e.chunked]
      BY <1>0, <1>2
    <2>2. h = [waiting |-> e.waiting, running |-> run, prefilling |-> e.prefilling,
               id |-> e.id, new |-> new, queued |-> e.queued, retired |-> e.retired,
               slots |-> e.slots, chunked |-> e.chunked]
      BY <1>0, <1>2
    <2> QED BY <2>1, <2>2
  <1>8. run \in Seq(Request) /\ Range(run) = Range(e.running) \ leaving
    BY <1>4 DEF Thinned
  <1>9. EngineTyped(d) /\ EngineTyped(h)
    BY <1>1, <1>5, <1>7, <1>8, FieldTypes DEF EngineTyped
  <1>10. /\ EngineOK(d, leaving) /\ (RetiredQueued(e) => RetiredQueued(d))
         /\ Members(d, {}) = Members(e, {}) \ leaving /\ SoonerKept(e, d)
         /\ \A ahead : Context(e, ahead) => Context(d, ahead)
    <2>1. Moved(e, d) /\ d.running = run /\ d.waiting = e.waiting
      BY <1>7 DEF Moved
    <2>2. Pre(d) = Pre(e)
      BY <1>7 DEF Pre
    <2>3. Pre(d) = Pre(e) \ leaving
      BY <1>1, <1>6, <2>2 DEF Places
    <2>4. leaving \cap Active(e, {}) \subseteq leaving /\ leaving \subseteq leaving \cap Members(e, {})
      BY <1>6 DEF Members, Active
    <2> QED BY <1>4, <1>9, <2>1, <2>3, <2>4, LeaveOK
  <1>11. /\ h.waiting = d.waiting /\ h.running = d.running /\ h.prefilling = d.prefilling /\ h.id = d.id
         /\ h.queued = d.queued /\ h.retired = d.retired /\ h.slots = d.slots
         /\ h.waiting = e.waiting /\ h.running = run /\ h.prefilling = e.prefilling /\ h.queued = e.queued
         /\ h.new = new /\ d.new = e.new /\ d.running = run
    BY <1>7
  <1>12. Pre(h) = Pre(d) /\ \A L : Members(h, L) = Members(d, L) /\ Active(h, L) = Active(d, L)
    BY <1>11 DEF Pre, Members, Active
  <1>13. Tokens(h)
    <2>1. ASSUME NEW r \in Request PROVE new[r] <= MaxNew[r]
      <3>1. e.new[r] \in Nat /\ MaxNew[r] \in Nat
        BY <1>2, EngineAssumption
      <3>2. CASE r \in rs
        <4>1. e.new[r] < MaxNew[r]
          BY <1>1, <3>2 DEF Tokens, Members, Active
        <4> QED BY <1>5, <3>1, <3>2, <4>1
      <3>3. CASE r \notin rs
        BY <1>1, <1>5, <3>1, <3>3 DEF Tokens
      <3> QED BY <3>2, <3>3
    <2>2. ASSUME NEW r \in Members(h, {}) PROVE new[r] < MaxNew[r]
      <3>1. r \in Members(e, {}) /\ r \notin leaving
        BY <1>10, <1>12, <2>2
      <3>2. r \in Request
        BY <1>1, <3>1, FieldTypes DEF Members, Active
      <3>3. e.new[r] \in Nat /\ MaxNew[r] \in Nat
        BY <1>2, <3>2, EngineAssumption
      <3>4. CASE r \in rs
        <4>1. ~ (e.new[r] + 1 >= MaxNew[r])
          BY <1>6, <3>1, <3>4 DEF MustStop
        <4> QED BY <1>5, <3>2, <3>3, <3>4, <4>1
      <3>5. CASE r \notin rs
        <4>1. e.new[r] < MaxNew[r]
          BY <1>1, <3>1 DEF Tokens
        <4> QED BY <1>5, <3>2, <3>3, <3>5, <4>1
      <3> QED BY <3>4, <3>5
    <2> QED BY <1>11, <2>1, <2>2 DEF Tokens
  <1>14. EngineOK(h, leaving) /\ (RetiredQueued(e) => RetiredQueued(h)) /\ SoonerKept(e, h)
         /\ Members(h, {}) = Members(e, {}) \ leaving
    <2>1. EngineTyped(d) /\ Places(d, leaving) /\ Owned(d, leaving) /\ Fits(d)
      BY <1>10 DEF EngineOK
    <2>2. Places(h, leaving)
      BY <1>11, <1>12, <2>1 DEF Places
    <2>3. Owned(h, leaving)
      BY <1>11, <1>12, <2>1 DEF Owned
    <2>4. Fits(h)
      BY <1>11, <2>1, FreeIs DEF Fits
    <2>5. RetiredQueued(d) => RetiredQueued(h)
      BY <1>11 DEF RetiredQueued
    <2>6. SoonerKept(e, h)
      BY <1>10, <1>11, <1>12 DEF SoonerKept, Sooner
    <2> QED BY <1>9, <1>10, <1>12, <1>13, <2>2, <2>3, <2>4, <2>5, <2>6 DEF EngineOK
  <1>15. Context(h, {})
    <2>1. ASSUME NEW r \in Range(run)
          PROVE  /\ d.id[r] \in DOMAIN d.slots
                 /\ d.slots[d.id[r]] = PromptTokens[r] + new[r] + (IF r \in {} THEN 1 ELSE 0)
                                        - (IF d.id[r] \in d.queued THEN 0 ELSE 1)
      <3>1. /\ d.id[r] \in DOMAIN d.slots
            /\ d.slots[d.id[r]] = PromptTokens[r] + e.new[r] + (IF r \in rs THEN 1 ELSE 0)
                                    - (IF d.id[r] \in d.queued THEN 0 ELSE 1)
        BY <1>10, <1>11, <2>1 DEF Context
      <3>2. r \in Request
        BY <1>2, <1>8, <2>1
      <3>3. e.new[r] \in Nat /\ PromptTokens[r] \in Nat /\ new[r] = e.new[r] + (IF r \in rs THEN 1 ELSE 0)
        BY <1>2, <1>5, <3>2, EngineAssumption
      <3> QED BY <3>1, <3>3
    <2> QED BY <1>11, <2>1 DEF Context
  <1>16. /\ EngineOK(f, leaving \ leaving) /\ Released(h, f, leaving)
         /\ RetiredQueued(h) => RetiredQueued(f)
         /\ \A ahead : Context(h, ahead) => Context(f, ahead)
    BY <1>3, <1>14, ReleaseOK
  <1>17. leaving \ leaving = {}
    OBVIOUS
  <1>18. /\ f.waiting = h.waiting /\ f.running = h.running /\ f.prefilling = h.prefilling
         /\ f.new = h.new /\ f.queued = h.queued /\ Pre(f) = Pre(h)
    BY <1>16 DEF Released, SameTurns, Pre
  <1>19. Members(f, {}) = Members(h, {}) /\ SoonerKept(e, f)
    BY <1>14, <1>18 DEF Members, Active, SoonerKept, Sooner
  <1>20. Range(f.running) = Range(e.running) \ leaving /\ Range(f.waiting) = Range(e.waiting) \ leaving
    BY <1>4, <1>11, <1>18 DEF Thinned
  <1>21. EngineOK(f, {})
    BY <1>16, <1>17
  <1>22. Left(e, f, leaving)
    BY <1>11, <1>14, <1>16, <1>18, <1>19, <1>20, <1>21 DEF Left
  <1>23. \A r \in Request \ rs : f.new[r] = e.new[r]
    <2>1. ASSUME NEW r \in Request \ rs PROVE new[r] = e.new[r]
      <3>1. e.new[r] \in Nat
        BY <1>2
      <3> QED BY <1>5, <3>1
    <2> QED BY <1>11, <1>18, <2>1
  <1> QED BY <1>11, <1>15, <1>16, <1>18, <1>22, <1>23 DEF f, leaving

----------------------------------------------------------------------------
(* Outcomes.                                                               *)

\* p is o after the turns of rs ended, each as one of `how`.
Ends(o, p, rs, how) ==
  /\ p \in [Request -> Outcomes] /\ LiveIn(p) = LiveIn(o) \ rs
  /\ \A r \in Request : p[r] = o[r] \/ p[r] \in how

LEMMA EndIs ==
  ASSUME NEW o \in [Request -> Outcomes], NEW rs, NEW how \in Ended
  PROVE  Ends(o, End(o, rs, how), rs, {how, "dropped"})
  <1> DEFINE p == End(o, rs, how)
  <1>1. \A r \in Request : p[r] = IF r \notin rs THEN o[r] ELSE IF r \in gone THEN "dropped" ELSE how
    BY DEF End
  <1>2. p = [r \in Request |-> p[r]]
    BY DEF End
  <1> HIDE DEF p
  <1>3. "dropped" \in Ended /\ "live" \notin Ended
    BY DEF Ended
  <1>4. \A r \in Request : p[r] \in Outcomes
    BY <1>1, <1>3 DEF Outcomes
  <1>5. p \in [Request -> Outcomes]
    BY <1>2, <1>4
  <1>6. LiveIn(p) = LiveIn(o) \ rs
    BY <1>1, <1>3 DEF LiveIn
  <1>7. \A r \in Request : p[r] = o[r] \/ p[r] \in {how, "dropped"}
    BY <1>1
  <1> QED BY <1>5, <1>6, <1>7 DEF Ends, p

LEMMA EndsTwice ==
  ASSUME NEW o, NEW p, NEW q, NEW rs, NEW ts, NEW how, NEW then, Ends(o, p, rs, how), Ends(p, q, ts, then)
  PROVE  Ends(o, q, rs \cup ts, how \cup then)
  <1>1. q \in [Request -> Outcomes] /\ LiveIn(q) = LiveIn(o) \ (rs \cup ts)
    BY DEF Ends
  <1>2. \A r \in Request : q[r] = o[r] \/ q[r] \in how \cup then
    BY DEF Ends
  <1> QED BY <1>1, <1>2 DEF Ends

LEMMA EndsNone ==
  ASSUME NEW o \in [Request -> Outcomes], NEW how
  PROVE  Ends(o, o, {}, how)
  BY DEF Ends

\* Outcomes that refuse nobody for lack of blocks.
Harmless == Ended \ {"nofit", "outgrew"}

LEMMA LeftOutcome ==
  ASSUME NEW o \in [Request -> Outcomes], NEW left
  PROVE  Ends(o, End(End(o, left \cap expired, "deadline"), left \cap cancel, "dropped"),
              left \cap (cancel \cup expired), Harmless)
  <1> DEFINE p == End(o, left \cap expired, "deadline")
             q == End(p, left \cap cancel, "dropped")
  <1>1. "deadline" \in Ended /\ "dropped" \in Ended
    BY DEF Ended
  <1>2. Ends(o, p, left \cap expired, {"deadline", "dropped"})
    BY <1>1, EndIs
  <1>3. p \in [Request -> Outcomes]
    BY <1>2 DEF Ends
  <1> HIDE DEF p
  <1>4. Ends(p, q, left \cap cancel, {"dropped", "dropped"})
    BY <1>1, <1>3, EndIs
  <1> HIDE DEF q
  <1>5. Ends(o, q, (left \cap expired) \cup (left \cap cancel), {"deadline", "dropped"} \cup {"dropped", "dropped"})
    BY <1>2, <1>4, EndsTwice
  <1>6. (left \cap expired) \cup (left \cap cancel) = left \cap (cancel \cup expired)
    OBVIOUS
  <1>7. {"deadline", "dropped"} \cup {"dropped", "dropped"} \subseteq Harmless
    BY DEF Harmless, Ended
  <1>8. Ends(o, q, left \cap (cancel \cup expired), Harmless)
    BY <1>5, <1>6, <1>7 DEF Ends
  <1> QED BY <1>8 DEF p, q

LEMMA AcceptEnds ==
  ASSUME NEW o \in [Request -> Outcomes], NEW rs, NEW stops \in SUBSET rs, NEW fails \in SUBSET stops
  PROVE  Ends(o, AcceptOutcome(o, rs, stops, fails), rs \cap (stops \cup gone), Harmless)
  <1> DEFINE p == End(o, stops \ fails, "done")
             q == End(p, fails \cup (rs \cap gone), "failed")
  <1>1. "done" \in Ended /\ "failed" \in Ended
    BY DEF Ended
  <1>2. Ends(o, p, stops \ fails, {"done", "dropped"})
    BY <1>1, EndIs
  <1>3. p \in [Request -> Outcomes]
    BY <1>2 DEF Ends
  <1> HIDE DEF p
  <1>4. Ends(p, q, fails \cup (rs \cap gone), {"failed", "dropped"})
    BY <1>1, <1>3, EndIs
  <1>5. q = AcceptOutcome(o, rs, stops, fails)
    BY DEF p, AcceptOutcome
  <1> HIDE DEF q
  <1>6. Ends(o, q, (stops \ fails) \cup (fails \cup (rs \cap gone)), {"done", "dropped"} \cup {"failed", "dropped"})
    BY <1>2, <1>4, EndsTwice
  <1>7. (stops \ fails) \cup (fails \cup (rs \cap gone)) = rs \cap (stops \cup gone)
    OBVIOUS
  <1>8. {"done", "dropped"} \cup {"failed", "dropped"} \subseteq Harmless
    BY DEF Harmless, Ended
  <1>9. Ends(o, q, rs \cap (stops \cup gone), Harmless)
    BY <1>6, <1>7, <1>8 DEF Ends
  <1> QED BY <1>5, <1>9

LEMMA FailEnds ==
  ASSUME NEW o \in [Request -> Outcomes], NEW rs, NEW how \in Harmless
  PROVE  Ends(o, End(o, rs, how), rs, Harmless)
  <1>1. how \in Ended /\ {how, "dropped"} \subseteq Harmless
    BY DEF Harmless, Ended
  <1>2. Ends(o, End(o, rs, how), rs, {how, "dropped"})
    BY <1>1, EndIs
  <1> QED BY <1>1, <1>2 DEF Ends

----------------------------------------------------------------------------
(* What a step does.                                                       *)

\* A turn that is refused for lack of blocks is too large for the pool.
RefusedBig(e, o, p) ==
  \A r \in Request :
    /\ o[r] # "nofit" /\ p[r] = "nofit" => DivCeil(PrefillTokens(e, r)) > NumBlocks
    /\ o[r] # "outgrew" /\ p[r] = "outgrew" => DivCeil(PromptTokens[r] + e.new[r]) > NumBlocks

\* A turn that runs alone is not queued again.
LoneStays(e, f) ==
  \A r \in Request : Range(e.running) = {r} /\ Pre(e) = {} => r \notin Range(f.waiting)

\* The engine goes from e to f, with the outcomes o and p.
Goes(e, o, f, p) ==
  /\ Sound(f, p) /\ SoonerKept(e, f) /\ Members(f, {}) \subseteq Members(e, {})
  /\ RefusedBig(e, o, p) /\ LoneStays(e, f)

LEMMA HarmlessRefusesNobody ==
  ASSUME NEW e, NEW o, NEW p, NEW rs, Ends(o, p, rs, Harmless)
  PROVE  RefusedBig(e, o, p)
  BY DEF RefusedBig, Ends, Harmless

LEMMA SoundAfter ==
  ASSUME NEW e, NEW o, Sound(e, o), NEW f, NEW p, NEW rs, NEW how \in SUBSET Ended,
         EngineOK(f, {}), RetiredQueued(f), Context(f, {}), Members(f, {}) = Members(e, {}) \ rs,
         \A r \in Request \ Members(e, {}) : f.new[r] = e.new[r], Ends(o, p, rs, how)
  PROVE  Sound(f, p) /\ Members(f, {}) \subseteq Members(e, {})
  <1>1. /\ o \in [Request -> Outcomes] /\ LiveIn(o) = Members(e, {})
        /\ \A r \in Request : o[r] = "unsent" => e.new[r] = 0
    BY DEF Sound
  <1>2. /\ p \in [Request -> Outcomes] /\ LiveIn(p) = LiveIn(o) \ rs
        /\ \A r \in Request : p[r] = o[r] \/ p[r] \in how
    BY DEF Ends
  <1>3. ASSUME NEW r \in Request, p[r] = "unsent" PROVE f.new[r] = 0
    <2>1. "unsent" \notin how
      BY DEF Ended
    <2>2. o[r] = "unsent"
      BY <1>2, <1>3, <2>1
    <2>3. r \notin Members(e, {})
      BY <1>1, <2>2 DEF LiveIn
    <2> QED BY <1>1, <2>2, <2>3
  <1> QED BY <1>1, <1>2, <1>3 DEF Sound

LEMMA RequeueKeepsOrder ==
  ASSUME NEW e, EngineOK(e, {}), NEW h, NEW r \in Request, NEW f, Requeued(h, f, r),
         \/ Pre(e) = {r} /\ h.waiting = e.waiting /\ h.running = e.running /\ Pre(h) = {}
         \/ /\ Pre(e) = {} /\ h.waiting = e.waiting /\ Pre(h) = {}
            /\ Thinned(e.running, h.running, {r}) /\ \A b : ~ Before(e.running, r, b)
  PROVE  SoonerKept(e, f)
  <1>1. EngineTyped(e) /\ Places(e, {})
    BY DEF EngineOK
  <1>2. /\ f.waiting = <<r>> \o h.waiting /\ f.running = h.running /\ Pre(f) = Pre(h)
        /\ h.waiting = e.waiting /\ Pre(h) = {}
    BY DEF Requeued, Pre
  <1>3. e.waiting \in Seq(Request) /\ e.running \in Seq(Request)
    BY <1>1, FieldTypes
  <1>4. /\ Range(f.waiting) = {r} \cup Range(e.waiting)
        /\ \A a, b : Before(e.waiting, a, b) => Before(f.waiting, a, b)
        /\ \A b \in Range(e.waiting) : Before(f.waiting, r, b)
    <2> DEFINE one == <<r>>
    <2>1. one \in Seq(Request) /\ Range(one) = {r}
      <3>1. one \in Seq(Request) /\ Len(one) = 1 /\ one[1] = r
        OBVIOUS
      <3> HIDE DEF one
      <3>2. \A b : b \in Range(one) <=> \E i \in 1 .. 1 : one[i] = b
        BY <3>1, RangeIs
      <3> QED BY <3>1, <3>2
    <2> HIDE DEF one
    <2>2. /\ Range(one \o e.waiting) = Range(one) \cup Range(e.waiting)
          /\ \A a, b : Before(one \o e.waiting, a, b) <=>
               Before(one, a, b) \/ Before(e.waiting, a, b) \/ (a \in Range(one) /\ b \in Range(e.waiting))
      BY <1>3, <2>1, ConcatBefore
    <2>3. f.waiting = one \o e.waiting
      BY <1>2 DEF one
    <2> QED BY <2>1, <2>2, <2>3
  <1>5. ASSUME NEW a \in Members(e, {}), NEW b \in Members(e, {}), Sooner(e, a, b) PROVE Sooner(f, a, b)
    <2>1. CASE Pre(e) = {r} /\ h.running = e.running
      BY <1>2, <1>4, <1>5, <2>1 DEF Sooner
    <2>2. CASE Pre(e) = {} /\ Thinned(e.running, h.running, {r}) /\ \A x : ~ Before(e.running, r, x)
      <3>1. /\ Range(f.running) = Range(e.running) \ {r}
            /\ \A x, y \in Range(f.running) : Before(e.running, x, y) => Before(f.running, x, y)
        BY <1>2, <2>2 DEF Thinned
      <3>2. CASE Before(e.running, a, b)
        <4>1. a \in Range(e.running) /\ b \in Range(e.running) /\ a # r
          BY <1>3, <2>2, <3>2, BeforeIn
        <4>2. CASE b = r
          BY <1>4, <3>1, <4>1, <4>2 DEF Sooner
        <4>3. CASE b # r
          BY <3>1, <3>2, <4>1, <4>3 DEF Sooner
        <4> QED BY <4>2, <4>3
      <3>3. CASE Before(e.waiting, a, b)
        BY <1>4, <3>3 DEF Sooner
      <3>4. CASE a \in Range(e.running) /\ b \in Range(e.waiting)
        <4>1. CASE a = r
          BY <1>4, <3>4, <4>1 DEF Sooner
        <4>2. CASE a # r
          BY <1>4, <3>1, <3>4, <4>2 DEF Sooner
        <4> QED BY <4>1, <4>2
      <3> QED BY <1>5, <2>2, <3>2, <3>3, <3>4 DEF Sooner
    <2> QED BY <2>1, <2>2
  <1> QED BY <1>5 DEF SoonerKept

\* The turn that preempt gives up on.
Outgrown(e) == IF e.prefilling = None /\ Len(e.running) = 1 THEN {Last(e.running)} ELSE {}

\* What preempt leaves.
Preempted(e, f) ==
  /\ EngineOK(f, {}) /\ RetiredQueued(f) /\ Members(f, {}) = Members(e, {}) \ Outgrown(e)
  /\ SoonerKept(e, f) /\ f.new = e.new /\ LoneStays(e, f)
  /\ \A ahead : Context(e, ahead) => Context(f, ahead)

LEMMA PreemptPrefilling ==
  ASSUME NEW e, EngineOK(e, {}), RetiredQueued(e), e.prefilling # None
  PROVE  LET f == Requeue([e EXCEPT !.prefilling = None], e.prefilling)
         IN  Preempted(e, f) /\ f.running = e.running /\ f.queued = e.queued
  <1> DEFINE r == e.prefilling
             h == [e EXCEPT !.prefilling = None]
             f == Requeue(h, r)
  <1>1. EngineTyped(e) /\ Places(e, {}) /\ Tokens(e)
    BY DEF EngineOK
  <1>2. /\ e = [waiting |-> e.waiting, running |-> e.running, prefilling |-> e.prefilling,
                id |-> e.id, new |-> e.new, queued |-> e.queued, retired |-> e.retired,
                slots |-> e.slots, chunked |-> e.chunked]
        /\ e.waiting \in Seq(Request) /\ e.running \in Seq(Request) /\ r \in Request
    BY <1>1, FieldTypes
  <1>3. h = [waiting |-> e.waiting, running |-> e.running, prefilling |-> None,
             id |-> e.id, new |-> e.new, queued |-> e.queued, retired |-> e.retired,
             slots |-> e.slots, chunked |-> e.chunked]
    BY <1>2
  <1> HIDE DEF h
  <1>4. EngineTyped(h)
    BY <1>1, <1>3, FieldTypes DEF EngineTyped
  <1>5. /\ Moved(e, h) /\ Pre(e) = {r} /\ Pre(h) = {} /\ Pre(h) = Pre(e) \ {r}
        /\ h.waiting = e.waiting /\ h.running = e.running /\ h.new = e.new /\ h.queued = e.queued
    BY <1>3 DEF Moved, Pre
  <1>6. Thinned(e.running, h.running, {r}) /\ Thinned(e.waiting, h.waiting, {r})
    <2>1. Range(e.running) \cap {r} = {} /\ Range(e.waiting) \cap {r} = {} /\ Once(e.running) /\ Once(e.waiting)
      BY <1>1, <1>5 DEF Places
    <2> QED BY <1>2, <1>5, <2>1, ThinIs
  <1>7. {r} \cap Active(e, {}) \subseteq {r} /\ {r} \subseteq {r} \cap Members(e, {})
    BY <1>5 DEF Active, Members
  <1>8. /\ EngineOK(h, {r}) /\ RetiredQueued(h) /\ Members(h, {}) = Members(e, {}) \ {r}
        /\ \A ahead : Context(e, ahead) => Context(h, ahead)
    <2> HIDE DEF r
    <2> QED BY <1>4, <1>5, <1>6, <1>7, LeaveOK
  <1>9. h.new[r] < MaxNew[r]
    BY <1>1, <1>5, <1>7 DEF Tokens
  <1>10. /\ EngineOK(f, {}) /\ RetiredQueued(f) /\ Requeued(h, f, r)
         /\ Members(f, {}) = Members(h, {}) \cup {r}
         /\ \A ahead : Context(h, ahead) => Context(f, ahead)
    <2> HIDE DEF r
    <2>1. r \in Request
      BY <1>2
    <2> QED BY <1>8, <1>9, <2>1, RequeueOK
  <1> HIDE DEF f
  <1>11. SoonerKept(e, f)
    BY <1>2, <1>5, <1>10, RequeueKeepsOrder
  <1>12. Outgrown(e) = {} /\ LoneStays(e, f)
    BY <1>5 DEF Outgrown, LoneStays
  <1>13. Members(f, {}) = Members(e, {}) \ Outgrown(e)
    BY <1>7, <1>8, <1>10, <1>12
  <1>14. f.new = e.new /\ f.running = e.running /\ f.queued = e.queued
    BY <1>5, <1>10 DEF Requeued
  <1> QED BY <1>8, <1>10, <1>11, <1>12, <1>13, <1>14 DEF Preempted, f, h, r

LEMMA PreemptOK ==
  ASSUME NEW e, EngineOK(e, {}), RetiredQueued(e), e.running # <<>>
  PROVE  Preempted(e, Preempt(e))
  <1>1. CASE e.prefilling # None
    <2>1. Preempt(e) = Requeue([e EXCEPT !.prefilling = None], e.prefilling)
      BY <1>1 DEF Preempt
    <2> QED BY <1>1, <2>1, PreemptPrefilling
  <1>2. CASE e.prefilling = None
    <2> DEFINE r == Last(e.running)
               run == Front(e.running)
               h == [e EXCEPT !.running = run]
               f == Preempt(e)
    <2>1. EngineTyped(e) /\ Places(e, {}) /\ Tokens(e)
      BY DEF EngineOK
    <2>2. /\ e = [waiting |-> e.waiting, running |-> e.running, prefilling |-> e.prefilling,
                  id |-> e.id, new |-> e.new, queued |-> e.queued, retired |-> e.retired,
                  slots |-> e.slots, chunked |-> e.chunked]
          /\ e.waiting \in Seq(Request) /\ e.running \in Seq(Request)
          /\ Once(e.running) /\ Once(e.waiting) /\ Range(e.running) \cap Range(e.waiting) = {}
          /\ Len(e.running) \in Nat
      BY <2>1, FieldTypes, LenProperties DEF Places
    <2>3. /\ r \in Request /\ r \in Range(e.running) /\ Thinned(e.running, run, {r})
          /\ run = <<>> <=> Len(e.running) = 1
          /\ \A b : ~ Before(e.running, r, b)
      BY <2>2, ThinEnds
    <2>4. f = IF h.running = <<>> THEN Release(h, {r}) ELSE Requeue(h, r)
      BY <1>2 DEF Preempt
    <2> HIDE DEF run, f
    <2>5. h = [waiting |-> e.waiting, running |-> run, prefilling |-> e.prefilling,
               id |-> e.id, new |-> e.new, queued |-> e.queued, retired |-> e.retired,
               slots |-> e.slots, chunked |-> e.chunked]
      BY <2>2
    <2> HIDE DEF h, r
    <2>6. EngineTyped(h)
      <3>1. run \in Seq(Request)
        BY <2>3 DEF Thinned
      <3> QED BY <2>1, <2>5, <3>1, FieldTypes DEF EngineTyped
    <2>7. /\ Moved(e, h) /\ Pre(e) = {} /\ Pre(h) = {} /\ Pre(h) = Pre(e) \ {r}
          /\ h.waiting = e.waiting /\ h.running = run /\ h.new = e.new
      BY <1>2, <2>5 DEF Moved, Pre
    <2>8. Thinned(e.running, h.running, {r}) /\ Thinned(e.waiting, h.waiting, {r})
      <3>1. Range(e.waiting) \cap {r} = {}
        BY <2>2, <2>3
      <3> QED BY <2>2, <2>3, <2>7, <3>1, ThinIs
    <2>9. {r} \cap Active(e, {}) \subseteq {r} /\ {r} \subseteq {r} \cap Members(e, {})
      BY <2>3 DEF Active, Members
    <2>10. CASE run = <<>>
      <3>1. f = Release(h, {r})
        BY <2>4, <2>7, <2>10
      <3>2. /\ Left(e, f, {r}) /\ f.new = e.new /\ SameTurns(h, f)
            /\ \A ahead : Context(e, ahead) => Context(f, ahead)
        <4>1. Moved(e, h) /\ Pre(h) = Pre(e) \ {r} /\ EngineOK(e, {})
          BY <2>7
        <4> QED BY ONLY <2>6, <2>8, <2>9, <3>1, <4>1, LeaveRelease
      <3>3. Outgrown(e) = {r}
        BY <1>2, <2>3, <2>10 DEF Outgrown, r
      <3>4. f.waiting = e.waiting
        BY <2>7, <3>2 DEF SameTurns
      <3>5. LoneStays(e, f)
        BY <2>2, <3>4 DEF LoneStays
      <3>6. /\ EngineOK(f, {}) /\ RetiredQueued(f) /\ SoonerKept(e, f)
            /\ Members(f, {}) = Members(e, {}) \ Outgrown(e)
        BY <3>2, <3>3 DEF Left
      <3> QED BY <3>2, <3>5, <3>6 DEF Preempted, f
    <2>11. CASE run # <<>>
      <3>1. f = Requeue(h, r)
        BY <2>4, <2>7, <2>11
      <3>2. /\ EngineOK(h, {r}) /\ RetiredQueued(h) /\ Members(h, {}) = Members(e, {}) \ {r}
            /\ \A ahead : Context(e, ahead) => Context(h, ahead)
        <4>1. Moved(e, h) /\ Pre(h) = Pre(e) \ {r} /\ EngineOK(e, {}) /\ RetiredQueued(e)
          BY <2>7
        <4> QED BY ONLY <2>6, <2>8, <2>9, <4>1, LeaveOK
      <3>3. h.new[r] < MaxNew[r]
        BY <2>1, <2>7, <2>9 DEF Tokens
      <3>4. /\ EngineOK(f, {}) /\ RetiredQueued(f) /\ Requeued(h, f, r)
            /\ Members(f, {}) = Members(h, {}) \cup {r}
            /\ \A ahead : Context(h, ahead) => Context(f, ahead)
        BY <2>3, <3>1, <3>2, <3>3, RequeueOK
      <3>5. SoonerKept(e, f)
        BY <2>3, <2>7, <2>8, <3>4, RequeueKeepsOrder
      <3>6. Outgrown(e) = {}
        BY <2>3, <2>11 DEF Outgrown
      <3>7. Members(f, {}) = Members(e, {}) \ Outgrown(e)
        BY <2>9, <3>2, <3>4, <3>6
      <3>8. LoneStays(e, f)
        <4>1. Range(run) = Range(e.running) \ {r} /\ run \in Seq(Request)
          BY <2>3 DEF Thinned
        <4>2. Range(run) # {}
          <5>1. Head(run) \in Range(run)
            BY <2>11, <4>1, LeaveLine
          <5> QED BY <5>1
        <4>3. \A t : Range(e.running) # {t}
          BY <2>3, <4>1, <4>2
        <4> QED BY <4>3 DEF LoneStays
      <3>9. f.new = e.new
        BY <2>7, <3>4 DEF Requeued
      <3>10. \A ahead : Context(e, ahead) => Context(f, ahead)
        BY <3>2, <3>4
      <3> QED BY <3>4, <3>5, <3>7, <3>8, <3>9, <3>10 DEF Preempted, f
    <2> QED BY <2>10, <2>11 DEF f
  <1> QED BY <1>1, <1>2

LEMMA SoundParts ==
  ASSUME NEW e, NEW o, Sound(e, o)
  PROVE  /\ EngineOK(e, {}) /\ RetiredQueued(e) /\ Context(e, {})
         /\ o \in [Request -> Outcomes] /\ LiveIn(o) = Members(e, {})
         /\ EngineTyped(e) /\ Places(e, {}) /\ Owned(e, {}) /\ Fits(e) /\ Tokens(e)
  BY DEF Sound, EngineOK

\* The parts of n that Line and the members are made of are those of e.
LEMMA SameLine ==
  ASSUME NEW e, NEW n, n.waiting = e.waiting, n.running = e.running, n.prefilling = e.prefilling
  PROVE  /\ Pre(n) = Pre(e) /\ \A L : Members(n, L) = Members(e, L) /\ Active(n, L) = Active(e, L)
         /\ \A a, b : Sooner(n, a, b) <=> Sooner(e, a, b)
  BY DEF Pre, Members, Active, Sooner

LEMMA LeftRetired ==
  ASSUME NEW e, NEW f, NEW out, Left(e, f, out)
  PROVE  LET g == ReleaseRetired(f)
         IN  /\ Left(e, g, out) /\ RetiredQueued(g) /\ SameTurns(f, g)
             /\ \A ahead : Context(f, ahead) => Context(g, ahead)
  <1> DEFINE g == ReleaseRetired(f)
  <1>1. EngineOK(f, {})
    BY DEF Left
  <1>2. /\ EngineOK(g, {}) /\ RetiredQueued(g) /\ SameTurns(f, g)
        /\ \A ahead : Context(f, ahead) => Context(g, ahead)
    BY <1>1, ReleaseRetiredOK
  <1> HIDE DEF g
  <1>3. /\ g.waiting = f.waiting /\ g.running = f.running /\ g.prefilling = f.prefilling
        /\ g.queued = f.queued
    BY <1>2 DEF SameTurns
  <1>4. /\ Members(g, {}) = Members(f, {})
        /\ \A a, b : Sooner(g, a, b) <=> Sooner(f, a, b)
    BY <1>3, SameLine
  <1>5. Left(e, g, out)
    BY <1>2, <1>3, <1>4 DEF Left, SoonerKept
  <1> QED BY <1>2, <1>5 DEF g

(* Turns leave an engine n whose turns stand as in e.                      *)
LEMMA LeftGoes ==
  ASSUME NEW e, NEW o, Sound(e, o), NEW n, SamePlaces(e, n), NEW f, NEW p, NEW out,
         Left(n, f, out), RetiredQueued(f), Context(f, {}), f.waiting = e.waiting,
         \A r \in Request \ Members(e, {}) : f.new[r] = e.new[r], Ends(o, p, out, Harmless)
  PROVE  Goes(e, o, f, p)
  <1>1. n.waiting = e.waiting /\ n.running = e.running /\ n.prefilling = e.prefilling
    BY DEF SamePlaces
  <1>2. Members(n, {}) = Members(e, {}) /\ \A a, b : Sooner(n, a, b) <=> Sooner(e, a, b)
    BY <1>1, SameLine
  <1>3. EngineOK(f, {}) /\ Members(f, {}) = Members(e, {}) \ out /\ SoonerKept(e, f)
    BY <1>2 DEF Left, SoonerKept
  <1>4. Harmless \in SUBSET Ended
    BY DEF Harmless
  <1>5. Sound(f, p) /\ Members(f, {}) \subseteq Members(e, {})
    BY <1>3, <1>4, SoundAfter
  <1>6. RefusedBig(e, o, p)
    BY HarmlessRefusesNobody
  <1>7. LoneStays(e, f)
    <2>1. Range(e.running) \cap Range(e.waiting) = {}
      BY SoundParts DEF Places
    <2> QED BY <2>1 DEF LoneStays
  <1> QED BY <1>3, <1>5, <1>6, <1>7 DEF Goes

LEMMA AcceptGoes ==
  ASSUME NEW e, NEW o, Sound(e, o), NEW n, EngineOK(n, {}), SamePlaces(e, n),
         NEW rs \in SUBSET Range(e.running), Context(n, rs),
         NEW stops \in SUBSET rs, NEW fails \in SUBSET stops, MustStop(n, rs) \subseteq stops
  PROVE  /\ Goes(e, o, ReleaseRetired(Accept(n, rs, stops)), AcceptOutcome(o, rs, stops, fails))
         /\ RetiredQueued(n) => Goes(e, o, Accept(n, rs, stops), AcceptOutcome(o, rs, stops, fails))
  <1> DEFINE f == Accept(n, rs, stops)
             g == ReleaseRetired(f)
             p == AcceptOutcome(o, rs, stops, fails)
             leaving == rs \cap (stops \cup gone)
  <1>1. /\ n.waiting = e.waiting /\ n.running = e.running /\ n.prefilling = e.prefilling /\ n.new = e.new
    BY DEF SamePlaces
  <1>2. rs \in SUBSET Range(n.running)
    BY <1>1
  <1>3. /\ Left(n, f, leaving) /\ Context(f, {}) /\ f.waiting = n.waiting
        /\ \A r \in Request \ rs : f.new[r] = n.new[r]
    BY <1>2, AcceptOK
  <1>4. o \in [Request -> Outcomes]
    BY SoundParts
  <1>5. Ends(o, p, leaving, Harmless)
    BY <1>4, AcceptEnds
  <1> HIDE DEF f, p, leaving
  <1>6. /\ Left(n, g, leaving) /\ RetiredQueued(g) /\ SameTurns(f, g)
        /\ \A ahead : Context(f, ahead) => Context(g, ahead)
    BY <1>3, LeftRetired
  <1> HIDE DEF g
  <1>7. g.waiting = e.waiting /\ g.new = f.new /\ f.waiting = e.waiting /\ Context(g, {})
    BY <1>1, <1>3, <1>6 DEF SameTurns
  <1>8. rs \subseteq Members(e, {})
    BY DEF Members, Active
  <1>9. \A r \in Request \ Members(e, {}) : f.new[r] = e.new[r] /\ g.new[r] = e.new[r]
    BY <1>1, <1>3, <1>7, <1>8
  <1>10. Goes(e, o, g, p)
    BY <1>5, <1>6, <1>7, <1>9, LeftGoes
  <1>11. RetiredQueued(n) => Goes(e, o, f, p)
    <2> SUFFICES ASSUME RetiredQueued(n) PROVE Goes(e, o, f, p)
      OBVIOUS
    <2>1. RetiredQueued(f)
      BY <1>3 DEF Left
    <2> QED BY <1>3, <1>5, <1>7, <1>9, <2>1, LeftGoes
  <1> QED BY <1>10, <1>11 DEF f, g, p

(* Running turns that fail, or go because they were told to.               *)
Freed(n, run, rs) == Release([n EXCEPT !.running = run], rs)

LEMMA RunningLeave ==
  ASSUME NEW n, EngineOK(n, {}), NEW rs \in SUBSET Range(n.running),
         NEW run, Thinned(n.running, run, rs)
  PROVE  LET f == Freed(n, run, rs)
         IN  /\ Left(n, f, rs) /\ f.new = n.new /\ f.waiting = n.waiting /\ f.prefilling = n.prefilling
             /\ f.running = run /\ \A ahead : Context(n, ahead) => Context(f, ahead)
  <1> DEFINE h == [n EXCEPT !.running = run]
             f == Release(h, rs)
  <1>1. EngineTyped(n) /\ Places(n, {})
    BY DEF EngineOK
  <1>2. /\ n = [waiting |-> n.waiting, running |-> n.running, prefilling |-> n.prefilling,
                id |-> n.id, new |-> n.new, queued |-> n.queued, retired |-> n.retired,
                slots |-> n.slots, chunked |-> n.chunked]
        /\ n.waiting \in Seq(Request)
    BY <1>1, FieldTypes
  <1>3. h = [waiting |-> n.waiting, running |-> run, prefilling |-> n.prefilling,
             id |-> n.id, new |-> n.new, queued |-> n.queued, retired |-> n.retired,
             slots |-> n.slots, chunked |-> n.chunked]
    BY <1>2
  <1> HIDE DEF h
  <1>4. EngineTyped(h)
    <2>1. run \in Seq(Request)
      BY DEF Thinned
    <2> QED BY <1>1, <1>3, <2>1, FieldTypes DEF EngineTyped
  <1>5. /\ Moved(n, h) /\ h.waiting = n.waiting /\ h.running = run /\ h.prefilling = n.prefilling
        /\ Pre(h) = Pre(n)
    BY <1>3 DEF Moved, Pre
  <1>6. /\ Pre(h) = Pre(n) \ rs /\ Thinned(n.running, h.running, rs) /\ Thinned(n.waiting, h.waiting, rs)
    <2>1. Pre(n) \cap rs = {} /\ Range(n.waiting) \cap rs = {} /\ Once(n.waiting)
      BY <1>1 DEF Places
    <2>2. Thinned(n.waiting, n.waiting, rs)
      BY <1>2, <2>1, ThinIs
    <2> QED BY <1>5, <2>1, <2>2
  <1>7. rs \cap Active(n, {}) \subseteq rs /\ rs \subseteq rs \cap Members(n, {})
    BY DEF Members, Active
  <1>8. /\ Left(n, f, rs) /\ f.new = n.new /\ SameTurns(h, f)
        /\ \A ahead : Context(n, ahead) => Context(f, ahead)
    <2>1. Moved(n, h) /\ EngineOK(n, {})
      BY <1>5
    <2> QED BY ONLY <1>4, <1>6, <1>7, <2>1, LeaveRelease
  <1> HIDE DEF f
  <1>9. f.waiting = n.waiting /\ f.prefilling = n.prefilling /\ f.running = run
    BY <1>5, <1>8 DEF SameTurns
  <1> QED BY <1>8, <1>9 DEF f, h, Freed

LEMMA FailGoes ==
  ASSUME NEW e, NEW o, Sound(e, o), NEW n, EngineOK(n, {}), SamePlaces(e, n),
         NEW rs \in SUBSET Range(e.running), NEW run, Thinned(n.running, run, rs),
         NEW f, NEW g, f = Freed(n, run, rs), g = ReleaseRetired(f),
         Context(f, {})
  PROVE  /\ Goes(e, o, g, End(o, rs, "failed"))
         /\ RetiredQueued(n) => Goes(e, o, f, End(o, rs, "failed"))
  <1> DEFINE p == End(o, rs, "failed")
  <1>1. /\ n.waiting = e.waiting /\ n.running = e.running /\ n.prefilling = e.prefilling /\ n.new = e.new
    BY DEF SamePlaces
  <1>2. rs \in SUBSET Range(n.running)
    BY <1>1
  <1>3. Left(n, f, rs) /\ f.new = n.new /\ f.waiting = n.waiting
    BY <1>2, RunningLeave
  <1>4. Ends(o, p, rs, Harmless)
    <2>1. "failed" \in Harmless /\ o \in [Request -> Outcomes]
      BY SoundParts DEF Harmless, Ended
    <2> QED BY <2>1, FailEnds
  <1> HIDE DEF p
  <1>5. /\ Left(n, g, rs) /\ RetiredQueued(g) /\ SameTurns(f, g)
        /\ \A ahead : Context(f, ahead) => Context(g, ahead)
    BY <1>3, LeftRetired
  <1>6. /\ g.waiting = e.waiting /\ f.waiting = e.waiting /\ Context(g, {})
        /\ \A r \in Request \ Members(e, {}) : f.new[r] = e.new[r] /\ g.new[r] = e.new[r]
    BY <1>1, <1>3, <1>5 DEF SameTurns
  <1>7. Goes(e, o, g, p)
    BY <1>4, <1>5, <1>6, LeftGoes
  <1>8. RetiredQueued(n) => Goes(e, o, f, p)
    <2> SUFFICES ASSUME RetiredQueued(n) PROVE Goes(e, o, f, p)
      OBVIOUS
    <2>1. RetiredQueued(f)
      BY <1>3 DEF Left
    <2> QED BY <1>3, <1>4, <1>6, <2>1, LeftGoes
  <1> QED BY <1>7, <1>8 DEF p

LEMMA SameGoes ==
  ASSUME NEW e, NEW o, Sound(e, o), NEW n, EngineOK(n, {}), SamePlaces(e, n), Context(n, {})
  PROVE  Goes(e, o, ReleaseRetired(n), o)
  <1> DEFINE g == ReleaseRetired(n)
  <1>1. /\ n.waiting = e.waiting /\ n.running = e.running /\ n.prefilling = e.prefilling /\ n.new = e.new
    BY DEF SamePlaces
  <1>2. Left(n, n, {})
    BY DEF Left, SoonerKept
  <1>3. /\ Left(n, g, {}) /\ RetiredQueued(g) /\ SameTurns(n, g)
        /\ \A ahead : Context(n, ahead) => Context(g, ahead)
    BY <1>2, LeftRetired
  <1>4. Ends(o, o, {}, Harmless)
    BY SoundParts, EndsNone
  <1> HIDE DEF g
  <1>5. g.waiting = e.waiting /\ Context(g, {}) /\ \A r \in Request \ Members(e, {}) : g.new[r] = e.new[r]
    BY <1>1, <1>3 DEF SameTurns
  <1>6. Goes(e, o, g, o)
    BY <1>3, <1>4, <1>5, LeftGoes
  <1> QED BY <1>6 DEF g

(* The running turns that were cancelled or expired leave.                 *)
LEMMA FilterGoes ==
  ASSUME NEW e, Sound(e, outcome)
  PROVE  LET f == Filtered(e)
         IN  /\ Goes(e, outcome, f, FilteredOutcome(e))
             /\ f.waiting = e.waiting /\ f.prefilling = e.prefilling /\ f.new = e.new
             /\ Range(f.running) \subseteq Range(e.running)
             /\ Ends(outcome, FilteredOutcome(e), Range(e.running) \cap (cancel \cup expired), Harmless)
  <1> DEFINE left == Range(e.running) \cap (cancel \cup expired)
             run == Without(e.running, left)
             f == Filtered(e)
             p == FilteredOutcome(e)
  <1>1. /\ EngineOK(e, {}) /\ RetiredQueued(e) /\ Context(e, {}) /\ outcome \in [Request -> Outcomes]
        /\ EngineTyped(e) /\ Places(e, {})
    BY SoundParts
  <1>2. f = Freed(e, run, left)
    BY DEF Filtered, Freed
  <1>3. left \in SUBSET Range(e.running) /\ left \cap (cancel \cup expired) = left
    OBVIOUS
  <1>4. p = End(End(outcome, left \cap expired, "deadline"), left \cap cancel, "dropped")
    BY DEF FilteredOutcome
  <1> HIDE DEF left, f, p
  <1>5. Thinned(e.running, run, left)
    <2>1. e.running \in Seq(Request) /\ Once(e.running)
      BY <1>1, FieldTypes DEF Places
    <2> QED BY <2>1, ThinIs
  <1> HIDE DEF run
  <1>6. /\ Left(e, f, left) /\ f.new = e.new /\ f.waiting = e.waiting /\ f.prefilling = e.prefilling
        /\ \A ahead : Context(e, ahead) => Context(f, ahead)
    BY <1>1, <1>2, <1>3, <1>5, RunningLeave
  <1>7. Ends(outcome, p, left, Harmless)
    BY <1>1, <1>3, <1>4, LeftOutcome
  <1>8. Goes(e, outcome, f, p)
    <2>1. SamePlaces(e, e)
      BY DEF SamePlaces
    <2>2. RetiredQueued(f) /\ Context(f, {}) /\ \A r \in Request \ Members(e, {}) : f.new[r] = e.new[r]
      BY <1>1, <1>6 DEF Left
    <2> QED BY <1>6, <1>7, <2>1, <2>2, LeftGoes
  <1>9. Range(f.running) \subseteq Range(e.running)
    BY <1>6 DEF Left
  <1> QED BY <1>6, <1>7, <1>8, <1>9 DEF f, p, left

\* The running turns of the queued step.
Reading(e) == {r \in Range(e.running) : e.id[r] \in e.queued}

(* A queued step whose turns have all gone, or that is read back.          *)
LEMMA UnqueueOK ==
  ASSUME NEW e, NEW o, Sound(e, o)
  PROVE  LET n == [e EXCEPT !.queued = {}]
         IN  EngineOK(n, {}) /\ SamePlaces(e, n) /\ n.queued = {} /\ n.slots = e.slots /\ Context(n, Reading(e))
  <1>1. EngineOK(e, {}) /\ Context(e, {})
    BY SoundParts
  <1>2. \A r \in Range(e.running) : r \in Reading(e) <=> e.id[r] \in e.queued
    BY DEF Reading
  <1> QED BY <1>1, <1>2, QueueOK

(* A step is queued behind the one that is read back.                      *)
LEMMA NextStepOK ==
  ASSUME NEW e, NEW o, Sound(e, o), StepCost(e, Rows(e)) <= FreeBlocks(e)
  PROVE  LET n == [Extend(e, Rows(e)) EXCEPT !.queued = Rows(e)]
         IN  EngineOK(n, {}) /\ SamePlaces(e, n) /\ Context(n, Reading(e))
  <1> DEFINE rs == Reading(e)
             d == Extend(e, Rows(e))
             n == [d EXCEPT !.queued = Rows(e)]
  <1>1. EngineOK(e, {}) /\ Context(e, {})
    BY SoundParts
  <1>2. /\ EngineOK(d, {}) /\ SamePlaces(e, d) /\ d.queued = e.queued
        /\ Context(d, Range(e.running)) /\ Rows(d) = Rows(e)
    BY <1>1, ExtendOK
  <1> HIDE DEF d
  <1>3. d.running = e.running /\ d.id = e.id
    BY <1>2 DEF SamePlaces
  <1>4. /\ Rows(e) = Rows(d) /\ Range(e.running) = Range(d.running) /\ Context(d, Range(d.running))
        /\ \A r \in Range(d.running) : r \in rs <=> d.id[r] \in d.queued
    BY <1>2, <1>3 DEF Reading
  <1> HIDE DEF rs
  <1>5. EngineOK(n, {}) /\ SamePlaces(d, n) /\ Context(n, rs)
    <2> DEFINE Q == Rows(e)
               ahead == Range(d.running)
    <2>1. Q = Rows(d) /\ Context(d, ahead) /\ ahead = Range(d.running)
      BY <1>4
    <2> HIDE DEF Q, ahead
    <2>2. LET m == [d EXCEPT !.queued = Q]
          IN  EngineOK(m, {}) /\ SamePlaces(d, m) /\ Context(m, rs)
      BY <1>2, <1>4, <2>1, QueueOK
    <2> QED BY <2>2 DEF Q
  <1>6. SamePlaces(e, n)
    BY <1>2, <1>5 DEF SamePlaces
  <1> QED BY <1>5, <1>6 DEF d, rs

(* A lone turn without room for its next token has the whole pool.         *)
LEMMA OutgrewBig ==
  ASSUME NEW e, EngineOK(e, {}), RetiredQueued(e), Context(e, {}), e.queued = {}, e.running # <<>>,
         ~ (StepCost(e, Rows(e)) <= FreeBlocks(e)), NEW r \in Outgrown(e)
  PROVE  DivCeil(PromptTokens[r] + e.new[r]) > NumBlocks
  <1> DEFINE i == e.id[r]
             n == e.slots[i]
             full == FullRows(e.slots, Rows(e))
  <1>1. EngineTyped(e) /\ Places(e, {}) /\ Owned(e, {}) /\ Fits(e)
    BY DEF EngineOK
  <1>2. e.slots \in Slots /\ e.running \in Seq(Request) /\ e.new \in [Request -> Nat]
    BY <1>1, FieldTypes
  <1>3. e.prefilling = None /\ Len(e.running) = 1 /\ r = Last(e.running)
    BY DEF Outgrown
  <1>4. Range(e.running) = {r} /\ r \in Request
    <2>1. Once(e.running)
      BY <1>1 DEF Places
    <2>2. /\ Last(e.running) \in Request /\ Last(e.running) \in Range(e.running)
          /\ Thinned(e.running, Front(e.running), {Last(e.running)}) /\ Front(e.running) = <<>>
      BY <1>2, <1>3, <2>1, ThinEnds
    <2>3. <<>> \in Seq(Request) /\ Once(<<>>)
      BY <2>2 DEF Thinned
    <2>4. Range(<<>>) = {}
      <3>1. <<>> \in Seq(Request) /\ Len(<<>>) = 0
        BY EmptySeq
      <3>2. \A b : b \in Range(<<>>) <=> \E k \in 1 .. 0 : <<>>[k] = b
        BY ONLY <3>1, RangeIs
      <3> QED BY <3>2
    <2> QED BY <1>3, <2>2, <2>4 DEF Thinned
  <1>5. e.retired = {}
    BY DEF RetiredQueued
  <1>6. i \in DOMAIN e.slots /\ DOMAIN e.slots = {i}
    <2>1. i \in DOMAIN e.slots
      BY <1>4 DEF Context
    <2>2. \A j \in DOMAIN e.slots : j = i
      BY <1>1, <1>3, <1>4, <1>5 DEF Owned, Active, Pre
    <2> QED BY <2>1, <2>2
  <1>7. n + 1 = PromptTokens[r] + e.new[r] /\ n \in Nat
    <2>1. n = PromptTokens[r] + e.new[r] + 0 - 1
      BY <1>4 DEF Context
    <2>2. PromptTokens[r] \in Nat /\ e.new[r] \in Nat /\ n \in Nat
      BY <1>2, <1>4, <1>6, EngineAssumption, SlotsAre
    <2> QED BY ONLY <2>1, <2>2
  <1>8. Taken(e.slots) = DivCeil(n)
    BY <1>2, <1>6, TakenAtLeast
  <1>9. /\ DivCeil(n) \in Nat
        /\ DivCeil(n + 1) = DivCeil(n) + (IF n % BlockTokens = 0 THEN 1 ELSE 0)
    BY <1>7, DivCeilFacts
  <1>10. NumBlocks - DivCeil(n) \in Nat /\ FreeBlocks(e) = NumBlocks - DivCeil(n)
    BY <1>1, <1>8, FreeIs DEF Fits
  <1>11. StepCost(e, Rows(e)) = Cardinality(full)
    BY DEF StepCost, FullRows
  <1>12. Rows(e) = {i}
    BY <1>4 DEF Rows
  <1>13. n % BlockTokens = 0 /\ Cardinality(full) = 1
    <2>1. CASE n % BlockTokens = 0
      <3>1. full = {i}
        BY <1>12, <2>1 DEF FullRows
      <3> QED BY <2>1, <3>1, FS_Singleton
    <2>2. CASE n % BlockTokens # 0
      <3>1. full = {}
        BY <1>12, <2>2 DEF FullRows
      <3>2. Cardinality(full) = 0
        BY <3>1, FS_EmptySet
      <3>3. 0 <= NumBlocks - DivCeil(n)
        BY <1>10
      <3> QED BY <1>10, <1>11, <3>2, <3>3
    <2> QED BY <2>1, <2>2
  <1>14. ~ (1 <= NumBlocks - DivCeil(n))
    BY <1>10, <1>11, <1>13
  <1>15. NumBlocks \in Nat
    BY EngineAssumption
  <1>16. DivCeil(n + 1) = DivCeil(n) + 1
    BY <1>9, <1>13
  <1> HIDE DEF n, i, full
  <1>17. DivCeil(n + 1) > NumBlocks
    BY ONLY <1>9, <1>10, <1>14, <1>15, <1>16
  <1> QED BY <1>7, <1>17

LEMMA PreemptGoes ==
  ASSUME NEW e, NEW o, Sound(e, o), e.queued = {}, e.running # <<>>,
         ~ (StepCost(e, Rows(e)) <= FreeBlocks(e))
  PROVE  /\ Goes(e, o, Preempt(e), PreemptOutcome(e, o))
         /\ Goes(e, o, ReleaseRetired(Preempt(e)), PreemptOutcome(e, o))
  <1> DEFINE f == Preempt(e)
             g == ReleaseRetired(f)
             p == PreemptOutcome(e, o)
             out == Outgrown(e)
  <1>1. EngineOK(e, {}) /\ RetiredQueued(e) /\ Context(e, {}) /\ o \in [Request -> Outcomes]
    BY SoundParts
  <1>2. /\ EngineOK(f, {}) /\ RetiredQueued(f) /\ Members(f, {}) = Members(e, {}) \ out
        /\ SoonerKept(e, f) /\ f.new = e.new /\ LoneStays(e, f) /\ Context(f, {})
    BY <1>1, PreemptOK DEF Preempted
  <1>3. p = IF out = {} THEN o ELSE End(o, out, "outgrew")
    BY DEF PreemptOutcome, Outgrown
  <1>4. "outgrew" \in Ended /\ {"outgrew", "dropped"} \in SUBSET Ended
    BY DEF Ended
  <1>5. Ends(o, p, out, {"outgrew", "dropped"}) /\ \A r \in Request : p[r] = o[r] \/ r \in out
    <2>1. CASE out = {}
      BY <1>1, <1>3, <2>1, EndsNone
    <2>2. CASE out # {}
      <3>1. p = End(o, out, "outgrew")
        BY <1>3, <2>2
      <3>2. \A r \in Request : End(o, out, "outgrew")[r] = o[r] \/ r \in out
        BY DEF End
      <3> QED BY <1>1, <1>4, <3>1, <3>2, EndIs
    <2> QED BY <2>1, <2>2
  <1>6. RefusedBig(e, o, p)
    <2>1. \A r \in out : DivCeil(PromptTokens[r] + e.new[r]) > NumBlocks
      BY <1>1, OutgrewBig
    <2>2. \A r \in Request : p[r] = o[r] \/ p[r] \in {"outgrew", "dropped"}
      BY <1>5 DEF Ends
    <2> QED BY <1>5, <2>1, <2>2 DEF RefusedBig
  <1> HIDE DEF f, p, out
  <1>7. /\ EngineOK(g, {}) /\ RetiredQueued(g) /\ SameTurns(f, g)
        /\ \A ahead : Context(f, ahead) => Context(g, ahead)
    BY <1>2, ReleaseRetiredOK
  <1> HIDE DEF g
  <1>8. /\ g.waiting = f.waiting /\ g.running = f.running /\ g.prefilling = f.prefilling /\ g.new = e.new
        /\ Context(g, {})
    BY <1>2, <1>7 DEF SameTurns
  <1>9. Members(g, {}) = Members(f, {}) /\ \A a, b : Sooner(g, a, b) <=> Sooner(f, a, b)
    BY <1>8, SameLine
  <1>10. SoonerKept(e, g) /\ LoneStays(e, g) /\ Members(g, {}) = Members(e, {}) \ out
    BY <1>2, <1>8, <1>9 DEF SoonerKept, LoneStays
  <1>11. Sound(f, p) /\ Members(f, {}) \subseteq Members(e, {})
    <2>1. \A r \in Request \ Members(e, {}) : f.new[r] = e.new[r]
      BY <1>2
    <2> QED BY <1>2, <1>4, <1>5, <2>1, SoundAfter
  <1>12. Sound(g, p) /\ Members(g, {}) \subseteq Members(e, {})
    <2>1. \A r \in Request \ Members(e, {}) : g.new[r] = e.new[r]
      BY <1>8
    <2> QED BY <1>4, <1>5, <1>7, <1>8, <1>10, <2>1, SoundAfter
  <1>13. Goes(e, o, f, p) /\ Goes(e, o, g, p)
    BY <1>2, <1>6, <1>10, <1>11, <1>12 DEF Goes
  <1> QED BY <1>13 DEF f, g, p

LEMMA SettleGoes ==
  ASSUME NEW e, NEW o, Sound(e, o), NEW n, EngineOK(n, {}), SamePlaces(e, n), Context(n, Reading(e)),
         Settle(n, o, e.queued)
  PROVE  Goes(e, o, engine', outcome')
  <1> DEFINE rs == Reading(e)
             run == Without(n.running, rs)
             f == Freed(n, run, rs)
  <1>1. n.running = e.running /\ n.id = e.id
    BY DEF SamePlaces
  <1>2. rs = {r \in Range(n.running) : n.id[r] \in e.queued} /\ rs \in SUBSET Range(e.running)
    BY <1>1 DEF Reading
  <1> HIDE DEF rs
  <1>3. ASSUME NEW v \in Verdicts(n, rs), engine' = ReleaseRetired(Accept(n, rs, v.stops)),
               outcome' = AcceptOutcome(o, rs, v.stops, v.fails)
        PROVE  Goes(e, o, engine', outcome')
    <2>1. v.stops \in SUBSET rs /\ v.fails \in SUBSET v.stops /\ MustStop(n, rs) \subseteq v.stops
      BY <1>3 DEF Verdicts
    <2>2. Context(n, rs)
      BY DEF rs
    <2> QED BY <1>2, <1>3, <2>1, <2>2, AcceptGoes
  <1>4. ASSUME engine' = ReleaseRetired(f), outcome' = End(o, rs, "failed")
        PROVE  Goes(e, o, engine', outcome')
    <2>1. Thinned(n.running, run, rs)
      <3>1. n.running \in Seq(Request) /\ Once(n.running)
        BY FieldTypes DEF EngineOK, Places
      <3> QED BY <3>1, ThinIs
    <2>2. rs \in SUBSET Range(n.running)
      BY <1>1, <1>2
    <2> HIDE DEF run
    <2>3. f.running = run /\ \A ahead : Context(n, ahead) => Context(f, ahead)
      BY <2>1, <2>2, RunningLeave
    <2> HIDE DEF f
    <2>4. Context(f, {})
      <3>1. Context(f, rs)
        BY <2>3 DEF rs
      <3>2. \A r \in Range(f.running) : r \notin rs
        BY <2>1, <2>3 DEF Thinned
      <3> QED BY <3>1, <3>2 DEF Context
    <2>5. f = Freed(n, run, rs)
      BY DEF f
    <2> QED BY <1>2, <1>4, <2>1, <2>4, <2>5, FailGoes
  <1>5. f = Release([n EXCEPT !.running = Without(@, rs)], rs)
    BY DEF Freed
  <1>6. \/ \E v \in Verdicts(n, rs) :
             /\ engine' = ReleaseRetired(Accept(n, rs, v.stops))
             /\ outcome' = AcceptOutcome(o, rs, v.stops, v.fails)
        \/ engine' = ReleaseRetired(f) /\ outcome' = End(o, rs, "failed")
    BY <1>2, <1>5 DEF Settle
  <1> QED BY <1>3, <1>4, <1>6

LEMMA FailAllGoes ==
  ASSUME NEW e, NEW o, Sound(e, o), NEW n, EngineOK(n, {}), SamePlaces(e, n), RetiredQueued(n), FailAll(n, o)
  PROVE  Goes(e, o, engine', outcome')
  <1> DEFINE rs == Range(n.running)
             run == <<>>
             f == Freed(n, run, rs)
  <1>1. rs \in SUBSET Range(e.running) /\ rs \in SUBSET Range(n.running)
    BY DEF SamePlaces
  <1>2. Thinned(n.running, run, rs)
    <2>1. n.running \in Seq(Request) /\ Once(n.running)
      BY FieldTypes DEF EngineOK, Places
    <2> QED BY <2>1, ThinIs
  <1>3. engine' = f /\ outcome' = End(o, rs, "failed")
    BY DEF FailAll, Freed
  <1>4. Range(run) = {}
    BY <1>2 DEF Thinned
  <1> HIDE DEF rs, run
  <1>5. f.running = run
    BY <1>1, <1>2, RunningLeave
  <1> HIDE DEF f
  <1>6. Context(f, {})
    BY <1>4, <1>5 DEF Context
  <1>7. f = Freed(n, run, rs)
    BY DEF f
  <1> QED BY <1>1, <1>2, <1>3, <1>6, <1>7, FailGoes

LEMMA DecodeGoes ==
  ASSUME NEW e, NEW o, Sound(e, o), DecodeRunning(e, o)
  PROVE  Goes(e, o, engine', outcome')
  <1> DEFINE previous == e.queued
             rows == Rows(e)
             room == StepCost(e, rows) <= FreeBlocks(e)
             un == [e EXCEPT !.queued = {}]
             next == [Extend(e, rows) EXCEPT !.queued = rows]
  <1>1. EngineOK(e, {}) /\ RetiredQueued(e) /\ Context(e, {}) /\ EngineTyped(e)
    BY SoundParts
  <1>2. EngineOK(un, {}) /\ SamePlaces(e, un) /\ un.queued = {} /\ Context(un, Reading(e))
    BY UnqueueOK
  <1>3. room => EngineOK(next, {}) /\ SamePlaces(e, next) /\ Context(next, Reading(e))
    BY NextStepOK
  <1>4. SamePlaces(e, e)
    BY DEF SamePlaces
  <1>5. previous = {} => un = e /\ Reading(e) = {}
    <2>1. /\ e = [waiting |-> e.waiting, running |-> e.running, prefilling |-> e.prefilling,
                  id |-> e.id, new |-> e.new, queued |-> e.queued, retired |-> e.retired,
                  slots |-> e.slots, chunked |-> e.chunked]
      BY <1>1, FieldTypes
    <2> QED BY <2>1 DEF Reading
  <1> HIDE DEF un, next
  <1>6. ASSUME e.running = <<>>, engine' = ReleaseRetired(un), outcome' = o
        PROVE  Goes(e, o, engine', outcome')
    <2>1. Reading(e) = {}
      <3>1. Range(<<>>) = {}
        <4>1. <<>> \in Seq(Request) /\ Len(<<>>) = 0
          BY EmptySeq
        <4>2. \A b : b \in Range(<<>>) <=> \E k \in 1 .. 0 : <<>>[k] = b
          BY ONLY <4>1, RangeIs
        <4> QED BY <4>2
      <3> QED BY <1>6, <3>1 DEF Reading
    <2> QED BY <1>2, <1>6, <2>1, SameGoes
  <1>7. ASSUME DecodePipelined(e, o), e.running # <<>> PROVE Goes(e, o, engine', outcome')
    <2> DEFINE n == IF room THEN next ELSE un
    <2>1. EngineOK(n, {}) /\ SamePlaces(e, n) /\ Context(n, Reading(e))
      BY <1>2, <1>3
    <2>2. \/ Settle(n, o, e.queued)
          \/ previous = {} /\ room /\ engine' = ReleaseRetired(next) /\ outcome' = o
          \/ previous = {} /\ ~room /\ engine' = ReleaseRetired(Preempt(un)) /\ outcome' = PreemptOutcome(un, o)
          \/ FailAll(ReleaseRetired(un), o)
      BY <1>7 DEF DecodePipelined, un, next
    <2>3. CASE Settle(n, o, e.queued)
      <3> HIDE DEF n
      <3> QED BY <2>1, <2>3, SettleGoes
    <2>4. CASE previous = {} /\ room /\ engine' = ReleaseRetired(next) /\ outcome' = o
      BY <1>3, <1>5, <2>4, SameGoes
    <2>5. CASE previous = {} /\ ~room /\ engine' = ReleaseRetired(Preempt(un)) /\ outcome' = PreemptOutcome(un, o)
      BY <1>5, <1>7, <2>5, PreemptGoes
    <2>6. CASE FailAll(ReleaseRetired(un), o)
      <3> DEFINE d == ReleaseRetired(un)
      <3>1. EngineOK(d, {}) /\ RetiredQueued(d) /\ SameTurns(un, d)
        BY <1>2, ReleaseRetiredOK
      <3> HIDE DEF d
      <3>2. /\ d.waiting = e.waiting /\ d.running = e.running /\ d.prefilling = e.prefilling
            /\ d.new = e.new /\ d.id = e.id
        BY <1>2, <3>1 DEF SameTurns, SamePlaces
      <3>3. SamePlaces(e, d)
        BY <3>2 DEF SamePlaces
      <3>4. FailAll(d, o)
        BY <2>6 DEF d
      <3> QED BY <3>1, <3>3, <3>4, FailAllGoes
    <2> QED BY <2>2, <2>3, <2>4, <2>5, <2>6
  <1>8. ASSUME previous # {}, Settle(un, o, e.queued) PROVE Goes(e, o, engine', outcome')
    BY <1>2, <1>8, SettleGoes
  <1>9. ASSUME DecodeNow(e, o), e.running # <<>>, previous = {} PROVE Goes(e, o, engine', outcome')
    <2> DEFINE d == Extend(e, rows)
               rs == Range(e.running)
    <2>1. room => EngineOK(d, {}) /\ SamePlaces(e, d) /\ d.queued = e.queued /\ Context(d, rs)
      BY <1>1, ExtendOK
    <2>2. \/ room /\ \E v \in Verdicts(e, rs) :
               /\ engine' = Accept(d, rs, v.stops) /\ outcome' = AcceptOutcome(o, rs, v.stops, v.fails)
          \/ ~room /\ engine' = Preempt(e) /\ outcome' = PreemptOutcome(e, o)
          \/ FailAll(e, o)
      BY <1>9 DEF DecodeNow
    <2> HIDE DEF d, rs
    <2>3. ASSUME room, NEW v \in Verdicts(e, rs), engine' = Accept(d, rs, v.stops),
                 outcome' = AcceptOutcome(o, rs, v.stops, v.fails)
          PROVE  Goes(e, o, engine', outcome')
      <3>1. v.stops \in SUBSET rs /\ v.fails \in SUBSET v.stops /\ MustStop(e, rs) \subseteq v.stops
        BY <2>3 DEF Verdicts
      <3>2. MustStop(d, rs) = MustStop(e, rs)
        BY <2>1, <2>3 DEF MustStop, SamePlaces
      <3>3. rs \in SUBSET Range(e.running)
        BY DEF rs
      <3>4. RetiredQueued(d)
        BY <1>1, <2>1, <2>3 DEF RetiredQueued, d, Extend
      <3> QED BY <2>1, <2>3, <3>1, <3>2, <3>3, <3>4, AcceptGoes
    <2>4. CASE ~room /\ engine' = Preempt(e) /\ outcome' = PreemptOutcome(e, o)
      BY <1>9, <2>4, PreemptGoes
    <2>5. CASE FailAll(e, o)
      BY <1>1, <1>4, <2>5, FailAllGoes
    <2> QED BY <2>2, <2>3, <2>4, <2>5
  <1>10. \/ e.running = <<>> /\ engine' = ReleaseRetired(un) /\ outcome' = o
         \/ e.running # <<>> /\ DecodePipelined(e, o)
         \/ previous # {} /\ Settle(un, o, e.queued)
         \/ e.running # <<>> /\ previous = {} /\ DecodeNow(e, o)
    BY DEF DecodeRunning, un
  <1> QED BY <1>6, <1>7, <1>8, <1>9, <1>10

LEMMA SoonerTwice ==
  ASSUME NEW e, NEW f, NEW g, SoonerKept(e, f), SoonerKept(f, g), Members(g, {}) \subseteq Members(f, {})
  PROVE  SoonerKept(e, g)
  BY DEF SoonerKept

(* A step after turns left for other reasons than a lack of blocks.        *)
LEMMA GoesTwice ==
  ASSUME NEW e, NEW o, NEW f, NEW p, NEW g, NEW q, NEW rs, Goes(e, o, f, p), Goes(f, p, g, q),
         f.new = e.new, Ends(o, p, rs, Harmless), LoneStays(e, g)
  PROVE  Goes(e, o, g, q)
  <1>1. /\ Sound(g, q) /\ SoonerKept(e, f) /\ SoonerKept(f, g) /\ Members(g, {}) \subseteq Members(f, {})
        /\ Members(f, {}) \subseteq Members(e, {}) /\ RefusedBig(f, p, q)
    BY DEF Goes
  <1>2. SoonerKept(e, g) /\ Members(g, {}) \subseteq Members(e, {})
    BY <1>1, SoonerTwice
  <1>3. RefusedBig(e, o, q)
    <2>1. \A r \in Request : PrefillTokens(f, r) = PrefillTokens(e, r) /\ f.new[r] = e.new[r]
      BY DEF PrefillTokens
    <2>2. \A r \in Request : p[r] = o[r] \/ (p[r] # "nofit" /\ p[r] # "outgrew")
      BY DEF Ends, Harmless
    <2> QED BY <1>1, <2>1, <2>2 DEF RefusedBig
  <1> QED BY <1>1, <1>2, <1>3 DEF Goes

----------------------------------------------------------------------------
(* Admission.                                                              *)

(* The next prompt to prefill comes from the head of the queue.            *)
LEMMA PrefillNext ==
  ASSUME NEW e, NEW o, Sound(e, o), e.prefilling # None \/ e.waiting # <<>>
  PROVE  LET f == WithPrefilling(e)
         IN  /\ Goes(e, o, f, o) /\ f.prefilling \in Request /\ Pre(f) = {f.prefilling}
             /\ f.running = e.running /\ f.new = e.new /\ f.queued = e.queued
             /\ FreeBlocks(f) = FreeBlocks(e)
  <1>1. /\ EngineOK(e, {}) /\ RetiredQueued(e) /\ Context(e, {}) /\ EngineTyped(e) /\ Places(e, {})
        /\ Owned(e, {}) /\ o \in [Request -> Outcomes]
    BY SoundParts
  <1>2. CASE e.prefilling # None
    <2>1. WithPrefilling(e) = e
      BY <1>2 DEF WithPrefilling
    <2>2. e.prefilling \in Request /\ Pre(e) = {e.prefilling}
      BY <1>1, <1>2, FieldTypes DEF Pre
    <2>3. SoonerKept(e, e) /\ RefusedBig(e, o, o) /\ LoneStays(e, e)
      BY <2>2 DEF SoonerKept, RefusedBig, LoneStays
    <2> QED BY <2>1, <2>2, <2>3 DEF Goes
  <1>3. CASE e.prefilling = None
    <2> DEFINE r == Head(e.waiting)
               w == Tail(e.waiting)
               f == [e EXCEPT !.prefilling = r, !.waiting = w]
    <2>0. f = [e EXCEPT !.prefilling = r, !.waiting = w]
      OBVIOUS
    <2>1. WithPrefilling(e) = f
      BY <1>3 DEF WithPrefilling
    <2>2. /\ e = [waiting |-> e.waiting, running |-> e.running, prefilling |-> e.prefilling,
                  id |-> e.id, new |-> e.new, queued |-> e.queued, retired |-> e.retired,
                  slots |-> e.slots, chunked |-> e.chunked]
          /\ e.waiting \in Seq(Request) /\ e.waiting # <<>> /\ Once(e.waiting) /\ e.running \in Seq(Request)
      BY <1>1, <1>3, FieldTypes DEF Places
    <2>3. r \in Request /\ r \in Range(e.waiting) /\ Thinned(e.waiting, w, {r})
      BY <2>2, ThinEnds
    <2>4. \A a, b \in Request : Before(e.waiting, a, b) => (a = r \/ a \in Range(w)) /\ (b # r)
      <3> SUFFICES ASSUME NEW a \in Request, NEW b \in Request, Before(e.waiting, a, b)
                   PROVE  (a = r \/ a \in Range(w)) /\ b # r
        OBVIOUS
      <3>1. a \in Range(e.waiting)
        BY <2>2, BeforeIn
      <3>2. Len(e.waiting) \in Nat /\ DOMAIN e.waiting = 1 .. Len(e.waiting) /\ r = e.waiting[1]
        BY <2>2, LenProperties
      <3>3. PICK i, j \in 1 .. Len(e.waiting) : i < j /\ e.waiting[i] = a /\ e.waiting[j] = b
        BY <3>2 DEF Before
      <3>4. b # r
        BY <2>2, <3>2, <3>3 DEF Once
      <3> QED BY <2>3, <3>1, <3>4 DEF Thinned
    <2> HIDE DEF r, w, f
    <2>5. f = [waiting |-> w, running |-> e.running, prefilling |-> r,
               id |-> e.id, new |-> e.new, queued |-> e.queued, retired |-> e.retired,
               slots |-> e.slots, chunked |-> e.chunked]
      BY <2>0, <2>2
    <2>6. EngineTyped(f)
      <3>1. w \in Seq(Request)
        BY <2>3 DEF Thinned
      <3> QED BY <1>1, <2>3, <2>5, <3>1, FieldTypes DEF EngineTyped
    <2>7. /\ Moved(e, f) /\ Pre(e) = {} /\ Pre(f) = {r} /\ f.prefilling = r
          /\ f.waiting = w /\ f.running = e.running /\ f.new = e.new /\ f.queued = e.queued
      <3>1. r # None
        BY <2>3, EngineAssumption
      <3> QED BY <1>3, <2>5, <3>1 DEF Moved, Pre
    <2>8. Range(w) = Range(e.waiting) \ {r} /\ Once(w)
      BY <2>3 DEF Thinned
    <2>9. Places(f, {})
      BY <1>1, <2>3, <2>7, <2>8 DEF Places
    <2>10. Members(f, {}) = Members(e, {}) /\ Active(f, {}) = Active(e, {}) \cup {r}
      BY <2>3, <2>7, <2>8 DEF Members, Active
    <2>11. e.id[r] \notin DOMAIN e.slots /\ e.id[r] \notin e.queued /\ \A t \in Range(w) : e.id[t] \notin DOMAIN e.slots
      BY <1>1, <2>3, <2>8 DEF Owned
    <2>12. EngineOK(f, {}) /\ (RetiredQueued(e) => RetiredQueued(f)) /\ FreeBlocks(f) = FreeBlocks(e)
      <3>1. /\ Members(f, {}) \subseteq Members(e, {})
            /\ \A t \in Active(e, {}) : t \in Active(f, {}) \/ e.id[t] \notin DOMAIN e.slots
            /\ \A t \in Range(f.waiting) : e.id[t] \notin DOMAIN e.slots
            /\ \A t \in Pre(f) : e.id[t] \notin e.queued
        BY <2>7, <2>10, <2>11
      <3> QED BY <1>1, <2>6, <2>7, <2>9, <3>1, MoveOK
    <2>13. Context(f, {})
      BY <1>1, <2>5 DEF Context
    <2>14. SoonerKept(e, f)
      <3>1. \A a, b \in Range(w) : Before(e.waiting, a, b) => Before(w, a, b)
        BY <2>3 DEF Thinned
      <3>2. ASSUME NEW a \in Members(e, {}), NEW b \in Members(e, {}), Sooner(e, a, b) PROVE Sooner(f, a, b)
        <4>1. a \in Request /\ b \in Request
          BY <1>1, FieldTypes DEF Members, Active
        <4>2. CASE Before(e.waiting, a, b)
          <5>1. b \in Range(w)
            <6>1. b \in Range(e.waiting) /\ b # r
              BY <2>2, <2>4, <4>1, <4>2, BeforeIn
            <6> QED BY <2>8, <6>1
          <5> QED BY <2>4, <2>7, <3>1, <4>1, <4>2, <5>1 DEF Sooner
        <4>3. CASE Before(e.running, a, b)
          BY <2>7, <4>3 DEF Sooner
        <4>4. CASE a \in Range(e.running) /\ b \in Range(e.waiting)
          BY <2>7, <2>8, <4>4 DEF Sooner
        <4> QED BY <2>7, <3>2, <4>2, <4>3, <4>4 DEF Sooner
      <3> QED BY <3>2 DEF SoonerKept
    <2>15. Sound(f, o) /\ Members(f, {}) \subseteq Members(e, {})
      <3>1. Ends(o, o, {}, {})
        BY <1>1, EndsNone
      <3>2. Members(f, {}) = Members(e, {}) \ {} /\ {} \in SUBSET Ended
        BY <2>10
      <3>3. \A t \in Request \ Members(e, {}) : f.new[t] = e.new[t]
        BY <2>7
      <3> QED BY <1>1, <2>12, <2>13, <3>1, <3>2, <3>3, SoundAfter
    <2>16. RefusedBig(e, o, o) /\ LoneStays(e, f)
      <3>1. Range(e.running) \cap Range(w) = {}
        BY <1>1, <2>8 DEF Places
      <3> QED BY <2>7, <3>1 DEF RefusedBig, LoneStays
    <2>17. f.prefilling \in Request /\ Pre(f) = {f.prefilling}
      BY <2>3, <2>7
    <2>18. Goes(e, o, f, o)
      BY <2>14, <2>15, <2>16 DEF Goes
    <2> QED BY <2>1, <2>7, <2>12, <2>17, <2>18
  <1> QED BY <1>2, <1>3

\* e with slots up to `end` for the prompt of ID i.
Put(e, i, end, chunked) ==
  [e EXCEPT !.slots = [j \in DOMAIN e.slots \cup {i} |-> IF j = i THEN end ELSE e.slots[j]],
            !.chunked = chunked]

LEMMA PutOK ==
  ASSUME NEW e, NEW o, Sound(e, o), NEW r \in Request, Pre(e) = {r}, NEW i, i = e.id[r],
         NEW end \in Nat \ {0}, NEW done, done = IF i \in DOMAIN e.slots THEN e.slots[i] ELSE 0,
         DivCeil(end) - DivCeil(done) <= FreeBlocks(e), NEW chunked \in BOOLEAN
  PROVE  LET f == Put(e, i, end, chunked)
         IN  /\ Goes(e, o, f, o) /\ SamePlaces(e, f) /\ f.queued = e.queued
             /\ i \in DOMAIN f.slots /\ f.slots[i] = end /\ i \notin f.queued
  <1> DEFINE s == [j \in DOMAIN e.slots \cup {i} |-> IF j = i THEN end ELSE e.slots[j]]
             f == Put(e, i, end, chunked)
  <1>1. /\ EngineOK(e, {}) /\ RetiredQueued(e) /\ Context(e, {}) /\ EngineTyped(e) /\ Places(e, {})
        /\ Owned(e, {}) /\ Fits(e) /\ Tokens(e) /\ o \in [Request -> Outcomes]
    BY SoundParts
  <1>2. /\ e = [waiting |-> e.waiting, running |-> e.running, prefilling |-> e.prefilling,
                id |-> e.id, new |-> e.new, queued |-> e.queued, retired |-> e.retired,
                slots |-> e.slots, chunked |-> e.chunked]
        /\ e.slots \in Slots
    BY <1>1, FieldTypes
  <1>3. f = [e EXCEPT !.slots = s, !.chunked = chunked]
    BY DEF Put
  <1>4. /\ DOMAIN s = DOMAIN e.slots \cup {i} /\ s = [j \in DOMAIN s |-> s[j]] /\ s[i] = end
        /\ \A j \in DOMAIN e.slots : j # i => s[j] = e.slots[j]
    OBVIOUS
  <1> HIDE DEF s, f
  <1>5. r \in Members(e, {}) /\ r \in Active(e, {}) /\ i \in Ids /\ i \notin e.queued
    <2>1. r \in Members(e, {}) /\ r \in Active(e, {})
      BY DEF Members, Active
    <2> QED BY <1>1, <2>1 DEF Owned
  <1>6. \A t \in Members(e, {}) : t # r => e.id[t] # i
    BY <1>1, <1>5 DEF Owned
  <1>7. s \in Slots
    <2>1. DOMAIN e.slots \in SUBSET Ids /\ \A j \in DOMAIN e.slots : e.slots[j] \in Nat \ {0}
      BY <1>2, SlotsAre
    <2>2. DOMAIN s \in SUBSET Ids /\ \A j \in DOMAIN s : s[j] \in Nat \ {0}
      BY <1>4, <1>5, <2>1
    <2> QED BY <1>4, <2>2, SlotsFrom
  <1>8. f = [waiting |-> e.waiting, running |-> e.running, prefilling |-> e.prefilling,
             id |-> e.id, new |-> e.new, queued |-> e.queued, retired |-> e.retired,
             slots |-> s, chunked |-> chunked]
    BY <1>2, <1>3
  <1>9. EngineTyped(f)
    BY <1>1, <1>7, <1>8, FieldTypes DEF EngineTyped
  <1>10. SamePlaces(e, f) /\ f.queued = e.queued /\ f.slots = s /\ f.retired = e.retired
    BY <1>8 DEF SamePlaces
  <1>11. /\ f.waiting = e.waiting /\ f.running = e.running /\ f.prefilling = e.prefilling
         /\ f.id = e.id /\ f.new = e.new
    BY <1>10 DEF SamePlaces
  <1>12. /\ Pre(f) = Pre(e) /\ \A L : Members(f, L) = Members(e, L) /\ Active(f, L) = Active(e, L)
    BY <1>11, SameLine
  <1>13. Places(f, {}) /\ Tokens(f)
    BY <1>1, <1>11, <1>12 DEF Places, Tokens
  <1>14. Owned(f, {})
    <2>1. ASSUME NEW j \in DOMAIN f.slots
          PROVE  (\E t \in Active(f, {}) : f.id[t] = j) \/ (\E p \in f.retired : p[1] = j)
      <3>1. CASE j = i
        BY <1>5, <1>11, <1>12, <3>1
      <3>2. CASE j # i
        <4>1. (\E t \in Active(e, {}) : e.id[t] = j) \/ (\E p \in e.retired : p[1] = j)
          BY <1>1, <1>4, <1>10, <2>1, <3>2 DEF Owned
        <4> QED BY <1>10, <1>11, <1>12, <4>1
      <3> QED BY <3>1, <3>2
    <2>2. \A t \in Range(f.waiting) : f.id[t] \notin DOMAIN f.slots
      <3>1. \A t \in Range(e.waiting) : t \in Members(e, {}) /\ t # r /\ e.id[t] \notin DOMAIN e.slots
        BY <1>1 DEF Members, Places, Owned
      <3> QED BY <1>4, <1>6, <1>10, <1>11, <3>1
    <2>3. f.queued \subseteq DOMAIN f.slots
      BY <1>1, <1>4, <1>10 DEF Owned
    <2> QED BY <1>1, <1>10, <1>11, <1>12, <2>1, <2>2, <2>3 DEF Owned
  <1>15. Fits(f)
    <2>1. done \in Nat
      BY <1>2, SlotsAre
    <2>2. Taken(s) = Taken(e.slots) + DivCeil(end) - DivCeil(done)
      BY <1>2, <1>4, <1>5, <1>7, <2>1, TakenPut
    <2>3. Taken(s) \in Nat /\ Taken(e.slots) \in Nat /\ NumBlocks \in Nat /\ DivCeil(end) \in Nat /\ DivCeil(done) \in Nat
      BY <1>2, <1>7, <2>1, TakenIs, DivCeilFacts, EngineAssumption
    <2>4. DivCeil(end) - DivCeil(done) <= NumBlocks - Taken(e.slots)
      BY FreeIs
    <2>5. NumBlocks - Taken(s) \in Nat
      BY ONLY <2>2, <2>3, <2>4
    <2> QED BY <1>10, <2>5, FreeIs DEF Fits
  <1>16. Context(f, {})
    <2>1. \A t \in Range(e.running) : t \in Members(e, {}) /\ t # r
      BY <1>1 DEF Members, Active, Places
    <2>2. \A t \in Range(e.running) : e.id[t] \in DOMAIN s /\ s[e.id[t]] = e.slots[e.id[t]]
      BY <1>1, <1>4, <1>6, <2>1 DEF Context
    <2> QED BY <1>1, <1>10, <1>11, <2>2 DEF Context
  <1>17. EngineOK(f, {}) /\ RetiredQueued(f)
    BY <1>1, <1>9, <1>10, <1>13, <1>14, <1>15 DEF EngineOK, RetiredQueued
  <1>18. Goes(e, o, f, o)
    <2>1. Left(f, f, {})
      BY <1>17 DEF Left, SoonerKept
    <2>2. Ends(o, o, {}, Harmless)
      BY <1>1, EndsNone
    <2>3. \A t \in Request \ Members(e, {}) : f.new[t] = e.new[t]
      BY <1>11
    <2> QED BY <1>10, <1>11, <1>16, <1>17, <2>1, <2>2, <2>3, LeftGoes
  <1> QED BY <1>4, <1>5, <1>10, <1>18 DEF f

\* A prefilled turn joins the batch.
Batched(e, r) == [e EXCEPT !.prefilling = None, !.running = Append(e.running, r)]

LEMMA BatchOK ==
  ASSUME NEW e, NEW o, Sound(e, o), NEW r \in Request, Pre(e) = {r}, e.id[r] \in DOMAIN e.slots,
         NEW ahead \in SUBSET {r},
         e.slots[e.id[r]] = PromptTokens[r] + e.new[r] + (IF r \in ahead THEN 1 ELSE 0) - 1
  PROVE  LET f == Batched(e, r)
         IN  /\ EngineOK(f, {}) /\ RetiredQueued(f) /\ Context(f, ahead) /\ SoonerKept(e, f)
             /\ Members(f, {}) = Members(e, {}) /\ f.new = e.new /\ f.queued = e.queued
             /\ f.waiting = e.waiting /\ Range(f.running) = Range(e.running) \cup {r} /\ Pre(f) = {}
             /\ f.id = e.id
  <1> DEFINE run == Append(e.running, r)
             f == Batched(e, r)
  <1>1. /\ EngineOK(e, {}) /\ RetiredQueued(e) /\ Context(e, {}) /\ EngineTyped(e) /\ Places(e, {})
        /\ Owned(e, {})
    BY SoundParts
  <1>2. /\ e = [waiting |-> e.waiting, running |-> e.running, prefilling |-> e.prefilling,
                id |-> e.id, new |-> e.new, queued |-> e.queued, retired |-> e.retired,
                slots |-> e.slots, chunked |-> e.chunked]
        /\ e.running \in Seq(Request) /\ e.waiting \in Seq(Request)
    BY <1>1, FieldTypes
  <1>3. f = [e EXCEPT !.prefilling = None, !.running = run]
    BY DEF Batched
  <1>4. /\ run \in Seq(Request) /\ Range(run) = Range(e.running) \cup {r} /\ Once(run)
        /\ \A a, b : Before(e.running, a, b) => Before(run, a, b)
        /\ \A a \in Range(e.running) : Before(run, a, r)
    <2>1. Once(e.running) /\ r \notin Range(e.running)
      BY <1>1 DEF Places
    <2>2. e.running \in Seq(Request)
      BY <1>2
    <2>3. run \in Seq(Request) /\ Grown(e.running, run, r)
      BY <2>2, AppendProperties DEF Grown
    <2> HIDE DEF run
    <2> QED BY ONLY <2>1, <2>2, <2>3, r \in Request, AppendLine
  <1> HIDE DEF run, f
  <1>7. f = [waiting |-> e.waiting, running |-> run, prefilling |-> None,
             id |-> e.id, new |-> e.new, queued |-> e.queued, retired |-> e.retired,
             slots |-> e.slots, chunked |-> e.chunked]
    BY <1>2, <1>3
  <1>8. EngineTyped(f)
    BY <1>1, <1>4, <1>7, FieldTypes DEF EngineTyped
  <1>9. /\ Moved(e, f) /\ Pre(f) = {} /\ f.waiting = e.waiting /\ f.running = run /\ f.new = e.new
        /\ f.queued = e.queued /\ f.id = e.id /\ f.slots = e.slots
    BY <1>7 DEF Moved, Pre
  <1>10. Places(f, {})
    BY <1>1, <1>4, <1>9 DEF Places
  <1>11. Members(f, {}) = Members(e, {}) /\ Active(f, {}) = Active(e, {})
    BY <1>4, <1>9 DEF Members, Active
  <1>12. EngineOK(f, {}) /\ RetiredQueued(f)
    <2>1. /\ Members(f, {}) \subseteq Members(e, {})
          /\ \A t \in Active(e, {}) : t \in Active(f, {}) \/ e.id[t] \notin DOMAIN e.slots
          /\ \A t \in Range(f.waiting) : e.id[t] \notin DOMAIN e.slots
          /\ \A t \in Pre(f) : e.id[t] \notin e.queued
      BY <1>1, <1>9, <1>11 DEF Owned
    <2> QED BY <1>1, <1>8, <1>9, <1>10, <2>1, MoveOK
  <1>13. Context(f, ahead)
    <2>1. e.id[r] \notin e.queued
      BY <1>1 DEF Owned
    <2>2. \A t \in Range(e.running) : t \notin ahead
      BY <1>1 DEF Places
    <2>3. ASSUME NEW t \in Range(run)
          PROVE  /\ e.id[t] \in DOMAIN e.slots
                 /\ e.slots[e.id[t]] = PromptTokens[t] + e.new[t] + (IF t \in ahead THEN 1 ELSE 0)
                                         - (IF e.id[t] \in e.queued THEN 0 ELSE 1)
      <3>1. CASE t = r
        BY <2>1, <3>1
      <3>2. CASE t # r
        <4>1. t \in Range(e.running)
          BY <1>4, <2>3, <3>2
        <4>2. /\ e.id[t] \in DOMAIN e.slots
              /\ e.slots[e.id[t]] = PromptTokens[t] + e.new[t] + (IF t \in {} THEN 1 ELSE 0)
                                      - (IF e.id[t] \in e.queued THEN 0 ELSE 1)
          BY <1>1, <4>1 DEF Context
        <4> QED BY <2>2, <4>1, <4>2
      <3> QED BY <3>1, <3>2
    <2> QED BY <1>9, <2>3 DEF Context
  <1>14. SoonerKept(e, f)
    BY <1>4, <1>9 DEF SoonerKept, Sooner
  <1>15. Range(f.running) = Range(e.running) \cup {r}
    BY <1>4, <1>9
  <1> QED BY <1>9, <1>11, <1>12, <1>13, <1>14, <1>15 DEF f

----------------------------------------------------------------------------
(* Admission.                                                              *)

LEMMA EmptyRange ==
  ASSUME NEW s \in Seq(Request)
  PROVE  Range(s) = {} <=> s = <<>>
  <1>1. Range(<<>>) = {}
    <2>1. <<>> \in Seq(Request) /\ Len(<<>>) = 0
      BY EmptySeq
    <2>2. \A b : b \in Range(<<>>) <=> \E k \in 1 .. 0 : <<>>[k] = b
      BY ONLY <2>1, RangeIs
    <2> QED BY <2>2
  <1>2. ASSUME s # <<>> PROVE Range(s) # {}
    BY <1>2, LeaveLine
  <1> QED BY <1>1, <1>2

LEMMA DivCeilZero == DivCeil(0) = 0
  <1>1. BlockTokens \in Nat \ {0}
    BY EngineAssumption
  <1>2. 0 \in Nat /\ 0 <= 0 * BlockTokens /\ 0 * BlockTokens < 0 + BlockTokens
    BY <1>1
  <1>3. CeilDiv(0, BlockTokens) = 0
    BY ONLY <1>1, <1>2, CeilDivUnique
  <1> QED BY <1>3 DEF CeilDiv, DivCeil

\* A chunk computes at least one position and at most the prompt; an unlimited
\* one computes all of it.
LEMMA ChunkEndIs ==
  ASSUME NEW done \in Nat, NEW len \in Nat \ {0}, NEW blocks \in Nat \ {0}
  PROVE  /\ ChunkEnd(done, len, blocks) \in Nat \ {0}
         /\ blocks = DivCeil(len) => ChunkEnd(done, len, blocks) = len
  <1> DEFINE w == blocks * BlockTokens
             m == done + w
  <1>1. BlockTokens \in Nat \ {0}
    BY EngineAssumption
  <1>2. w \in Nat /\ w >= BlockTokens
    <2>1. blocks - 1 \in Nat /\ (blocks - 1) * BlockTokens \in Nat
      BY <1>1
    <2>2. w = (blocks - 1) * BlockTokens + BlockTokens
      BY <1>1
    <2> QED BY <1>1, <2>1, <2>2
  <1>3. blocks = DivCeil(len) => len <= w
    BY DivCeilFacts
  <1> HIDE DEF w
  <1>4. m \in Nat /\ m >= BlockTokens
    BY <1>1, <1>2
  <1>5. ChunkEnd(done, len, blocks) = IF m >= len THEN len ELSE (m \div BlockTokens) * BlockTokens
    BY DEF ChunkEnd, w
  <1>6. (m \div BlockTokens) * BlockTokens \in Nat \ {0}
    <2> DEFINE q == m \div BlockTokens
               s == m % BlockTokens
               b == BlockTokens
    <2>1. q \in Nat /\ s \in 0 .. b - 1 /\ m = q * b + s
      BY <1>1, <1>4, Division
    <2> HIDE DEF q, s, m, b
    <2>2. b \in Nat \ {0} /\ m >= b
      BY <1>1, <1>4 DEF b
    <2>3. q # 0
      BY <2>1, <2>2
    <2>4. q * b \in Nat \ {0}
      BY ONLY <2>1, <2>2, <2>3
    <2> QED BY <2>4 DEF q, b
  <1>7. blocks = DivCeil(len) => m >= len
    BY ONLY <1>2, <1>3, done \in Nat, len \in Nat \ {0} DEF m
  <1> HIDE DEF m
  <1> QED BY <1>5, <1>6, <1>7

\* A prompt is refused for lack of blocks in an idle pool, which holds nothing
\* but its own chunks.
LEMMA NofitBig ==
  ASSUME NEW e, NEW o, Sound(e, o), e.running = <<>>, e.queued = {}, NEW r \in Request, Pre(e) = {r},
         NEW len \in Nat, NEW done, done = IF e.id[r] \in DOMAIN e.slots THEN e.slots[e.id[r]] ELSE 0,
         ~ (DivCeil(len) - DivCeil(done) <= FreeBlocks(e))
  PROVE  DivCeil(len) > NumBlocks
  <1> DEFINE i == e.id[r]
  <1>1. EngineOK(e, {}) /\ RetiredQueued(e) /\ EngineTyped(e) /\ Owned(e, {})
    BY SoundParts
  <1>2. e.retired = {}
    BY <1>1 DEF RetiredQueued
  <1>3. Range(e.running) = {}
    BY <1>1, FieldTypes, EmptyRange
  <1>4. DOMAIN e.slots \subseteq {i}
    BY <1>1, <1>2, <1>3 DEF Owned, Active
  <1>5. e.slots \in Slots
    BY <1>1, FieldTypes
  <1>6. Taken(e.slots) = DivCeil(done)
    <2>1. CASE i \in DOMAIN e.slots
      <3>1. DOMAIN e.slots = {i}
        BY <1>4, <2>1
      <3> QED BY <1>5, <2>1, <3>1, TakenAtLeast
    <2>2. CASE i \notin DOMAIN e.slots
      <3>1. DOMAIN e.slots = {}
        BY <1>4, <2>2
      <3>2. Taken(e.slots) = 0
        BY <3>1, SumEmpty DEF Taken
      <3> QED BY <2>2, <3>2, DivCeilZero
    <2> QED BY <2>1, <2>2
  <1>7. Taken(e.slots) \in Nat /\ NumBlocks \in Nat /\ DivCeil(len) \in Nat
    BY <1>5, TakenIs, DivCeilFacts, EngineAssumption
  <1>8. ~ (DivCeil(len) - Taken(e.slots) <= NumBlocks - Taken(e.slots))
    BY <1>6, FreeIs
  <1> QED BY ONLY <1>7, <1>8

\* What a chunk leaves: the running turns still run.
Admitted(e, o, f, p) ==
  Goes(e, o, f, p) /\ f.queued = e.queued /\ Range(e.running) \subseteq Range(f.running)

LEMMA RequeuePrefilling ==
  ASSUME NEW e, NEW o, Sound(e, o), e.prefilling # None
  PROVE  Admitted(e, o, Requeue([e EXCEPT !.prefilling = None], e.prefilling), o)
  <1> DEFINE f == Requeue([e EXCEPT !.prefilling = None], e.prefilling)
  <1>1. EngineOK(e, {}) /\ RetiredQueued(e) /\ Context(e, {}) /\ o \in [Request -> Outcomes]
    BY SoundParts
  <1>2. Preempted(e, f) /\ f.running = e.running /\ f.queued = e.queued
    BY ONLY <1>1, e.prefilling # None, PreemptPrefilling
  <1> HIDE DEF f
  <1>3. Outgrown(e) = {}
    BY DEF Outgrown
  <1>4. /\ EngineOK(f, {}) /\ RetiredQueued(f) /\ Context(f, {}) /\ Members(f, {}) = Members(e, {}) \ {}
        /\ \A t \in Request \ Members(e, {}) : f.new[t] = e.new[t]
        /\ SoonerKept(e, f) /\ LoneStays(e, f)
    BY <1>1, <1>2, <1>3 DEF Preempted
  <1>5. Ends(o, o, {}, Harmless) /\ Harmless \in SUBSET Ended
    BY <1>1, EndsNone DEF Harmless
  <1>6. Sound(f, o) /\ Members(f, {}) \subseteq Members(e, {})
    BY ONLY <1>4, <1>5, Sound(e, o), SoundAfter
  <1>7. RefusedBig(e, o, o)
    BY <1>5, HarmlessRefusesNobody
  <1> QED BY <1>2, <1>4, <1>6, <1>7 DEF Admitted, Goes, f

\* The prompt in `prefilling` is given up.
Abandoned(e, r) == Release([e EXCEPT !.prefilling = None], {r})

LEMMA AbandonOK ==
  ASSUME NEW e, NEW o, Sound(e, o), NEW r \in Request, Pre(e) = {r}, NEW how \in Ended \ {"outgrew"},
         how = "nofit" => DivCeil(PrefillTokens(e, r)) > NumBlocks
  PROVE  Admitted(e, o, Abandoned(e, r), End(o, {r}, how))
  <1> DEFINE h == [e EXCEPT !.prefilling = None]
             f == Release(h, {r})
             p == End(o, {r}, how)
  <1>1. /\ EngineOK(e, {}) /\ RetiredQueued(e) /\ Context(e, {}) /\ EngineTyped(e) /\ Places(e, {})
        /\ o \in [Request -> Outcomes]
    BY SoundParts
  <1>2. /\ e = [waiting |-> e.waiting, running |-> e.running, prefilling |-> e.prefilling,
                id |-> e.id, new |-> e.new, queued |-> e.queued, retired |-> e.retired,
                slots |-> e.slots, chunked |-> e.chunked]
        /\ e.running \in Seq(Request) /\ e.waiting \in Seq(Request)
    BY <1>1, FieldTypes
  <1>3. h = [waiting |-> e.waiting, running |-> e.running, prefilling |-> None,
             id |-> e.id, new |-> e.new, queued |-> e.queued, retired |-> e.retired,
             slots |-> e.slots, chunked |-> e.chunked]
    BY <1>2
  <1> HIDE DEF h
  <1>4. EngineTyped(h)
    BY <1>1, <1>3, FieldTypes DEF EngineTyped
  <1>5. Moved(e, h) /\ h.running = e.running /\ h.waiting = e.waiting /\ Pre(h) = Pre(e) \ {r}
    BY <1>3 DEF Moved, Pre
  <1>6. Thinned(e.running, h.running, {r}) /\ Thinned(e.waiting, h.waiting, {r})
    <2>1. /\ Once(e.running) /\ Range(e.running) \cap {r} = {}
          /\ Once(e.waiting) /\ Range(e.waiting) \cap {r} = {}
      BY <1>1 DEF Places
    <2> QED BY <1>2, <1>5, <2>1, ThinIs
  <1>7. {r} \cap Active(e, {}) \subseteq {r} /\ {r} \subseteq {r} \cap Members(e, {})
    BY DEF Members, Active
  <1>8. /\ Left(e, f, {r}) /\ f.new = e.new /\ (\A ahead : Context(e, ahead) => Context(f, ahead))
        /\ f.running = h.running
    BY ONLY <1>1, <1>4, <1>5, <1>6, <1>7, LeaveRelease
  <1> HIDE DEF f
  <1>9. /\ EngineOK(f, {}) /\ RetiredQueued(f) /\ Context(f, {}) /\ Members(f, {}) = Members(e, {}) \ {r}
        /\ SoonerKept(e, f) /\ f.queued = e.queued
        /\ \A t \in Request \ Members(e, {}) : f.new[t] = e.new[t]
    BY <1>1, <1>8 DEF Left
  <1>10. Ends(o, p, {r}, {how, "dropped"}) /\ {how, "dropped"} \in SUBSET Ended
    BY <1>1, EndIs DEF Ended
  <1>11. RefusedBig(e, o, p)
    <2>1. ASSUME NEW t \in Request, o[t] # p[t]
          PROVE  t = r /\ (p[t] = how \/ p[t] = "dropped")
      BY <2>1 DEF End
    <2> QED BY <2>1 DEF RefusedBig
  <1> HIDE DEF p
  <1>12. Sound(f, p) /\ Members(f, {}) \subseteq Members(e, {})
    BY ONLY <1>9, <1>10, Sound(e, o), SoundAfter
  <1>13. LoneStays(e, f)
    BY DEF LoneStays
  <1> QED BY <1>5, <1>8, <1>9, <1>11, <1>12, <1>13 DEF Admitted, Goes, Abandoned, f, h, p

\* A resumed turn goes on from where it was preempted.
LEMMA ResumeGoes ==
  ASSUME NEW e, NEW o, Sound(e, o), NEW r \in Request, Pre(e) = {r}, e.id[r] \in DOMAIN e.slots,
         e.slots[e.id[r]] = PromptTokens[r] + e.new[r] - 1
  PROVE  Admitted(e, o, Batched(e, r), o)
  <1> DEFINE f == Batched(e, r)
  <1>1. {} \in SUBSET {r} /\ o \in [Request -> Outcomes] /\ EngineTyped(e)
    BY SoundParts
  <1>2. e.slots[e.id[r]] = PromptTokens[r] + e.new[r] + (IF r \in {} THEN 1 ELSE 0) - 1
    <2>1. PromptTokens[r] \in Nat /\ e.new[r] \in Nat
      BY <1>1, EngineAssumption, FieldTypes
    <2> QED BY <2>1
  <1>3. /\ EngineOK(f, {}) /\ RetiredQueued(f) /\ Context(f, {}) /\ SoonerKept(e, f)
        /\ Members(f, {}) = Members(e, {}) /\ f.new = e.new /\ f.queued = e.queued
        /\ Range(f.running) = Range(e.running) \cup {r}
    BY ONLY <1>1, <1>2, Sound(e, o), r \in Request, Pre(e) = {r}, e.id[r] \in DOMAIN e.slots, BatchOK
  <1> HIDE DEF f
  <1>4. Members(f, {}) = Members(e, {}) \ {} /\ \A t \in Request \ Members(e, {}) : f.new[t] = e.new[t]
    BY <1>3
  <1>5. Ends(o, o, {}, Harmless) /\ Harmless \in SUBSET Ended
    BY <1>1, EndsNone DEF Harmless
  <1>6. Sound(f, o) /\ Members(f, {}) \subseteq Members(e, {})
    BY ONLY <1>3, <1>4, <1>5, Sound(e, o), SoundAfter
  <1>7. RefusedBig(e, o, o) /\ LoneStays(e, f)
    BY <1>5, HarmlessRefusesNobody DEF LoneStays
  <1> QED BY <1>3, <1>6, <1>7 DEF Admitted, Goes, f

\* A prefilled turn accepts its first token.
LEMMA FirstTokenGoes ==
  ASSUME NEW e, NEW o, Sound(e, o), NEW r \in Request, Pre(e) = {r}, e.id[r] \in DOMAIN e.slots,
         e.slots[e.id[r]] = PromptTokens[r] + e.new[r],
         NEW stops \in SUBSET {r}, NEW fails \in SUBSET stops, MustStop(e, {r}) \subseteq stops
  PROVE  Admitted(e, o, Accept(Batched(e, r), {r}, stops), AcceptOutcome(o, {r}, stops, fails))
  <1> DEFINE n == Batched(e, r)
             f == Accept(n, {r}, stops)
             p == AcceptOutcome(o, {r}, stops, fails)
             out == {r} \cap (stops \cup gone)
  <1>1. {r} \in SUBSET {r} /\ o \in [Request -> Outcomes] /\ EngineTyped(e) /\ Places(e, {})
    BY SoundParts
  <1>2. e.slots[e.id[r]] = PromptTokens[r] + e.new[r] + (IF r \in {r} THEN 1 ELSE 0) - 1
    <2>1. PromptTokens[r] \in Nat /\ e.new[r] \in Nat
      BY <1>1, EngineAssumption, FieldTypes
    <2> QED BY <2>1
  <1>3. /\ EngineOK(n, {}) /\ RetiredQueued(n) /\ Context(n, {r}) /\ SoonerKept(e, n)
        /\ Members(n, {}) = Members(e, {}) /\ n.new = e.new /\ n.queued = e.queued
        /\ Range(n.running) = Range(e.running) \cup {r}
    BY ONLY <1>1, <1>2, Sound(e, o), r \in Request, Pre(e) = {r}, e.id[r] \in DOMAIN e.slots, BatchOK
  <1> HIDE DEF n
  <1>4. {r} \in SUBSET Range(n.running) /\ MustStop(n, {r}) \subseteq stops
    BY <1>3 DEF MustStop
  <1>5. /\ Left(n, f, out) /\ Context(f, {}) /\ \A t \in Request \ {r} : f.new[t] = n.new[t]
    <2> DEFINE rs == {r}
               left == rs \cap (stops \cup gone)
               h == Accept(n, rs, stops)
    <2>1. /\ EngineOK(n, {}) /\ Context(n, rs) /\ rs \in SUBSET Range(n.running) /\ stops \in SUBSET rs
          /\ MustStop(n, rs) \subseteq stops
      BY <1>3, <1>4
    <2>2. f = h /\ out = left /\ {r} = rs
      OBVIOUS
    <2> HIDE DEF rs, f, out
    <2>3. Left(n, h, left) /\ Context(h, {}) /\ \A t \in Request \ rs : h.new[t] = n.new[t]
      BY ONLY <2>1, AcceptOK
    <2> QED BY ONLY <2>2, <2>3
  <1>6. Ends(o, p, out, Harmless)
    BY <1>1, AcceptEnds
  <1> HIDE DEF f, p
  <1>7. /\ EngineOK(f, {}) /\ RetiredQueued(f) /\ f.queued = n.queued
        /\ Members(f, {}) = Members(n, {}) \ out /\ SoonerKept(n, f)
        /\ Range(f.running) = Range(n.running) \ out
    BY <1>3, <1>5 DEF Left
  <1>8. /\ Members(f, {}) = Members(e, {}) \ out
        /\ \A t \in Request \ Members(e, {}) : f.new[t] = e.new[t]
    <2>1. r \in Members(e, {})
      BY DEF Members, Active
    <2> QED BY <1>3, <1>5, <1>7, <2>1
  <1>9. Harmless \in SUBSET Ended
    BY DEF Harmless
  <1>10. Sound(f, p) /\ Members(f, {}) \subseteq Members(e, {})
    BY ONLY <1>5, <1>6, <1>7, <1>8, <1>9, Sound(e, o), SoundAfter
  <1>11. SoonerKept(e, f)
    <2>1. Members(f, {}) \subseteq Members(n, {})
      BY <1>7
    <2> QED BY ONLY <1>3, <1>7, <2>1, SoonerTwice
  <1>12. RefusedBig(e, o, p) /\ LoneStays(e, f)
    BY <1>6, HarmlessRefusesNobody DEF LoneStays
  <1>13. Range(e.running) \subseteq Range(f.running)
    <2>1. r \notin Range(e.running)
      BY <1>1 DEF Places
    <2> QED BY <1>3, <1>7, <2>1
  <1> QED BY <1>3, <1>7, <1>10, <1>11, <1>12, <1>13 DEF Admitted, Goes, f, n, p

\* What a computed chunk does after its positions have their slots.
LEMMA AdmittedTwice ==
  ASSUME NEW e, NEW o, NEW f, NEW g, NEW q, Sound(e, o), Goes(e, o, f, o), f.new = e.new, f.queued = e.queued,
         Range(e.running) \subseteq Range(f.running), Admitted(f, o, g, q), LoneStays(e, g)
  PROVE  Admitted(e, o, g, q)
  <1>1. Goes(f, o, g, q) /\ g.queued = f.queued /\ Range(f.running) \subseteq Range(g.running)
    BY DEF Admitted
  <1>2. Ends(o, o, {}, Harmless)
    BY SoundParts, EndsNone
  <1>3. Goes(e, o, g, q)
    BY ONLY <1>1, <1>2, Goes(e, o, f, o), f.new = e.new, LoneStays(e, g), GoesTwice
  <1> QED BY <1>1, <1>3 DEF Admitted

\* The branches of a chunk that got its blocks.
LEMMA ChunkTaken ==
  ASSUME NEW e, NEW o, Sound(e, o), NEW r \in Request, Pre(e) = {r}, NEW f,
         Goes(e, o, f, o), SamePlaces(e, f), f.queued = e.queued, e.id[r] \in DOMAIN f.slots,
         NEW g, NEW q,
         \/ g = f /\ q = o
         \/ /\ e.new[r] > 0 /\ f.slots[e.id[r]] = PrefillTokens(e, r) /\ g = Batched(f, r) /\ q = o
         \/ g = Abandoned(f, r) /\ q = End(o, {r}, "dropped")
         \/ /\ e.new[r] = 0 /\ f.slots[e.id[r]] = PrefillTokens(e, r)
            /\ \E v \in Verdicts(e, {r}) :
                 g = Accept(Batched(f, r), {r}, v.stops) /\ q = AcceptOutcome(o, {r}, v.stops, v.fails)
  PROVE  Admitted(e, o, g, q)
  <1>1. Sound(f, o) /\ EngineTyped(e)
    BY SoundParts DEF Goes
  <1>2. f.new = e.new /\ f.running = e.running /\ f.id = e.id /\ f.prefilling = e.prefilling
    BY DEF SamePlaces
  <1>3. Pre(f) = {r} /\ f.id[r] \in DOMAIN f.slots
    BY <1>2 DEF Pre
  <1>4. PromptTokens[r] \in Nat /\ e.new[r] \in Nat
    BY <1>1, EngineAssumption, FieldTypes
  <1>5. LoneStays(e, g)
    BY DEF LoneStays
  <1>6. Range(e.running) \subseteq Range(f.running)
    BY <1>2
  <1>7. Admitted(f, o, g, q) => Admitted(e, o, g, q)
    BY ONLY <1>2, <1>5, <1>6, Sound(e, o), Goes(e, o, f, o), f.queued = e.queued, AdmittedTwice
  <1>8. CASE g = f /\ q = o
    BY <1>6, <1>8 DEF Admitted
  <1>9. CASE e.new[r] > 0 /\ f.slots[e.id[r]] = PrefillTokens(e, r) /\ g = Batched(f, r) /\ q = o
    <2>1. f.slots[f.id[r]] = PromptTokens[r] + f.new[r] - 1
      BY <1>2, <1>9 DEF PrefillTokens
    <2>2. Admitted(f, o, Batched(f, r), o)
      BY ONLY <1>1, <1>3, <2>1, r \in Request, ResumeGoes
    <2> QED BY <1>7, <1>9, <2>2
  <1>10. CASE g = Abandoned(f, r) /\ q = End(o, {r}, "dropped")
    <2>1. "dropped" \in Ended \ {"outgrew"}
      BY DEF Ended
    <2>2. "dropped" = "nofit" => DivCeil(PrefillTokens(f, r)) > NumBlocks
      OBVIOUS
    <2>3. Admitted(f, o, Abandoned(f, r), End(o, {r}, "dropped"))
      BY ONLY <1>1, <1>3, <2>1, <2>2, r \in Request, AbandonOK
    <2> QED BY <1>7, <1>10, <2>3
  <1>11. CASE /\ e.new[r] = 0 /\ f.slots[e.id[r]] = PrefillTokens(e, r)
              /\ \E v \in Verdicts(e, {r}) :
                   g = Accept(Batched(f, r), {r}, v.stops) /\ q = AcceptOutcome(o, {r}, v.stops, v.fails)
    <2>1. PICK v \in Verdicts(e, {r}) :
            g = Accept(Batched(f, r), {r}, v.stops) /\ q = AcceptOutcome(o, {r}, v.stops, v.fails)
      BY <1>11
    <2> DEFINE stops == v.stops
               fails == v.fails
    <2>2. stops \in SUBSET {r} /\ fails \in SUBSET stops /\ MustStop(f, {r}) \subseteq stops
      BY <1>2 DEF Verdicts, MustStop
    <2>3. f.slots[f.id[r]] = PromptTokens[r] + f.new[r]
      BY <1>2, <1>4, <1>11 DEF PrefillTokens
    <2> HIDE DEF stops, fails
    <2>4. Admitted(f, o, Accept(Batched(f, r), {r}, stops), AcceptOutcome(o, {r}, stops, fails))
      BY ONLY <1>1, <1>3, <2>2, <2>3, r \in Request, FirstTokenGoes
    <2> QED BY <1>7, <2>1, <2>4 DEF stops, fails
  <1> QED BY <1>8, <1>9, <1>10, <1>11

\* A chunk of a prompt in `prefilling`.
LEMMA ChunkGoes ==
  ASSUME Sound(engine, outcome), phase = "admit" /\ engine.running = <<>> => engine.queued = {}, AdmitChunk
  PROVE  Admitted(WithPrefilling(engine), outcome, engine', outcome')
  <1> DEFINE e == WithPrefilling(engine)
             r == e.prefilling
             i == e.id[r]
             len == PrefillTokens(e, r)
             done == IF i \in DOMAIN e.slots THEN e.slots[i] ELSE 0
             unlimited == e.running = <<>>
             taken == [e EXCEPT !.prefilling = None]
             Fit(end) == DivCeil(end) - DivCeil(done) <= FreeBlocks(e)
             put(end) == Put(e, i, end, e.chunked \/ ~unlimited)
             joined(end) == [put(end) EXCEPT !.prefilling = None,
                                             !.running = IF r \in gone /\ e.new[r] = 0 THEN @ ELSE Append(@, r)]
  <1>1. phase = "admit" /\ (engine.prefilling # None \/ engine.waiting # <<>>)
    BY DEF AdmitChunk, CanAdmitNext
  <1>2. /\ Sound(e, outcome) /\ r \in Request /\ Pre(e) = {r} /\ e.running = engine.running
        /\ e.queued = engine.queued
    BY ONLY <1>1, Sound(engine, outcome), PrefillNext DEF Goes
  <1>3. PICK blocks \in IF unlimited THEN {DivCeil(len)} ELSE 1 .. DivCeil(len) :
          LET end == ChunkEnd(done, len, blocks)
          IN  \/ engine' = Requeue(taken, r) /\ outcome' = outcome
              \/ ~ Fit(end) /\ unlimited /\ engine' = Release(taken, {r}) /\ outcome' = End(outcome, {r}, "nofit")
              \/ engine' = Release(taken, {r}) /\ outcome' = End(outcome, {r}, "failed")
              \/ Fit(end) /\ engine' = put(end) /\ outcome' = outcome
              \/ Fit(end) /\ end = len /\ e.new[r] > 0 /\ engine' = joined(end) /\ outcome' = outcome
              \/ /\ Fit(end) /\ end = len /\ e.new[r] = 0 /\ r \in gone
                 /\ engine' = Release(joined(end), {r}) /\ outcome' = End(outcome, {r}, "dropped")
              \/ /\ Fit(end) /\ end = len /\ e.new[r] = 0 /\ r \notin gone
                 /\ \E v \in Verdicts(e, {r}) :
                      /\ engine' = Accept(joined(end), {r}, v.stops)
                      /\ outcome' = AcceptOutcome(outcome, {r}, v.stops, v.fails)
    BY DEF AdmitChunk, Put
  <1> DEFINE end == ChunkEnd(done, len, blocks)
  <1>4. EngineTyped(e) /\ RetiredQueued(e)
    BY <1>2, SoundParts
  <1> HIDE DEF e
  <1>5. e.prefilling # None
    BY <1>2, EngineAssumption
  <1>6. len \in Nat \ {0}
    <2>1. PromptTokens[r] \in Nat \ {0} /\ e.new[r] \in Nat
      BY <1>2, <1>4, FieldTypes, EngineAssumption
    <2> QED BY <2>1 DEF PrefillTokens
  <1>7. done \in Nat
    BY <1>4, FieldTypes, SlotsAre
  <1> HIDE DEF len
  <1>8. blocks \in Nat \ {0} /\ (unlimited => blocks = DivCeil(len))
    <2>1. DivCeil(len) \in Nat /\ DivCeil(len) # 0
      <3>1. DivCeil(len) \in Nat /\ len <= DivCeil(len) * BlockTokens /\ BlockTokens \in Nat
        BY <1>6, DivCeilFacts, EngineAssumption
      <3>2. ASSUME DivCeil(len) = 0 PROVE FALSE
        BY <1>6, <3>1, <3>2
      <3> QED BY <3>1, <3>2
    <2>2. blocks \in IF unlimited THEN {DivCeil(len)} ELSE 1 .. DivCeil(len)
      BY <1>3
    <2> HIDE DEF unlimited
    <2> QED BY ONLY <2>1, <2>2
  <1> HIDE DEF done, unlimited
  <1>9. end \in Nat \ {0} /\ (unlimited => end = len)
    BY <1>6, <1>7, <1>8, ChunkEndIs
  <1> HIDE DEF end
  <1> DEFINE f == put(end)
             chunked == e.chunked \/ ~unlimited
             big == DivCeil(len) > NumBlocks
  <1>10. ASSUME Fit(end)
         PROVE  /\ Goes(e, outcome, f, outcome) /\ SamePlaces(e, f) /\ f.queued = e.queued
                /\ i \in DOMAIN f.slots /\ f.slots[i] = end
    <2>1. chunked \in BOOLEAN
      BY <1>4, FieldTypes
    <2>2. f = Put(e, i, end, chunked)
      OBVIOUS
    <2>3. i = e.id[r] /\ done = (IF i \in DOMAIN e.slots THEN e.slots[i] ELSE 0)
      BY DEF done
    <2>4. DivCeil(end) - DivCeil(done) <= FreeBlocks(e)
      BY <1>10
    <2> HIDE DEF f, i, r, chunked
    <2> QED BY ONLY <1>2, <1>9, <2>1, <2>2, <2>3, <2>4, PutOK
  <1>11. taken = [e EXCEPT !.prefilling = None]
    OBVIOUS
  <1>12. CASE engine' = Requeue(taken, r) /\ outcome' = outcome
    <2>1. Admitted(e, outcome, Requeue([e EXCEPT !.prefilling = None], e.prefilling), outcome)
      BY ONLY <1>2, <1>5, RequeuePrefilling
    <2> QED BY <1>12, <2>1 DEF e
  <1>13. CASE ~ Fit(end) /\ unlimited /\ engine' = Release(taken, {r}) /\ outcome' = End(outcome, {r}, "nofit")
    <2>1. big
      <3>1. e.running = <<>>
        BY <1>13 DEF unlimited
      <3>2. e.queued = {}
        BY <1>1, <1>2, <3>1
      <3>3. done = IF e.id[r] \in DOMAIN e.slots THEN e.slots[e.id[r]] ELSE 0
        BY DEF done
      <3>4. ~ (DivCeil(len) - DivCeil(done) <= FreeBlocks(e))
        BY <1>9, <1>13
      <3>5. len \in Nat
        BY <1>6
      <3> HIDE DEF r
      <3> QED BY ONLY <1>2, <3>1, <3>2, <3>3, <3>4, <3>5, NofitBig DEF big
    <2>2. "nofit" \in Ended \ {"outgrew"} /\ ("nofit" = "nofit" => DivCeil(PrefillTokens(e, r)) > NumBlocks)
      BY <2>1 DEF Ended, len
    <2> HIDE DEF r
    <2>3. Admitted(e, outcome, Abandoned(e, r), End(outcome, {r}, "nofit"))
      BY ONLY <1>2, <2>2, AbandonOK
    <2> QED BY <1>13, <2>3 DEF Abandoned, e
  <1>14. CASE engine' = Release(taken, {r}) /\ outcome' = End(outcome, {r}, "failed")
    <2>1. "failed" \in Ended \ {"outgrew"} /\ ("failed" = "nofit" => DivCeil(PrefillTokens(e, r)) > NumBlocks)
      BY DEF Ended
    <2> HIDE DEF r
    <2>2. Admitted(e, outcome, Abandoned(e, r), End(outcome, {r}, "failed"))
      BY ONLY <1>2, <2>1, AbandonOK
    <2> QED BY <1>14, <2>2 DEF Abandoned, e
  <1>15. ASSUME Fit(end),
                \/ engine' = f /\ outcome' = outcome
                \/ e.new[r] > 0 /\ end = len /\ engine' = joined(end) /\ outcome' = outcome
                \/ /\ e.new[r] = 0 /\ r \in gone
                   /\ engine' = Release(joined(end), {r}) /\ outcome' = End(outcome, {r}, "dropped")
                \/ /\ end = len /\ e.new[r] = 0 /\ r \notin gone
                   /\ \E v \in Verdicts(e, {r}) :
                        /\ engine' = Accept(joined(end), {r}, v.stops)
                        /\ outcome' = AcceptOutcome(outcome, {r}, v.stops, v.fails)
         PROVE  Admitted(e, outcome, engine', outcome')
    <2>1. /\ Goes(e, outcome, f, outcome) /\ SamePlaces(e, f) /\ f.queued = e.queued
          /\ i \in DOMAIN f.slots /\ f.slots[i] = end
      BY ONLY <1>10, <1>15
    <2>2. f.slots[e.id[r]] = end /\ e.id[r] \in DOMAIN f.slots
      BY <2>1
    <2>3. end = len => f.slots[e.id[r]] = PrefillTokens(e, r)
      BY <2>2 DEF len
    <2>4. ~ (r \in gone /\ e.new[r] = 0) => joined(end) = Batched(f, r)
      BY DEF Batched
    <2>5. r \in gone /\ e.new[r] = 0 => joined(end) = [f EXCEPT !.prefilling = None]
      <3>1. EngineTyped(f)
        BY <2>1, SoundParts DEF Goes
      <3>2. f = [waiting |-> f.waiting, running |-> f.running, prefilling |-> f.prefilling,
                 id |-> f.id, new |-> f.new, queued |-> f.queued, retired |-> f.retired,
                 slots |-> f.slots, chunked |-> f.chunked]
        BY <3>1, FieldTypes
      <3>3. r \in gone /\ e.new[r] = 0 => joined(end) = [f EXCEPT !.prefilling = None, !.running = f.running]
        OBVIOUS
      <3> HIDE DEF f, joined, r
      <3> QED BY <3>2, <3>3
    <2> DEFINE j == joined(end)
    <2> HIDE DEF f, joined, r
    <2>6. \/ engine' = f /\ outcome' = outcome
          \/ /\ e.new[r] > 0 /\ f.slots[e.id[r]] = PrefillTokens(e, r) /\ engine' = Batched(f, r)
             /\ outcome' = outcome
          \/ engine' = Abandoned(f, r) /\ outcome' = End(outcome, {r}, "dropped")
          \/ /\ e.new[r] = 0 /\ f.slots[e.id[r]] = PrefillTokens(e, r)
             /\ \E v \in Verdicts(e, {r}) :
                  /\ engine' = Accept(Batched(f, r), {r}, v.stops)
                  /\ outcome' = AcceptOutcome(outcome, {r}, v.stops, v.fails)
      <3>1. e.new[r] > 0 => ~ (e.new[r] = 0)
        OBVIOUS
      <3> QED BY <1>15, <2>3, <2>4, <2>5, <3>1 DEF Abandoned
    <2> QED BY ONLY <1>2, <2>1, <2>2, <2>6, ChunkTaken
  <1> QED BY <1>3, <1>12, <1>13, <1>14, <1>15 DEF end, e

----------------------------------------------------------------------------
(* The steps.                                                              *)

\* A queued step whose turns have all ended is read back.
LEMMA DrainedGoes ==
  ASSUME NEW e, NEW o, Sound(e, o)
  PROVE  LET f == Drained(e)
         IN  /\ Goes(e, o, f, o) /\ f.waiting = e.waiting
             /\ f.running = <<>> => f.queued = {}
  <1> DEFINE n == [e EXCEPT !.queued = {}]
             f == ReleaseRetired(n)
  <1>1. o \in [Request -> Outcomes] /\ EngineTyped(e) /\ EngineOK(e, {})
    BY SoundParts
  <1>2. CASE e.running = <<>> /\ e.queued # {}
    <2>1. EngineOK(n, {}) /\ SamePlaces(e, n) /\ n.queued = {} /\ Context(n, Reading(e))
      BY ONLY Sound(e, o), UnqueueOK
    <2> HIDE DEF n
    <2>2. Range(e.running) = {}
      BY <1>1, <1>2, FieldTypes, EmptyRange
    <2>3. Reading(e) = {}
      BY <2>2 DEF Reading
    <2>4. Context(n, {})
      BY ONLY <2>1, <2>3
    <2>5. Goes(e, o, f, o)
      BY ONLY Sound(e, o), <2>1, <2>4, SameGoes
    <2>6. SameTurns(n, f)
      BY ONLY <2>1, ReleaseRetiredOK
    <2>7. f.waiting = e.waiting /\ f.queued = {}
      BY <2>1, <2>6 DEF SameTurns, SamePlaces
    <2>8. Drained(e) = f
      BY <1>2 DEF Drained, n
    <2> QED BY ONLY <2>5, <2>7, <2>8
  <1>3. CASE ~ (e.running = <<>> /\ e.queued # {})
    <2>1. Drained(e) = e
      BY <1>3 DEF Drained
    <2>2. Ends(o, o, {}, Harmless)
      BY <1>1, EndsNone
    <2>3. RefusedBig(e, o, o)
      BY <2>2, HarmlessRefusesNobody
    <2>4. LoneStays(e, e)
      BY <1>1 DEF LoneStays, EngineOK, Places
    <2>5. SoonerKept(e, e)
      BY DEF SoonerKept
    <2>6. Goes(e, o, e, o)
      BY <2>3, <2>4, <2>5 DEF Goes
    <2> QED BY <1>3, <2>1, <2>6
  <1> QED BY <1>2, <1>3

\* What Sweep leaves before it drains.
Swept(e, left) ==
  LET e1 == [e EXCEPT !.waiting = Without(@, left), !.chunked = FALSE,
                      !.prefilling = IF @ \in left THEN None ELSE @]
  IN  IF e.prefilling \in left THEN Release(e1, {e.prefilling}) ELSE e1

LEMMA SweptIs ==
  ASSUME NEW e, NEW o, Sound(e, o), NEW left \in SUBSET (Range(e.waiting) \cup Pre(e))
  PROVE  LET f == Swept(e, left)
         IN  Left(e, f, left) /\ f.new = e.new /\ Context(f, {})
  <1> DEFINE w == Without(e.waiting, left)
             p == IF e.prefilling \in left THEN None ELSE e.prefilling
             h == [e EXCEPT !.waiting = w, !.chunked = FALSE, !.prefilling = p]
             rs == Pre(e) \cap left
             f == Swept(e, left)
  <1>1. /\ EngineOK(e, {}) /\ RetiredQueued(e) /\ Context(e, {}) /\ EngineTyped(e) /\ Places(e, {})
    BY SoundParts
  <1>2. /\ e = [waiting |-> e.waiting, running |-> e.running, prefilling |-> e.prefilling,
                id |-> e.id, new |-> e.new, queued |-> e.queued, retired |-> e.retired,
                slots |-> e.slots, chunked |-> e.chunked]
        /\ e.running \in Seq(Request) /\ e.waiting \in Seq(Request) /\ e.prefilling \in Request \cup {None}
        /\ Range(e.waiting) \subseteq Request /\ Pre(e) \subseteq Request
    BY <1>1, FieldTypes
  <1>3. Thinned(e.waiting, w, left) /\ Thinned(e.running, e.running, left)
    <2>1. Once(e.running) /\ Once(e.waiting) /\ Range(e.running) \cap left = {}
      BY <1>1 DEF Places
    <2> QED BY <1>2, <2>1, ThinIs
  <1>4. None \notin left
    BY <1>2, EngineAssumption
  <1>5. f = IF e.prefilling \in left THEN Release(h, {e.prefilling}) ELSE h
    BY DEF Swept
  <1> HIDE DEF w, h, f
  <1>6. h = [waiting |-> w, running |-> e.running, prefilling |-> p,
             id |-> e.id, new |-> e.new, queued |-> e.queued, retired |-> e.retired,
             slots |-> e.slots, chunked |-> FALSE]
    <2>1. h = [e EXCEPT !.waiting = w, !.chunked = FALSE, !.prefilling = p]
      BY DEF h
    <2> HIDE DEF p
    <2> QED BY <1>2, <2>1
  <1>7. w \in Seq(Request) /\ p \in Request \cup {None} /\ FALSE \in BOOLEAN
    BY <1>2, <1>3 DEF Thinned
  <1>8. EngineTyped(h)
    BY <1>1, <1>6, <1>7, FieldTypes DEF EngineTyped
  <1>9. /\ Moved(e, h) /\ h.running = e.running /\ h.waiting = w /\ h.new = e.new /\ h.queued = e.queued
    BY <1>6 DEF Moved
  <1>10. Pre(h) = Pre(e) \ left
    BY <1>4, <1>6 DEF Pre
  <1>11. left \cap Active(e, {}) \subseteq rs /\ rs \subseteq left \cap Members(e, {})
    BY <1>1 DEF Members, Active, Places
  <1>12. Thinned(e.running, h.running, left) /\ Thinned(e.waiting, h.waiting, left)
    BY <1>3, <1>9
  <1>13. CASE e.prefilling \in left
    <2>1. rs = {e.prefilling}
      BY <1>4, <1>13 DEF Pre
    <2>2. f = Release(h, rs)
      BY <1>5, <1>13, <2>1
    <2> DEFINE g == Release(h, rs)
    <2> HIDE DEF rs
    <2>3. Left(e, g, left) /\ g.new = e.new /\ \A ahead : Context(e, ahead) => Context(g, ahead)
      BY ONLY <1>1, <1>8, <1>9, <1>10, <1>11, <1>12, LeaveRelease
    <2> QED BY <1>1, <2>2, <2>3 DEF f
  <1>14. CASE e.prefilling \notin left
    <2>1. rs = {} /\ f = h
      BY <1>5, <1>14 DEF Pre
    <2>2. left \cap Active(e, {}) \subseteq {} /\ {} \subseteq left \cap Members(e, {})
      BY <1>11, <2>1
    <2>3. /\ EngineOK(h, {}) /\ (RetiredQueued(e) => RetiredQueued(h)) /\ Members(h, {}) = Members(e, {}) \ left
          /\ SoonerKept(e, h) /\ \A ahead : Context(e, ahead) => Context(h, ahead)
      BY ONLY <1>1, <1>8, <1>9, <1>10, <1>12, <2>2, LeaveOK
    <2>4. Range(h.running) = Range(e.running) \ left /\ Range(h.waiting) = Range(e.waiting) \ left
      BY <1>12 DEF Thinned
    <2>5. Left(e, h, left)
      BY <1>9, <2>3, <2>4 DEF Left
    <2> QED BY <1>1, <1>9, <2>1, <2>3, <2>5 DEF f
  <1> QED BY <1>13, <1>14

LEMMA SweepGoes ==
  ASSUME Sound(engine, outcome), Sweep
  PROVE  Goes(engine, outcome, engine', outcome') /\ (engine'.running = <<>> => engine'.queued = {})
  <1> DEFINE e == engine
             left == (Range(e.waiting) \cup Pre(e)) \cap (cancel \cup expired)
             f == Swept(e, left)
             p == End(End(outcome, left \cap expired, "deadline"), left \cap cancel, "dropped")
             g == Drained(f)
  <1>1. engine' = g /\ outcome' = p
    BY DEF Sweep, Swept, Pre
  <1>2. EngineOK(e, {}) /\ RetiredQueued(e) /\ outcome \in [Request -> Outcomes] /\ Places(e, {})
    BY SoundParts
  <1>3. left \in SUBSET (Range(e.waiting) \cup Pre(e)) /\ left \cap (cancel \cup expired) = left
    OBVIOUS
  <1> HIDE DEF left, f
  <1>4. Left(e, f, left) /\ f.new = e.new /\ Context(f, {})
    BY ONLY <1>3, Sound(engine, outcome), SweptIs DEF f
  <1>5. Ends(outcome, p, left, Harmless)
    BY <1>2, <1>3, LeftOutcome
  <1> HIDE DEF p, g
  <1>6. Harmless \in SUBSET Ended
    BY DEF Harmless
  <1>7. /\ EngineOK(f, {}) /\ RetiredQueued(f) /\ Members(f, {}) = Members(e, {}) \ left
        /\ SoonerKept(e, f) /\ Range(f.waiting) \subseteq Range(e.waiting)
        /\ \A t \in Request \ Members(e, {}) : f.new[t] = e.new[t]
    BY <1>2, <1>4 DEF Left
  <1>8. Sound(f, p) /\ Members(f, {}) \subseteq Members(e, {})
    BY ONLY <1>4, <1>5, <1>6, <1>7, Sound(engine, outcome), SoundAfter
  <1>9. RefusedBig(e, outcome, p)
    BY <1>5, HarmlessRefusesNobody
  <1>10. LoneStays(e, f)
    BY <1>2, <1>7 DEF LoneStays, Places
  <1>11. Goes(e, outcome, f, p)
    BY <1>7, <1>8, <1>9, <1>10 DEF Goes
  <1>12. Goes(f, p, g, p) /\ g.waiting = f.waiting /\ (g.running = <<>> => g.queued = {})
    BY ONLY <1>8, DrainedGoes DEF g
  <1>13. LoneStays(e, g)
    BY <1>10, <1>12 DEF LoneStays
  <1>14. Goes(e, outcome, g, p)
    BY ONLY <1>4, <1>5, <1>11, <1>12, <1>13, GoesTwice
  <1> QED BY <1>1, <1>12, <1>14

\* What the properties of a step need of it.
StepKeeps ==
  /\ SoonerKept(engine, engine') /\ RefusedBig(engine, outcome, outcome') /\ LoneStays(engine, engine')

\* The invariant after a step, from what the step does to its parts.
LEMMA InvAfter ==
  ASSUME Sound(engine', outcome'), phase' \in {"top", "admit", "decode"},
         cancel' \subseteq MayCancel, gone' \subseteq cancel', expired' \subseteq MayExpire,
         phase' = "admit" /\ engine'.running = <<>> => engine'.queued = {}
  PROVE  EngineInv'
  BY DEF EngineInv

LEMMA SweepKeeps ==
  ASSUME EngineInv, Sweep
  PROVE  EngineInv' /\ StepKeeps
  <1>1. Sound(engine, outcome)
    BY DEF EngineInv
  <1>2. Goes(engine, outcome, engine', outcome') /\ (engine'.running = <<>> => engine'.queued = {})
    BY ONLY <1>1, Sweep, SweepGoes
  <1>3. /\ phase' \in {"top", "admit", "decode"} /\ cancel' \subseteq MayCancel /\ gone' \subseteq cancel'
        /\ expired' \subseteq MayExpire
    BY DEF EngineInv, Sweep
  <1> QED BY <1>2, <1>3, InvAfter DEF Goes, StepKeeps

LEMMA CostFailsKeeps ==
  ASSUME EngineInv, CostFails
  PROVE  EngineInv' /\ StepKeeps
  <1> DEFINE e == engine
             r == Head(e.waiting)
             h == [e EXCEPT !.waiting = Tail(e.waiting)]
             f == Release(h, {r})
             p == End(outcome, {r}, "failed")
  <1>1. Sound(e, outcome)
    BY DEF EngineInv
  <1>2. /\ EngineOK(e, {}) /\ RetiredQueued(e) /\ Context(e, {}) /\ EngineTyped(e) /\ Places(e, {})
        /\ outcome \in [Request -> Outcomes]
    BY <1>1, SoundParts
  <1>3. e.waiting # <<>> /\ engine' = f /\ outcome' = p /\ UNCHANGED <<phase, cancel, gone, expired>>
    BY DEF CostFails
  <1>4. /\ e = [waiting |-> e.waiting, running |-> e.running, prefilling |-> e.prefilling,
                id |-> e.id, new |-> e.new, queued |-> e.queued, retired |-> e.retired,
                slots |-> e.slots, chunked |-> e.chunked]
        /\ e.running \in Seq(Request) /\ e.waiting \in Seq(Request)
    BY <1>2, FieldTypes
  <1>5. r \in Request /\ r \in Range(e.waiting) /\ Thinned(e.waiting, Tail(e.waiting), {r})
    BY <1>2, <1>3, <1>4, ThinEnds DEF Places
  <1>6. r \notin Range(e.running) /\ r \notin Pre(e)
    BY <1>2, <1>5 DEF Places
  <1>7. Thinned(e.running, e.running, {r})
    BY <1>2, <1>4, <1>6, ThinIs DEF Places
  <1>8. h = [waiting |-> Tail(e.waiting), running |-> e.running, prefilling |-> e.prefilling,
             id |-> e.id, new |-> e.new, queued |-> e.queued, retired |-> e.retired,
             slots |-> e.slots, chunked |-> e.chunked]
    <2> DEFINE w == Tail(e.waiting)
    <2>1. h = [e EXCEPT !.waiting = w]
      OBVIOUS
    <2> HIDE DEF w, e, h
    <2>2. h = [waiting |-> w, running |-> e.running, prefilling |-> e.prefilling,
               id |-> e.id, new |-> e.new, queued |-> e.queued, retired |-> e.retired,
               slots |-> e.slots, chunked |-> e.chunked]
      BY ONLY <1>4, <2>1
    <2> QED BY <2>2 DEF w
  <1> HIDE DEF h, f, p, r, e
  <1>9. EngineTyped(h)
    <2>1. Tail(e.waiting) \in Seq(Request)
      BY <1>5 DEF Thinned
    <2> QED BY <1>2, <1>8, <2>1, FieldTypes DEF EngineTyped
  <1>10. /\ Moved(e, h) /\ Pre(h) = Pre(e) \ {r} /\ h.running = e.running
         /\ Thinned(e.running, h.running, {r}) /\ Thinned(e.waiting, h.waiting, {r})
    BY <1>5, <1>6, <1>7, <1>8 DEF Moved, Pre
  <1>11. {r} \cap Active(e, {}) \subseteq {r} /\ {r} \subseteq {r} \cap Members(e, {})
    BY <1>5 DEF Members
  <1>12. /\ Left(e, f, {r}) /\ f.new = e.new /\ (\A ahead : Context(e, ahead) => Context(f, ahead))
         /\ f.running = h.running
    BY ONLY <1>2, <1>9, <1>10, <1>11, LeaveRelease DEF f
  <1>13. /\ EngineOK(f, {}) /\ RetiredQueued(f) /\ Context(f, {}) /\ Members(f, {}) = Members(e, {}) \ {r}
         /\ SoonerKept(e, f) /\ f.queued = e.queued /\ f.running = e.running
         /\ Range(f.waiting) \subseteq Range(e.waiting)
         /\ \A t \in Request \ Members(e, {}) : f.new[t] = e.new[t]
    BY <1>2, <1>10, <1>12 DEF Left
  <1>14. Ends(outcome, p, {r}, Harmless) /\ Harmless \in SUBSET Ended
    BY <1>2, FailEnds DEF p, Harmless, Ended
  <1>15. Sound(f, p)
    BY ONLY <1>1, <1>13, <1>14, SoundAfter
  <1>16. RefusedBig(e, outcome, p)
    BY <1>14, HarmlessRefusesNobody
  <1>17. LoneStays(e, f)
    BY <1>2, <1>13 DEF LoneStays, Places
  <1>18. EngineInv'
    BY <1>3, <1>13, <1>15, InvAfter DEF EngineInv, e
  <1> QED BY <1>3, <1>13, <1>16, <1>17, <1>18 DEF StepKeeps, e

LEMMA AdmitEndsKeeps ==
  ASSUME EngineInv, AdmitEnds
  PROVE  EngineInv' /\ StepKeeps
  <1>1. Sound(engine, outcome)
    BY DEF EngineInv
  <1>2. /\ \/ engine' = engine
           \/ (engine.prefilling # None \/ engine.waiting # <<>>) /\ engine' = WithPrefilling(engine)
        /\ phase' = "decode" /\ UNCHANGED <<outcome, cancel, gone, expired>>
    BY DEF AdmitEnds, CanAdmitNext
  <1>3. Goes(engine, outcome, engine', outcome')
    <2>1. CASE engine' = engine
      <3>1. Ends(outcome, outcome, {}, Harmless) /\ Places(engine, {})
        BY <1>1, SoundParts, EndsNone
      <3>2. RefusedBig(engine, outcome, outcome)
        BY <3>1, HarmlessRefusesNobody
      <3>3. LoneStays(engine, engine)
        BY <3>1 DEF LoneStays, Places
      <3>4. SoonerKept(engine, engine)
        BY DEF SoonerKept
      <3> QED BY <1>1, <1>2, <2>1, <3>2, <3>3, <3>4 DEF Goes
    <2>2. CASE (engine.prefilling # None \/ engine.waiting # <<>>) /\ engine' = WithPrefilling(engine)
      <3>1. Goes(engine, outcome, WithPrefilling(engine), outcome)
        BY ONLY <1>1, <2>2, PrefillNext
      <3> QED BY <1>2, <2>2, <3>1
    <2> QED BY <1>2, <2>1, <2>2
  <1> QED BY <1>2, <1>3, InvAfter DEF Goes, StepKeeps, EngineInv

LEMMA AdmitChunkKeeps ==
  ASSUME EngineInv, AdmitChunk
  PROVE  EngineInv' /\ StepKeeps
  <1> DEFINE e == WithPrefilling(engine)
  <1>1. Sound(engine, outcome) /\ (phase = "admit" /\ engine.running = <<>> => engine.queued = {})
    BY DEF EngineInv
  <1>2. Admitted(e, outcome, engine', outcome')
    BY ONLY <1>1, AdmitChunk, ChunkGoes
  <1>3. engine.prefilling # None \/ engine.waiting # <<>>
    BY DEF AdmitChunk, CanAdmitNext
  <1>4. /\ Goes(engine, outcome, e, outcome) /\ e.running = engine.running /\ e.new = engine.new
        /\ e.queued = engine.queued
    BY ONLY <1>1, <1>3, PrefillNext
  <1> HIDE DEF e
  <1>5. Goes(e, outcome, engine', outcome') /\ engine'.queued = e.queued /\ Range(e.running) \subseteq Range(engine'.running)
    BY <1>2 DEF Admitted
  <1>6. Sound(engine', outcome')
    BY <1>5 DEF Goes
  <1>7. Places(engine', {}) /\ EngineTyped(engine')
    BY ONLY <1>6, SoundParts
  <1>8. LoneStays(engine, engine')
    BY <1>4, <1>5, <1>7 DEF LoneStays, Places
  <1>9. Ends(outcome, outcome, {}, Harmless) /\ EngineTyped(engine)
    BY <1>1, SoundParts, EndsNone
  <1>10. Goes(engine, outcome, engine', outcome')
    BY ONLY <1>4, <1>5, <1>8, <1>9, GoesTwice
  <1>11. engine'.running = <<>> => engine.running = <<>>
    <2>1. engine.running \in Seq(Request) /\ engine'.running \in Seq(Request)
      BY <1>7, <1>9, FieldTypes
    <2>2. Range(engine.running) \subseteq Range(engine'.running)
      BY <1>4, <1>5
    <2>3. Range(engine'.running) = {} <=> engine'.running = <<>>
      BY ONLY <2>1, EmptyRange
    <2>4. Range(engine.running) = {} <=> engine.running = <<>>
      BY ONLY <2>1, EmptyRange
    <2> QED BY <2>2, <2>3, <2>4
  <1>12. phase = "admit" /\ phase' \in {"admit", "decode"} /\ UNCHANGED <<cancel, gone, expired>>
    BY DEF AdmitChunk
  <1>13. EngineInv'
    BY <1>1, <1>4, <1>5, <1>6, <1>11, <1>12, InvAfter DEF EngineInv
  <1> QED BY <1>10, <1>13 DEF Goes, StepKeeps

LEMMA DecodeKeeps ==
  ASSUME EngineInv, Decode
  PROVE  EngineInv' /\ StepKeeps
  <1> DEFINE e == engine
             f == Filtered(e)
             p == FilteredOutcome(e)
             rs == Range(e.running) \cap (cancel \cup expired)
  <1>1. Sound(e, outcome)
    BY DEF EngineInv
  <1>2. DecodeRunning(f, p) /\ phase' = "top" /\ UNCHANGED <<cancel, gone, expired>>
    BY DEF Decode
  <1>3. /\ Goes(e, outcome, f, p) /\ f.waiting = e.waiting /\ f.prefilling = e.prefilling /\ f.new = e.new
        /\ Range(f.running) \subseteq Range(e.running) /\ Ends(outcome, p, rs, Harmless)
    BY ONLY <1>1, FilterGoes
  <1> HIDE DEF f, p, rs
  <1>4. Sound(f, p)
    BY <1>3 DEF Goes
  <1>5. Goes(f, p, engine', outcome')
    BY ONLY <1>2, <1>4, DecodeGoes
  <1>6. LoneStays(e, engine')
    <2> SUFFICES ASSUME NEW r \in Request, Range(e.running) = {r}, Pre(e) = {}
                 PROVE  r \notin Range(engine'.waiting)
      BY DEF LoneStays
    <2>1. Pre(f) = {}
      BY <1>3 DEF Pre
    <2>2. CASE r \in Range(f.running)
      <3>1. Range(f.running) = {r}
        BY <1>3, <2>2
      <3> QED BY <1>5, <2>1, <3>1 DEF Goes, LoneStays
    <2>3. CASE r \notin Range(f.running)
      <3>1. Places(e, {})
        BY <1>1, SoundParts
      <3>2. r \notin Members(f, {})
        BY <1>3, <2>1, <2>3, <3>1 DEF Members, Active, Places
      <3>3. Range(engine'.waiting) \subseteq Members(engine', {})
        BY DEF Members
      <3> QED BY <1>5, <3>2, <3>3 DEF Goes
    <2> QED BY <2>2, <2>3
  <1>7. Goes(e, outcome, engine', outcome')
    BY ONLY <1>3, <1>5, <1>6, GoesTwice
  <1> QED BY <1>2, <1>7, InvAfter DEF Goes, StepKeeps, EngineInv

LEMMA SubmitKeeps ==
  ASSUME EngineInv, NEW r \in Request, Submit(r)
  PROVE  EngineInv' /\ StepKeeps
  <1> DEFINE e == engine
             w == Append(e.waiting, r)
             id == [e.id EXCEPT ![r] = FreshId(e)]
             f == [e EXCEPT !.waiting = w, !.id = id]
             p == [outcome EXCEPT ![r] = "live"]
  <1>1. Sound(e, outcome)
    BY DEF EngineInv
  <1>2. /\ EngineOK(e, {}) /\ RetiredQueued(e) /\ Context(e, {}) /\ EngineTyped(e) /\ Places(e, {})
        /\ outcome \in [Request -> Outcomes] /\ LiveIn(outcome) = Members(e, {})
    BY <1>1, SoundParts
  <1>3. /\ phase = "top" /\ outcome[r] = "unsent" /\ engine' = f /\ outcome' = p
        /\ UNCHANGED <<phase, cancel, gone, expired>>
    BY DEF Submit
  <1>4. /\ e = [waiting |-> e.waiting, running |-> e.running, prefilling |-> e.prefilling,
                id |-> e.id, new |-> e.new, queued |-> e.queued, retired |-> e.retired,
                slots |-> e.slots, chunked |-> e.chunked]
        /\ e.running \in Seq(Request) /\ e.waiting \in Seq(Request) /\ e.id \in [Request -> Ids \cup {0}]
    BY <1>2, FieldTypes
  <1>5. r \notin Members(e, {})
    BY <1>2, <1>3 DEF LiveIn
  <1>6. e.new[r] = 0 /\ MaxNew[r] \in Nat \ {0}
    BY <1>1, <1>3, EngineAssumption DEF Sound
  <1>7. FreshId(e) \in Ids
    BY <1>2, FreshIs
  <1>8. /\ w \in Seq(Request) /\ Range(w) = Range(e.waiting) \cup {r} /\ Once(w)
        /\ \A a, b : Before(e.waiting, a, b) => Before(w, a, b)
    <2>1. Once(e.waiting) /\ r \notin Range(e.waiting)
      BY <1>2, <1>5 DEF Places, Members
    <2>2. e.waiting \in Seq(Request)
      BY <1>4
    <2>3. w \in Seq(Request) /\ Grown(e.waiting, w, r)
      BY <2>2, AppendProperties DEF Grown
    <2> HIDE DEF w
    <2> QED BY ONLY <2>1, <2>2, <2>3, r \in Request, AppendLine
  <1>9. id \in [Request -> Ids \cup {0}] /\ id[r] = FreshId(e) /\ \A t \in Request \ {r} : id[t] = e.id[t]
    BY <1>4, <1>7
  <1> HIDE DEF w, id
  <1>10. f = [waiting |-> w, running |-> e.running, prefilling |-> e.prefilling,
              id |-> id, new |-> e.new, queued |-> e.queued, retired |-> e.retired,
              slots |-> e.slots, chunked |-> e.chunked]
    <2>1. f = [e EXCEPT !.waiting = w, !.id = id]
      OBVIOUS
    <2> HIDE DEF f, e
    <2> QED BY ONLY <1>4, <2>1
  <1> HIDE DEF f, e
  <1>11. EngineTyped(f)
    BY <1>2, <1>8, <1>9, <1>10, FieldTypes DEF EngineTyped
  <1>12. Joined(e, f, r)
    BY <1>8, <1>9, <1>10 DEF Joined
  <1>13. e.new[r] < MaxNew[r]
    BY <1>6
  <1>14. /\ EngineOK(f, {}) /\ RetiredQueued(f) /\ Members(f, {}) = Members(e, {}) \cup {r}
         /\ \A ahead : Context(e, ahead) => Context(f, ahead)
    BY ONLY <1>2, <1>5, <1>11, <1>12, <1>13, r \in Request, JoinOK
  <1>15. /\ p \in [Request -> Outcomes] /\ LiveIn(p) = LiveIn(outcome) \cup {r}
         /\ \A t \in Request : p[t] = outcome[t] \/ p[t] = "live"
    <2>1. p \in [Request -> Outcomes]
      BY <1>2 DEF Outcomes
    <2>2. \A t \in Request : p[t] = IF t = r THEN "live" ELSE outcome[t]
      BY <1>2
    <2> HIDE DEF p
    <2> QED BY <2>1, <2>2 DEF LiveIn
  <1> HIDE DEF p
  <1>16. f.new = e.new /\ f.running = e.running /\ f.queued = e.queued /\ f.prefilling = e.prefilling /\ f.waiting = w
    BY <1>10
  <1>17. Sound(f, p)
    <2>1. \A t \in Request : p[t] = "unsent" => f.new[t] = 0
      BY <1>1, <1>15, <1>16 DEF Sound
    <2> QED BY <1>2, <1>14, <1>15, <2>1 DEF Sound
  <1>18. SoonerKept(e, f)
    <2>1. Pre(f) = Pre(e)
      BY <1>16 DEF Pre
    <2> QED BY <1>8, <1>16, <2>1 DEF SoonerKept, Sooner
  <1>19. RefusedBig(e, outcome, p)
    BY <1>15 DEF RefusedBig
  <1>20. LoneStays(e, f)
    <2> SUFFICES ASSUME NEW t \in Request, Range(e.running) = {t}
                 PROVE  t \notin Range(f.waiting)
      BY DEF LoneStays
    <2>1. t \notin Range(e.waiting) /\ t # r
      BY <1>2, <1>5 DEF Places, Members, Active
    <2> QED BY <1>8, <1>16, <2>1
  <1>21. EngineInv'
    BY <1>3, <1>17, InvAfter DEF EngineInv
  <1> QED BY <1>3, <1>18, <1>19, <1>20, <1>21 DEF StepKeeps, e

LEMMA WriterKeeps ==
  ASSUME EngineInv, engine' = engine, outcome' = outcome, phase' = phase,
         cancel' \subseteq MayCancel, gone' \subseteq cancel', expired' \subseteq MayExpire
  PROVE  EngineInv' /\ StepKeeps
  <1>1. Sound(engine, outcome)
    BY DEF EngineInv
  <1>2. EngineInv'
    BY <1>1, InvAfter DEF EngineInv
  <1>3. Ends(outcome, outcome, {}, Harmless) /\ Places(engine, {})
    BY <1>1, SoundParts, EndsNone
  <1>4. RefusedBig(engine, outcome, outcome)
    BY <1>3, HarmlessRefusesNobody
  <1>5. LoneStays(engine, engine) /\ SoonerKept(engine, engine)
    BY <1>3 DEF LoneStays, SoonerKept, Places
  <1> QED BY <1>2, <1>4, <1>5 DEF StepKeeps

LEMMA InitSound ==
  ASSUME Init
  PROVE  EngineInv
  <1> DEFINE e == engine
  <1>1. /\ e = [waiting |-> <<>>, running |-> <<>>, prefilling |-> None, id |-> [r \in Request |-> 0],
                new |-> [r \in Request |-> 0], queued |-> {}, retired |-> {}, slots |-> [i \in {} |-> 0],
                chunked |-> FALSE]
        /\ phase = "top" /\ outcome = [r \in Request |-> "unsent"] /\ cancel = {} /\ gone = {} /\ expired = {}
    BY DEF Init
  <1> DEFINE s == [i \in {} |-> 0]
             z == [r \in Request |-> 0]
  <1>2. s \in Slots /\ DOMAIN s = {}
    <2>1. DOMAIN s = {} /\ s = [i \in DOMAIN s |-> s[i]]
      OBVIOUS
    <2>2. DOMAIN s \in SUBSET Ids /\ \A i \in DOMAIN s : s[i] \in Nat \ {0}
      BY <2>1
    <2> HIDE DEF s
    <2> QED BY <2>1, <2>2, SlotsFrom
  <1>3. z \in [Request -> Ids \cup {0}] /\ z \in [Request -> Nat] /\ \A r \in Request : z[r] = 0
    OBVIOUS
  <1>4. <<>> \in Seq(Request) /\ Range(<<>>) = {} /\ Once(<<>>)
    <2>1. <<>> \in Seq(Request) /\ Len(<<>>) = 0
      BY EmptySeq
    <2>2. Range(<<>>) = {}
      BY ONLY <2>1, EmptyRange
    <2>3. Once(<<>>)
      BY <2>1 DEF Once
    <2> QED BY <2>1, <2>2, <2>3
  <1>5. Cardinality({}) = 0 /\ Cardinality(Request) \in Nat
    BY FS_EmptySet, IdsFinite
  <1> HIDE DEF e
  <1>6. /\ e.waiting = <<>> /\ e.running = <<>> /\ e.prefilling = None /\ e.id = z /\ e.new = z
        /\ e.queued = {} /\ e.retired = {} /\ e.slots = s
    BY <1>1
  <1>7. EngineTyped(e)
    <2>1. /\ {} \in SUBSET Ids /\ {} \in SUBSET (Ids \X Request) /\ FALSE \in BOOLEAN
          /\ None \in Request \cup {None}
      OBVIOUS
    <2>2. Cardinality(e.queued) <= Cardinality(Request)
      BY <1>5, <1>6
    <2> HIDE DEF s, z
    <2>3. e = [waiting |-> <<>>, running |-> <<>>, prefilling |-> None, id |-> z, new |-> z,
               queued |-> {}, retired |-> {}, slots |-> s, chunked |-> FALSE]
      BY <1>1 DEF s, z
    <2> QED BY <1>2, <1>3, <1>4, <2>1, <2>2, <2>3 DEF EngineTyped
  <1> HIDE DEF s, z
  <1>8. Members(e, {}) = {} /\ Active(e, {}) = {} /\ Pre(e) = {} /\ Range(e.waiting) = {} /\ Range(e.running) = {}
    BY <1>4, <1>6 DEF Members, Active, Pre
  <1>9. Places(e, {})
    BY <1>4, <1>6, <1>8 DEF Places
  <1>10. Owned(e, {}) /\ RetiredQueued(e) /\ Context(e, {})
    BY <1>2, <1>6, <1>8 DEF Owned, RetiredQueued, Context
  <1>11. Fits(e)
    <2>1. Taken(e.slots) = 0
      BY <1>2, <1>6, SumEmpty DEF Taken
    <2>2. FreeBlocks(e) = NumBlocks
      BY <2>1, FreeIs, EngineAssumption
    <2> QED BY <2>2, EngineAssumption DEF Fits
  <1>12. Tokens(e)
    <2>1. \A r \in Request : MaxNew[r] \in Nat
      BY EngineAssumption
    <2> QED BY <1>3, <1>6, <1>8, <2>1 DEF Tokens
  <1>13. /\ outcome \in [Request -> Outcomes] /\ LiveIn(outcome) = {}
         /\ \A r \in Request : outcome[r] = "unsent" => e.new[r] = 0
    BY <1>1, <1>3, <1>6 DEF Outcomes, LiveIn
  <1>14. Sound(e, outcome)
    BY <1>7, <1>8, <1>9, <1>10, <1>11, <1>12, <1>13 DEF Sound, EngineOK
  <1> QED BY <1>1, <1>14 DEF EngineInv, e

\* Every step keeps the invariant, and does what the properties of a step say.
LEMMA NextKeeps ==
  ASSUME EngineInv, [Next]_vars
  PROVE  EngineInv' /\ StepKeeps
  <1>1. CASE Sweep
    BY <1>1, SweepKeeps
  <1>2. CASE CostFails
    BY <1>2, CostFailsKeeps
  <1>3. CASE AdmitEnds
    BY <1>3, AdmitEndsKeeps
  <1>4. CASE AdmitChunk
    BY <1>4, AdmitChunkKeeps
  <1>5. CASE Decode
    BY <1>5, DecodeKeeps
  <1>6. ASSUME NEW r \in Request, Submit(r) PROVE EngineInv' /\ StepKeeps
    BY <1>6, SubmitKeeps
  <1>7. ASSUME NEW r \in Request, Cancel(r) PROVE EngineInv' /\ StepKeeps
    BY <1>7, WriterKeeps DEF Cancel, EngineInv
  <1>8. ASSUME NEW r \in Request, DropEvents(r) PROVE EngineInv' /\ StepKeeps
    BY <1>8, WriterKeeps DEF DropEvents, EngineInv
  <1>9. ASSUME NEW r \in Request, Expire(r) PROVE EngineInv' /\ StepKeeps
    BY <1>9, WriterKeeps DEF Expire, EngineInv
  <1>10. CASE UNCHANGED vars
    BY <1>10, WriterKeeps DEF vars, EngineInv
  <1> QED BY <1>1, <1>2, <1>3, <1>4, <1>5, <1>6, <1>7, <1>8, <1>9, <1>10 DEF Next, EngineStep

----------------------------------------------------------------------------
(* What the runs check, of the invariant and of a step.                    *)

LineOf(e) == e.running \o (IF e.prefilling = None THEN <<>> ELSE <<e.prefilling>>) \o e.waiting

LEMMA LineIs ==
  ASSUME NEW e, EngineTyped(e), Places(e, {})
  PROVE  /\ LineOf(e) \in Seq(Request) /\ Once(LineOf(e)) /\ Range(LineOf(e)) = Members(e, {})
         /\ \A a, b : Before(LineOf(e), a, b) <=> Sooner(e, a, b)
         /\ Range(e.running \o (IF e.prefilling = None THEN <<>> ELSE <<e.prefilling>>)) = Active(e, {})
  <1> DEFINE q == IF e.prefilling = None THEN <<>> ELSE <<e.prefilling>>
             s == e.running
             t == e.waiting
             u == s \o q
  <1>1. s \in Seq(Request) /\ t \in Seq(Request) /\ e.prefilling \in Request \cup {None} /\ Pre(e) \subseteq Request
    BY FieldTypes
  <1>2. q \in Seq(Request) /\ Range(q) = Pre(e) /\ Once(q) /\ \A a, b : ~ Before(q, a, b)
    <2>1. CASE e.prefilling = None
      <3>1. <<>> \in Seq(Request) /\ Len(<<>>) = 0 /\ DOMAIN <<>> = {}
        OBVIOUS
      <3>2. Range(<<>>) = {}
        BY <3>1, EmptyRange
      <3>3. Once(<<>>) /\ \A a, b : ~ Before(<<>>, a, b)
        BY <3>1 DEF Once, Before
      <3> QED BY <2>1, <3>1, <3>2, <3>3 DEF Pre
    <2>2. CASE e.prefilling # None
      <3> DEFINE p == e.prefilling
                 o == <<p>>
      <3>1. p \in Request
        BY <1>1, <2>2
      <3>2. o \in Seq(Request) /\ Len(o) = 1 /\ DOMAIN o = 1 .. 1 /\ o[1] = p
        BY <3>1
      <3> HIDE DEF o
      <3>3. Once(o) /\ \A a, b : ~ Before(o, a, b)
        BY <3>2 DEF Once, Before
      <3>4. Range(o) = {p}
        BY <3>2 DEF Range
      <3>5. q = o
        BY <2>2 DEF o
      <3> QED BY <2>2, <3>2, <3>3, <3>4, <3>5 DEF Pre
    <2> QED BY <2>1, <2>2
  <1> HIDE DEF q
  <1>3. u \in Seq(Request) /\ Range(u) = Range(s) \cup Pre(e)
        /\ \A a, b : Before(u, a, b) <=> Before(s, a, b) \/ (a \in Range(s) /\ b \in Pre(e))
    <2>1. u \in Seq(Request) /\ Range(u) = Range(s) \cup Range(q)
      BY <1>1, <1>2, ConcatBefore
    <2>2. \A a, b : Before(u, a, b) <=> Before(s, a, b) \/ Before(q, a, b) \/ (a \in Range(s) /\ b \in Range(q))
      BY <1>1, <1>2, ConcatBefore
    <2> QED BY <1>2, <2>1, <2>2
  <1>4. Once(u)
    <2>1. Once(s) /\ Range(s) \cap Range(q) = {}
      BY <1>2 DEF Places
    <2> QED BY <1>1, <1>2, <2>1, OnceConcat
  <1> HIDE DEF u
  <1>5. /\ u \o t \in Seq(Request) /\ Range(u \o t) = Range(u) \cup Range(t)
        /\ \A a, b : Before(u \o t, a, b) <=> Before(u, a, b) \/ Before(t, a, b) \/ (a \in Range(u) /\ b \in Range(t))
    BY <1>1, <1>3, ConcatBefore
  <1>6. Once(u \o t)
    <2>1. Once(t) /\ Range(u) \cap Range(t) = {}
      BY <1>3 DEF Places
    <2> QED BY <1>1, <1>3, <1>4, <2>1, OnceConcat
  <1>7. LineOf(e) = u \o t
    BY DEF LineOf, u, q
  <1>8. \A a, b : Before(LineOf(e), a, b) <=> Sooner(e, a, b)
    <2> SUFFICES ASSUME NEW a, NEW b PROVE Before(u \o t, a, b) <=> Sooner(e, a, b)
      BY <1>7
    <2> QED BY <1>3, <1>5 DEF Sooner
  <1>9. Range(u) = Active(e, {}) /\ Range(u \o t) = Members(e, {})
    BY <1>3, <1>5 DEF Active, Members
  <1> QED BY <1>5, <1>6, <1>7, <1>8, <1>9 DEF u, q

LEMMA LineNow ==
  /\ Line = LineOf(engine) /\ Line' = LineOf(engine')
  /\ engine.running \o Prefillings = engine.running \o (IF engine.prefilling = None THEN <<>> ELSE <<engine.prefilling>>)
  BY DEF Line, Prefillings, LineOf

LEMMA InvTypes ==
  ASSUME EngineInv
  PROVE  TypeOK
  <1>1. /\ Sound(engine, outcome) /\ phase \in {"top", "admit", "decode"}
        /\ cancel \subseteq MayCancel /\ gone \subseteq cancel /\ expired \subseteq MayExpire
    BY DEF EngineInv
  <1>2. EngineTyped(engine) /\ Fits(engine) /\ Tokens(engine) /\ outcome \in [Request -> Outcomes]
    BY <1>1, SoundParts
  <1>3. /\ engine.waiting \in Seq(Request) /\ engine.running \in Seq(Request)
        /\ engine.prefilling \in Request \cup {None}
        /\ engine.id \in [Request -> Ids \cup {0}] /\ engine.new \in [Request -> Nat]
        /\ engine.queued \in SUBSET Ids /\ engine.retired \in SUBSET (Ids \X Request)
        /\ engine.slots \in Slots /\ engine.chunked \in BOOLEAN
    BY <1>2, FieldTypes
  <1>4. \A r \in Request : engine.new[r] \in 0 .. MaxNew[r]
    <2>1. \A r \in Request : engine.new[r] \in Nat /\ MaxNew[r] \in Nat /\ engine.new[r] <= MaxNew[r]
      BY <1>2, <1>3, EngineAssumption DEF Tokens
    <2> QED BY <2>1
  <1> DEFINE s == engine.slots
  <1>5. DOMAIN s \in SUBSET Ids /\ \A i \in DOMAIN s : s[i] \in 1 .. NumBlocks * BlockTokens
    <2>1. DOMAIN s \in SUBSET Ids /\ \A i \in DOMAIN s : s[i] \in Nat \ {0}
      BY <1>3, SlotsAre
    <2> SUFFICES ASSUME NEW i \in DOMAIN s PROVE s[i] \in 1 .. NumBlocks * BlockTokens
      BY <2>1
    <2> DEFINE n == s[i]
               d == DivCeil(n)
    <2>2. n \in Nat \ {0}
      BY <2>1
    <2>3. d \in Nat /\ n <= d * BlockTokens
      BY <2>2, DivCeilFacts
    <2>4. d <= Taken(s) /\ Taken(s) \in Nat
      BY <1>3, TakenAtLeast, TakenIs
    <2>5. NumBlocks - Taken(s) \in Nat
      BY <1>2, FreeIs DEF Fits
    <2>6. NumBlocks \in Nat /\ BlockTokens \in Nat
      BY EngineAssumption
    <2> HIDE DEF d, n, s
    <2>7. d <= NumBlocks
      BY ONLY <2>3, <2>4, <2>5, <2>6
    <2>8. d * BlockTokens <= NumBlocks * BlockTokens /\ d * BlockTokens \in Nat /\ NumBlocks * BlockTokens \in Nat
      <3>1. PICK k \in Nat : NumBlocks = d + k
        <4>1. NumBlocks - d \in Nat /\ NumBlocks = d + (NumBlocks - d)
          BY ONLY <2>3, <2>6, <2>7
        <4> QED BY ONLY <4>1
      <3>2. NumBlocks * BlockTokens = d * BlockTokens + k * BlockTokens /\ k * BlockTokens \in Nat /\ d * BlockTokens \in Nat
        BY ONLY <2>3, <2>6, <3>1
      <3> QED BY ONLY <3>2
    <2>9. n \in 1 .. NumBlocks * BlockTokens
      BY ONLY <2>2, <2>3, <2>8
    <2> QED BY <2>9 DEF n
  <1>6. outcome \in [Request -> {"unsent", "live"} \cup Ended]
    BY <1>2 DEF Outcomes
  <1> QED BY <1>1, <1>3, <1>4, <1>5, <1>6 DEF TypeOK

LEMMA InvHeldOnce ==
  ASSUME EngineInv
  PROVE  HeldOnce
  <1>1. EngineTyped(engine) /\ Places(engine, {}) /\ LiveIn(outcome) = Members(engine, {})
    BY SoundParts DEF EngineInv
  <1>2. Line \in Seq(Request) /\ Once(Line) /\ Range(Line) = Members(engine, {})
    BY ONLY <1>1, LineIs, LineNow
  <1>3. Len(Line) = Cardinality(Range(Line))
    BY ONLY <1>2, OnceCounts
  <1> QED BY <1>1, <1>2, <1>3, InvTypes DEF HeldOnce, LiveIn

LEMMA InvBlocks ==
  ASSUME EngineInv
  PROVE  BlocksFollowTurns
  <1>1. /\ EngineTyped(engine) /\ Places(engine, {}) /\ Owned(engine, {}) /\ RetiredQueued(engine)
        /\ Context(engine, {})
    BY SoundParts DEF EngineInv
  <1>2. QueuedRowsKeepBlocks
    BY <1>1 DEF QueuedRowsKeepBlocks, Owned, RetiredQueued
  <1>3. BlocksHaveOneOwner
    <2> SUFFICES ASSUME NEW i \in DOMAIN engine.slots
                 PROVE  Cardinality({r \in Range(engine.running \o Prefillings) : engine.id[r] = i}
                                      \cup {p \in engine.retired : p[1] = i}) = 1
      BY DEF BlocksHaveOneOwner
    <2> DEFINE A == Active(engine, {})
               owners == {r \in A : engine.id[r] = i} \cup {p \in engine.retired : p[1] = i}
    <2>1. Range(engine.running \o Prefillings) = A
      BY ONLY <1>1, LineIs, LineNow
    <2>2. A \subseteq Members(engine, {})
      BY DEF Members
    <2> HIDE DEF A
    <2>3. (\E r \in A : engine.id[r] = i) \/ (\E p \in engine.retired : p[1] = i)
      BY <1>1 DEF Owned, A
    <2>4. (\A r, t \in A : engine.id[r] = i /\ engine.id[t] = i => r = t)
          /\ (\A p \in engine.retired : \A r \in A : ~ (p[1] = i /\ engine.id[r] = i))
          /\ (\A p, q \in engine.retired : p[1] = i /\ q[1] = i => p = q)
      BY <1>1, <2>2 DEF Owned
    <2>5. \E x : owners = {x}
      <3>1. \E x : x \in owners
        BY <2>3
      <3>2. \A x, y \in owners : x = y
        BY <2>4
      <3> HIDE DEF owners
      <3> QED BY <3>1, <3>2
    <2>6. Cardinality(owners) = 1
      <3> HIDE DEF owners
      <3> QED BY <2>5, FS_Singleton
    <2> QED BY <2>1, <2>6
  <1>4. SlotsMatchContext
    <2> SUFFICES ASSUME NEW r \in Range(engine.running)
                 PROVE  /\ engine.id[r] \in DOMAIN engine.slots
                        /\ engine.slots[engine.id[r]] =
                             PromptTokens[r] + engine.new[r] - (IF engine.id[r] \in engine.queued THEN 0 ELSE 1)
      BY DEF SlotsMatchContext
    <2>1. /\ engine.id[r] \in DOMAIN engine.slots
          /\ engine.slots[engine.id[r]] = PromptTokens[r] + engine.new[r] + (IF r \in {} THEN 1 ELSE 0)
                                            - (IF engine.id[r] \in engine.queued THEN 0 ELSE 1)
      BY <1>1 DEF Context
    <2>2. PromptTokens[r] \in Nat /\ engine.new[r] \in Nat
      BY <1>1, FieldTypes, EngineAssumption
    <2> QED BY <2>1, <2>2
  <1> QED BY <1>2, <1>3, <1>4 DEF BlocksFollowTurns

\* The invariant the proofs go by: turns, IDs, blocks and outcomes agree, in
\* every phase of the loop, after any number of steps of the engine, of the
\* writers and of the clock.
THEOREM EngineInvariant == Spec => []EngineInv
  <1>1. Init => EngineInv
    BY InitSound
  <1>2. EngineInv /\ [Next]_vars => EngineInv'
    BY NextKeeps
  <1> QED BY <1>1, <1>2, PTL DEF Spec

\* A submitted turn is in exactly one of waiting, prefilling and running until
\* its last event is sent, and in none afterwards, whatever requeue,
\* release_sequence, retain and the failure paths do: the loop neither loses a
\* Sequence nor keeps one that ended, for any number of turns, any pool and
\* any batch limit.
THEOREM TurnsHeldOnce == Spec => []HeldOnce
  <1>1. EngineInv => HeldOnce
    BY InvHeldOnce
  <1> QED BY <1>1, EngineInvariant, PTL

\* The rows of a queued step keep their blocks until it is read back, every ID
\* with blocks has one owner that will free it (a running turn, the
\* prefilling one or the retired list), and a running turn has slots for just
\* the tokens before its next input.
THEOREM BlocksFollow == Spec => []BlocksFollowTurns
  <1>1. EngineInv => BlocksFollowTurns
    BY InvBlocks
  <1> QED BY <1>1, EngineInvariant, PTL

\* admit and preempt fail a turn for lack of blocks ("the prompt does not fit
\* the KV pool", "the sequence outgrew the KV pool") only when the turn alone
\* needs more blocks than the pool has.
THEOREM OnlyTooBigRefused == Spec => RefusedOnlyIfTooBig
  <1>1. EngineInv /\ [Next]_vars =>
          \A r \in Request :
            /\ outcome[r] # "nofit" /\ outcome'[r] = "nofit" =>
                 DivCeil(PrefillTokens(engine, r)) > NumBlocks
            /\ outcome[r] # "outgrew" /\ outcome'[r] = "outgrew" =>
                 DivCeil(PromptTokens[r] + engine.new[r]) > NumBlocks
    BY NextKeeps DEF StepKeeps, RefusedBig
  <1> QED BY <1>1, EngineInvariant, PTL DEF Spec, RefusedOnlyIfTooBig

\* preempt never takes the blocks of a turn that runs alone.
THEOREM LoneTurnStays == Spec => LoneTurnKeepsItsBlocks
  <1>1. EngineInv /\ [Next]_vars =>
          \A r \in Request :
            engine.running = <<r>> /\ engine.prefilling = None => r \notin Range(engine'.waiting)
    <2> SUFFICES ASSUME EngineInv, [Next]_vars, NEW r \in Request, engine.running = <<r>>, engine.prefilling = None
                 PROVE  r \notin Range(engine'.waiting)
      OBVIOUS
    <2>1. Range(engine.running) = {r}
      <3> DEFINE s == <<r>>
      <3>1. DOMAIN s = 1 .. 1 /\ s[1] = r
        OBVIOUS
      <3> HIDE DEF s
      <3>2. Range(s) = {r}
        BY <3>1 DEF Range
      <3> QED BY <3>2 DEF s
    <2> QED BY <2>1, NextKeeps DEF StepKeeps, LoneStays, Pre
  <1> QED BY <1>1, EngineInvariant, PTL DEF Spec, LoneTurnKeepsItsBlocks

\* Turns keep their order of arrival among those that are held: requeue puts a
\* preempted turn before every waiter, and only the youngest is preempted.
THEOREM OrderStays == Spec => OrderKept
  <1>1. EngineInv /\ [Next]_vars =>
          \A a, b \in Range(Line) \cap Range(Line)' : Before(Line, a, b) => Before(Line', a, b)
    <2> SUFFICES ASSUME EngineInv, [Next]_vars,
                        NEW a \in Range(Line) \cap Range(Line'), NEW b \in Range(Line) \cap Range(Line'),
                        Before(Line, a, b)
                 PROVE  Before(Line', a, b)
      OBVIOUS
    <2>1. EngineInv' /\ SoonerKept(engine, engine')
      BY NextKeeps DEF StepKeeps
    <2>2. Sound(engine, outcome) /\ Sound(engine', outcome')
      BY <2>1 DEF EngineInv
    <2>3. EngineTyped(engine) /\ Places(engine, {}) /\ EngineTyped(engine') /\ Places(engine', {})
      BY <2>2, SoundParts
    <2>4. /\ Range(Line) = Members(engine, {}) /\ \A x, y : Before(Line, x, y) <=> Sooner(engine, x, y)
          /\ Range(Line') = Members(engine', {}) /\ \A x, y : Before(Line', x, y) <=> Sooner(engine', x, y)
      <3>1. /\ Range(LineOf(engine)) = Members(engine, {})
            /\ \A x, y : Before(LineOf(engine), x, y) <=> Sooner(engine, x, y)
        BY ONLY <2>3, LineIs
      <3>2. /\ Range(LineOf(engine')) = Members(engine', {})
            /\ \A x, y : Before(LineOf(engine'), x, y) <=> Sooner(engine', x, y)
        BY ONLY <2>3, LineIs
      <3> QED BY ONLY <3>1, <3>2, LineNow
    <2>5. Sooner(engine', a, b)
      BY <2>1, <2>4 DEF SoonerKept
    <2> QED BY <2>4, <2>5
  <1> QED BY <1>1, EngineInvariant, PTL DEF Spec, OrderKept

=============================================================================
