-------------------------- MODULE BlockLedgerProofs --------------------------
(***************************************************************************)
(* The invariants of BlockLedger, for every pool, every finite set of      *)
(* sequence IDs and every set of keys.                                     *)
(***************************************************************************)
EXTENDS BlockLedger, FiniteSetTheorems, TLAPS

(* The holders of a block are finitely many, so counting them makes sense. *)
LEMMA HoldersFinite == \A b : IsFiniteSet(Holders(b))
  <1>1. \A b : Holders(b) \subseteq SequenceId
    BY DEF Holders
  <1>2. QED BY <1>1, LedgerAssumption, FS_Subset

(* One more, one fewer and no holders, as counted by a reference count.    *)
LEMMA CountAdd ==
  ASSUME NEW S, IsFiniteSet(S), NEW x, x \notin S
  PROVE  Cardinality(S \cup {x}) = Cardinality(S) + 1
  BY FS_AddElement

LEMMA CountRemove ==
  ASSUME NEW S, IsFiniteSet(S), NEW x, x \in S
  PROVE  Cardinality(S \ {x}) = Cardinality(S) - 1
  BY FS_RemoveElement

LEMMA CountZero ==
  ASSUME NEW S, IsFiniteSet(S)
  PROVE  Cardinality(S) \in Nat /\ (Cardinality(S) = 0 <=> S = {})
  BY FS_CardinalityType, FS_EmptySet

LEMMA CountOne ==
  ASSUME NEW x
  PROVE  Cardinality({x}) = 1
  BY FS_Singleton

(* A count above one means somebody else holds the block too.              *)
LEMMA CountShared ==
  ASSUME NEW S, IsFiniteSet(S), NEW x, x \in S, ~(Cardinality(S) > 1)
  PROVE  S = {x}
  <1>1. IsFiniteSet(S \ {x}) /\ Cardinality(S \ {x}) = Cardinality(S) - 1
    BY FS_RemoveElement
  <1>2. Cardinality(S \ {x}) \in Nat /\ Cardinality(S) \in Nat
    BY <1>1, CountZero
  <1>3. Cardinality(S \ {x}) = 0
    BY <1>1, <1>2
  <1>4. S \ {x} = {}
    BY <1>1, <1>3, CountZero
  <1> QED BY <1>4

(* The empty pool satisfies the invariant.                                 *)
LEMMA LedgerInit == Init => LedgerInv
  <1> SUFFICES ASSUME Init PROVE LedgerInv OBVIOUS
  <1> USE LedgerAssumption DEF Init
  <1>1. TypeOK BY DEF TypeOK
  <1>2. Shape BY DEF Shape
  <1>3. CountsExact
    <2>1. \A b \in Block : Holders(b) = {} BY DEF Holders
    <2> QED BY <2>1, FS_EmptySet DEF CountsExact
  <1>4. OpenIsPartial BY DEF OpenIsPartial
  <1>5. DirtyIsPrivate BY DEF DirtyIsPrivate
  <1>6. KeysUnique BY DEF KeysUnique
  <1> QED BY <1>1, <1>2, <1>3, <1>4, <1>5, <1>6 DEF LedgerInv

(***************************************************************************)
(* Preservation, one lemma per action.  Each follows the same plan: how    *)
(* the action changes the holders of every block, hence CountsExact; then  *)
(* the parts about open and dirty blocks.                                  *)
(***************************************************************************)

(* admit keeps the invariant: a taken block had no holder and no key, a    *)
(* pinned one is published and therefore neither open nor dirty.           *)
LEMMA AdmitPreserves ==
  ASSUME LedgerInv, NEW s \in SequenceId,
         NEW pinned \in SUBSET Block, NEW taken \in SUBSET Block,
         Admit(s, pinned, taken)
  PROVE  LedgerInv'
  <1> USE LedgerAssumption DEF LedgerInv, Admit, Evict
  <1>1. TypeOK' BY DEF TypeOK
  <1>2. Shape' BY DEF TypeOK, Shape
  <1>3. ASSUME NEW b \in Block
        PROVE  Holders(b)' = IF b \in pinned \cup taken THEN Holders(b) \cup {s} ELSE Holders(b)
    BY DEF TypeOK, Shape, Holders
  <1>4. \A b \in Block : s \notin Holders(b)
    BY DEF Shape, Holders
  <1>5. \A b \in taken : Holders(b) = {}
    BY HoldersFinite, CountZero DEF CountsExact, TypeOK
  <1>6. CountsExact'
    <2> SUFFICES ASSUME NEW b \in Block
                 PROVE  /\ refs'[b] = Cardinality(Holders(b)')
                        /\ b \in free' <=> refs'[b] = 0
      BY DEF CountsExact, Holders
    <2>1. CASE b \in taken
      <3>1. Holders(b)' = {s}
        BY <2>1, <1>3, <1>5
      <3>2. Cardinality(Holders(b)') = 1
        BY <3>1, CountOne
      <3> QED BY <2>1, <3>2
    <2>2. CASE b \in pinned \ taken
      <3>1. Cardinality(Holders(b)') = Cardinality(Holders(b)) + 1
        BY <2>2, <1>3, <1>4, HoldersFinite, CountAdd
      <3> QED BY <2>2, <3>1 DEF TypeOK, CountsExact
    <2>3. CASE b \notin pinned \cup taken
      BY <2>3, <1>3 DEF TypeOK, CountsExact
    <2> QED BY <2>1, <2>2, <2>3
  <1>7. OpenIsPartial'
    <2>1. \A t \in SequenceId : open[t] \notin taken
      BY <1>5 DEF Shape, Holders, TypeOK
    <2>2. \A t \in SequenceId : open[t] # None => open[t] \notin pinned
      BY DEF OpenIsPartial
    <2> QED BY <1>5, <2>1, <2>2 DEF OpenIsPartial, TypeOK, Holders, Shape
  <1>8. DirtyIsPrivate'
    <2> SUFFICES ASSUME NEW t \in live', NEW b \in dirty'[t]
                 PROVE  Holders(b)' = {t} /\ key'[b] = None
      BY DEF DirtyIsPrivate, Holders
    <2>1. CASE t = s
      BY <2>1, <1>3, <1>5 DEF TypeOK
    <2>2. CASE t # s
      <3>1. t \in live /\ b \in dirty[t] /\ b \in Block
        BY <2>2 DEF TypeOK
      <3>2. Holders(b) = {t} /\ key[b] = None
        BY <3>1 DEF DirtyIsPrivate
      <3>3. b \notin pinned \cup taken
        BY <3>1, <3>2, <1>5
      <3> QED BY <3>1, <3>2, <3>3, <1>3
    <2> QED BY <2>1, <2>2
  <1>9. KeysUnique' BY DEF KeysUnique, TypeOK
  <1> QED BY <1>1, <1>2, <1>6, <1>7, <1>8, <1>9 DEF LedgerInv

(* An append into the sequence's own open block makes it dirty; it is held *)
(* by nobody else because otherwise a copy was due.                        *)
LEMMA AppendInPlacePreserves ==
  ASSUME LedgerInv, NEW s \in SequenceId, AppendInPlace(s)
  PROVE  LedgerInv'
  <1> USE LedgerAssumption DEF LedgerInv, AppendInPlace
  <1>1. TypeOK' BY DEF TypeOK
  <1>2. Shape' BY DEF TypeOK, Shape
  <1>3. \A b \in Block : Holders(b)' = Holders(b)
    BY DEF Holders
  <1>4. CountsExact' BY <1>3 DEF CountsExact
  <1>5. open[s] \in Block /\ s \in Holders(open[s]) /\ key[open[s]] = None
    BY DEF TypeOK, Shape, OpenIsPartial, Holders
  <1>6. Holders(open[s]) = {s}
    BY <1>5, HoldersFinite, CountShared DEF NeedsCopy, CountsExact
  <1>7. OpenIsPartial'
    <2>1. \A t \in SequenceId : t # s => open'[t] = open[t]
      BY DEF TypeOK
    <2>2. open'[s] \in {open[s], None} /\ holds' = holds /\ key' = key
      BY DEF TypeOK
    <2>3. \A t \in SequenceId : open[s] \in holds[t] => t = s
      BY <1>6 DEF Holders
    <2>4. \A t \in SequenceId : t # s /\ open[t] # None => open[t] \notin holds[s]
      BY <2>3 DEF OpenIsPartial, Shape
    <2> SUFFICES ASSUME NEW t \in SequenceId, open'[t] # None
                 PROVE  /\ key'[open'[t]] = None
                        /\ \A u \in SequenceId : open'[t] \in holds'[u] => open'[u] = open'[t]
      BY DEF OpenIsPartial
    <2>5. CASE t = s
      BY <2>5, <2>2, <2>3, <1>5
    <2>6. CASE t # s
      BY <2>6, <2>1, <2>2, <2>4 DEF OpenIsPartial
    <2> QED BY <2>5, <2>6
  <1>8. DirtyIsPrivate'
    BY <1>3, <1>5, <1>6 DEF DirtyIsPrivate, TypeOK
  <1>9. KeysUnique' BY DEF KeysUnique
  <1> QED BY <1>1, <1>2, <1>4, <1>7, <1>8, <1>9 DEF LedgerInv

(* An append that takes blocks, with or without copy-on-write.             *)
LEMMA AppendTakingPreserves ==
  ASSUME LedgerInv, NEW s \in SequenceId, NEW taken \in SUBSET Block,
         AppendTaking(s, taken)
  PROVE  LedgerInv'
  <1> DEFINE left == IF NeedsCopy(s) THEN {open[s]} ELSE {}
  <1> USE LedgerAssumption DEF LedgerInv, AppendTaking, Evict
  <1>1. left \subseteq Block /\ left \subseteq holds[s]
    BY DEF NeedsCopy, TypeOK, Shape
  <1>2. \A b \in taken : Holders(b) = {}
    BY HoldersFinite, CountZero DEF CountsExact, TypeOK
  <1>3. left \cap taken = {}
    BY <1>1, <1>2 DEF Holders
  <1>4. \A b \in left : refs[b] > 1 /\ b = open[s] /\ key[b] = None
    BY DEF NeedsCopy, OpenIsPartial
  <1>5. TypeOK'
    BY <1>1, <1>4 DEF TypeOK
  <1>6. Shape'
    <2>1. \A t \in SequenceId : t # s =>
            holds'[t] = holds[t] /\ open'[t] = open[t] /\ dirty'[t] = dirty[t]
      BY DEF TypeOK
    <2>2. /\ holds'[s] = (holds[s] \ left) \cup taken
          /\ open'[s] \in taken \cup {None}
          /\ dirty'[s] = dirty[s] \cup taken \cup ({open[s]} \ (left \cup {None}))
      BY DEF TypeOK
    <2>3. dirty[s] \cap left = {}
      <3> SUFFICES ASSUME NEW b \in dirty[s], b \in left PROVE FALSE OBVIOUS
      <3>1. Holders(b) = {s} /\ b \in Block
        BY <1>1 DEF DirtyIsPrivate
      <3>2. Cardinality({s}) > 1
        BY <3>1, <1>4 DEF CountsExact
      <3>3. Cardinality({s}) = 1
        BY CountOne
      <3> QED BY <3>2, <3>3
    <2>4. dirty'[s] \subseteq holds'[s]
      BY <2>2, <2>3 DEF Shape
    <2>5. live' = live /\ s \in live
      OBVIOUS
    <2> SUFFICES ASSUME NEW t \in SequenceId
                 PROVE  /\ t \notin live' => holds'[t] = {} /\ open'[t] = None /\ dirty'[t] = {}
                        /\ open'[t] # None => open'[t] \in holds'[t]
                        /\ dirty'[t] \subseteq holds'[t]
      BY DEF Shape
    <2>6. CASE t = s
      BY <2>6, <2>2, <2>4, <2>5
    <2>7. CASE t # s
      BY <2>7, <2>1, <2>5 DEF Shape
    <2> QED BY <2>6, <2>7
  <1>7. ASSUME NEW b \in Block
        PROVE  Holders(b)' = IF b \in taken THEN {s}
                             ELSE IF b \in left THEN Holders(b) \ {s} ELSE Holders(b)
    BY <1>1, <1>2, <1>3 DEF TypeOK, Holders
  <1>8. CountsExact'
    <2> SUFFICES ASSUME NEW b \in Block
                 PROVE  /\ refs'[b] = Cardinality(Holders(b)')
                        /\ b \in free' <=> refs'[b] = 0
      BY DEF CountsExact, Holders
    <2>1. CASE b \in taken
      <3>1. Holders(b)' = {s}
        BY <2>1, <1>7
      <3>2. Cardinality(Holders(b)') = 1
        BY <3>1, CountOne
      <3> QED BY <2>1, <3>2
    <2>2. CASE b \in left
      <3>1. s \in Holders(b)
        BY <2>2, <1>1 DEF Holders
      <3>2. Cardinality(Holders(b)') = Cardinality(Holders(b)) - 1
        BY <2>2, <3>1, <1>3, <1>7, HoldersFinite, CountRemove
      <3> QED BY <2>2, <3>2, <1>3, <1>4 DEF TypeOK, CountsExact
    <2>3. CASE b \notin left \cup taken
      BY <2>3, <1>7 DEF TypeOK, CountsExact
    <2> QED BY <2>1, <2>2, <2>3
  <1>9. OpenIsPartial'
    <2>1. \A t \in SequenceId : open[t] \notin taken
      BY <1>2 DEF Shape, Holders, TypeOK
    <2>2. \A t \in SequenceId : t # s => open'[t] = open[t] /\ holds'[t] = holds[t]
      BY DEF TypeOK
    <2>3. open'[s] \in taken \cup {None} /\ holds'[s] = (holds[s] \ left) \cup taken
      BY DEF TypeOK
    <2>4. \A t \in SequenceId : t # s => holds[t] \cap taken = {}
      BY <1>2 DEF Holders
    <2>5. ASSUME NEW t \in SequenceId, t # s, open[t] # None
          PROVE  open[t] \notin holds'[s]
      <3>1. open[t] \in holds[s] => open[s] = open[t] /\ open[s] # None
        BY <2>5 DEF OpenIsPartial
      <3>2. ASSUME open[t] \in holds[s] PROVE open[t] \in left
        <4>1. open[s] = open[t] /\ open[t] \in Block
          BY <3>1, <3>2, <2>5 DEF TypeOK
        <4>2. t \in Holders(open[s]) /\ s \in Holders(open[s])
          BY <4>1, <3>2, <2>5 DEF Holders, Shape
        <4>3. Cardinality(Holders(open[s])) > 1
          BY <4>2, <2>5, HoldersFinite, CountShared
        <4> QED BY <4>1, <4>3, <2>5 DEF NeedsCopy, CountsExact
      <3> QED BY <3>2, <2>1, <2>3
    <2>6. \A b \in Block : key'[b] = IF b \in taken THEN None ELSE key[b]
      OBVIOUS
    <2> SUFFICES ASSUME NEW t \in SequenceId, open'[t] # None
                 PROVE  /\ key'[open'[t]] = None
                        /\ \A u \in SequenceId : open'[t] \in holds'[u] => open'[u] = open'[t]
      BY DEF OpenIsPartial
    <2>7. CASE t = s
      BY <2>7, <2>2, <2>3, <2>4, <2>6 DEF TypeOK
    <2>8. CASE t # s
      BY <2>8, <2>1, <2>2, <2>5, <2>6 DEF OpenIsPartial, TypeOK
    <2> QED BY <2>7, <2>8
  <1>10. DirtyIsPrivate'
    <2> SUFFICES ASSUME NEW t \in live', NEW b \in dirty'[t]
                 PROVE  Holders(b)' = {t} /\ key'[b] = None
      BY DEF DirtyIsPrivate, Holders
    <2>0. t \in live /\ t \in SequenceId /\ b \in Block
      BY <1>5 DEF TypeOK
    <2>1. CASE b \in dirty[t]
      <3>1. Holders(b) = {t} /\ key[b] = None
        BY <2>0, <2>1 DEF DirtyIsPrivate
      <3>2. b \notin taken
        BY <3>1, <1>2
      <3>3. b \notin left
        <4> SUFFICES ASSUME b \in left PROVE FALSE OBVIOUS
        <4>1. Cardinality({t}) > 1
          BY <1>4, <3>1, <2>0 DEF CountsExact
        <4> QED BY <4>1, CountOne
      <3> QED BY <2>0, <3>1, <3>2, <3>3, <1>7
    <2>2. CASE b \in taken /\ t = s
      BY <2>0, <2>2, <1>7
    <2>3. CASE t = s /\ b = open[s] /\ b \notin left
      <3>1. s \in Holders(b) /\ key[b] = None
        BY <2>0, <2>3, LedgerAssumption DEF Holders, Shape, OpenIsPartial
      <3>2. ~(Cardinality(Holders(b)) > 1)
        BY <2>0, <2>3, LedgerAssumption DEF NeedsCopy, CountsExact
      <3>3. Holders(b) = {s}
        BY <3>1, <3>2, HoldersFinite, CountShared
      <3> QED BY <2>0, <2>3, <3>1, <3>3, <1>7, <1>2
    <2> QED BY <2>0, <2>1, <2>2, <2>3 DEF TypeOK
  <1>11. KeysUnique' BY DEF KeysUnique, TypeOK
  <1> QED BY <1>5, <1>6, <1>8, <1>9, <1>10, <1>11 DEF LedgerInv

(* A forward only cleans the sequence's dirty blocks.                      *)
LEMMA ForwardPreserves ==
  ASSUME LedgerInv, NEW s \in SequenceId, Forward(s)
  PROVE  LedgerInv'
  <1> USE DEF LedgerInv, Forward
  <1>1. TypeOK' BY DEF TypeOK
  <1>2. Shape' BY DEF TypeOK, Shape
  <1>3. \A b : Holders(b)' = Holders(b)
    BY DEF Holders
  <1>4. CountsExact' BY <1>3 DEF CountsExact
  <1>5. OpenIsPartial' BY DEF OpenIsPartial
  <1>6. DirtyIsPrivate' BY <1>3 DEF DirtyIsPrivate, TypeOK
  <1>7. KeysUnique' BY DEF KeysUnique
  <1> QED BY <1>1, <1>2, <1>4, <1>5, <1>6, <1>7 DEF LedgerInv

(* Publishing touches full, written blocks only: another sequence sharing  *)
(* such a block sees it as full too (OpenIsPartial), and no dirty block of *)
(* another sequence can be among them (DirtyIsPrivate).                    *)
LEMMA PublishPreserves ==
  ASSUME LedgerInv, NEW s \in SequenceId, NEW new, Publish(s, new)
  PROVE  LedgerInv'
  <1> USE LedgerAssumption DEF LedgerInv, Publish
  <1>1. DOMAIN new \subseteq Block /\ \A b \in DOMAIN new : new[b] # None
    BY DEF TypeOK
  <1>2. TypeOK'
    BY <1>1 DEF TypeOK
  <1>3. Shape' BY DEF Shape
  <1>4. \A b : Holders(b)' = Holders(b)
    BY DEF Holders
  <1>5. CountsExact' BY <1>4 DEF CountsExact
  <1>6. OpenIsPartial'
    <2>1. ASSUME NEW t \in SequenceId, open[t] # None PROVE open[t] \notin DOMAIN new
      BY <2>1 DEF OpenIsPartial
    <2> QED BY <2>1 DEF OpenIsPartial, TypeOK
  <1>7. DirtyIsPrivate'
    <2> SUFFICES ASSUME NEW t \in live, NEW b \in dirty[t]
                 PROVE  Holders(b) = {t} /\ key'[b] = None
      BY <1>4 DEF DirtyIsPrivate
    <2>1. Holders(b) = {t} /\ key[b] = None /\ b \in Block
      BY DEF DirtyIsPrivate, TypeOK
    <2>2. b \notin DOMAIN new
      BY <2>1 DEF Holders
    <2> QED BY <2>1, <2>2
  <1>8. KeysUnique'
    BY <1>1 DEF KeysUnique
  <1> QED BY <1>2, <1>3, <1>5, <1>6, <1>7, <1>8 DEF LedgerInv

(* A fork adds the child to every block of the parent, none of them dirty. *)
LEMMA ForkPreserves ==
  ASSUME LedgerInv, NEW parent \in SequenceId, NEW child \in SequenceId,
         Fork(parent, child)
  PROVE  LedgerInv'
  <1> USE LedgerAssumption DEF LedgerInv, Fork
  <1>1. TypeOK' BY DEF TypeOK
  <1>2. Shape' BY DEF TypeOK, Shape
  <1>3. ASSUME NEW b \in Block
        PROVE  Holders(b)' = IF b \in holds[parent] THEN Holders(b) \cup {child} ELSE Holders(b)
    BY DEF TypeOK, Shape, Holders
  <1>4. \A b \in Block : child \notin Holders(b)
    BY DEF Shape, Holders
  <1>5. CountsExact'
    <2> SUFFICES ASSUME NEW b \in Block
                 PROVE  /\ refs'[b] = Cardinality(Holders(b)')
                        /\ b \in free' <=> refs'[b] = 0
      BY DEF CountsExact, Holders
    <2>1. CASE b \in holds[parent]
      <3>1. Cardinality(Holders(b)') = Cardinality(Holders(b)) + 1
        BY <2>1, <1>3, <1>4, HoldersFinite, CountAdd
      <3>2. Holders(b) # {}
        BY <2>1 DEF Holders
      <3>3. refs[b] # 0
        BY <3>2, HoldersFinite, CountZero DEF CountsExact
      <3> QED BY <2>1, <3>1, <3>3 DEF TypeOK, CountsExact
    <2>2. CASE b \notin holds[parent]
      BY <2>2, <1>3 DEF TypeOK, CountsExact
    <2> QED BY <2>1, <2>2
  <1>6. OpenIsPartial'
    BY DEF OpenIsPartial, TypeOK, Shape
  <1>7. DirtyIsPrivate'
    <2> SUFFICES ASSUME NEW t \in live', NEW b \in dirty[t]
                 PROVE  Holders(b)' = {t} /\ key[b] = None
      BY DEF DirtyIsPrivate, Holders
    <2>1. t \in live /\ t # child /\ b \in Block
      BY DEF Shape, TypeOK
    <2>2. Holders(b) = {t} /\ key[b] = None
      BY <2>1 DEF DirtyIsPrivate
    <2>3. b \notin holds[parent]
      BY <2>1, <2>2 DEF Holders
    <2> QED BY <2>1, <2>2, <2>3, <1>3
  <1>8. KeysUnique' BY DEF KeysUnique
  <1> QED BY <1>1, <1>2, <1>5, <1>6, <1>7, <1>8 DEF LedgerInv

(* Freeing removes the sequence from every block it held; the blocks it    *)
(* held alone are the ones that join the free queue.                       *)
LEMMA FreePreserves ==
  ASSUME LedgerInv, NEW s \in SequenceId, Free(s)
  PROVE  LedgerInv'
  <1> USE LedgerAssumption DEF LedgerInv, Free
  <1>1. \A b \in holds[s] : b \in Block /\ refs[b] # 0
    <2> SUFFICES ASSUME NEW b \in holds[s] PROVE b \in Block /\ refs[b] # 0 OBVIOUS
    <2>1. b \in Block /\ Holders(b) # {}
      BY DEF TypeOK, Holders
    <2> QED BY <2>1, HoldersFinite, CountZero DEF CountsExact
  <1>2. TypeOK'
    BY <1>1 DEF TypeOK
  <1>3. Shape' BY DEF TypeOK, Shape
  <1>4. ASSUME NEW b \in Block
        PROVE  Holders(b)' = Holders(b) \ {s}
    BY DEF TypeOK, Holders
  <1>5. CountsExact'
    <2> SUFFICES ASSUME NEW b \in Block
                 PROVE  /\ refs'[b] = Cardinality(Holders(b)')
                        /\ b \in free' <=> refs'[b] = 0
      BY DEF CountsExact, Holders
    <2>1. CASE b \in holds[s]
      <3>1. Cardinality(Holders(b)') = Cardinality(Holders(b)) - 1
        BY <2>1, <1>4, HoldersFinite, CountRemove DEF Holders
      <3> QED BY <2>1, <3>1, <1>1 DEF TypeOK, CountsExact
    <2>2. CASE b \notin holds[s]
      <3>1. Holders(b)' = Holders(b)
        BY <2>2, <1>4 DEF Holders
      <3> QED BY <2>2, <3>1 DEF TypeOK, CountsExact
    <2> QED BY <2>1, <2>2
  <1>6. OpenIsPartial'
    BY DEF OpenIsPartial, TypeOK
  <1>7. DirtyIsPrivate'
    <2> SUFFICES ASSUME NEW t \in live', NEW b \in dirty'[t]
                 PROVE  Holders(b)' = {t} /\ key[b] = None
      BY DEF DirtyIsPrivate, Holders
    <2>1. t \in live /\ t # s /\ b \in dirty[t] /\ b \in Block
      BY DEF TypeOK
    <2> QED BY <2>1, <1>4 DEF DirtyIsPrivate
  <1>8. KeysUnique' BY DEF KeysUnique
  <1> QED BY <1>2, <1>3, <1>5, <1>6, <1>7, <1>8 DEF LedgerInv

(* The invariant is inductive.                                             *)
LEMMA LedgerStep == LedgerInv /\ [Next]_ledgerVars => LedgerInv'
  <1> SUFFICES ASSUME LedgerInv, [Next]_ledgerVars PROVE LedgerInv' OBVIOUS
  <1>1. CASE UNCHANGED ledgerVars
    BY <1>1 DEF ledgerVars, LedgerInv, TypeOK, Shape, CountsExact, OpenIsPartial,
                DirtyIsPrivate, KeysUnique, Holders
  <1>2. CASE Next
    <2> PICK s \in SequenceId :
          \/ \E pinned, taken \in SUBSET Block : Admit(s, pinned, taken)
          \/ AppendInPlace(s)
          \/ \E taken \in SUBSET Block : AppendTaking(s, taken)
          \/ Forward(s)
          \/ \E full \in SUBSET Block : \E new \in [full -> Key] : Publish(s, new)
          \/ \E child \in SequenceId : Fork(s, child)
          \/ Free(s)
      BY <1>2 DEF Next
    <2> QED BY AdmitPreserves, AppendInPlacePreserves, AppendTakingPreserves,
               ForwardPreserves, PublishPreserves, ForkPreserves, FreePreserves
  <1> QED BY <1>1, <1>2

(* Every reachable ledger is well typed, its counts are exact, its dirty   *)
(* blocks private and its keys unique.                                     *)
THEOREM LedgerInvariant == LedgerSpec => []LedgerInv
  BY LedgerInit, LedgerStep, PTL DEF LedgerSpec

(* The type invariant of the ledger (TypeOK).                              *)
THEOREM LedgerTypeCorrect == LedgerSpec => []TypeOK
  BY LedgerInvariant, PTL DEF LedgerInv

(* Reference counts equal table occurrences, and exactly the unreferenced  *)
(* blocks are free (Pool::add_ref, release, take_free).                    *)
THEOREM LedgerCountsExact == LedgerSpec => []CountsExact
  BY LedgerInvariant, PTL DEF LedgerInv

(* A forward never writes a shared or published block (reserve's           *)
(* copy-on-write, commit_through's publishing rule, fork's precondition).  *)
THEOREM LedgerDirtyIsPrivate == LedgerSpec => []DirtyIsPrivate
  BY LedgerInvariant, PTL DEF LedgerInv

(* A prefix key names at most one block (commit_through, take_free).       *)
THEOREM LedgerKeysUnique == LedgerSpec => []KeysUnique
  BY LedgerInvariant, PTL DEF LedgerInv
=============================================================================
