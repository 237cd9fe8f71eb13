--------------------------- MODULE ComponentProofs ---------------------------
(***************************************************************************)
(* Proofs about the smaller components, each on its own variables: the KV  *)
(* admission pool, the replies of the Responses protocol, the decode loop  *)
(* of a serial turn, the linked list of free blocks, the weight store and  *)
(* the DeepSeek request session.  One module for all of them, because they *)
(* share the lemmas on sums, lines and integers.                           *)
(***************************************************************************)
EXTENDS BlockLedger, FreeQueue, PrefixReuse, RowPack, WeightStore, KvAdmission,
  TurnDecode, TurnStream, ResponseEvents, MessageBlocks, RequestSession, CollectionTheorems

----------------------------------------------------------------------------
(* Bounded sets of integers, and the ends of sequences.                    *)
LEMMA MaxIs ==
  ASSUME NEW a \in Int, NEW b \in Int, NEW S \in SUBSET (a .. b), S # {}
  PROVE  Max(S) \in S /\ \A y \in S : y <= Max(S)
  <1> DEFINE D == {b - x : x \in S}
  <1>0. \A x \in S : x \in Int /\ b - x \in Nat
    OBVIOUS
  <1>1. D \in SUBSET Nat /\ D # {}
    BY <1>0
  <1>2. PICK least \in D : \A n \in D : least <= n
    BY <1>1, LeastNatural
  <1>3. PICK x \in S : least = b - x
    BY <1>2
  <1>4. \A y \in S : x >= y
    <2> SUFFICES ASSUME NEW y \in S PROVE x >= y
      OBVIOUS
    <2>1. b - x <= b - y /\ x \in Int /\ y \in Int
      <3>1. b - y \in D
        OBVIOUS
      <3> QED BY <1>0, <1>2, <1>3, <3>1
    <2> QED BY ONLY <2>1, b \in Int
  <1>5. Max(S) \in S /\ \A y \in S : Max(S) >= y
    BY <1>4 DEF Max
  <1> QED BY <1>0, <1>5

LEMMA MinIs ==
  ASSUME NEW a \in Int, NEW S, \A x \in S : x \in Int /\ a <= x, S # {}
  PROVE  Min(S) \in S /\ \A y \in S : Min(S) <= y
  <1> DEFINE D == {x - a : x \in S}
  <1>1. D \in SUBSET Nat /\ D # {}
    OBVIOUS
  <1>2. PICK least \in D : \A n \in D : least <= n
    BY <1>1, LeastNatural
  <1>3. PICK x \in S : least = x - a
    BY <1>2
  <1>4. \A y \in S : x =< y
    <2> SUFFICES ASSUME NEW y \in S PROVE x =< y
      OBVIOUS
    <2>1. x - a <= y - a /\ x \in Int /\ y \in Int
      BY <1>2, <1>3
    <2> QED BY <2>1
  <1> QED BY <1>4 DEF Min

LEMMA FrontOfAppend ==
  ASSUME NEW S, NEW s \in Seq(S), NEW t \in S
  PROVE  Front(Append(s, t)) = s /\ Last(Append(s, t)) = t
  <1> DEFINE u == Append(s, t)
  <1>1. /\ u \in Seq(S) /\ Len(u) = Len(s) + 1 /\ Len(s) \in Nat
        /\ \A i \in 1 .. Len(s) : u[i] = s[i]
        /\ u[Len(s) + 1] = t
    BY AppendProperties, LenProperties
  <1> HIDE DEF u
  <1>2. SubSeq(u, 1, Len(u) - 1) = s
    <2> DEFINE v == SubSeq(u, 1, Len(s))
    <2>1. \A i \in 1 .. Len(s) : u[i] \in S
      BY <1>1, ElementOfSeq
    <2>2. v \in Seq(S) /\ Len(v) = Len(s) /\ \A i \in 1 .. Len(s) : v[i] = u[i]
      BY <1>1, <2>1, SubSeqProperties
    <2> HIDE DEF v
    <2>3. v = s
      BY <1>1, <2>2, SeqEqual
    <2> QED BY <1>1, <2>3 DEF v
  <1>3. Front(u) = s /\ Last(u) = t
    BY <1>1, <1>2 DEF Front, Last
  <1> QED BY <1>3 DEF u

LEMMA FrontAndLast ==
  ASSUME NEW S, NEW s \in Seq(S), s # <<>>
  PROVE  Front(s) \in Seq(S) /\ Last(s) \in S /\ s = Append(Front(s), Last(s)) /\ Len(s) = Len(Front(s)) + 1
  <1>1. PICK u \in Seq(S), t \in S : s = Append(u, t)
    BY SequenceEmptyOrAppend
  <1>2. Front(s) = u /\ Last(s) = t
    BY <1>1, FrontOfAppend
  <1>3. Len(s) = Len(u) + 1
    BY <1>1, AppendProperties
  <1> QED BY <1>1, <1>2, <1>3

LEMMA ConcatAppend ==
  ASSUME NEW S, NEW s \in Seq(S), NEW t \in Seq(S), NEW x \in S
  PROVE  s \o Append(t, x) = Append(s \o t, x)
  <1>1. <<x>> \in Seq(S)
    OBVIOUS
  <1>2. s \o t \in Seq(S)
    BY ConcatProperties
  <1>3. Append(t, x) = t \o <<x>> /\ Append(s \o t, x) = (s \o t) \o <<x>>
    BY <1>2, AppendIsConcat
  <1>4. (s \o t) \o <<x>> = s \o (t \o <<x>>)
    BY <1>1, ConcatAssociative
  <1> QED BY <1>3, <1>4

(* One element more.                                                       *)
LEMMA SubSeqGrows ==
  ASSUME NEW S, NEW s \in Seq(S), NEW n \in Nat, n + 1 <= Len(s)
  PROVE  SubSeq(s, 1, n + 1) = Append(SubSeq(s, 1, n), s[n + 1])
  <1>1. Len(s) \in Nat /\ n + 1 \in 1 .. Len(s) /\ 1 \in 1 .. Len(s) /\ (n + 1) - 1 = n
    BY LenProperties
  <1>2. SubSeq(s, 1, n + 1) = SubSeq(s, 1, n) \o <<s[n + 1]>>
    BY <1>1, SubSeqRecursiveSecond
  <1>3. \A i \in 1 .. n + 1 : s[i] \in S
    BY <1>1, ElementOfSeq
  <1>4. SubSeq(s, 1, n) \in Seq(S) /\ s[n + 1] \in S
    BY <1>3, SubSeqProperties
  <1> QED BY <1>2, <1>4, AppendIsConcat

----------------------------------------------------------------------------
(***************************************************************************)
(* ResponseEvents: nothing is on the wire, and no status has been sent,    *)
(* while the turn has said nothing and no item is in the output.           *)
(***************************************************************************)
Pieces == {"x", " ", "results", "failed"}
ReplyItem ==
  [item : ({"rs", "msg", "ws"} \X Nat) \cup ({"fc"} \X Nat \X Nat), text : Seq(Pieces)]

SilentSoFar == said = NothingSaid /\ output = <<>>

ReplyInv ==
  /\ said \in [reasoning : Seq(Pieces), text : Seq(Pieces)]
  /\ output \in Seq(ReplyItem) /\ segment \in Nat /\ searches \in Nat
  /\ at = "searching" => output # <<>>
  /\ at \in {"generating", "search"} /\ SilentSoFar => answered = "no" /\ wire = <<>>
  /\ at = "failed" /\ SilentSoFar => answered = "http" /\ wire = <<>>

LEMMA SaysSomething ==
  ASSUME ReplyInv, NEW kind \in {"reasoning", "text"}, NEW piece \in {"x", " "}, Says(kind, piece)
  PROVE  said' \in [reasoning : Seq(Pieces), text : Seq(Pieces)] /\ said' # NothingSaid
  <1>1. /\ said \in [reasoning : Seq(Pieces), text : Seq(Pieces)]
        /\ said' = [said EXCEPT ![kind] = Append(said[kind], piece)]
    BY DEF Says, ReplyInv
  <1>2. said[kind] \in Seq(Pieces)
    BY <1>1
  <1>3. Append(said[kind], piece) \in Seq(Pieces) /\ Append(said[kind], piece) # <<>>
    <2>1. piece \in Pieces
      BY DEF Pieces
    <2>2. said[kind] \in Seq(Pieces)
      BY <1>2
    <2> DEFINE s == said[kind]
    <2>3. s \in Seq(Pieces)
      BY <2>2
    <2> HIDE DEF s
    <2>4. Append(s, piece) \in Seq(Pieces) /\ Append(s, piece) # <<>>
      BY ONLY <2>1, <2>3, AppendProperties, ZenonT(30)
    <2> QED BY <2>4 DEF s
  <1>4. said' \in [reasoning : Seq(Pieces), text : Seq(Pieces)] /\ said'[kind] # <<>>
    <2>1. CASE kind = "reasoning"
      BY <1>1, <1>3, <2>1
    <2>2. CASE kind = "text"
      BY <1>1, <1>3, <2>2
    <2> QED BY <2>1, <2>2
  <1>5. NothingSaid[kind] = <<>>
    <2>1. CASE kind = "reasoning"
      BY <2>1 DEF NothingSaid
    <2>2. CASE kind = "text"
      BY <2>2 DEF NothingSaid
    <2> QED BY <2>1, <2>2
  <1> QED BY <1>4, <1>5

LEMMA ItemsAreItems ==
  ASSUME ReplyInv, NEW message \in BOOLEAN, NEW calls \in Nat
  PROVE  Items(message, calls) \in Seq(ReplyItem)
  <1> DEFINE rs == IF said.reasoning = <<>> THEN <<>>
                   ELSE <<[item |-> <<"rs", segment>>, text |-> said.reasoning]>>
             msg == IF message THEN <<[item |-> <<"msg", segment>>, text |-> said.text]>> ELSE <<>>
             fc == [i \in 1 .. calls |-> [item |-> <<"fc", segment, i>>, text |-> <<"x">>]]
  <1>1. segment \in Nat /\ said.reasoning \in Seq(Pieces) /\ said.text \in Seq(Pieces)
    BY DEF ReplyInv
  <1>2. rs \in Seq(ReplyItem)
    <2>1. [item |-> <<"rs", segment>>, text |-> said.reasoning] \in ReplyItem
      BY <1>1 DEF ReplyItem
    <2> QED BY <2>1
  <1>3. msg \in Seq(ReplyItem)
    <2>1. [item |-> <<"msg", segment>>, text |-> said.text] \in ReplyItem
      BY <1>1 DEF ReplyItem
    <2> QED BY <2>1
  <1>4. fc \in Seq(ReplyItem)
    <2>1. <<"x">> \in Seq(Pieces)
      BY DEF Pieces
    <2>2. \A i \in 1 .. calls : [item |-> <<"fc", segment, i>>, text |-> <<"x">>] \in ReplyItem
      BY <1>1, <2>1 DEF ReplyItem
    <2>3. fc \in [1 .. calls -> ReplyItem]
      BY <2>2
    <2> QED BY <2>3, SeqDef
  <1>5. Items(message, calls) = rs \o msg \o fc
    BY DEF Items
  <1> HIDE DEF rs, msg, fc
  <1> QED BY <1>2, <1>3, <1>4, <1>5, ConcatProperties

LEMMA SegmentIs ==
  ASSUME ReplyInv, NEW items \in Seq(ReplyItem), Segment(items)
  PROVE  /\ output' \in Seq(ReplyItem) /\ segment' \in Nat
         /\ output' = <<>> => output = <<>> /\ UNCHANGED <<wire, answered>>
  <1>1. output \in Seq(ReplyItem) /\ segment \in Nat
    BY DEF ReplyInv
  <1>2. output' = output \o items /\ segment' = segment + 1
    BY DEF Segment, NextSegment
  <1>3. output' \in Seq(ReplyItem) /\ Len(output') = Len(output) + Len(items)
    BY <1>1, <1>2, ConcatProperties
  <1>4. output' = <<>> => output = <<>> /\ items = <<>>
    <2>1. Len(output) \in Nat /\ Len(items) \in Nat
      BY <1>1, LenProperties
    <2>2. output' = <<>> => Len(output) = 0 /\ Len(items) = 0
      BY <1>3, <2>1
    <2> QED BY <1>1, <2>2, EmptySeq
  <1> QED BY <1>1, <1>2, <1>3, <1>4 DEF Segment

LEMMA ReplyStep ==
  ASSUME ReplyInv, ResponseNext PROVE ReplyInv'
  <1>1. ASSUME NEW kind \in {"reasoning", "text"}, NEW piece \in {"x", " "}, Delta(kind, piece)
        PROVE  ReplyInv'
    <2>1. Says(kind, piece) /\ UNCHANGED <<output, segment, searches, at>> /\ at = "generating"
      BY <1>1 DEF Delta, Says
    <2>2. said' \in [reasoning : Seq(Pieces), text : Seq(Pieces)] /\ said' # NothingSaid
      BY <2>1, SaysSomething
    <2> QED BY <2>1, <2>2 DEF ReplyInv, SilentSoFar
  <1>2. ASSUME NEW calls \in 0 .. MaxCalls, NEW complete \in BOOLEAN, Replies(calls, complete)
        PROVE  ReplyInv'
    <2>1. /\ output' = Items(calls = 0 \/ ~Blank(said.text), calls)
          /\ UNCHANGED <<segment, said, searches>> /\ at' \in {"ended", "cut"}
      BY <1>2 DEF Replies, Ends
    <2>2. calls \in Nat
      BY TurnAssumption
    <2>3. output' \in Seq(ReplyItem)
      BY <2>1, <2>2, ItemsAreItems
    <2> QED BY <2>1, <2>3 DEF ReplyInv
  <1>3. ASSUME NEW calls \in 0 .. MaxCalls, NEW complete \in BOOLEAN, HostedReplies(calls, complete)
        PROVE  ReplyInv'
    <2> DEFINE items == Items(said.text # <<>> \/ calls = 0, calls)
    <2>1. calls \in Nat /\ Segment(items) /\ UNCHANGED <<said, searches>> /\ at' \in {"ended", "cut"}
      BY <1>3, TurnAssumption DEF HostedReplies, Ends
    <2>2. items \in Seq(ReplyItem)
      BY <2>1, ItemsAreItems
    <2> HIDE DEF items
    <2>3. output' \in Seq(ReplyItem) /\ segment' \in Nat
      BY <2>1, <2>2, SegmentIs
    <2> QED BY <2>1, <2>3 DEF ReplyInv
  <1>4. CASE HostedSearches
    <2> DEFINE items == Items(said.text # <<>>, 0)
    <2>1. Segment(items) /\ UNCHANGED <<said, searches>> /\ at = "generating" /\ at' = "search"
      BY <1>4 DEF HostedSearches, CallsSearch
    <2>2. items \in Seq(ReplyItem)
      BY ItemsAreItems
    <2> HIDE DEF items
    <2>3. output' \in Seq(ReplyItem) /\ segment' \in Nat
          /\ (output' = <<>> => output = <<>> /\ UNCHANGED <<wire, answered>>)
      BY <2>1, <2>2, SegmentIs
    <2> QED BY <2>1, <2>3 DEF ReplyInv, SilentSoFar
  <1>5. CASE SearchAdded
    <2>1. /\ output' = Append(output, [item |-> <<"ws", searches>>, text |-> <<>>])
          /\ at' = "searching" /\ UNCHANGED <<said, segment, searches>>
      BY <1>5 DEF SearchAdded, SearchStarts
    <2>2. [item |-> <<"ws", searches>>, text |-> <<>>] \in ReplyItem
      BY DEF ReplyItem, ReplyInv
    <2>3. output' \in Seq(ReplyItem) /\ output' # <<>>
      BY <2>1, <2>2, AppendProperties DEF ReplyInv
    <2> QED BY <2>1, <2>3 DEF ReplyInv
  <1>6. CASE SearchClosed
    <2>1. PICK result \in {"results", "failed"} :
            output' = [output EXCEPT ![Len(output)].text = <<result>>]
      BY <1>6 DEF SearchClosed
    <2>2. /\ at = "searching" /\ at' \in {"generating", "cut"} /\ searches' = searches + 1
          /\ said' = NothingSaid /\ segment' = segment
      BY <1>6 DEF SearchClosed, SearchEnds
    <2>3. output \in Seq(ReplyItem) /\ output # <<>> /\ searches \in Nat /\ segment \in Nat
      BY <2>2 DEF ReplyInv
    <2>4. Len(output) \in DOMAIN output /\ Len(output) \in Nat \ {0} /\ output \in [1 .. Len(output) -> ReplyItem]
      BY <2>3, EmptySeq, LenProperties
    <2>5. output' \in [1 .. Len(output) -> ReplyItem]
      <3> DEFINE last == output[Len(output)]
                 new == [last EXCEPT !.text = <<result>>]
      <3>1. last \in ReplyItem
        BY <2>4
      <3>2. <<result>> \in Seq(Pieces)
        <4>1. result \in Pieces
          BY DEF Pieces
        <4> QED BY ONLY <4>1
      <3>3. new \in ReplyItem
        BY <3>1, <3>2 DEF ReplyItem
      <3>4. output' = [output EXCEPT ![Len(output)] = new]
        BY <2>1
      <3> HIDE DEF new
      <3> QED BY <2>4, <3>3, <3>4
    <2>6. output' \in Seq(ReplyItem) /\ output' # <<>>
      <3>1. output' \in Seq(ReplyItem)
        BY <2>4, <2>5, SeqDef
      <3>2. DOMAIN output' # {}
        BY <2>4, <2>5
      <3> QED BY <3>1, <3>2
    <2>7. said' \in [reasoning : Seq(Pieces), text : Seq(Pieces)]
      BY <2>2 DEF NothingSaid
    <2> QED BY <2>2, <2>3, <2>6, <2>7 DEF ReplyInv, SilentSoFar
  <1>7. CASE Waits
    BY <1>7 DEF Waits, Keepalive, turnVars, ReplyInv, SilentSoFar
  <1>8. CASE Completes
    <2>1. at' = "finished" /\ UNCHANGED <<said, output, segment, searches>>
      BY <1>8 DEF Completes, Finishes
    <2> QED BY <2>1 DEF ReplyInv
  <1>9. CASE Breaks
    <2>1. at \in {"generating", "search"} /\ at' = "failed" /\ UNCHANGED <<said, output, segment, searches>>
      BY <1>9 DEF Breaks, Fails
    <2>2. answered = "no" => answered' = "http" /\ wire' = wire
      BY <1>9 DEF Breaks
    <2> QED BY <2>1, <2>2 DEF ReplyInv, SilentSoFar
  <1> QED BY <1>1, <1>2, <1>3, <1>4, <1>5, <1>6, <1>7, <1>8, <1>9 DEF ResponseNext

\* The status of a reply is not sent before there is output: a turn that fails
\* with nothing said and nothing searched gets an HTTP error (Breaks; Keepalive
\* writes nothing before the head), however long it waited.
THEOREM FailuresAnswerEarly == ResponseSpec => []EarlyFailureIsHttp
  <1>1. ResponseInit => ReplyInv
    <2>1. NothingSaid \in [reasoning : Seq(Pieces), text : Seq(Pieces)]
      BY DEF NothingSaid
    <2> QED BY <2>1 DEF ResponseInit, TurnInit, ReplyInv, SilentSoFar
  <1>2. ReplyInv /\ [ResponseNext]_responseVars => ReplyInv'
    <2>1. ASSUME ReplyInv, UNCHANGED responseVars PROVE ReplyInv'
      BY <2>1 DEF responseVars, responseOnly, turnVars, ReplyInv, SilentSoFar
    <2> QED BY <2>1, ReplyStep
  <1>3. ReplyInv => EarlyFailureIsHttp
    BY DEF ReplyInv, SilentSoFar, EarlyFailureIsHttp
  <1> QED BY <1>1, <1>2, <1>3, PTL DEF ResponseSpec

----------------------------------------------------------------------------
(***************************************************************************)
(* TurnDecode: whatever is queued, drafted or rolled back, the executor    *)
(* holds the K/V of the context, or of all of it but the last token, when  *)
(* a token is picked; and a step that is queued runs on the context.       *)
(***************************************************************************)
DecodeTyped ==
  /\ asked.prompt \in Seq(Vocabulary) /\ asked.picking \in Picking
  /\ generated \in Seq(Vocabulary) /\ kv \in Seq(Vocabulary)
  /\ draws = Len(generated) /\ passes \in Nat
  /\ pc \in {"pick", "speculate", "verify", "queue", "stop", "failed"}

\* The bounds: a token may follow, and no forward reaches beyond the last one.
DecodeBounds ==
  /\ Len(generated) <= Limit /\ Len(kv) < Len(asked.prompt) + Limit
  /\ pc \notin {"stop", "failed"} => Len(generated) < Limit
  /\ pc = "pick" => passes <= Len(generated)
  /\ pc \in {"speculate", "verify", "queue"} => passes < Len(generated)

\* The step that is queued on the device.
QueuedFollows ==
  /\ pending # NoStep => asked.picking # "rows"
  /\ pending # NoStep /\ pc # "stop" =>
       /\ pc # "verify"
       /\ pending.token \in Vocabulary /\ pending.draw = draws + 1
       /\ pending.row = kv /\ kv = Context

\* None is queued.
RowFollows ==
  pending = NoStep =>
    /\ pc = "pick" => kv = Context /\ row = Context
    /\ pc \in {"speculate", "queue"} => Append(kv, Last(generated)) = Context

\* The draft behind the context, from the next token to be compared on.
DraftFollows ==
  pc = "verify" =>
    /\ verify.draft \in Seq(Vocabulary) /\ verify.base \in Nat /\ verify.index \in Nat \ {0}
    /\ verify.index <= Len(verify.draft) + 1
    /\ Len(kv) = verify.base + 1 + Len(verify.draft)
    /\ SubSeq(kv, 1, verify.base + verify.index) = Context
    /\ \A j \in 1 .. Len(verify.draft) : j >= verify.index => kv[verify.base + 1 + j] = verify.draft[j]

\* What a turn that ended leaves.
LeavesItsOwn ==
  pc = "stop" =>
    /\ generated # <<>>
    /\ \/ Append(kv, Last(generated)) = Context
       \/ MayClose /\ Last(generated) # EndTurn /\ kv = Context

DecodeInv ==
  DecodeTyped /\ DecodeBounds /\ QueuedFollows /\ RowFollows /\ DraftFollows /\ LeavesItsOwn

LEMMA ContextIs ==
  ASSUME DecodeTyped
  PROVE  Context \in Seq(Vocabulary) /\ Len(Context) = Len(asked.prompt) + Len(generated)
         /\ Len(asked.prompt) \in Nat /\ Len(generated) \in Nat /\ Len(kv) \in Nat
  <1>1. asked.prompt \in Seq(Vocabulary) /\ generated \in Seq(Vocabulary) /\ kv \in Seq(Vocabulary)
    BY DEF DecodeTyped
  <1> QED BY <1>1, ConcatProperties, LenProperties DEF Context

LEMMA Taken ==
  ASSUME DecodeTyped, NEW t \in Vocabulary, NEW logits, NEW draw, Take(t, logits, draw), UNCHANGED asked
  PROVE  /\ generated' \in Seq(Vocabulary) /\ generated' # <<>> /\ Last(generated') = t
         /\ Len(generated') = Len(generated) + 1 /\ draws' = Len(generated')
         /\ Context' = Append(Context, t) /\ Context' \in Seq(Vocabulary)
         /\ picked' = [row |-> logits, draw |-> draw] /\ generated' = Append(generated, t)
  <1>1. /\ asked.prompt \in Seq(Vocabulary) /\ generated \in Seq(Vocabulary) /\ draws = Len(generated)
        /\ Context \in Seq(Vocabulary)
    BY ContextIs DEF DecodeTyped
  <1>2. generated' = Append(generated, t) /\ draws' = draws + 1 /\ picked' = [row |-> logits, draw |-> draw]
    BY DEF Take
  <1>3. generated' \in Seq(Vocabulary) /\ generated' # <<>> /\ Len(generated') = Len(generated) + 1
    BY <1>1, <1>2, AppendProperties
  <1>4. Last(generated') = t
    BY <1>1, <1>2, FrontOfAppend
  <1>5. Context' = Append(Context, t)
    <2> DEFINE p == asked.prompt
    <2>1. p \in Seq(Vocabulary) /\ generated \in Seq(Vocabulary)
      BY <1>1
    <2> HIDE DEF p
    <2>2. p \o Append(generated, t) = Append(p \o generated, t)
      BY ONLY <2>1, t \in Vocabulary, ConcatAppend
    <2> QED BY <1>2, <2>2 DEF Context, p
  <1> QED BY <1>1, <1>2, <1>3, <1>4, <1>5, AppendProperties

LEMMA ReplyEndsIs ==
  ASSUME NEW t \in Vocabulary, NEW tokens, Len(tokens) \in Nat, Len(tokens) <= Limit,
         NEW ends \in ReplyEnds(t, tokens)
  PROVE  /\ ends \in BOOLEAN /\ (t = EndTurn => ends) /\ (~ends => Len(tokens) < Limit)
         /\ ends => t = EndTurn \/ MayClose \/ Len(tokens) = Limit
         /\ \E closed \in IF MayClose THEN BOOLEAN ELSE {FALSE} :
              ends <=> t = EndTurn \/ closed \/ Len(tokens) = Limit
  <1>1. PICK closed \in IF MayClose THEN BOOLEAN ELSE {FALSE} :
          ends = (t = EndTurn \/ closed \/ Len(tokens) >= Limit)
    BY DEF ReplyEnds
  <1>2. closed \in BOOLEAN /\ (closed => MayClose)
    BY DecodeAssumption
  <1>3. Limit \in Nat /\ (Len(tokens) >= Limit <=> Len(tokens) = Limit)
    BY DecodeAssumption
  <1>4. ends <=> t = EndTurn \/ closed \/ Len(tokens) = Limit
    BY <1>1, <1>2, <1>3
  <1>5. ends \in BOOLEAN
    <2>1. CASE t = EndTurn \/ closed \/ Len(tokens) >= Limit
      <3>1. (t = EndTurn \/ closed \/ Len(tokens) >= Limit) = TRUE
        BY <2>1
      <3> QED BY <1>1, <3>1
    <2>2. CASE ~(t = EndTurn \/ closed \/ Len(tokens) >= Limit)
      <3>1. (t = EndTurn \/ closed \/ Len(tokens) >= Limit) = FALSE
        BY <2>2
      <3> QED BY <1>1, <3>1
    <2> QED BY <2>1, <2>2
  <1>6. \E c \in IF MayClose THEN BOOLEAN ELSE {FALSE} :
          ends <=> t = EndTurn \/ c \/ Len(tokens) = Limit
    <2> WITNESS closed \in IF MayClose THEN BOOLEAN ELSE {FALSE}
    <2> QED BY <1>4
  <1>7. (t = EndTurn => ends) /\ (~ends => Len(tokens) < Limit)
    BY <1>3, <1>4
  <1>8. ends => t = EndTurn \/ MayClose \/ Len(tokens) = Limit
    BY <1>2, <1>4
  <1> QED BY <1>5, <1>6, <1>7, <1>8

(* A draft is made of tokens of the turn, and is no longer than asked for. *)
LEMMA ProposeIs ==
  ASSUME NEW history \in Seq(Vocabulary), NEW limit \in Nat
  PROVE  Propose(history, limit) \in Seq(Vocabulary) /\ Len(Propose(history, limit)) <= limit
  <1> DEFINE len == Len(history)
             starts(n) == {s \in 1 .. len - n :
                             SubSeq(history, s, s + n - 1) = SubSeq(history, len - n + 1, len)}
             lengths == {n \in MinNgram .. MaxNgram : n < len /\ starts(n) # {}}
             from == Max(starts(Max(lengths))) + Max(lengths)
             to == Min({from + limit - 1, len})
  <1>1. CASE limit = 0 \/ lengths = {}
    <2>1. Propose(history, limit) = <<>>
      BY <1>1 DEF Propose
    <2> QED BY <2>1, EmptySeq
  <1>2. CASE ~(limit = 0 \/ lengths = {})
    <2>1. len \in Nat /\ MinNgram \in Int /\ MaxNgram \in Int /\ 1 <= MinNgram
      BY DecodeAssumption, LenProperties
    <2>2. Max(lengths) \in lengths
      <3>1. lengths \in SUBSET (MinNgram .. MaxNgram) /\ lengths # {}
        BY <1>2
      <3> HIDE DEF lengths
      <3> QED BY <2>1, <3>1, MaxIs
    <2> DEFINE n == Max(lengths)
    <2>3. n \in lengths
      BY <2>2
    <2> HIDE DEF n
    <2> DEFINE S == starts(n)
    <2>30. n \in Int /\ MinNgram <= n /\ n < len /\ S # {}
      BY <2>1, <2>3
    <2>31. n \in Int /\ 1 <= n /\ len - n \in Int /\ S # {} /\ S \in SUBSET (1 .. len - n)
      <3>1. n \in Int /\ 1 <= n /\ len - n \in Int
        BY ONLY <2>1, <2>30
      <3>2. S \subseteq 1 .. len - n
        OBVIOUS
      <3> QED BY <2>30, <3>1, <3>2
    <2> HIDE DEF S
    <2>4. Max(S) \in S
      BY ONLY <2>31, 1 \in Int, MaxIs
    <2> DEFINE f == Max(S) + n
    <2>5. f \in 1 .. len
      <3>1. Max(S) \in Int /\ 1 <= Max(S) /\ Max(S) <= len - n
        <4>1. Max(S) \in 1 .. len - n
          BY <2>31, <2>4
        <4> QED BY ONLY <2>31, <4>1
      <3> QED BY ONLY <2>1, <2>31, <3>1 DEF f
    <2> HIDE DEF f
    <2>6. Min({f + limit - 1, len}) \in {f + limit - 1, len}
          /\ Min({f + limit - 1, len}) <= f + limit - 1 /\ Min({f + limit - 1, len}) <= len
      <3> DEFINE T == {f + limit - 1, len}
      <3>1. T # {} /\ (\A x \in T : x \in Int /\ 0 <= x)
        <4>1. f \in Int /\ 1 <= f /\ limit >= 1 /\ limit \in Int /\ len \in Nat
          BY <1>2, <2>1, <2>5
        <4>2. f + limit - 1 \in Int /\ 0 <= f + limit - 1
          BY ONLY <4>1
        <4> QED BY <4>1, <4>2
      <3> HIDE DEF T
      <3>2. Min(T) \in T /\ \A y \in T : Min(T) <= y
        BY <3>1, MinIs, 0 \in Int
      <3> QED BY <3>2 DEF T
    <2> DEFINE u == Min({f + limit - 1, len})
    <2>7. u \in Int /\ u <= len /\ u - f + 1 <= limit /\ f \in Int
      BY <2>1, <2>5, <2>6
    <2> HIDE DEF u
    <2>8. \A i \in f .. u : history[i] \in Vocabulary
      <3> SUFFICES ASSUME NEW i \in f .. u PROVE history[i] \in Vocabulary
        OBVIOUS
      <3>1. i \in 1 .. Len(history)
        BY <2>1, <2>5, <2>7
      <3> QED BY <3>1, ElementOfSeq
    <2>9. SubSeq(history, f, u) \in Seq(Vocabulary)
          /\ Len(SubSeq(history, f, u)) = IF f <= u THEN u - f + 1 ELSE 0
      BY <2>7, <2>8, SubSeqProperties
    <2>10. Propose(history, limit) = SubSeq(history, f, u)
      BY <1>2 DEF Propose, f, u, n, S
    <2> QED BY <2>7, <2>9, <2>10
  <1> QED BY <1>1, <1>2

\* A step that is one of plain decoding: the token follows the context, with
\* the next draw, and the turn goes on or not.
Picks(t) ==
  /\ pc \notin {"stop", "failed"} /\ pc' # "failed"
  /\ Take(t, Context, draws + 1)
  /\ \E ends \in ReplyEnds(t, generated') : pc' = "stop" <=> ends
  /\ UNCHANGED asked

(* What every pick keeps.                                                  *)
LEMMA PicksKeeps ==
  ASSUME DecodeInv, NEW t \in Vocabulary, Picks(t), kv' \in Seq(Vocabulary), UNCHANGED passes,
         pc' \in {"speculate", "verify", "stop"}
  PROVE  /\ DecodeTyped' /\ Len(generated') <= Limit
         /\ pc' # "stop" => Len(generated') < Limit
         /\ passes' < Len(generated')
  <1>1. /\ generated' \in Seq(Vocabulary) /\ Len(generated') = Len(generated) + 1 /\ draws' = Len(generated')
    BY Taken DEF Picks, DecodeInv
  <1>2. Len(generated) \in Nat /\ Limit \in Nat /\ passes \in Nat /\ pc \in {"pick", "speculate", "verify", "queue"}
        /\ Len(generated) < Limit /\ passes <= Len(generated)
    <2>1. pc \in {"pick", "speculate", "verify", "queue"}
      BY DEF Picks, DecodeInv, DecodeTyped
    <2> QED BY <2>1, ContextIs, DecodeAssumption DEF DecodeInv, DecodeTyped, DecodeBounds
  <1>3. Len(generated') \in Nat /\ Len(generated') <= Limit /\ passes' < Len(generated')
    BY <1>1, <1>2
  <1>4. pc' # "stop" => Len(generated') < Limit
    BY <1>3, ReplyEndsIs DEF Picks
  <1>5. DecodeTyped'
    BY <1>1, <1>2 DEF Picks, DecodeInv, DecodeTyped
  <1> QED BY <1>3, <1>4, <1>5

LEMMA StepsIs ==
  ASSUME DecodeTyped, NEW tokens, NEW ahead \in Nat, NEW queued \in Steps(tokens, ahead)
  PROVE  /\ queued.row = tokens /\ queued.token \in Vocabulary /\ queued.draw = draws + ahead + 1
         /\ queued # NoStep
  <1>1. draws \in Nat
    BY ContextIs DEF DecodeTyped
  <1>2. queued.row = tokens /\ queued.token \in Vocabulary /\ queued.draw = draws + ahead + 1
    BY DEF Steps
  <1>3. queued.draw # 0
    BY <1>1, <1>2
  <1> QED BY <1>2, <1>3 DEF NoStep

LEMMA SettleKeeps ==
  ASSUME DecodeInv, SettlePending
  PROVE  DecodeInv' /\ \E t \in Vocabulary : Picks(t)
  <1>1. PICK next \in {NoStep} \cup UNION {Steps(Append(kv, pending.token), a) : a \in 0 .. 1},
             pick \in SettlePicks :
          /\ RunAhead(next)
          /\ Take(pick[1], pending.row, pick[2])
          /\ \E ends \in ReplyEnds(pick[1], generated') :
               /\ kv' = KvAfter(pick[1], next, ends)
               /\ pending' = KeptStep(pick[1], next)
               /\ pc' = IF ends THEN "stop" ELSE "speculate"
    BY DEF SettlePending
  <1> DEFINE t == pick[1]
  <1>2. PICK ends \in ReplyEnds(t, generated') :
          /\ kv' = KvAfter(t, next, ends)
          /\ pending' = KeptStep(t, next)
          /\ pc' = IF ends THEN "stop" ELSE "speculate"
    BY <1>1
  <1>3. pc = "pick" /\ pending # NoStep /\ UNCHANGED <<asked, row, verify, passes>>
    BY DEF SettlePending
  <1>4. /\ pending.token \in Vocabulary /\ pending.draw = draws + 1 /\ pending.row = kv /\ kv = Context
        /\ asked.picking # "rows" /\ kv \in Seq(Vocabulary) /\ draws = Len(generated) /\ Len(generated) < Limit
        /\ Len(generated) \in Nat /\ Limit \in Nat /\ MayClose \in BOOLEAN
    BY <1>3, ContextIs, DecodeAssumption DEF DecodeInv, QueuedFollows, DecodeTyped, DecodeBounds
  <1>5. t \in Vocabulary /\ pick[2] = draws + 1
    BY <1>4 DEF SettlePicks
  <1>6. Take(t, Context, draws + 1)
    BY <1>1, <1>4, <1>5
  <1>7. /\ Last(generated') = t /\ Context' = Append(Context, t) /\ Len(generated') = Len(generated) + 1
        /\ generated' # <<>> /\ Context' \in Seq(Vocabulary) /\ draws' = Len(generated')
    BY <1>3, <1>5, <1>6, Taken DEF DecodeInv
  <1>8. /\ ends \in BOOLEAN /\ (t = EndTurn => ends)
        /\ ends => t = EndTurn \/ MayClose \/ Len(generated') = Limit
    <2>1. Len(generated') \in Nat /\ Len(generated') <= Limit
      BY <1>4, <1>7
    <2> HIDE DEF t
    <2> QED BY <1>5, <2>1, ReplyEndsIs
  <1>9. Picks(t)
    <2>1. pc' = "stop" <=> ends
      BY <1>2, <1>8
    <2> QED BY <1>2, <1>3, <1>6, <2>1 DEF Picks
  <1>10. /\ next # NoStep => /\ next.row = Append(kv, pending.token) /\ next.token \in Vocabulary
                             /\ next.draw = draws + 2 /\ Len(generated) + 1 < Limit
    <2> SUFFICES ASSUME next # NoStep
                 PROVE  /\ next.row = Append(kv, pending.token) /\ next.token \in Vocabulary
                        /\ next.draw = draws + 2 /\ Len(generated) + 1 < Limit
      OBVIOUS
    <2>1. MayRunAhead /\ next \in Steps(Append(kv, pending.token), 1)
      BY <1>1 DEF RunAhead
    <2>2. next.row = Append(kv, pending.token) /\ next.token \in Vocabulary /\ next.draw = draws + 1 + 1
      <3> DEFINE tokens == Append(kv, pending.token)
      <3>1. next \in Steps(tokens, 1) /\ 1 \in Nat /\ DecodeTyped
        BY <2>1 DEF DecodeInv
      <3> HIDE DEF tokens
      <3>2. next.row = tokens /\ next.token \in Vocabulary /\ next.draw = draws + 1 + 1
        BY ONLY <3>1, StepsIs
      <3> QED BY <3>2 DEF tokens
    <2> QED BY <1>4, <2>1, <2>2 DEF MayRunAhead
  <1> HIDE DEF t
  <1>11. CASE next = NoStep \/ t # pending.token \/ (t = EndTurn /\ ends)
    <2>1. kv' = kv
      BY <1>2, <1>11 DEF KvAfter
    <2>2. kv' \in Seq(Vocabulary) /\ Append(kv', Last(generated')) = Context'
      BY <1>4, <1>7, <2>1
    <2>3. DecodeTyped' /\ Len(generated') <= Limit /\ (pc' # "stop" => Len(generated') < Limit)
          /\ passes' < Len(generated')
      BY <1>2, <1>3, <1>5, <1>9, <2>2, PicksKeeps
    <2>4. DecodeBounds'
      <3>1. Len(kv') < Len(asked'.prompt) + Limit /\ pc' \in {"stop", "speculate"}
        BY <1>2, <1>3, <2>1 DEF DecodeInv, DecodeBounds
      <3> QED BY <2>3, <3>1 DEF DecodeBounds
    <2>5. pc' # "stop" => pending' = NoStep
      <3>1. pc' # "stop" => t # EndTurn
        BY <1>2, <1>8
      <3> QED BY <1>2, <1>11, <3>1 DEF KeptStep
    <2>6. QueuedFollows' /\ RowFollows' /\ DraftFollows'
      BY <1>2, <1>3, <1>4, <2>2, <2>5 DEF QueuedFollows, RowFollows, DraftFollows
    <2>7. LeavesItsOwn'
      BY <1>7, <2>2 DEF LeavesItsOwn
    <2> QED BY <1>5, <1>9, <2>3, <2>4, <2>6, <2>7 DEF DecodeInv
  <1>12. CASE next # NoStep /\ t = pending.token /\ ~(t = EndTurn /\ ends)
    <2>1. kv' = next.row /\ pending' = next
      BY <1>2, <1>12 DEF KvAfter, KeptStep
    <2>2. kv' = Context' /\ kv' \in Seq(Vocabulary)
      BY <1>4, <1>7, <1>10, <1>12, <2>1
    <2>3. DecodeTyped' /\ Len(generated') <= Limit /\ (pc' # "stop" => Len(generated') < Limit)
          /\ passes' < Len(generated')
      BY <1>2, <1>3, <1>5, <1>9, <2>2, PicksKeeps
    <2>4. DecodeBounds'
      <3>1. pc' \in {"stop", "speculate"}
        BY <1>2
      <3>2. Len(kv') = Len(asked'.prompt) + Len(generated') /\ Len(asked'.prompt) \in Nat
        <4>1. asked'.prompt \in Seq(Vocabulary) /\ generated' \in Seq(Vocabulary)
          BY <2>3 DEF DecodeTyped
        <4>2. kv' = asked'.prompt \o generated'
          BY <2>2 DEF Context
        <4> QED BY <4>1, <4>2, ConcatProperties, LenProperties
      <3>3. Len(generated') < Limit
        BY <1>7, <1>10, <1>12
      <3>4. Len(kv') < Len(asked'.prompt) + Limit
        <4>1. Len(generated') \in Nat /\ Limit \in Nat
          BY <1>4, <1>7
        <4> QED BY ONLY <3>2, <3>3, <4>1
      <3> QED BY <2>3, <3>1, <3>4 DEF DecodeBounds
    <2>5. t # EndTurn
      BY <1>8, <1>12
    <2>6. QueuedFollows'
      <3>1. next.draw = draws' + 1
        BY <1>4, <1>7, <1>10, <1>12
      <3>2. pc' # "verify"
        BY <1>2
      <3> QED BY <1>3, <1>4, <1>10, <1>12, <2>1, <2>2, <3>1, <3>2 DEF QueuedFollows
    <2>7. RowFollows' /\ DraftFollows'
      BY <1>2, <1>12, <2>1 DEF RowFollows, DraftFollows
    <2>8. LeavesItsOwn'
      <3>1. pc' = "stop" => MayClose
        BY <1>2, <1>4, <1>7, <1>8, <1>10, <1>12, <2>5
      <3> QED BY <1>7, <2>2, <2>5, <3>1 DEF LeavesItsOwn
    <2> QED BY <1>5, <1>9, <2>3, <2>4, <2>6, <2>7, <2>8 DEF DecodeInv
  <1> QED BY <1>11, <1>12

LEMMA PickRowKeeps ==
  ASSUME DecodeInv, PickFromRow
  PROVE  DecodeInv' /\ \E t \in Vocabulary : Picks(t)
  <1>1. pc = "pick" /\ pending = NoStep /\ UNCHANGED <<asked, kv, pending, row, verify, passes>>
    BY DEF PickFromRow
  <1>2. PICK t \in Vocabulary :
          /\ Take(t, row, draws + 1)
          /\ \E ends \in ReplyEnds(t, generated') : pc' = IF ends THEN "stop" ELSE "speculate"
    BY DEF PickFromRow
  <1>3. PICK ends \in ReplyEnds(t, generated') : pc' = IF ends THEN "stop" ELSE "speculate"
    BY <1>2
  <1>4. kv = Context /\ row = Context /\ kv \in Seq(Vocabulary) /\ Len(generated) \in Nat /\ Limit \in Nat
        /\ Len(generated) < Limit
    BY <1>1, ContextIs, DecodeAssumption DEF DecodeInv, RowFollows, DecodeTyped, DecodeBounds
  <1>5. Take(t, Context, draws + 1)
    BY <1>2, <1>4
  <1>6. /\ Last(generated') = t /\ Context' = Append(Context, t) /\ generated' # <<>>
        /\ Len(generated') = Len(generated) + 1
    BY <1>1, <1>5, Taken DEF DecodeInv
  <1>7. ends \in BOOLEAN
    <2>1. Len(generated') \in Nat /\ Len(generated') <= Limit
      BY <1>4, <1>6
    <2> QED BY <2>1, ReplyEndsIs
  <1>8. Picks(t)
    <2>1. pc' = "stop" <=> ends
      BY <1>3, <1>7
    <2> QED BY <1>1, <1>3, <1>5, <2>1 DEF Picks
  <1>9. DecodeTyped' /\ Len(generated') <= Limit /\ (pc' # "stop" => Len(generated') < Limit)
        /\ passes' < Len(generated')
    BY <1>1, <1>3, <1>4, <1>8, PicksKeeps
  <1>10. Append(kv', Last(generated')) = Context'
    BY <1>1, <1>4, <1>6
  <1>11. DecodeBounds'
    <2>1. Len(kv') < Len(asked'.prompt) + Limit /\ pc' \in {"stop", "speculate"}
      BY <1>1, <1>3 DEF DecodeInv, DecodeBounds
    <2> QED BY <1>9, <2>1 DEF DecodeBounds
  <1>12. QueuedFollows' /\ RowFollows' /\ DraftFollows' /\ LeavesItsOwn'
    BY <1>1, <1>3, <1>6, <1>10 DEF QueuedFollows, RowFollows, DraftFollows, LeavesItsOwn
  <1> QED BY <1>8, <1>9, <1>11, <1>12 DEF DecodeInv

LEMMA NoDraftKeeps ==
  ASSUME DecodeInv, NothingToVerify
  PROVE  DecodeInv' /\ UNCHANGED <<asked, generated, picked>> /\ pc' \notin {"stop", "failed"}
         /\ pc \notin {"stop", "failed"}
  <1>1. pc = "speculate" /\ pc' = "queue"
        /\ UNCHANGED <<asked, kv, pending, row, generated, picked, draws, verify, passes>>
    BY DEF NothingToVerify
  <1>2. Context' = Context
    BY <1>1 DEF Context
  <1>3. DecodeTyped' /\ DecodeBounds'
    BY <1>1 DEF DecodeInv, DecodeTyped, DecodeBounds
  <1>4. QueuedFollows' /\ RowFollows' /\ DraftFollows' /\ LeavesItsOwn'
    BY <1>1, <1>2 DEF DecodeInv, QueuedFollows, RowFollows, DraftFollows, LeavesItsOwn
  <1> QED BY <1>1, <1>3, <1>4 DEF DecodeInv

(* Where a draft goes: behind the context, whether its last token was      *)
(* appended already or not.                                                *)
LEMMA DiscardedIs ==
  ASSUME DecodeInv, pc = "speculate"
  PROVE  /\ Discarded \in Seq(Vocabulary) /\ Last(generated) \in Vocabulary /\ generated # <<>>
         /\ Append(Discarded, Last(generated)) = Context /\ Len(Context) = Len(Discarded) + 1
  <1>1. generated # <<>> /\ generated \in Seq(Vocabulary) /\ kv \in Seq(Vocabulary)
    <2>1. Len(generated) \in Nat /\ passes \in Nat /\ passes < Len(generated)
      BY ContextIs DEF DecodeInv, DecodeTyped, DecodeBounds
    <2> QED BY <2>1, EmptySeq DEF DecodeInv, DecodeTyped
  <1>2. Last(generated) \in Vocabulary /\ generated = Append(Front(generated), Last(generated))
        /\ Front(generated) \in Seq(Vocabulary)
    BY <1>1, FrontAndLast
  <1>3. Discarded \in Seq(Vocabulary) /\ Append(Discarded, Last(generated)) = Context
    <2>1. CASE pending = NoStep
      BY <1>1, <2>1 DEF Discarded, DecodeInv, RowFollows
    <2>2. CASE pending # NoStep
      <3>1. kv = Context /\ Discarded = Front(kv)
        BY <2>2 DEF Discarded, DecodeInv, QueuedFollows
      <3> DEFINE p == asked.prompt
                 f == Front(generated)
                 l == Last(generated)
      <3>2. p \in Seq(Vocabulary) /\ f \in Seq(Vocabulary) /\ l \in Vocabulary
        BY <1>2 DEF DecodeInv, DecodeTyped
      <3>3. Context = p \o Append(f, l)
        BY <1>2 DEF Context
      <3> HIDE DEF p, f, l
      <3>4. p \o Append(f, l) = Append(p \o f, l) /\ p \o f \in Seq(Vocabulary)
        BY <3>2, ConcatAppend, ConcatProperties
      <3>5. Front(Append(p \o f, l)) = p \o f
        BY <3>2, <3>4, FrontOfAppend
      <3>6. Discarded = p \o f
        BY <3>1, <3>3, <3>4, <3>5
      <3> QED BY <3>3, <3>4, <3>6 DEF l
    <2> QED BY <2>1, <2>2
  <1>4. Len(Context) = Len(Discarded) + 1
    <2> DEFINE d == Discarded
    <2>1. d \in Seq(Vocabulary) /\ Context = Append(d, Last(generated))
      BY <1>3
    <2> HIDE DEF d
    <2>2. Len(Append(d, Last(generated))) = Len(d) + 1
      BY <1>2, <2>1, AppendProperties
    <2> QED BY <2>1, <2>2 DEF d
  <1> QED BY <1>1, <1>2, <1>3, <1>4

LEMMA StartVerifyKeeps ==
  ASSUME DecodeInv, StartVerify
  PROVE  DecodeInv' /\ UNCHANGED <<asked, generated, picked>> /\ pc' \notin {"stop", "failed"}
         /\ pc \notin {"stop", "failed"}
  <1>1. /\ pc = "speculate" /\ pc' = "verify" /\ pending' = NoStep
        /\ UNCHANGED <<asked, row, generated, picked, draws, passes>>
    BY DEF StartVerify
  <1>2. PICK limit \in DraftLimits :
          /\ kv' = Discarded \o <<Last(generated)>> \o Propose(Context, limit)
          /\ verify' = [draft |-> Propose(Context, limit), base |-> Len(Discarded), index |-> 1]
    BY DEF StartVerify
  <1> DEFINE draft == Propose(Context, limit)
             d == Discarded
             l == Last(generated)
             c == Context
  <1>3. /\ d \in Seq(Vocabulary) /\ l \in Vocabulary /\ Append(d, l) = c /\ Len(c) = Len(d) + 1
        /\ c \in Seq(Vocabulary) /\ Len(d) \in Nat /\ Len(c) \in Nat
    BY <1>1, DiscardedIs, ContextIs, LenProperties DEF DecodeInv
  <1>4. limit \in Nat /\ limit <= Limit - Len(generated) - 1 /\ Len(generated) \in Nat /\ Limit \in Nat
        /\ Len(generated) < Limit /\ Len(asked.prompt) \in Nat /\ Len(c) = Len(asked.prompt) + Len(generated)
    <2>1. Len(generated) \in Nat /\ Limit \in Nat /\ Len(generated) < Limit /\ MaxDraft \in Nat
          /\ Len(asked.prompt) \in Nat /\ Len(c) = Len(asked.prompt) + Len(generated)
      BY <1>1, ContextIs, DecodeAssumption DEF DecodeInv, DecodeBounds
    <2> DEFINE T == {MaxDraft, Limit - Len(generated) - 1}
    <2>2. T # {} /\ \A x \in T : x \in Int /\ 0 <= x
      BY <2>1
    <2>3. Min(T) \in T /\ \A y \in T : Min(T) <= y
      <3> HIDE DEF T
      <3> QED BY <2>2, MinIs, 0 \in Int
    <2>4. Min(T) \in Int /\ Min(T) <= Limit - Len(generated) - 1
      BY <2>2, <2>3
    <2>5. limit \in 0 .. Min(T)
      BY DEF DraftLimits
    <2> HIDE DEF T
    <2>6. limit \in Nat /\ limit <= Limit - Len(generated) - 1
      BY <2>1, <2>4, <2>5
    <2> QED BY <2>1, <2>6
  <1>5. draft \in Seq(Vocabulary) /\ Len(draft) <= limit /\ Len(draft) \in Nat
    BY <1>3, <1>4, ProposeIs, LenProperties
  <1>6. kv' = c \o draft
    <2> HIDE DEF draft, d, l, c
    <2>1. <<l>> \in Seq(Vocabulary) /\ d \o <<l>> = Append(d, l)
      BY <1>3, AppendIsConcat
    <2> QED BY <1>2, <1>3, <2>1 DEF d, l, draft
  <1> HIDE DEF draft, d, l, c
  <1>7. /\ kv' \in Seq(Vocabulary) /\ Len(kv') = Len(c) + Len(draft)
        /\ \A i \in 1 .. Len(c) + Len(draft) : kv'[i] = IF i <= Len(c) THEN c[i] ELSE draft[i - Len(c)]
    BY <1>3, <1>5, <1>6, ConcatProperties
  <1>8. SubSeq(kv', 1, Len(c)) = c
    <2>1. Len(c) \in 1 .. Len(c) /\ 1 \in 1 .. Len(c)
      BY <1>3
    <2>2. SubSeq(c \o draft, 1, Len(c)) = SubSeq(c, 1, Len(c))
      BY <1>3, <1>5, <2>1, SubSeqOfConcat1
    <2>3. SubSeq(c, 1, Len(c)) = c
      BY <1>3, SubSeqFull
    <2> QED BY <1>6, <2>2, <2>3
  <1>9. verify'.draft = draft /\ verify'.base = Len(d) /\ verify'.index = 1
    BY <1>2 DEF draft, d
  <1>10. Context' = c
    BY <1>1 DEF Context, c
  <1>11. DraftFollows'
    <2>1. /\ verify'.draft \in Seq(Vocabulary) /\ verify'.base \in Nat /\ verify'.index \in Nat \ {0}
          /\ verify'.index <= Len(verify'.draft) + 1
          /\ Len(kv') = verify'.base + 1 + Len(verify'.draft)
      BY <1>3, <1>5, <1>7, <1>9
    <2>2. SubSeq(kv', 1, verify'.base + verify'.index) = Context'
      BY <1>3, <1>8, <1>9, <1>10
    <2>3. \A j \in 1 .. Len(draft) : kv'[Len(d) + 1 + j] = draft[j]
      <3> SUFFICES ASSUME NEW j \in 1 .. Len(draft) PROVE kv'[Len(d) + 1 + j] = draft[j]
        OBVIOUS
      <3> DEFINE i == Len(d) + 1 + j
      <3>1. i \in 1 .. Len(c) + Len(draft) /\ ~(i <= Len(c)) /\ i - Len(c) = j
        BY <1>3, <1>5
      <3> HIDE DEF i
      <3>2. kv'[i] = draft[j]
        BY <1>7, <3>1
      <3> QED BY <3>2 DEF i
    <2> QED BY <1>9, <2>1, <2>2, <2>3 DEF DraftFollows
  <1>12. DecodeTyped'
    BY <1>1, <1>7 DEF DecodeInv, DecodeTyped
  <1>13. DecodeBounds'
    <2>1. Len(kv') < Len(asked'.prompt) + Limit
      <3>1. Len(kv') < Len(asked.prompt) + Limit
        BY <1>4, <1>5, <1>7
      <3> QED BY <1>1, <3>1
    <2> QED BY <1>1, <2>1 DEF DecodeInv, DecodeBounds
  <1>14. QueuedFollows' /\ RowFollows' /\ LeavesItsOwn'
    BY <1>1 DEF QueuedFollows, RowFollows, LeavesItsOwn
  <1> QED BY <1>1, <1>11, <1>12, <1>13, <1>14 DEF DecodeInv

LEMMA VerifyRowKeeps ==
  ASSUME DecodeInv, VerifyRow
  PROVE  DecodeInv' /\ \E t \in Vocabulary : Picks(t)
  <1> DEFINE n == verify.base + verify.index
             draft == verify.draft
  <1>1. PICK t \in Vocabulary :
          /\ Take(t, SubSeq(kv, 1, n), draws + 1)
          /\ \E ends \in ReplyEnds(t, generated') :
               IF ~ends /\ verify.index <= Len(draft) /\ draft[verify.index] = t
               THEN verify' = [verify EXCEPT !.index = @ + 1] /\ UNCHANGED <<kv, pc>>
               ELSE /\ kv' = RollBack /\ verify' = NoVerify
                    /\ pc' = IF ends THEN "stop" ELSE "speculate"
    BY DEF VerifyRow
  <1>2. PICK ends \in ReplyEnds(t, generated') :
          IF ~ends /\ verify.index <= Len(draft) /\ draft[verify.index] = t
          THEN verify' = [verify EXCEPT !.index = @ + 1] /\ UNCHANGED <<kv, pc>>
          ELSE /\ kv' = RollBack /\ verify' = NoVerify
               /\ pc' = IF ends THEN "stop" ELSE "speculate"
    BY <1>1
  <1>3. pc = "verify" /\ UNCHANGED <<asked, pending, row, passes>>
    BY DEF VerifyRow
  <1>4. /\ draft \in Seq(Vocabulary) /\ Len(draft) \in Nat /\ verify.base \in Nat /\ verify.index \in Nat \ {0}
        /\ verify.index <= Len(draft) + 1 /\ Len(kv) = verify.base + 1 + Len(draft)
        /\ SubSeq(kv, 1, n) = Context /\ kv \in Seq(Vocabulary)
        /\ \A j \in 1 .. Len(draft) : j >= verify.index => kv[verify.base + 1 + j] = draft[j]
    BY <1>3, LenProperties DEF DecodeInv, DraftFollows, DecodeTyped
  <1>5. /\ Len(generated) \in Nat /\ Limit \in Nat /\ Len(generated) < Limit /\ Len(Context) \in Nat
        /\ Len(kv) < Len(asked.prompt) + Limit /\ Len(asked.prompt) \in Nat /\ pending = NoStep
        /\ Len(Context) = Len(asked.prompt) + Len(generated)
    BY <1>3, ContextIs, DecodeAssumption DEF DecodeInv, QueuedFollows, DecodeTyped, DecodeBounds
  <1>6. n \in Nat /\ 1 <= n /\ n <= Len(kv) /\ Len(kv) \in Nat
    BY <1>4
  <1> HIDE DEF n, draft
  <1>7. Take(t, Context, draws + 1)
    BY <1>1, <1>4
  <1>8. /\ Last(generated') = t /\ Context' = Append(Context, t) /\ generated' # <<>>
        /\ Len(generated') = Len(generated) + 1
    BY <1>3, <1>7, Taken DEF DecodeInv
  <1>9. ends \in BOOLEAN
    <2>1. Len(generated') \in Nat /\ Len(generated') <= Limit
      BY <1>5, <1>8
    <2> QED BY <2>1, ReplyEndsIs
  <1>10. CASE ~ends /\ verify.index <= Len(draft) /\ draft[verify.index] = t
    <2>1. verify' = [verify EXCEPT !.index = @ + 1] /\ UNCHANGED <<kv, pc>>
      BY <1>2, <1>10
    <2>2. Picks(t)
      BY <1>3, <1>7, <1>10, <2>1 DEF Picks
    <2>3. DecodeTyped' /\ Len(generated') <= Limit /\ (pc' # "stop" => Len(generated') < Limit)
          /\ passes' < Len(generated')
      BY <1>3, <1>4, <2>1, <2>2, PicksKeeps
    <2>4. DecodeBounds'
      BY <1>3, <1>5, <2>1, <2>3 DEF DecodeBounds
    <2>5. verify'.draft = draft /\ verify'.base = verify.base /\ verify'.index = verify.index + 1
      BY <1>3, <2>1 DEF DecodeInv, DraftFollows, draft
    <2>6. SubSeq(kv, 1, n + 1) = Context'
      <3>1. kv[n + 1] = t
        <4> DEFINE j == verify.index
                   b == verify.base
        <4>1. j \in 1 .. Len(draft) /\ b + 1 + j = n + 1
          BY <1>4, <1>10 DEF n
        <4>2. \A i \in 1 .. Len(draft) : i >= j => kv[b + 1 + i] = draft[i]
          BY <1>4
        <4>3. j >= j /\ draft[j] = t
          BY <1>4, <1>10
        <4> HIDE DEF j, b
        <4>4. kv[b + 1 + j] = t
          BY ONLY <4>1, <4>2, <4>3
        <4> QED BY ONLY <4>1, <4>4
      <3>2. n + 1 <= Len(kv)
        BY <1>4, <1>10 DEF n
      <3>3. SubSeq(kv, 1, n + 1) = Append(SubSeq(kv, 1, n), kv[n + 1])
        BY <1>4, <1>6, <3>2, SubSeqGrows
      <3> QED BY <1>4, <1>8, <3>1, <3>3
    <2>7. DraftFollows'
      <3>1. verify'.base + verify'.index = n + 1
        BY <1>4, <2>5 DEF n
      <3>2. SubSeq(kv', 1, verify'.base + verify'.index) = Context'
        BY <2>1, <2>6, <3>1
      <3>3. verify'.index \in Nat \ {0} /\ verify'.index <= Len(verify'.draft) + 1
        BY <1>4, <1>10, <2>5
      <3>4. \A j \in 1 .. Len(verify'.draft) :
              j >= verify'.index => kv'[verify'.base + 1 + j] = verify'.draft[j]
        BY <1>4, <2>1, <2>5, SMTT(30)
      <3> QED BY <1>4, <2>1, <2>5, <3>2, <3>3, <3>4 DEF DraftFollows
    <2>8. QueuedFollows' /\ RowFollows' /\ LeavesItsOwn'
      BY <1>3, <1>5, <2>1 DEF QueuedFollows, RowFollows, LeavesItsOwn
    <2> QED BY <2>2, <2>3, <2>4, <2>7, <2>8 DEF DecodeInv
  <1>11. CASE ~(~ends /\ verify.index <= Len(draft) /\ draft[verify.index] = t)
    <2>1. kv' = RollBack /\ verify' = NoVerify /\ pc' = IF ends THEN "stop" ELSE "speculate"
      BY <1>2, <1>11
    <2>2. kv' = Context
      BY <1>4, <2>1 DEF RollBack, n
    <2>3. kv' \in Seq(Vocabulary)
      BY <2>2, ContextIs DEF DecodeInv
    <2>4. Picks(t)
      <3>1. pc' = "stop" <=> ends
        BY <1>9, <2>1
      <3> QED BY <1>2, <1>3, <1>7, <2>1, <3>1 DEF Picks
    <2>5. DecodeTyped' /\ Len(generated') <= Limit /\ (pc' # "stop" => Len(generated') < Limit)
          /\ passes' < Len(generated')
      BY <1>3, <2>1, <2>3, <2>4, PicksKeeps
    <2>6. DecodeBounds'
      <3>1. Len(kv') < Len(asked'.prompt) + Limit /\ pc' \in {"stop", "speculate"}
        <4>1. Len(kv') < Len(asked.prompt) + Limit
          BY <1>5, <2>2
        <4> QED BY <1>3, <2>1, <4>1
      <3> QED BY <2>5, <3>1 DEF DecodeBounds
    <2>7. Append(kv', Last(generated')) = Context'
      BY <1>8, <2>2
    <2>8. QueuedFollows' /\ RowFollows' /\ DraftFollows' /\ LeavesItsOwn'
      BY <1>3, <1>5, <1>8, <2>1, <2>7 DEF QueuedFollows, RowFollows, DraftFollows, LeavesItsOwn
    <2> QED BY <2>4, <2>5, <2>6, <2>8 DEF DecodeInv
  <1> QED BY <1>10, <1>11

LEMMA QueueNextKeeps ==
  ASSUME DecodeInv, QueueNextStep
  PROVE  DecodeInv' /\ UNCHANGED <<asked, generated, picked>> /\ pc' \notin {"stop", "failed"}
         /\ pc \notin {"stop", "failed"}
  <1>1. pc = "queue" /\ passes' = passes + 1 /\ UNCHANGED <<asked, generated, picked, draws, verify>>
        /\ pc' = IF passes' = Limit THEN "stop" ELSE "pick"
    BY DEF QueueNextStep
  <1>2. /\ passes \in Nat /\ Len(generated) \in Nat /\ passes < Len(generated) /\ Len(generated) < Limit
        /\ Limit \in Nat /\ kv \in Seq(Vocabulary) /\ generated \in Seq(Vocabulary)
    BY <1>1, ContextIs, DecodeAssumption DEF DecodeInv, DecodeTyped, DecodeBounds
  <1>3. pc' = "pick" /\ passes' \in Nat /\ passes' <= Len(generated')
    BY <1>1, <1>2
  <1>4. Context' = Context /\ Context \in Seq(Vocabulary) /\ Len(asked.prompt) \in Nat
        /\ Len(Context) = Len(asked.prompt) + Len(generated)
    BY <1>1, ContextIs DEF Context, DecodeInv
  <1>5. kv' = Context /\ QueuedFollows' /\ RowFollows'
    <2>1. CASE Requeued
      <3>1. kv' = Append(kv, Last(generated)) /\ pending' \in Steps(kv', 0) /\ asked.picking # "rows"
            /\ pending = NoStep
        BY <2>1 DEF QueueNextStep, Requeued
      <3>2. kv' = Context
        BY <1>1, <3>1 DEF DecodeInv, RowFollows
      <3>3. pending'.row = kv' /\ pending'.token \in Vocabulary /\ pending'.draw = draws + 0 + 1
            /\ pending' # NoStep
        <4> DEFINE tokens == kv'
                   nextStep == pending'
        <4>1. nextStep \in Steps(tokens, 0) /\ DecodeTyped /\ 0 \in Nat
          BY <3>1 DEF DecodeInv
        <4> HIDE DEF tokens, nextStep
        <4>2. nextStep.row = tokens /\ nextStep.token \in Vocabulary /\ nextStep.draw = draws + 0 + 1 /\ nextStep # NoStep
          BY ONLY <4>1, StepsIs
        <4> QED BY <4>2 DEF tokens, nextStep
      <3>4. pending'.draw = draws' + 1
        BY <1>1, <1>2, <3>3 DEF DecodeInv, DecodeTyped
      <3> QED BY <1>1, <1>3, <1>4, <3>1, <3>2, <3>3, <3>4 DEF QueuedFollows, RowFollows
    <2>2. CASE ~Requeued /\ asked.picking = "rows"
      <3>1. kv' = Append(kv, Last(generated)) /\ row' = kv' /\ pending' = pending
        BY <2>2 DEF QueueNextStep
      <3>2. pending = NoStep
        BY <2>2 DEF DecodeInv, QueuedFollows
      <3>3. kv' = Context
        BY <1>1, <3>1, <3>2 DEF DecodeInv, RowFollows
      <3> QED BY <1>3, <1>4, <3>1, <3>2, <3>3 DEF QueuedFollows, RowFollows
    <2>3. CASE ~Requeued /\ asked.picking # "rows"
      <3>1. UNCHANGED <<kv, pending, row>> /\ pending # NoStep
        BY <2>3 DEF QueueNextStep, Requeued
      <3>2. kv = Context
        BY <1>1, <3>1 DEF DecodeInv, QueuedFollows
      <3> QED BY <1>1, <1>3, <1>4, <3>1, <3>2 DEF DecodeInv, QueuedFollows, RowFollows
    <2> QED BY <2>1, <2>2, <2>3
  <1>6. DecodeTyped'
    BY <1>1, <1>3, <1>4, <1>5 DEF DecodeInv, DecodeTyped
  <1>7. DecodeBounds'
    <2>1. Len(kv') < Len(asked.prompt) + Limit
      BY <1>2, <1>4, <1>5
    <2> QED BY <1>1, <1>2, <1>3, <2>1 DEF DecodeInv, DecodeBounds
  <1>8. DraftFollows' /\ LeavesItsOwn'
    BY <1>3 DEF DraftFollows, LeavesItsOwn
  <1> QED BY <1>1, <1>3, <1>5, <1>6, <1>7, <1>8 DEF DecodeInv

LEMMA FailKeeps ==
  ASSUME DecodeInv, FailTurn
  PROVE  DecodeInv' /\ UNCHANGED <<asked, generated, picked>> /\ pc' = "failed"
         /\ pc \notin {"stop", "failed"}
  <1>1. pc \in {"pick", "speculate", "queue"} /\ pc' = "failed"
        /\ UNCHANGED <<asked, kv, pending, row, generated, picked, draws, verify, passes>>
    BY DEF FailTurn
  <1>2. Context' = Context
    BY <1>1 DEF Context
  <1>3. DecodeTyped' /\ DecodeBounds'
    BY <1>1 DEF DecodeInv, DecodeTyped, DecodeBounds
  <1>4. QueuedFollows' /\ RowFollows' /\ DraftFollows' /\ LeavesItsOwn'
    BY <1>1, <1>2 DEF DecodeInv, QueuedFollows, RowFollows, DraftFollows, LeavesItsOwn
  <1> QED BY <1>1, <1>3, <1>4 DEF DecodeInv

LEMMA DecodeStarts == DecodeInit => DecodeInv
  <1> SUFFICES ASSUME DecodeInit PROVE DecodeInv
    OBVIOUS
  <1>1. /\ asked \in [prompt : Prompts, picking : Picking, speculating : BOOLEAN]
        /\ kv = asked.prompt /\ row = asked.prompt /\ pending = NoStep /\ generated = <<>>
        /\ draws = 0 /\ passes = 0 /\ pc = "pick"
    BY DEF DecodeInit
  <1>2. asked.prompt \in Seq(Vocabulary) /\ asked.picking \in Picking /\ generated \in Seq(Vocabulary)
        /\ Len(generated) = 0
    BY <1>1, DecodeAssumption, EmptySeq
  <1>3. Context = asked.prompt
    <2> DEFINE p == asked.prompt
    <2>1. p \in Seq(Vocabulary)
      BY <1>2
    <2> HIDE DEF p
    <2>2. p \o <<>> = p
      BY <2>1, ConcatEmptySeq
    <2> QED BY <1>1, <2>2 DEF Context, p
  <1>4. DecodeTyped
    BY <1>1, <1>2 DEF DecodeTyped
  <1>5. DecodeBounds
    <2>1. Len(asked.prompt) \in Nat /\ Limit \in Nat \ {0}
      BY <1>4, ContextIs, DecodeAssumption
    <2> QED BY <1>1, <1>2, <2>1 DEF DecodeBounds
  <1>6. QueuedFollows /\ RowFollows /\ DraftFollows /\ LeavesItsOwn
    BY <1>1, <1>3 DEF QueuedFollows, RowFollows, DraftFollows, LeavesItsOwn
  <1> QED BY <1>4, <1>5, <1>6 DEF DecodeInv

LEMMA DecodeStep ==
  ASSUME DecodeInv, DecodeNext
  PROVE  /\ DecodeInv'
         /\ \/ \E t \in Vocabulary : Picks(t)
            \/ /\ UNCHANGED <<asked, generated, picked>> /\ pc \notin {"stop", "failed"} /\ pc' # "stop"
  <1> QED BY SettleKeeps, PickRowKeeps, NoDraftKeeps, StartVerifyKeeps, VerifyRowKeeps, QueueNextKeeps,
             FailKeeps DEF DecodeNext

LEMMA DecodeStutters ==
  ASSUME DecodeInv, UNCHANGED decodeVars PROVE DecodeInv'
  <1>1. UNCHANGED <<asked, kv, pending, row, generated, picked, draws, verify, passes, pc>>
    BY DEF decodeVars
  <1>2. Context' = Context
    BY <1>1 DEF Context
  <1>3. DecodeTyped' /\ DecodeBounds' /\ LeavesItsOwn'
    BY <1>1, <1>2 DEF DecodeInv, DecodeTyped, DecodeBounds, LeavesItsOwn
  <1>4. QueuedFollows' /\ RowFollows' /\ DraftFollows'
    BY <1>1, <1>2 DEF DecodeInv, QueuedFollows, RowFollows, DraftFollows
  <1> QED BY <1>3, <1>4 DEF DecodeInv

LEMMA OwnKv ==
  ASSUME DecodeInv PROVE KvIsTheTurns
  <1>1. Len(generated) \in Nat /\ Len(asked.prompt) \in Nat /\ generated \in Seq(Vocabulary)
        /\ Context \in Seq(Vocabulary)
    BY ContextIs DEF DecodeInv, DecodeTyped
  <1>2. Range(generated) \subseteq Vocabulary
    <2> SUFFICES ASSUME NEW x \in Range(generated) PROVE x \in Vocabulary
      OBVIOUS
    <2>1. PICK i \in DOMAIN generated : x = generated[i]
      BY DEF Range
    <2> QED BY <1>1, <2>1, ElementOfSeq
  <1>3. DecodeTypeOK
    BY <1>2 DEF DecodeInv, DecodeTyped, DecodeBounds, QueuedFollows, DecodeTypeOK
  <1>4. ASSUME pc = "stop"
        PROVE  \/ kv = asked.prompt \o Front(generated)
               \/ MayClose /\ Last(generated) # EndTurn /\ kv = Context
    <2>1. generated # <<>> /\ kv \in Seq(Vocabulary)
      BY <1>4 DEF DecodeInv, LeavesItsOwn, DecodeTyped
    <2>2. CASE Append(kv, Last(generated)) = Context
      <3> DEFINE p == asked.prompt
                 f == Front(generated)
                 l == Last(generated)
      <3>1. p \in Seq(Vocabulary) /\ f \in Seq(Vocabulary) /\ l \in Vocabulary /\ generated = Append(f, l)
        BY <1>1, <2>1, FrontAndLast DEF DecodeInv, DecodeTyped
      <3>2. Append(kv, l) = p \o Append(f, l)
        BY <2>2, <3>1 DEF Context
      <3> HIDE DEF p, f, l
      <3>3. p \o Append(f, l) = Append(p \o f, l) /\ p \o f \in Seq(Vocabulary)
        BY <3>1, ConcatAppend, ConcatProperties
      <3> DEFINE u == p \o f
      <3>4. u \in Seq(Vocabulary) /\ Append(kv, l) = Append(u, l)
        BY <3>2, <3>3
      <3> HIDE DEF u
      <3>5. kv = u
        <4>1. Front(Append(kv, l)) = kv
          BY <2>1, <3>1, FrontOfAppend
        <4>2. Front(Append(u, l)) = u
          BY <3>1, <3>4, FrontOfAppend
        <4> QED BY <3>4, <4>1, <4>2
      <3>6. kv = asked.prompt \o Front(generated)
        BY <3>5 DEF u, p, f
      <3> QED BY <3>6
    <2>3. CASE ~(Append(kv, Last(generated)) = Context)
      BY <1>4, <2>3 DEF DecodeInv, LeavesItsOwn
    <2> QED BY <2>2, <2>3
  <1> QED BY <1>3, <1>4 DEF KvIsTheTurns

\* A turn leaves the K/V of its own tokens to the prefix cache, for every limit,
\* vocabulary and prompt: whatever was queued ahead, drafted or rolled back
\* (RollBack, KeptStep, KvAfter), and no forward asks for a position beyond the
\* last possible token (MayRunAhead).
THEOREM LeavesOwnKv == DecodeSpec => []KvIsTheTurns
  <1>1. DecodeInit => DecodeInv
    BY DecodeStarts
  <1>2. DecodeInv /\ [DecodeNext]_decodeVars => DecodeInv'
    BY DecodeStep, DecodeStutters
  <1>3. DecodeInv => KvIsTheTurns
    BY OwnKv
  <1> QED BY <1>1, <1>2, <1>3, PTL DEF DecodeSpec

LEMMA PicksPlain ==
  ASSUME DecodeInv, NEW t \in Vocabulary, Picks(t)
  PROVE  Plain!PlainPick(t)
  <1>1. /\ pc \notin {"stop", "failed"} /\ pc' # "failed" /\ Take(t, Context, draws + 1)
        /\ UNCHANGED asked
    BY DEF Picks
  <1>2. PICK ends \in ReplyEnds(t, generated') : pc' = "stop" <=> ends
    BY DEF Picks
  <1>3. generated' = Append(generated, t) /\ Len(generated') = Len(generated) + 1
        /\ picked' = [row |-> Context, draw |-> draws + 1]
    BY <1>1, Taken DEF DecodeInv
  <1>4. Len(generated) \in Nat /\ Limit \in Nat /\ Len(generated) < Limit /\ draws = Len(generated)
    BY <1>1, ContextIs, DecodeAssumption DEF DecodeInv, DecodeTyped, DecodeBounds
  <1>5. \E closed \in IF MayClose THEN BOOLEAN ELSE {FALSE} :
          ends <=> t = EndTurn \/ closed \/ Len(generated') = Limit
    <2>1. Len(generated') \in Nat /\ Len(generated') <= Limit
      BY <1>3, <1>4
    <2> QED BY <2>1, ReplyEndsIs
  <1>6. PICK closed \in IF MayClose THEN BOOLEAN ELSE {FALSE} :
          ends <=> t = EndTurn \/ closed \/ Len(generated') = Limit
    BY <1>5
  <1>7. (IF pc \in {"stop", "failed"} THEN pc ELSE "no") = "no"
    BY <1>1
  <1>8. (IF pc' \in {"stop", "failed"} THEN pc' ELSE "no")
          = IF t = EndTurn \/ closed \/ Len(generated') = Limit THEN "stop" ELSE "no"
    BY <1>1, <1>2, <1>6
  <1>9. \E c \in IF MayClose THEN BOOLEAN ELSE {FALSE} :
          (IF pc' \in {"stop", "failed"} THEN pc' ELSE "no")
            = IF t = EndTurn \/ c \/ Len(generated') = Limit THEN "stop" ELSE "no"
    <2> WITNESS closed \in IF MayClose THEN BOOLEAN ELSE {FALSE}
    <2> QED BY <1>8
  <1>10. picked' = [row |-> asked.prompt \o generated, draw |-> Len(generated) + 1]
    BY <1>3, <1>4 DEF Context
  <1> QED BY <1>1, <1>3, <1>7, <1>9, <1>10 DEF Plain!PlainPick

\* Decoding with queued steps, drafts and rollbacks is plain decoding: every
\* token is picked after the prompt and the tokens before it, with its own draw,
\* and ends the turn as it would (settle, accept_and_roll_back).
THEOREM DecodesPlainly == DecodeSpec => ImplementsPlain
  <1> DEFINE ends == IF pc \in {"stop", "failed"} THEN pc ELSE "no"
  <1>1. DecodeInit => DecodeInv
    BY DecodeStarts
  <1>2. DecodeInv /\ [DecodeNext]_decodeVars => DecodeInv'
    BY DecodeStep, DecodeStutters
  <1>3. DecodeInit => Plain!PlainInit
    BY DEF DecodeInit, Plain!PlainInit
  <1>4. DecodeInv /\ [DecodeNext]_decodeVars =>
          [Plain!PlainFail \/ \E t \in Vocabulary : Plain!PlainPick(t)]_<<asked.prompt, generated, picked, ends>>
    <2>1. ASSUME DecodeInv, NEW t \in Vocabulary, Picks(t)
          PROVE  \E u \in Vocabulary : Plain!PlainPick(u)
      BY <2>1, PicksPlain
    <2>2. ASSUME DecodeInv, UNCHANGED <<asked, generated, picked>>, pc \notin {"stop", "failed"}, pc' # "stop"
          PROVE  Plain!PlainFail \/ UNCHANGED <<asked.prompt, generated, picked, ends>>
      <3>1. CASE pc' = "failed"
        <4>1. Plain!PlainFail
          BY <2>2, <3>1 DEF Plain!PlainFail
        <4> QED BY <4>1
      <3>2. CASE pc' # "failed"
        BY <2>2, <3>2
      <3> QED BY <3>1, <3>2
    <2>3. ASSUME UNCHANGED decodeVars PROVE UNCHANGED <<asked.prompt, generated, picked, ends>>
      BY <2>3 DEF decodeVars
    <2> HIDE DEF ends
    <2> QED BY <2>1, <2>2, <2>3, DecodeStep
  <1> QED BY <1>1, <1>2, <1>3, <1>4, PTL DEF DecodeSpec, ImplementsPlain, Plain!PlainSpec

----------------------------------------------------------------------------
(***************************************************************************)
(* FreeQueue: the links are those of a line in which no block stands       *)
(* twice, and each call makes of them the links of the line it promises.   *)
(***************************************************************************)
\* The block at place i of the line w, or that there is none.
Standing(w, i) == IF i \in 1 .. Len(w) THEN w[i] ELSE NIL

QueueRecord ==
  [prev : [Blocks -> Blocks \cup {NIL}], next : [Blocks -> Blocks \cup {NIL}],
   head : Blocks \cup {NIL}, tail : Blocks \cup {NIL}, queued : [Blocks -> BOOLEAN], len : Nat]

Linked(f, w) ==
  /\ f \in QueueRecord /\ w \in Seq(Blocks) /\ Once(w)
  /\ f.head = Standing(w, 1) /\ f.tail = Standing(w, Len(w)) /\ f.len = Len(w)
  /\ \A i \in 1 .. Len(w) : f.prev[w[i]] = Standing(w, i - 1) /\ f.next[w[i]] = Standing(w, i + 1)
  /\ \A b \in Blocks : f.queued[b] <=> b \in Range(w)

(* The line without its j-th block.                                        *)
WithoutPlace(w, j) == [i \in 1 .. Len(w) - 1 |-> IF i < j THEN w[i] ELSE w[i + 1]]

LEMMA WithoutPlaceIs ==
  ASSUME NEW S, NEW w \in Seq(S), NEW j \in 1 .. Len(w)
  PROVE  /\ WithoutPlace(w, j) \in Seq(S) /\ Len(WithoutPlace(w, j)) = Len(w) - 1
         /\ \A i \in 1 .. Len(w) - 1 : WithoutPlace(w, j)[i] = IF i < j THEN w[i] ELSE w[i + 1]
  <1>1. Len(w) \in Nat /\ Len(w) - 1 \in Nat /\ \A i \in 1 .. Len(w) : w[i] \in S
    BY LenProperties, ElementOfSeq
  <1> DEFINE v == WithoutPlace(w, j)
             n == Len(w) - 1
  <1>2. v = [i \in 1 .. n |-> IF i < j THEN w[i] ELSE w[i + 1]]
    BY DEF WithoutPlace
  <1>3. \A i \in 1 .. n : (IF i < j THEN w[i] ELSE w[i + 1]) \in S
    <2> TAKE i \in 1 .. n
    <2>1. i \in 1 .. Len(w) /\ i + 1 \in 1 .. Len(w)
      BY <1>1
    <2> QED BY <1>1, <2>1
  <1> HIDE DEF v, n
  <1>4. v \in [1 .. n -> S]
    BY <1>2, <1>3
  <1>5. n \in Nat
    BY <1>1 DEF n
  <1>6. v \in Seq(S)
    BY <1>4, <1>5, SeqDef
  <1>7. Len(v) = n
    BY <1>4, <1>5, <1>6, LenProperties
  <1> QED BY <1>2, <1>6, <1>7 DEF v, n

(* The rank among 1 .. n without j.                                        *)
LEMMA RankWithout ==
  ASSUME NEW n \in Nat, NEW j \in 1 .. n, NEW i \in 1 .. n, i # j
  PROVE  Rank(1 .. n \ {j}, i) = IF i < j THEN i ELSE i - 1
  <1> DEFINE low == {k \in 1 .. n \ {j} : k <= i}
  <1>1. IsFiniteSet(1 .. i) /\ Cardinality(1 .. i) = i
    BY FS_Interval
  <1>2. CASE i < j
    <2>1. low = 1 .. i
      BY <1>2
    <2> QED BY <1>1, <1>2, <2>1 DEF Rank
  <1>3. CASE ~(i < j)
    <2>1. low = (1 .. i) \ {j} /\ j \in 1 .. i
      BY <1>3
    <2>2. Cardinality((1 .. i) \ {j}) = i - 1
      BY <1>1, <2>1, FS_RemoveElement
    <2> QED BY <1>3, <2>1, <2>2 DEF Rank
  <1> QED BY <1>2, <1>3

(* Keeping all but one.                                                    *)
LEMMA KeepAllBut ==
  ASSUME NEW S, NEW w \in Seq(S), Once(w), NEW j \in 1 .. Len(w)
  PROVE  Keep(w, S \ {w[j]}) = WithoutPlace(w, j)
  <1> DEFINE n == Len(w)
             T == S \ {w[j]}
             K == Kept(w, T)
  <1>1. n \in Nat /\ DOMAIN w = 1 .. n /\ \A i \in 1 .. n : w[i] \in S
    BY LenProperties, ElementOfSeq
  <1>2. K = 1 .. n \ {j}
    BY <1>1 DEF Kept, Once
  <1>3. IsFiniteSet(1 .. n) /\ Cardinality(1 .. n) = n
    BY <1>1, FS_Interval, SMTT(30)
  <1>4. IsFiniteSet(K) /\ Cardinality(K) = n - 1
    <2>1. j \in 1 .. n
      OBVIOUS
    <2> HIDE DEF n, K
    <2> QED BY <1>2, <1>3, <2>1, FS_RemoveElement
  <1>5. ASSUME NEW m \in 1 .. n - 1 PROVE Place(K, m) = IF m < j THEN m ELSE m + 1
    <2> DEFINE i == IF m < j THEN m ELSE m + 1
    <2>1. i \in 1 .. n /\ i # j /\ (IF i < j THEN i ELSE i - 1) = m
      BY <1>1
    <2> HIDE DEF i
    <2>2. Rank(K, i) = m
      <3>1. j \in 1 .. n
        OBVIOUS
      <3> HIDE DEF n, K
      <3> QED BY <1>1, <1>2, <2>1, <3>1, RankWithout
    <2>3. i \in K /\ K \in SUBSET Nat
      <3> HIDE DEF n, K
      <3> QED BY <1>1, <1>2, <2>1
    <2> HIDE DEF K
    <2>4. Place(K, Rank(K, i)) = i
      BY <1>4, <2>3, PlaceProperties
    <2> QED BY <2>2, <2>4 DEF i
  <1>6. Keep(w, T) = [m \in 1 .. n - 1 |-> w[Place(K, m)]]
    <2> HIDE DEF n, T
    <2> QED BY <1>4, KeepIs DEF K
  <1>7. \A m \in 1 .. n - 1 : w[Place(K, m)] = IF m < j THEN w[m] ELSE w[m + 1]
    BY <1>5
  <1> HIDE DEF K
  <1> QED BY <1>6, <1>7 DEF WithoutPlace

(* Keeping all.                                                            *)
LEMMA KeepAll ==
  ASSUME NEW S, NEW w \in Seq(S), NEW T, Range(w) \subseteq T
  PROVE  Keep(w, T) = w
  <1> DEFINE n == Len(w)
             K == Kept(w, T)
  <1>1. n \in Nat /\ DOMAIN w = 1 .. n /\ w \in [1 .. n -> S]
    BY LenProperties
  <1>2. K = 1 .. n
    BY <1>1 DEF Kept, Range
  <1>3. IsFiniteSet(1 .. n) /\ Cardinality(1 .. n) = n
    BY <1>1, FS_Interval
  <1>4. ASSUME NEW m \in 1 .. n PROVE Place(K, m) = m
    <2> DEFINE low == {k \in 1 .. n : k <= m}
    <2>1. low = 1 .. m
      BY <1>1
    <2>2. Cardinality(1 .. m) = m
      BY <1>1, FS_Interval
    <2>3. Rank(1 .. n, m) = m
      BY <2>1, <2>2 DEF Rank
    <2>4. 1 .. n \in SUBSET Nat
      BY <1>1
    <2>5. Place(1 .. n, Rank(1 .. n, m)) = m
      <3> HIDE DEF n
      <3> QED BY <1>3, <2>4, PlaceProperties
    <2> QED BY <1>2, <2>3, <2>5
  <1>5. Keep(w, T) = [m \in 1 .. n |-> w[Place(K, m)]]
    <2>1. Cardinality(K) = n
      BY <1>2, <1>3
    <2> HIDE DEF n
    <2> QED BY <2>1, KeepIs DEF K
  <1>6. \A m \in 1 .. n : w[Place(K, m)] = w[m]
    BY <1>4
  <1> HIDE DEF K
  <1>7. [m \in 1 .. n |-> w[Place(K, m)]] = [m \in 1 .. n |-> w[m]]
    BY <1>6
  <1>8. w = [m \in 1 .. n |-> w[m]]
    BY <1>1
  <1> QED BY <1>5, <1>7, <1>8

LEMMA QueueRecordIs ==
  ASSUME NEW f \in QueueRecord
  PROVE  /\ f.prev \in [Blocks -> Blocks \cup {NIL}] /\ f.next \in [Blocks -> Blocks \cup {NIL}]
         /\ f.head \in Blocks \cup {NIL} /\ f.tail \in Blocks \cup {NIL}
         /\ f.queued \in [Blocks -> BOOLEAN] /\ f.len \in Nat
  BY DEF QueueRecord

LEMMA BlocksAre == NumBlocks \in Nat \ {0} /\ NIL \notin Blocks /\ Blocks \subseteq Nat
  BY QueueAssumption DEF Blocks

LEMMA PushBackLinks ==
  ASSUME NEW f, NEW w, Linked(f, w), NEW b \in Blocks, ~f.queued[b]
  PROVE  Linked(PushBack(f, b), Append(w, b)) /\ b \notin Range(w)
  <1> DEFINE g == PushBack(f, b)
             v == Append(w, b)
             n == Len(w)
  <1>1. /\ f \in QueueRecord /\ w \in Seq(Blocks) /\ Once(w) /\ n \in Nat
        /\ f.head = Standing(w, 1) /\ f.tail = Standing(w, n) /\ f.len = n
        /\ \A i \in 1 .. n : f.prev[w[i]] = Standing(w, i - 1) /\ f.next[w[i]] = Standing(w, i + 1)
        /\ \A c \in Blocks : f.queued[c] <=> c \in Range(w)
        /\ \A i \in 1 .. n : w[i] \in Blocks
    BY LenProperties, ElementOfSeq DEF Linked
  <1>2. b \notin Range(w)
    BY <1>1
  <1>3. /\ v \in Seq(Blocks) /\ Len(v) = n + 1 /\ v[n + 1] = b /\ \A i \in 1 .. n : v[i] = w[i]
        /\ Range(v) = Range(w) \cup {b} /\ Once(v)
    <2>1. v \in Seq(Blocks) /\ Len(v) = n + 1 /\ v[n + 1] = b /\ \A i \in 1 .. n : v[i] = w[i]
      BY <1>1, AppendProperties
    <2>2. Range(v) = Range(w) \cup {b} /\ Once(v)
      <3>1. DOMAIN v = 1 .. n + 1 /\ DOMAIN w = 1 .. n
        BY <1>1, <2>1, LenProperties
      <3> HIDE DEF v, n
      <3>2. Range(v) = Range(w) \cup {b}
        <4>1. \A x : x \in Range(v) <=> \E i \in 1 .. n + 1 : v[i] = x
          BY <3>1 DEF Range
        <4>2. \A x : x \in Range(w) <=> \E i \in 1 .. n : w[i] = x
          BY <3>1 DEF Range
        <4>3. n + 1 \in 1 .. n + 1 /\ \A i \in 1 .. n + 1 : i = n + 1 \/ i \in 1 .. n
          BY <1>1
        <4>4. \A i \in 1 .. n : i \in 1 .. n + 1
          BY <1>1
        <4>5. \A x : x \in Range(v) <=> x \in Range(w) \/ x = b
          BY ONLY <2>1, <4>1, <4>2, <4>3, <4>4
        <4> QED BY ONLY <4>5
      <3>3. Once(v)
        <4>1. w \in Seq(Blocks) /\ b \in Blocks /\ Once(w) /\ b \notin Range(w)
          BY <1>1, <1>2
        <4> QED BY ONLY <4>1, JoinLine DEF v
      <3> QED BY <3>2, <3>3
    <2> QED BY <2>1, <2>2
  <1>4. /\ g.prev = [f.prev EXCEPT ![b] = f.tail]
        /\ g.next = [c \in Blocks |-> IF c = b THEN NIL ELSE IF c = f.tail THEN b ELSE f.next[c]]
        /\ g.head = (IF f.tail = NIL THEN b ELSE f.head) /\ g.tail = b
        /\ g.queued = [f.queued EXCEPT ![b] = TRUE] /\ g.len = f.len + 1
    BY DEF PushBack
  <1>5. g \in QueueRecord
    <2>1. /\ f.prev \in [Blocks -> Blocks \cup {NIL}] /\ f.next \in [Blocks -> Blocks \cup {NIL}]
          /\ f.head \in Blocks \cup {NIL} /\ f.tail \in Blocks \cup {NIL}
          /\ f.queued \in [Blocks -> BOOLEAN] /\ f.len \in Nat
      BY <1>1, QueueRecordIs
    <2> QED BY <2>1 DEF PushBack, QueueRecord
  <1>6. \A i \in 1 .. n : w[i] # b
    BY <1>1, <1>2, LenProperties DEF Range
  <1>7. /\ \A i \in Int : i # n + 1 => Standing(v, i) = Standing(w, i)
        /\ Standing(v, n + 1) = b /\ Standing(v, n + 2) = NIL
    BY <1>1, <1>3 DEF Standing
  <1> HIDE DEF g, v
  <1>8. ASSUME NEW i \in 1 .. n + 1
        PROVE  g.prev[v[i]] = Standing(v, i - 1) /\ g.next[v[i]] = Standing(v, i + 1)
    <2>1. f.prev \in [Blocks -> Blocks \cup {NIL}]
      BY <1>1, QueueRecordIs
    <2>2. CASE i = n + 1
      <3>1. v[i] = b /\ Standing(v, n) = Standing(w, n) /\ i - 1 = n /\ i + 1 = n + 2
        BY <1>1, <1>3, <1>7, <2>2
      <3> QED BY <1>1, <1>4, <1>7, <2>1, <3>1
    <2>3. CASE i # n + 1
      <3>1. i \in 1 .. n /\ v[i] = w[i] /\ w[i] # b /\ w[i] \in Blocks /\ i - 1 # n + 1
        BY <1>1, <1>3, <1>6, <2>3
      <3>2. g.prev[v[i]] = Standing(v, i - 1)
        BY <1>1, <1>4, <1>7, <2>1, <3>1
      <3>3. g.next[v[i]] = Standing(v, i + 1)
        <4>1. CASE i = n
          <5>1. f.tail = w[i]
            BY <1>1, <3>1, <4>1 DEF Standing
          <5> QED BY <1>4, <1>7, <3>1, <4>1, <5>1
        <4>2. CASE i # n
          <5>1. f.tail # w[i]
            <6>1. CASE n = 0
              BY <3>1, <6>1
            <6>2. CASE n # 0
              <7>1. n \in 1 .. n /\ f.tail = w[n]
                BY <1>1, <6>2 DEF Standing
              <7> QED BY <1>1, <3>1, <4>2, <7>1 DEF Once
            <6> QED BY <6>1, <6>2
          <5>2. g.next[v[i]] = f.next[w[i]] /\ i + 1 # n + 1
            BY <1>1, <1>4, <3>1, <4>2, <5>1
          <5> QED BY <1>1, <1>7, <3>1, <5>2
        <4> QED BY <4>1, <4>2
      <3> QED BY <3>2, <3>3
    <2> QED BY <2>2, <2>3
  <1>9. g.head = Standing(v, 1)
    <2>1. CASE n = 0
      <3>1. f.tail = NIL
        BY <1>1, <2>1 DEF Standing
      <3> QED BY <1>4, <1>7, <2>1, <3>1
    <2>2. CASE n # 0
      <3>1. f.tail \in Blocks /\ 1 # n + 1
        BY <1>1, <2>2 DEF Standing
      <3> QED BY <1>1, <1>4, <1>7, <3>1, BlocksAre
    <2> QED BY <2>1, <2>2
  <1>10. g.tail = Standing(v, n + 1) /\ g.len = Len(v)
    BY <1>1, <1>3, <1>4, <1>7
  <1>11. \A c \in Blocks : g.queued[c] <=> c \in Range(v)
    <2>1. f.queued \in [Blocks -> BOOLEAN]
      BY <1>1, QueueRecordIs
    <2> QED BY <1>1, <1>3, <1>4, <2>1
  <1> HIDE DEF n
  <1>12. Linked(g, v)
    BY <1>3, <1>5, <1>8, <1>9, <1>10, <1>11 DEF Linked
  <1> QED BY <1>2, <1>12 DEF g, v

LEMMA PushFrontLinks ==
  ASSUME NEW f, NEW w, Linked(f, w), NEW b \in Blocks, ~f.queued[b]
  PROVE  Linked(PushFront(f, b), <<b>> \o w) /\ b \notin Range(w)
  <1> DEFINE g == PushFront(f, b)
             v == <<b>> \o w
             n == Len(w)
  <1>1. /\ f \in QueueRecord /\ w \in Seq(Blocks) /\ Once(w) /\ n \in Nat
        /\ f.head = Standing(w, 1) /\ f.tail = Standing(w, n) /\ f.len = n
        /\ \A i \in 1 .. n : f.prev[w[i]] = Standing(w, i - 1) /\ f.next[w[i]] = Standing(w, i + 1)
        /\ \A c \in Blocks : f.queued[c] <=> c \in Range(w)
        /\ \A i \in 1 .. n : w[i] \in Blocks
    BY LenProperties, ElementOfSeq DEF Linked
  <1>2. b \notin Range(w)
    BY <1>1
  <1>3. /\ v \in Seq(Blocks) /\ Len(v) = n + 1 /\ v[1] = b /\ \A i \in 1 .. n : v[i + 1] = w[i]
        /\ Range(v) = Range(w) \cup {b} /\ Once(v)
    <2>1. <<b>> \in Seq(Blocks) /\ Len(<<b>>) = 1 /\ <<b>>[1] = b
      OBVIOUS
    <2>2. /\ Len(v) = 1 + n
          /\ \A i \in 1 .. 1 + n : v[i] = IF i <= 1 THEN <<b>>[i] ELSE w[i - 1]
      BY <1>1, <2>1, ConcatProperties
    <2>3. v \in Seq(Blocks) /\ Range(v) = Range(w) \cup {b} /\ Once(v)
      BY <1>1, <1>2, JoinLine
    <2> HIDE DEF v
    <2>4. v[1] = b
      BY <1>1, <2>1, <2>2
    <2>5. ASSUME NEW i \in 1 .. n PROVE v[i + 1] = w[i]
      <3>1. i + 1 \in 1 .. 1 + n /\ ~(i + 1 <= 1) /\ (i + 1) - 1 = i
        BY <1>1
      <3> QED BY <2>2, <3>1
    <2> QED BY <1>1, <2>2, <2>3, <2>4, <2>5
  <1>4. /\ g.prev = [c \in Blocks |-> IF c = b THEN NIL ELSE IF c = f.head THEN b ELSE f.prev[c]]
        /\ g.next = [f.next EXCEPT ![b] = f.head]
        /\ g.head = b /\ g.tail = (IF f.head = NIL THEN b ELSE f.tail)
        /\ g.queued = [f.queued EXCEPT ![b] = TRUE] /\ g.len = f.len + 1
    BY DEF PushFront
  <1>5. g \in QueueRecord
    <2>1. /\ f.prev \in [Blocks -> Blocks \cup {NIL}] /\ f.next \in [Blocks -> Blocks \cup {NIL}]
          /\ f.head \in Blocks \cup {NIL} /\ f.tail \in Blocks \cup {NIL}
          /\ f.queued \in [Blocks -> BOOLEAN] /\ f.len \in Nat
      BY <1>1, QueueRecordIs
    <2> QED BY <2>1 DEF PushFront, QueueRecord
  <1>6. \A i \in 1 .. n : w[i] # b
    BY <1>1, <1>2, LenProperties DEF Range
  <1> HIDE DEF g, v
  <1>7. /\ \A i \in Int : i # 0 => Standing(v, i + 1) = Standing(w, i)
        /\ Standing(v, 1) = b /\ Standing(v, 0) = NIL
    <2>1. ASSUME NEW i \in Int, i # 0 PROVE Standing(v, i + 1) = Standing(w, i)
      <3>1. CASE i \in 1 .. n
        <4>1. i + 1 \in 1 .. Len(v) /\ v[i + 1] = w[i]
          BY <1>1, <1>3, <3>1
        <4> QED BY <3>1, <4>1 DEF Standing
      <3>2. CASE i \notin 1 .. n
        <4>1. i + 1 \notin 1 .. Len(v)
          BY <1>1, <1>3, <2>1, <3>2
        <4> QED BY <3>2, <4>1 DEF Standing
      <3> QED BY <3>1, <3>2
    <2>2. Standing(v, 1) = b /\ Standing(v, 0) = NIL
      BY <1>1, <1>3 DEF Standing
    <2> QED BY <2>1, <2>2
  <1>8. ASSUME NEW i \in 1 .. n + 1
        PROVE  g.prev[v[i]] = Standing(v, i - 1) /\ g.next[v[i]] = Standing(v, i + 1)
    <2>1. f.next \in [Blocks -> Blocks \cup {NIL}]
      BY <1>1, QueueRecordIs
    <2>2. CASE i = 1
      <3>1. v[i] = b /\ Standing(v, 2) = Standing(w, 1) /\ i - 1 = 0 /\ i + 1 = 2
        <4>1. Standing(v, 1 + 1) = Standing(w, 1)
          BY <1>7
        <4> QED BY <1>3, <2>2, <4>1
      <3> QED BY <1>1, <1>4, <1>7, <2>1, <3>1, SMTT(30)
    <2>3. CASE i # 1
      <3> DEFINE j == i - 1
      <3>1. j \in 1 .. n /\ j + 1 = i
        BY <1>1, <2>3
      <3> HIDE DEF j
      <3>2. v[i] = w[j] /\ w[j] # b /\ w[j] \in Blocks
        BY <1>1, <1>3, <1>6, <3>1
      <3>3. Standing(v, i + 1) = Standing(w, j + 1) /\ j + 1 \in Int /\ j + 1 # 0
        <4>1. j + 1 \in Int /\ j + 1 # 0
          BY <1>1, <3>1
        <4> QED BY <1>7, <3>1, <4>1
      <3>4. g.next[v[i]] = Standing(v, i + 1)
        BY <1>1, <1>4, <2>1, <3>1, <3>2, <3>3
      <3>5. g.prev[v[i]] = Standing(v, i - 1)
        <4>1. CASE j = 1
          <5>1. f.head = w[j] /\ i - 1 = 1
            BY <1>1, <3>1, <4>1 DEF Standing
          <5> QED BY <1>4, <1>7, <3>2, <5>1
        <4>2. CASE j # 1
          <5>1. f.head # w[j]
            <6>1. 1 \in 1 .. n /\ f.head = w[1]
              BY <1>1, <3>1 DEF Standing
            <6> QED BY <1>1, <3>1, <4>2, <6>1 DEF Once
          <5>2. g.prev[v[i]] = Standing(w, j - 1)
            BY <1>1, <1>4, <3>1, <3>2, <5>1
          <5>3. Standing(v, (j - 1) + 1) = Standing(w, j - 1) /\ (j - 1) + 1 = i - 1
            <6>1. j - 1 \in Int /\ j - 1 # 0 /\ (j - 1) + 1 = i - 1
              BY <1>1, <3>1, <4>2
            <6> QED BY <1>7, <6>1
          <5> QED BY <5>2, <5>3
        <4> QED BY <4>1, <4>2
      <3> QED BY <3>4, <3>5
    <2> QED BY <2>2, <2>3
  <1>9. g.tail = Standing(v, n + 1)
    <2>1. CASE n = 0
      <3>1. f.head = NIL
        BY <1>1, <2>1 DEF Standing
      <3> QED BY <1>4, <1>7, <2>1, <3>1
    <2>2. CASE n # 0
      <3>1. f.head \in Blocks /\ n \in Int
        BY <1>1, <2>2 DEF Standing
      <3> QED BY <1>1, <1>4, <1>7, <2>2, <3>1, BlocksAre
    <2> QED BY <2>1, <2>2
  <1>10. g.head = Standing(v, 1) /\ g.len = Len(v)
    BY <1>1, <1>3, <1>4, <1>7
  <1>11. \A c \in Blocks : g.queued[c] <=> c \in Range(v)
    <2>1. f.queued \in [Blocks -> BOOLEAN]
      BY <1>1, QueueRecordIs
    <2> QED BY <1>1, <1>3, <1>4, <2>1
  <1> HIDE DEF n
  <1>12. Linked(g, v)
    BY <1>3, <1>5, <1>8, <1>9, <1>10, <1>11 DEF Linked
  <1> QED BY <1>2, <1>12 DEF g, v

LEMMA UnlinkLinks ==
  ASSUME NEW f, NEW w, Linked(f, w), NEW j \in 1 .. Len(w)
  PROVE  Linked(Unlink(f, w[j]), WithoutPlace(w, j))
  <1> DEFINE b == w[j]
             g == Unlink(f, b)
             v == WithoutPlace(w, j)
             n == Len(w)
             before == f.prev[b]
             after == f.next[b]
  <1>1. /\ f \in QueueRecord /\ w \in Seq(Blocks) /\ Once(w) /\ n \in Nat
        /\ f.head = Standing(w, 1) /\ f.tail = Standing(w, n) /\ f.len = n
        /\ \A i \in 1 .. n : f.prev[w[i]] = Standing(w, i - 1) /\ f.next[w[i]] = Standing(w, i + 1)
        /\ \A c \in Blocks : f.queued[c] <=> c \in Range(w)
        /\ \A i \in 1 .. n : w[i] \in Blocks
        /\ DOMAIN w = 1 .. n
    BY LenProperties, ElementOfSeq DEF Linked
  <1>2. b \in Blocks /\ b \in Range(w) /\ f.queued[b]
    <2>1. b \in Blocks /\ b \in Range(w)
      BY <1>1 DEF Range
    <2> QED BY <1>1, <2>1
  <1>3. /\ v \in Seq(Blocks) /\ Len(v) = n - 1
        /\ \A i \in 1 .. n - 1 : v[i] = IF i < j THEN w[i] ELSE w[i + 1]
    BY <1>1, WithoutPlaceIs
  <1>4. /\ g.prev = [c \in Blocks |-> IF c = b THEN NIL ELSE IF c = after THEN before ELSE f.prev[c]]
        /\ g.next = [c \in Blocks |-> IF c = b THEN NIL ELSE IF c = before THEN after ELSE f.next[c]]
        /\ g.head = (IF before = NIL THEN after ELSE f.head)
        /\ g.tail = (IF after = NIL THEN before ELSE f.tail)
        /\ g.queued = [f.queued EXCEPT ![b] = FALSE] /\ g.len = f.len - 1
    BY <1>2 DEF Unlink
  <1>5. before = Standing(w, j - 1) /\ after = Standing(w, j + 1)
    BY <1>1
  <1>6. j \in 1 .. n
    OBVIOUS
  <1>7. g \in QueueRecord
    <2>1. /\ f.prev \in [Blocks -> Blocks \cup {NIL}] /\ f.next \in [Blocks -> Blocks \cup {NIL}]
          /\ f.head \in Blocks \cup {NIL} /\ f.tail \in Blocks \cup {NIL}
          /\ f.queued \in [Blocks -> BOOLEAN] /\ f.len \in Nat
      BY <1>1, QueueRecordIs
    <2>2. before \in Blocks \cup {NIL} /\ after \in Blocks \cup {NIL}
      BY <1>2, <2>1
    <2>3. f.len - 1 \in Nat
      BY <1>1, <1>6
    <2>4. g = [prev |-> g.prev, next |-> g.next, head |-> g.head, tail |-> g.tail, queued |-> g.queued,
               len |-> g.len]
      BY <1>2 DEF Unlink
    <2> HIDE DEF g, before, after
    <2>5. /\ g.prev \in [Blocks -> Blocks \cup {NIL}] /\ g.next \in [Blocks -> Blocks \cup {NIL}]
          /\ g.head \in Blocks \cup {NIL} /\ g.tail \in Blocks \cup {NIL}
          /\ g.queued \in [Blocks -> BOOLEAN] /\ g.len \in Nat
      <3>1. g.prev \in [Blocks -> Blocks \cup {NIL}]
        BY <1>4, <2>1, <2>2
      <3>2. g.next \in [Blocks -> Blocks \cup {NIL}]
        BY <1>4, <2>1, <2>2
      <3>3. g.head \in Blocks \cup {NIL} /\ g.tail \in Blocks \cup {NIL}
        BY <1>4, <2>1, <2>2
      <3>4. g.queued \in [Blocks -> BOOLEAN] /\ g.len \in Nat
        BY <1>4, <2>1, <2>3, ZenonT(30)
      <3> QED BY <3>1, <3>2, <3>3, <3>4
    <2> HIDE DEF b
    <2> QED BY <2>4, <2>5 DEF QueueRecord
  <1>8. \A i, k \in 1 .. n : w[i] = w[k] => i = k
    BY <1>1 DEF Once
  <1>9. \A c \in Blocks : c # NIL
    BY BlocksAre
  <1>10. \A i \in 1 .. n : i # j => w[i] # b
    BY <1>6, <1>8
  <1> HIDE DEF b, g, v, before, after
  <1>11. \A i \in Int : Standing(v, i) = IF i < j THEN Standing(w, i) ELSE Standing(w, i + 1)
    <2> SUFFICES ASSUME NEW i \in Int
                 PROVE  Standing(v, i) = IF i < j THEN Standing(w, i) ELSE Standing(w, i + 1)
      OBVIOUS
    <2>1. CASE i \in 1 .. n - 1
      <3>1. i \in 1 .. n /\ i + 1 \in 1 .. n
        BY <1>1, <2>1
      <3> QED BY <1>3, <2>1, <3>1 DEF Standing
    <2>2. CASE i \notin 1 .. n - 1
      <3>1. Standing(v, i) = NIL
        BY <1>3, <2>2 DEF Standing
      <3>2. IF i < j THEN i \notin 1 .. n ELSE i + 1 \notin 1 .. n
        BY <1>1, <1>6, <2>2
      <3> QED BY <3>1, <3>2 DEF Standing
    <2> QED BY <2>1, <2>2
  <1>12. \A i \in 1 .. n, c \in Blocks : Standing(w, i) = c <=> w[i] = c
    BY DEF Standing
  <1>13. ASSUME NEW i \in 1 .. n - 1
         PROVE  g.prev[v[i]] = Standing(v, i - 1) /\ g.next[v[i]] = Standing(v, i + 1)
    <2>1. CASE i < j
      <3>1. i \in 1 .. n /\ i # j /\ v[i] = w[i] /\ w[i] # b /\ w[i] \in Blocks
        BY <1>1, <1>3, <1>6, <1>10, <2>1
      <3>2. after # w[i]
        <4>1. CASE j + 1 \in 1 .. n
          <5>1. after = w[j + 1] /\ i # j + 1
            BY <1>5, <1>6, <2>1, <4>1 DEF Standing
          <5> QED BY <1>8, <3>1, <4>1, <5>1
        <4>2. CASE j + 1 \notin 1 .. n
          BY <1>5, <1>9, <3>1, <4>2 DEF Standing
        <4> QED BY <4>1, <4>2
      <3>3. g.prev[v[i]] = Standing(w, i - 1)
        BY <1>1, <1>4, <3>1, <3>2
      <3>4. Standing(v, i - 1) = Standing(w, i - 1)
        <4>1. i - 1 \in Int /\ i - 1 < j
          BY <1>6, <2>1
        <4> QED BY <1>11, <4>1
      <3>5. CASE i + 1 = j
        <4>1. before = w[i]
          <5>1. j - 1 = i
            BY <1>6, <3>5
          <5> QED BY <1>5, <3>1, <5>1 DEF Standing
        <4>2. g.next[v[i]] = after
          BY <1>4, <3>1, <4>1
        <4>3. Standing(v, i + 1) = Standing(w, j + 1)
          BY <1>6, <1>11, <3>5
        <4> QED BY <1>5, <3>3, <3>4, <4>2, <4>3
      <3>6. CASE i + 1 # j
        <4>1. before # w[i]
          <5>1. j - 1 \in 1 .. n /\ before = w[j - 1] /\ j - 1 # i
            <6>1. j - 1 \in 1 .. n /\ j - 1 # i
              BY <1>1, <1>6, <2>1, <3>1, <3>6
            <6> QED BY <1>5, <6>1 DEF Standing
          <5> QED BY <1>8, <3>1, <5>1
        <4>2. g.next[v[i]] = Standing(w, i + 1)
          BY <1>1, <1>4, <3>1, <4>1
        <4>3. Standing(v, i + 1) = Standing(w, i + 1)
          <5>1. i + 1 \in Int /\ i + 1 < j
            BY <1>6, <2>1, <3>6
          <5> QED BY <1>11, <5>1
        <4> QED BY <3>3, <3>4, <4>2, <4>3
      <3> QED BY <3>5, <3>6
    <2>2. CASE ~(i < j)
      <3> DEFINE k == i + 1
      <3>1. k \in 1 .. n /\ k # j /\ k > j /\ v[i] = w[k] /\ k - 1 = i
        BY <1>1, <1>3, <1>6, <2>2
      <3> HIDE DEF k
      <3>2. w[k] # b /\ w[k] \in Blocks
        BY <1>1, <1>10, <3>1
      <3>3. before # w[k]
        <4>1. CASE j - 1 \in 1 .. n
          <5>1. before = w[j - 1] /\ k # j - 1
            BY <1>5, <1>6, <3>1, <4>1 DEF Standing
          <5> QED BY <1>8, <3>1, <4>1, <5>1
        <4>2. CASE j - 1 \notin 1 .. n
          BY <1>5, <1>9, <3>2, <4>2 DEF Standing
        <4> QED BY <4>1, <4>2
      <3>4. g.next[v[i]] = Standing(w, k + 1)
        BY <1>1, <1>4, <3>1, <3>2, <3>3
      <3>5. Standing(v, i + 1) = Standing(w, k + 1)
        <4>1. i + 1 \in Int /\ ~(i + 1 < j) /\ i + 1 + 1 = k + 1 /\ i + 1 = k
          BY <1>6, <2>2, <3>1
        <4> QED BY <1>11, <4>1
      <3>6. CASE k = j + 1
        <4>1. after = w[k]
          BY <1>5, <3>1, <3>6 DEF Standing
        <4>2. g.prev[v[i]] = before
          BY <1>4, <3>1, <3>2, <4>1
        <4>3. Standing(v, i - 1) = Standing(w, j - 1)
          <5>1. i - 1 \in Int /\ i - 1 < j /\ i - 1 = j - 1
            BY <1>6, <3>1, <3>6
          <5> QED BY <1>11, <5>1
        <4> QED BY <1>5, <3>4, <3>5, <4>2, <4>3
      <3>7. CASE k # j + 1
        <4>1. after # w[k]
          <5>1. j + 1 \in 1 .. n /\ after = w[j + 1]
            <6>1. j + 1 \in 1 .. n
              BY <1>1, <1>6, <3>1
            <6> QED BY <1>5, <6>1 DEF Standing
          <5> QED BY <1>8, <3>1, <3>7, <5>1
        <4>2. g.prev[v[i]] = Standing(w, k - 1)
          BY <1>1, <1>4, <3>1, <3>2, <4>1
        <4>3. Standing(v, i - 1) = Standing(w, k - 1)
          <5>1. i - 1 \in Int /\ ~(i - 1 < j) /\ i - 1 + 1 = k - 1
            BY <1>6, <3>1, <3>7
          <5> QED BY <1>11, <5>1
        <4> QED BY <3>4, <3>5, <4>2, <4>3
      <3> QED BY <3>6, <3>7
    <2> QED BY <2>1, <2>2
  <1>14. g.head = Standing(v, 1)
    <2>1. CASE j = 1
      <3>1. before = NIL /\ Standing(v, 1) = Standing(w, 2)
        <4>1. Standing(v, 1) = Standing(w, 1 + 1)
          BY <1>11, <2>1
        <4> QED BY <1>5, <2>1, <4>1 DEF Standing
      <3> QED BY <1>4, <1>5, <2>1, <3>1
    <2>2. CASE j # 1
      <3>1. before \in Blocks /\ Standing(v, 1) = Standing(w, 1)
        <4>1. j - 1 \in 1 .. n /\ 1 < j
          BY <1>1, <1>6, <2>2
        <4>2. before = w[j - 1]
          BY <1>5, <4>1 DEF Standing
        <4> QED BY <1>1, <1>11, <4>1, <4>2
      <3> QED BY <1>1, <1>4, <1>9, <3>1
    <2> QED BY <2>1, <2>2
  <1>15. g.tail = Standing(v, n - 1)
    <2>1. CASE j = n
      <3>1. after = NIL /\ Standing(v, n - 1) = Standing(w, j - 1)
        <4>1. n - 1 \in Int /\ n - 1 < j /\ n - 1 = j - 1 /\ j + 1 \notin 1 .. n
          BY <1>1, <1>6, <2>1
        <4> QED BY <1>5, <1>11, <4>1 DEF Standing
      <3> QED BY <1>4, <1>5, <3>1
    <2>2. CASE j # n
      <3>1. after \in Blocks /\ Standing(v, n - 1) = Standing(w, n)
        <4>1. j + 1 \in 1 .. n /\ n - 1 \in Int /\ ~(n - 1 < j) /\ n - 1 + 1 = n
          <5>1. n \in Nat
            BY <1>1
          <5> HIDE DEF n
          <5> QED BY ONLY <1>6, <2>2, <5>1
        <4>2. after = w[j + 1]
          BY <1>5, <4>1 DEF Standing
        <4> QED BY <1>1, <1>11, <4>1, <4>2
      <3> QED BY <1>1, <1>4, <1>9, <3>1
    <2> QED BY <2>1, <2>2
  <1>16. DOMAIN v = 1 .. n - 1
    BY <1>3, LenProperties
  <1>17. Range(v) = Range(w) \ {b}
    <2>1. ASSUME NEW i \in 1 .. n - 1 PROVE v[i] \in Range(w) /\ v[i] # b
      <3>1. i \in 1 .. n /\ i + 1 \in 1 .. n /\ (i < j => i # j) /\ (~(i < j) => i + 1 # j)
        BY <1>1, <1>6
      <3>2. w[i] \in Range(w) /\ w[i + 1] \in Range(w)
        BY <1>1, <3>1 DEF Range
      <3> QED BY <1>3, <1>10, <3>1, <3>2
    <2>2. ASSUME NEW c \in Range(w), c # b PROVE c \in Range(v)
      <3>1. PICK i \in 1 .. n : w[i] = c
        BY <1>1 DEF Range
      <3>2. i # j
        BY <2>2, <3>1 DEF b
      <3>3. CASE i < j
        <4>1. i \in 1 .. n - 1 /\ v[i] = c
          BY <1>1, <1>3, <1>6, <3>1, <3>3
        <4> QED BY <1>16, <4>1 DEF Range
      <3>4. CASE ~(i < j)
        <4>1. i - 1 \in 1 .. n - 1 /\ ~(i - 1 < j) /\ (i - 1) + 1 = i
          BY <1>1, <1>6, <3>2, <3>4
        <4>2. v[i - 1] = c
          BY <1>3, <3>1, <4>1
        <4> QED BY <1>16, <4>1, <4>2 DEF Range
      <3> QED BY <3>3, <3>4
    <2>3. \A x \in Range(v) : \E i \in 1 .. n - 1 : x = v[i]
      BY <1>16 DEF Range
    <2> QED BY <2>1, <2>2, <2>3
  <1>18. Once(v)
    <2> SUFFICES ASSUME NEW i \in 1 .. n - 1, NEW k \in 1 .. n - 1, v[i] = v[k] PROVE i = k
      BY <1>3 DEF Once
    <2>1. i \in 1 .. n /\ i + 1 \in 1 .. n /\ k \in 1 .. n /\ k + 1 \in 1 .. n
      BY <1>1
    <2> QED BY <1>3, <1>6, <1>8, <2>1
  <1>19. \A c \in Blocks : g.queued[c] <=> c \in Range(v)
    <2>1. f.queued \in [Blocks -> BOOLEAN]
      BY <1>1, QueueRecordIs
    <2> QED BY <1>1, <1>2, <1>4, <1>17, <2>1
  <1>20. g.len = Len(v)
    BY <1>1, <1>3, <1>4
  <1> HIDE DEF n
  <1>21. Linked(g, v)
    BY <1>3, <1>7, <1>13, <1>14, <1>15, <1>18, <1>19, <1>20 DEF Linked
  <1> QED BY <1>21 DEF g, v, b

(* A line holds no more blocks than there are.                             *)
LEMMA LineFits ==
  ASSUME NEW w \in Seq(Blocks), Once(w) PROVE Len(w) <= NumBlocks
  <1>1. Len(w) = Cardinality(Range(w)) /\ IsFiniteSet(Range(w))
    BY OnceCounts
  <1>2. IsFiniteSet(Blocks) /\ Cardinality(Blocks) = NumBlocks
    <2>1. NumBlocks \in Nat \ {0}
      BY QueueAssumption
    <2>2. IsFiniteSet(0 .. NumBlocks - 1) /\ Cardinality(0 .. NumBlocks - 1) = NumBlocks
      BY <2>1, FS_Interval
    <2> QED BY <2>2 DEF Blocks
  <1>3. Range(w) \in SUBSET Blocks
    BY ElementOfSeq, LenProperties DEF Range
  <1> QED BY <1>1, <1>2, <1>3, FS_Subset

(* Following the links from the head gives the line.                       *)
LEMMA WalkIs == \A w : Linked(q, w) => Walk = w
  <1> SUFFICES ASSUME NEW w, Linked(q, w) PROVE Walk = w
    OBVIOUS
  <1> DEFINE n == Len(w)
             N == NumBlocks
             stands == [k \in 0 .. N |-> Standing(w, k + 1)]
             Follow(f) == [k \in 0 .. N |-> IF k = 0 THEN q.head
                                            ELSE IF f[k - 1] = NIL THEN NIL ELSE q.next[f[k - 1]]]
  <1>1. /\ w \in Seq(Blocks) /\ Once(w) /\ n \in Nat /\ q.head = Standing(w, 1)
        /\ \A i \in 1 .. n : q.next[w[i]] = Standing(w, i + 1)
        /\ \A i \in 1 .. n : w[i] \in Blocks
    BY LenProperties, ElementOfSeq DEF Linked
  <1>2. n <= N /\ N \in Nat
    BY <1>1, LineFits, QueueAssumption
  <1>3. \A i \in 1 .. n : w[i] # NIL
    BY <1>1, BlocksAre
  <1>4. ASSUME NEW k \in 0 .. N
        PROVE  stands[k] = IF k = 0 THEN q.head ELSE IF stands[k - 1] = NIL THEN NIL ELSE q.next[stands[k - 1]]
    <2>1. CASE k = 0
      BY <1>1, <1>2, <2>1
    <2>2. CASE k # 0
      <3>1. k - 1 \in 0 .. N /\ stands[k - 1] = Standing(w, k) /\ stands[k] = Standing(w, k + 1)
        <4>1. k - 1 \in 0 .. N /\ (k - 1) + 1 = k
          BY <1>2, <2>2
        <4> QED BY <4>1
      <3>2. CASE k \in 1 .. n
        <4>1. stands[k - 1] = w[k]
          BY <3>1, <3>2 DEF Standing
        <4> HIDE DEF stands
        <4> QED BY <1>1, <1>3, <2>2, <3>1, <3>2, <4>1
      <3>3. CASE k \notin 1 .. n
        <4>1. stands[k - 1] = NIL
          BY <3>1, <3>3 DEF Standing
        <4>2. Standing(w, k + 1) = NIL
          <5>1. k + 1 \notin 1 .. n
            BY <1>1, <2>2, <3>3
          <5> QED BY <5>1 DEF Standing
        <4> HIDE DEF stands
        <4> QED BY <2>2, <3>1, <4>1, <4>2
      <3> QED BY <3>2, <3>3
    <2> QED BY <2>1, <2>2
  <1>5. stands = Follow(stands)
    <2>1. stands = [k \in 0 .. N |-> stands[k]]
      OBVIOUS
    <2> HIDE DEF stands
    <2> QED BY <1>4, <2>1
  <1>6. Reached = Follow(Reached)
    <2>1. Reached = CHOOSE f : f = Follow(f)
      BY DEF Reached
    <2> HIDE DEF stands, Follow
    <2> QED BY <1>5, <2>1
  <1>7. \A k \in 0 .. N : Reached[k] = IF k = 0 THEN q.head
                                       ELSE IF Reached[k - 1] = NIL THEN NIL ELSE q.next[Reached[k - 1]]
    <2> DEFINE R == Reached
    <2>1. R = Follow(R)
      BY <1>6
    <2> HIDE DEF R
    <2>2. \A k \in 0 .. N : R[k] = IF k = 0 THEN q.head ELSE IF R[k - 1] = NIL THEN NIL ELSE q.next[R[k - 1]]
      BY <2>1
    <2> QED BY <2>2 DEF R
  <1>8. \A k \in 0 .. N : Reached[k] = stands[k]
    <2> DEFINE Bad == {k \in 0 .. N : Reached[k] # stands[k]}
    <2>1. CASE Bad = {}
      BY <2>1
    <2>2. CASE Bad # {}
      <3>1. Bad \in SUBSET Nat
        BY <1>2
      <3>2. PICK k \in Bad : \A m \in Bad : k <= m
        BY <2>2, <3>1, LeastNatural
      <3>3. k \in 0 .. N /\ Reached[k] # stands[k]
        OBVIOUS
      <3>4. \A m \in 0 .. N : m < k => Reached[m] = stands[m]
        BY <1>2, <3>2
      <3> HIDE DEF Bad, stands, n
      <3>5. CASE k = 0
        BY <1>4, <1>7, <3>3, <3>5
      <3>6. CASE k # 0
        <4>1. k - 1 \in 0 .. N /\ k - 1 < k
          BY <1>2, <3>3, <3>6
        <4>2. Reached[k - 1] = stands[k - 1]
          BY <3>4, <4>1
        <4>3. stands[k] = IF stands[k - 1] = NIL THEN NIL ELSE q.next[stands[k - 1]]
          BY <1>4, <3>3, <3>6
        <4>4. Reached[k] = IF Reached[k - 1] = NIL THEN NIL ELSE q.next[Reached[k - 1]]
          BY <1>7, <3>3, <3>6
        <4> QED BY <3>3, <4>2, <4>3, <4>4
      <3> QED BY <3>5, <3>6
    <2> QED BY <2>1, <2>2
  <1>9. {k \in 0 .. N : Reached[k] # NIL} = 0 .. n - 1
    <2>1. \A k \in 0 .. N : Reached[k] = Standing(w, k + 1)
      BY <1>8
    <2>2. \A k \in 0 .. N : Standing(w, k + 1) # NIL <=> k \in 0 .. n - 1
      BY <1>1, <1>2, <1>3 DEF Standing
    <2>3. \A k \in 0 .. n - 1 : k \in 0 .. N
      BY <1>1, <1>2
    <2> HIDE DEF N, n
    <2> QED BY <2>1, <2>2, <2>3
  <1>10. Cardinality(0 .. n - 1) = n
    <2>1. n \in Nat
      BY <1>1
    <2> HIDE DEF n
    <2> QED BY <2>1, FS_Interval
  <1>11. Walk = [i \in 1 .. n |-> Reached[i - 1]]
    <2> HIDE DEF n
    <2> QED BY <1>9, <1>10 DEF Walk
  <1>12. \A i \in 1 .. n : Reached[i - 1] = w[i]
    <2> TAKE i \in 1 .. n
    <2>1. i - 1 \in 0 .. N /\ (i - 1) + 1 = i
      BY <1>1, <1>2
    <2>2. Reached[i - 1] = Standing(w, (i - 1) + 1)
      BY <1>8, <2>1
    <2> QED BY <2>1, <2>2 DEF Standing
  <1>13. w = [i \in 1 .. n |-> w[i]]
    BY <1>1, LenProperties
  <1> HIDE DEF n
  <1> QED BY <1>11, <1>12, <1>13

LEMMA WalkAfterIs == \A w : Linked(q', w) => Walk' = w
  <1>1. (\A w : Linked(q, w) => Walk = w)'
    BY WalkIs, PTL
  <1> QED BY <1>1 DEF Linked, Standing, QueueRecord

\* The queue is linked as some line.
QueueInv == \E w : Linked(q, w)

LEMMA QueueStarts ==
  ASSUME QueueInit
  PROVE  Linked(q, [i \in 1 .. NumBlocks |-> i - 1])
  <1> DEFINE w == [i \in 1 .. NumBlocks |-> i - 1]
             N == NumBlocks
  <1>1. N \in Nat \ {0} /\ NIL \notin Blocks /\ Blocks = 0 .. N - 1
    BY QueueAssumption DEF Blocks
  <1>2. \A i \in 1 .. N : i - 1 \in Blocks
    BY <1>1
  <1>3. w \in [1 .. N -> Blocks]
    BY <1>2
  <1>4. w \in Seq(Blocks) /\ Len(w) = N /\ DOMAIN w = 1 .. N
    <2>1. w \in Seq(Blocks)
      BY <1>1, <1>3, SeqDef
    <2> HIDE DEF w
    <2> QED BY <1>1, <1>3, <2>1, LenProperties
  <1>5. \A i \in 1 .. N : w[i] = i - 1
    OBVIOUS
  <1>6. q = Full
    BY DEF QueueInit
  <1>7. /\ q.prev = [b \in Blocks |-> IF b = 0 THEN NIL ELSE b - 1]
        /\ q.next = [b \in Blocks |-> IF b = N - 1 THEN NIL ELSE b + 1]
        /\ q.head = 0 /\ q.tail = N - 1 /\ q.queued = [b \in Blocks |-> TRUE] /\ q.len = N
    BY <1>6 DEF Full
  <1>8. q \in QueueRecord
    <2>1. \A b \in Blocks : (b # 0 => b - 1 \in Blocks) /\ (b # N - 1 => b + 1 \in Blocks)
      BY <1>1
    <2>2. 0 \in Blocks /\ N - 1 \in Blocks
      BY <1>1
    <2>3. q.prev \in [Blocks -> Blocks \cup {NIL}] /\ q.next \in [Blocks -> Blocks \cup {NIL}]
      BY <1>7, <2>1
    <2>4. q = [prev |-> q.prev, next |-> q.next, head |-> q.head, tail |-> q.tail, queued |-> q.queued,
               len |-> q.len]
      BY <1>6 DEF Full
    <2>5. q.queued \in [Blocks -> BOOLEAN]
      BY <1>7
    <2> QED BY <1>1, <1>7, <2>2, <2>3, <2>4, <2>5 DEF QueueRecord
  <1> HIDE DEF w
  <1>9. Once(w)
    <2> SUFFICES ASSUME NEW i \in 1 .. N, NEW j \in 1 .. N, w[i] = w[j] PROVE i = j
      BY <1>4 DEF Once
    <2>1. i - 1 = j - 1
      BY <1>5
    <2> QED BY <1>1, <2>1
  <1>10. \A i \in Int : Standing(w, i) = IF i \in 1 .. N THEN i - 1 ELSE NIL
    BY <1>4, <1>5 DEF Standing
  <1>11. q.head = Standing(w, 1) /\ q.tail = Standing(w, N)
    BY <1>1, <1>7, <1>10
  <1>12. ASSUME NEW i \in 1 .. N
         PROVE  q.prev[w[i]] = Standing(w, i - 1) /\ q.next[w[i]] = Standing(w, i + 1)
    <2>1. w[i] = i - 1 /\ i - 1 \in Blocks /\ i - 1 \in Int /\ i + 1 \in Int
      BY <1>1, <1>2, <1>5
    <2>2. q.prev[i - 1] = Standing(w, i - 1)
      <3>1. q.prev[i - 1] = IF i - 1 = 0 THEN NIL ELSE i - 1 - 1
        BY <1>7, <2>1
      <3>2. i - 1 \in 1 .. N <=> i - 1 # 0
        BY <1>1
      <3> QED BY <1>10, <2>1, <3>1, <3>2
    <2>3. q.next[i - 1] = Standing(w, i + 1)
      <3>1. q.next[i - 1] = IF i - 1 = N - 1 THEN NIL ELSE i - 1 + 1
        BY <1>7, <2>1
      <3>2. i + 1 \in 1 .. N <=> i - 1 # N - 1
        BY <1>1
      <3>3. i - 1 + 1 = i + 1 - 1
        OBVIOUS
      <3> QED BY <1>10, <2>1, <3>1, <3>2, <3>3
    <2> QED BY <2>1, <2>2, <2>3
  <1>13. ASSUME NEW b \in Blocks PROVE q.queued[b] /\ b \in Range(w)
    <2>1. q.queued[b]
      BY <1>7
    <2>2. b + 1 \in 1 .. N /\ w[b + 1] = b
      <3>1. b + 1 \in 1 .. N /\ (b + 1) - 1 = b
        BY <1>1
      <3> QED BY <1>5, <3>1
    <2> QED BY <1>4, <2>1, <2>2 DEF Range
  <1>14. q.len = N
    BY <1>7
  <1>15. Linked(q, w)
    BY <1>4, <1>8, <1>9, <1>11, <1>12, <1>13, <1>14 DEF Linked
  <1> QED BY <1>15 DEF w

(* What a step makes of the line the queue is linked as.                   *)
LEMMA QueueStep ==
  ASSUME NEW w, Linked(q, w), QueueNext
  PROVE  \E v : /\ Linked(q', v)
                /\ \/ \E b \in Blocks \ Range(w) : v = Append(w, b) /\ call' = <<"push_back", b>>
                   \/ \E b \in Blocks \ Range(w) : v = <<b>> \o w /\ call' = <<"push_front", b>>
                   \/ w # <<>> /\ v = Tail(w) /\ call' = <<"pop_front", Head(w)>>
                   \/ \E b \in Blocks : v = Keep(w, Blocks \ {b}) /\ call' = <<"remove", b>>
  <1>1. /\ w \in Seq(Blocks) /\ Once(w) /\ Len(w) \in Nat /\ DOMAIN w = 1 .. Len(w) /\ q.head = Standing(w, 1)
        /\ \A c \in Blocks : q.queued[c] <=> c \in Range(w)
    BY LenProperties DEF Linked
  <1>2. ASSUME NEW b \in Blocks, PushBackStep(b)
        PROVE  /\ Linked(q', Append(w, b)) /\ b \in Blocks \ Range(w) /\ call' = <<"push_back", b>>
    BY <1>2, PushBackLinks DEF PushBackStep
  <1>3. ASSUME NEW b \in Blocks, PushFrontStep(b)
        PROVE  /\ Linked(q', <<b>> \o w) /\ b \in Blocks \ Range(w) /\ call' = <<"push_front", b>>
    BY <1>3, PushFrontLinks DEF PushFrontStep
  <1>4. ASSUME PopFrontStep
        PROVE  w # <<>> /\ Linked(q', Tail(w)) /\ call' = <<"pop_front", Head(w)>>
    <2>1. q.head # NIL /\ q' = Unlink(q, q.head) /\ call' = <<"pop_front", q.head>>
      BY <1>4 DEF PopFrontStep
    <2>2. 1 \in 1 .. Len(w) /\ q.head = w[1]
      BY <1>1, <2>1 DEF Standing
    <2>3. w # <<>> /\ Head(w) = w[1] /\ Tail(w) \in Seq(Blocks) /\ Len(Tail(w)) = Len(w) - 1
          /\ \A i \in 1 .. Len(Tail(w)) : Tail(w)[i] = w[i + 1]
      <3>1. w # <<>>
        BY <2>2
      <3> QED BY <1>1, <3>1, HeadTailProperties
    <2>4. Linked(q', WithoutPlace(w, 1))
      BY <2>1, <2>2, UnlinkLinks
    <2>5. WithoutPlace(w, 1) = Tail(w)
      <3> DEFINE u == WithoutPlace(w, 1)
                 t == Tail(w)
      <3>1. /\ u \in Seq(Blocks) /\ Len(u) = Len(w) - 1
            /\ \A i \in 1 .. Len(w) - 1 : u[i] = IF i < 1 THEN w[i] ELSE w[i + 1]
        BY <1>1, <2>2, WithoutPlaceIs
      <3>2. t \in Seq(Blocks) /\ Len(t) = Len(w) - 1 /\ \A i \in 1 .. Len(w) - 1 : t[i] = w[i + 1]
        BY <2>3
      <3> HIDE DEF u, t
      <3>3. \A i \in 1 .. Len(w) - 1 : u[i] = t[i]
        BY <1>1, <3>1, <3>2
      <3>4. u = t
        BY <3>1, <3>2, <3>3, SeqEqual
      <3> QED BY <3>4 DEF u, t
    <2> QED BY <2>1, <2>2, <2>3, <2>4, <2>5
  <1>5. ASSUME NEW b \in Blocks, RemoveStep(b)
        PROVE  Linked(q', Keep(w, Blocks \ {b})) /\ call' = <<"remove", b>>
    <2>1. q' = Unlink(q, b) /\ call' = <<"remove", b>>
      BY <1>5 DEF RemoveStep
    <2>2. CASE b \in Range(w)
      <3>1. PICK j \in 1 .. Len(w) : b = w[j]
        BY <1>1, <2>2 DEF Range
      <3>2. Linked(q', WithoutPlace(w, j))
        BY <2>1, <3>1, UnlinkLinks
      <3>3. Keep(w, Blocks \ {b}) = WithoutPlace(w, j)
        BY <1>1, <3>1, KeepAllBut
      <3> QED BY <2>1, <3>2, <3>3
    <2>3. CASE b \notin Range(w)
      <3>1. q' = q
        BY <1>1, <2>1, <2>3 DEF Unlink
      <3>2. Range(w) \subseteq Blocks \ {b}
        <4>1. Range(w) \subseteq Blocks
          BY <1>1, ElementOfSeq DEF Range
        <4> QED BY <2>3, <4>1
      <3>3. Keep(w, Blocks \ {b}) = w
        BY <1>1, <3>2, KeepAll
      <3> QED BY <2>1, <3>1, <3>3
    <2> QED BY <2>2, <2>3
  <1> QED BY <1>2, <1>3, <1>4, <1>5 DEF QueueNext

LEMMA QueueInvariant == QueueSpec => []QueueInv
  <1>1. QueueInit => QueueInv
    BY QueueStarts DEF QueueInv
  <1>2. QueueInv /\ [QueueNext]_queueVars => QueueInv'
    <2>1. ASSUME QueueInv, QueueNext PROVE QueueInv'
      <3>1. PICK w : Linked(q, w)
        BY <2>1 DEF QueueInv
      <3>2. \E v : Linked(q', v)
        BY <2>1, <3>1, QueueStep
      <3> QED BY <3>2 DEF QueueInv, Linked, Standing, QueueRecord
    <2>2. ASSUME QueueInv, UNCHANGED queueVars PROVE QueueInv'
      BY <2>2 DEF queueVars, QueueInv, Linked, Standing, QueueRecord
    <2> QED BY <2>1, <2>2
  <1> QED BY <1>1, <1>2, PTL DEF QueueSpec

\* The links of the free queue agree with each other, with the marks and with
\* the length, for every number of blocks and order of calls: what the
\* engine's check_invariants asserts of push_back, push_front, pop_front and
\* remove.
THEOREM LinksStayConsistent == QueueSpec => []LinksAgree
  <1>1. QueueInv => LinksAgree
    <2> SUFFICES ASSUME NEW w, Linked(q, w) PROVE LinksAgree
      BY DEF QueueInv
    <2>1. Walk = w
      BY WalkIs
    <2>2. /\ w \in Seq(Blocks) /\ DOMAIN w = 1 .. Len(w) /\ Len(w) \in Nat
          /\ q.tail = Standing(w, Len(w)) /\ q.len = Len(w)
          /\ \A i \in 1 .. Len(w) : q.prev[w[i]] = Standing(w, i - 1)
          /\ \A b \in Blocks : q.queued[b] <=> b \in Range(w)
          /\ \A i \in 1 .. Len(w) : w[i] \in Blocks
      BY LenProperties, ElementOfSeq DEF Linked
    <2>3. {b \in Blocks : q.queued[b]} = {w[i] : i \in DOMAIN w}
      <3>1. Range(w) = {w[i] : i \in DOMAIN w}
        BY DEF Range
      <3> QED BY <2>2, <3>1
    <2>4. q.tail = IF w = <<>> THEN NIL ELSE w[Len(w)]
      <3>1. w = <<>> <=> Len(w) = 0
        BY <2>2, EmptySeq
      <3> QED BY <2>2, <3>1 DEF Standing
    <2>5. \A i \in DOMAIN w : q.prev[w[i]] = IF i = 1 THEN NIL ELSE w[i - 1]
      <3> SUFFICES ASSUME NEW i \in 1 .. Len(w) PROVE q.prev[w[i]] = IF i = 1 THEN NIL ELSE w[i - 1]
        BY <2>2
      <3>1. i - 1 \in 1 .. Len(w) <=> i # 1
        BY <2>2
      <3> QED BY <2>2, <3>1 DEF Standing
    <2> QED BY <2>1, <2>2, <2>3, <2>4, <2>5 DEF LinksAgree
  <1> QED BY <1>1, QueueInvariant, PTL

\* The linked queue is the eviction order that the block pool is written with:
\* every push links at its own end, pop_front takes the front and remove keeps
\* the order of the others, from wherever it takes a block.
THEOREM QueueKeepsOrder == QueueSpec => ImplementsOrder
  <1>1. QueueInit => Abstract!Init
    <2> SUFFICES ASSUME QueueInit PROVE Abstract!Init
      OBVIOUS
    <2>1. Walk = [i \in 1 .. NumBlocks |-> i - 1]
      BY QueueStarts, WalkIs
    <2> QED BY <2>1 DEF QueueInit, Abstract!Init
  <1>2. QueueInv /\ [QueueNext]_queueVars => [Abstract!Next]_<<Walk, call>>
    <2>1. ASSUME QueueInv, QueueNext PROVE Abstract!Next
      <3>1. PICK w : Linked(q, w)
        BY <2>1 DEF QueueInv
      <3>2. PICK v :
              /\ Linked(q', v)
              /\ \/ \E b \in Blocks \ Range(w) : v = Append(w, b) /\ call' = <<"push_back", b>>
                 \/ \E b \in Blocks \ Range(w) : v = <<b>> \o w /\ call' = <<"push_front", b>>
                 \/ w # <<>> /\ v = Tail(w) /\ call' = <<"pop_front", Head(w)>>
                 \/ \E b \in Blocks : v = Keep(w, Blocks \ {b}) /\ call' = <<"remove", b>>
        BY <2>1, <3>1, QueueStep
      <3>3. Walk = w /\ Walk' = v
        BY <3>1, <3>2, WalkIs, WalkAfterIs
      <3>4. Abstract!Blocks = Blocks /\ \A s : Abstract!Range(s) = Range(s)
        BY DEF Abstract!Blocks, Blocks, Abstract!Range, Range
      <3>5. CASE \E b \in Blocks \ Range(w) : v = Append(w, b) /\ call' = <<"push_back", b>>
        BY <3>3, <3>4, <3>5 DEF Abstract!Next, Abstract!PushBack
      <3>6. CASE \E b \in Blocks \ Range(w) : v = <<b>> \o w /\ call' = <<"push_front", b>>
        BY <3>3, <3>4, <3>6 DEF Abstract!Next, Abstract!PushFront
      <3>7. CASE w # <<>> /\ v = Tail(w) /\ call' = <<"pop_front", Head(w)>>
        <4>1. call'[1] = "pop_front"
          BY <3>7
        <4> QED BY <3>3, <3>7, <4>1 DEF Abstract!Next, Abstract!PopFront
      <3>8. CASE \E b \in Blocks : v = Keep(w, Blocks \ {b}) /\ call' = <<"remove", b>>
        <4>1. \A s, S : Abstract!Keep(s, S) = Keep(s, S)
          BY DEF Abstract!Keep, Keep, Abstract!AtPlaces, AtPlaces, Abstract!Cardinality, Cardinality
        <4> QED BY <3>3, <3>4, <3>8, <4>1 DEF Abstract!Next, Abstract!Unlink
      <3> QED BY <3>2, <3>5, <3>6, <3>7, <3>8
    <2>2. ASSUME UNCHANGED queueVars PROVE UNCHANGED <<Walk, call>>
      BY <2>2 DEF queueVars, Walk, Reached
    <2> QED BY <2>1, <2>2
  <1> QED BY <1>1, <1>2, QueueInvariant, PTL DEF QueueSpec, ImplementsOrder, Abstract!OrderSpec, Abstract!vars

----------------------------------------------------------------------------
(***************************************************************************)
(* KvAdmissionPool.  The inductive invariant: reservations have IDs in     *)
(* range and at least one page each, and what is counted as used is their  *)
(* sum.  (At least one page, because pages_for rounds up and a request for *)
(* no tokens is refused: so there are never more reservations than pages.) *)
(***************************************************************************)
KvTypeOK ==
  /\ DOMAIN reserved \subseteq KvIds
  /\ \A id \in DOMAIN reserved : reserved[id] \in Nat \ {0}
  /\ usedPages \in Nat
  /\ nextId \in KvIds

KvInv == KvTypeOK /\ PagesExact

LEMMA KvIdsFinite == IsFiniteSet(KvIds) /\ Cardinality(KvIds) = MaxId /\ 1 \in KvIds
  BY KvAssumption, FS_Interval DEF KvIds

(* A request for tokens takes at least one page.                           *)
LEMMA PagesForPositive ==
  ASSUME NEW tokens \in Demand, tokens # 0
  PROVE  PagesFor(tokens) \in Nat \ {0}
  BY KvAssumption DEF PagesFor

LEMMA KvInitial == KvInit => KvInv
  <1> SUFFICES ASSUME KvInit PROVE KvInv OBVIOUS
  <1>1. DOMAIN reserved = {}
    BY DEF KvInit
  <1>2. KvTypeOK
    BY <1>1, KvIdsFinite DEF KvInit, KvTypeOK
  <1>3. SumFunctionOnSet(reserved, DOMAIN reserved) = 0
    BY <1>1, SumEmpty
  <1>4. PagesExact
    BY <1>3, KvAssumption DEF KvInit, PagesExact
  <1> QED BY <1>2, <1>4 DEF KvInv

(* A reservation adds its pages to the sum and takes no ID that is held.   *)
LEMMA ReserveKeeps ==
  ASSUME KvInv, NEW tokens \in Demand, ReserveTokens(tokens)
  PROVE  KvInv' /\ ReservationsKept
  <1> USE DEF KvInv, KvTypeOK
  <1>1. PICK id \in FreshIds :
          /\ reserved' = [held \in DOMAIN reserved \cup {id} |->
                            IF held = id THEN PagesFor(tokens) ELSE reserved[held]]
          /\ nextId' = After(id)
          /\ answer' = <<"given", id>>
    BY DEF ReserveTokens
  <1>2. /\ PagesFor(tokens) \in Nat \ {0} /\ PagesFor(tokens) <= PageCount - usedPages
        /\ usedPages' = usedPages + PagesFor(tokens)
    BY PagesForPositive DEF ReserveTokens
  <1>3. id \in KvIds \ DOMAIN reserved
    BY <1>1 DEF FreshIds
  <1>4. /\ DOMAIN reserved' = DOMAIN reserved \cup {id}
        /\ reserved'[id] = PagesFor(tokens)
        /\ \A held \in DOMAIN reserved : reserved'[held] = reserved[held]
    BY <1>1, <1>3
  <1>5. KvTypeOK'
    <2>1. After(id) \in KvIds
      BY <1>3, KvAssumption DEF After, KvIds
    <2> QED BY <1>1, <1>2, <1>3, <1>4, <2>1
  <1>6. PagesExact'
    <2>1. IsFiniteSet(DOMAIN reserved)
      BY KvIdsFinite, FS_Subset
    <2>2. SumFunctionOnSet(reserved', DOMAIN reserved \cup {id})
            = reserved'[id] + SumFunctionOnSet(reserved', DOMAIN reserved)
      BY <1>2, <1>3, <1>4, <2>1, SumAdd
    <2>3. SumFunctionOnSet(reserved', DOMAIN reserved) = SumFunctionOnSet(reserved, DOMAIN reserved)
      BY <1>4, <2>1, SumAgree
    <2>4. SumFunctionOnSet(reserved', DOMAIN reserved') = PagesFor(tokens) + usedPages
      BY <1>4, <2>2, <2>3 DEF PagesExact
    <2> QED BY <1>2, <2>4, KvAssumption DEF PagesExact
  <1>7. ReservationsKept
    BY <1>1, <1>3, <1>4 DEF ReservationsKept
  <1> QED BY <1>5, <1>6, <1>7

(* A release takes its own pages out of the sum.                           *)
LEMMA ReleaseKeeps ==
  ASSUME KvInv, NEW id \in KvIds, ReleasePages(id)
  PROVE  KvInv' /\ ReservationsKept
  <1> USE DEF KvInv, KvTypeOK, ReleasePages
  <1>1. /\ id \in DOMAIN reserved /\ DOMAIN reserved' = DOMAIN reserved \ {id}
        /\ \A held \in DOMAIN reserved \ {id} : reserved'[held] = reserved[held]
    OBVIOUS
  <1>2. IsFiniteSet(DOMAIN reserved) /\ IsFiniteSet(DOMAIN reserved \ {id})
    BY KvIdsFinite, FS_Subset
  <1>3. SumFunctionOnSet(reserved, DOMAIN reserved)
          = reserved[id] + SumFunctionOnSet(reserved, DOMAIN reserved \ {id})
    BY <1>1, <1>2, SumRemove
  <1>4. SumFunctionOnSet(reserved', DOMAIN reserved \ {id})
          = SumFunctionOnSet(reserved, DOMAIN reserved \ {id})
    BY <1>1, <1>2, SumAgree
  <1>5. SumFunctionOnSet(reserved, DOMAIN reserved \ {id}) \in Nat
    BY <1>2, SumNat
  <1>6. usedPages' = SumFunctionOnSet(reserved, DOMAIN reserved \ {id})
    BY <1>1, <1>3, <1>5 DEF PagesExact
  <1>7. SumFunctionOnSet(reserved', DOMAIN reserved') = usedPages'
    BY <1>1, <1>4, <1>6
  <1>8. KvTypeOK' /\ PagesExact'
    BY <1>1, <1>5, <1>6, <1>7, KvAssumption DEF PagesExact
  <1>9. ReservationsKept
    BY <1>1 DEF ReservationsKept
  <1> QED BY <1>8, <1>9

LEMMA KvStep ==
  ASSUME KvInv, KvNext
  PROVE  KvInv' /\ ReservationsKept
  <1>1. ASSUME NEW tokens \in Demand, RefuseTokens(tokens)
        PROVE  KvInv' /\ ReservationsKept
    BY <1>1 DEF RefuseTokens, KvInv, KvTypeOK, PagesExact, ReservationsKept
  <1>2. ASSUME NEW id \in KvIds, ReleaseUnknown(id)
        PROVE  KvInv' /\ ReservationsKept
    BY <1>2 DEF ReleaseUnknown, KvInv, KvTypeOK, PagesExact, ReservationsKept
  <1> QED BY <1>1, <1>2, ReserveKeeps, ReleaseKeeps DEF KvNext

LEMMA KvInvariant == KvSpec => []KvInv
  <1>1. KvInv /\ UNCHANGED kvVars => KvInv'
    BY DEF kvVars, KvInv, KvTypeOK, PagesExact
  <1> QED BY <1>1, KvInitial, KvStep, PTL DEF KvSpec

(***************************************************************************)
(* The pages counted as used are those the reservations hold and no more   *)
(* than the pool has, and a call leaves every other reservation as it was, *)
(* wherever the counter of IDs has wrapped to (KvAdmissionPool).           *)
(***************************************************************************)
THEOREM PagesReserved == KvSpec => PagesAreReserved
  <1>1. KvInv /\ [KvNext]_kvVars => [PagesExact' /\ ReservationsKept]_kvVars
    BY KvStep DEF KvInv
  <1> QED BY <1>1, KvInvariant, PTL DEF KvSpec, PagesAreReserved

(***************************************************************************)
(* allocate_id finds an ID, and only one: it loops until it meets one that *)
(* is not held, and there always is one, because every reservation holds a *)
(* page and there are more IDs than pages.                                 *)
(***************************************************************************)
IdIsFound == \E id \in KvIds : FreshIds = {id}

THEOREM AllocateIdEnds == KvSpec => []IdIsFound
  <1>1. ASSUME KvInv PROVE IdIsFound
    <2> USE <1>1 DEF KvInv, KvTypeOK
    <2> DEFINE Unheld == KvIds \ DOMAIN reserved
               Ahead == {id \in Unheld : id >= nextId}
    <2>1. Unheld # {}
      <3>1. IsFiniteSet(DOMAIN reserved) /\ Cardinality(DOMAIN reserved) <= usedPages
        BY KvIdsFinite, FS_Subset, SumAtLeastCount DEF PagesExact
      <3>2. Cardinality(DOMAIN reserved) \in Nat
        BY <3>1, FS_CardinalityType
      <3>3. Cardinality(DOMAIN reserved) # Cardinality(KvIds)
        BY <3>1, <3>2, KvIdsFinite, KvAssumption DEF PagesExact
      <3> QED BY <3>3
    <2>2. \A S \in SUBSET KvIds : S # {} => \E least \in S : \A id \in S : least <= id
      <3>1. KvIds \subseteq Nat
        BY KvAssumption DEF KvIds
      <3> QED BY <3>1, LeastNatural
    <2>3. PICK least \in Unheld :
            IF Ahead # {} THEN least \in Ahead /\ \A id \in Ahead : least <= id
                          ELSE \A id \in Unheld : least <= id
      <3> HIDE DEF Unheld
      <3>1. Unheld \in SUBSET KvIds /\ Ahead \in SUBSET Unheld
        BY DEF Unheld
      <3> HIDE DEF Ahead
      <3> QED BY <2>1, <2>2, <3>1
    <2>4. least \in FreshIds
      BY <2>3, KvAssumption DEF FreshIds, KvIds
    <2>5. ASSUME NEW id \in FreshIds PROVE id = least
      <3>1. id \in Unheld /\ least \in Unheld /\ id \in Int /\ least \in Int /\ nextId \in Int
        BY <2>4, KvAssumption DEF FreshIds, KvIds
      <3>2. \A held \in Unheld : IF id >= nextId THEN ~(held \in nextId .. id - 1)
                                ELSE ~(held >= nextId \/ held < id)
        BY DEF FreshIds
      <3>3. \A held \in Unheld : IF least >= nextId THEN ~(held \in nextId .. least - 1)
                                ELSE ~(held >= nextId \/ held < least)
        BY <2>4 DEF FreshIds
      <3> HIDE DEF Unheld
      <3> QED BY <3>1, <3>2, <3>3
    <2> QED BY <2>4, <2>5 DEF IdIsFound
  <1> QED BY <1>1, KvInvariant, PTL

----------------------------------------------------------------------------
(***************************************************************************)
(* The weight store.  What it counts, for any disk.                        *)
(***************************************************************************)
StoredOn(disk) == {e \in Experts : BinsOf(disk, PartsOf(e)) # {}}
HeldOn(disk, e) == Cardinality(BinsOf(disk, PartsOf(e)))

StoreFits(s, disk) ==
  /\ s = [acquired |-> s.acquired, bytes |-> s.bytes, age |-> s.age, last |-> s.last, lines |-> s.lines]
  /\ s.acquired = Cardinality(BinsOf(disk, Tensor))
  /\ s.bytes = [e \in StoredOn(disk) |-> HeldOn(disk, e)]
  /\ s.age \in Seq(Experts) /\ Once(s.age) /\ Range(s.age) = StoredOn(disk)
  /\ s.last \in Experts \cup {NoExpert} /\ s.lines \in Nat

LEMMA ExpertsAre ==
  /\ IsFiniteSet(Tensor) /\ IsFiniteSet(Experts) /\ Experts \in SUBSET Nat /\ NoExpert \notin Experts
  /\ \A disk, S : S \in SUBSET Tensor => IsFiniteSet(BinsOf(disk, S)) /\ Cardinality(BinsOf(disk, S)) \in Nat
  /\ \A e \in Experts : PartsOf(e) \in SUBSET Tensor
  /\ \A x \in Tensor : ExpertOf[x] # NoExpert => ExpertOf[x] \in Experts /\ x \in PartsOf(ExpertOf[x])
  <1>1. IsFiniteSet(Tensor) /\ \A x \in Tensor : ExpertOf[x] \in Nat
    BY WeightAssumption
  <1>2. IsFiniteSet(Experts)
    <2>1. IsFiniteSet({ExpertOf[x] : x \in Tensor})
      <3> DEFINE f == [x \in Tensor |-> ExpertOf[x]]
                 all == {ExpertOf[x] : x \in Tensor}
      <3>1. f \in Surjection(Tensor, all)
        BY DEF Surjection
      <3> HIDE DEF f, all
      <3>2. IsFiniteSet(all)
        BY <1>1, <3>1, FS_Surjection
      <3> QED BY <3>2 DEF all
    <2> QED BY <2>1, FS_Subset DEF Experts
  <1>3. ASSUME NEW disk, NEW S \in SUBSET Tensor
        PROVE  IsFiniteSet(BinsOf(disk, S)) /\ Cardinality(BinsOf(disk, S)) \in Nat
    <2>1. BinsOf(disk, S) \in SUBSET Tensor
      BY DEF BinsOf
    <2> QED BY <1>1, <2>1, FS_Subset, FS_CardinalityType
  <1>4. Experts \in SUBSET Nat /\ NoExpert \notin Experts
    BY <1>1 DEF Experts
  <1>5. \A e \in Experts : PartsOf(e) \in SUBSET Tensor
    BY DEF PartsOf
  <1>6. \A x \in Tensor : ExpertOf[x] # NoExpert => ExpertOf[x] \in Experts /\ x \in PartsOf(ExpertOf[x])
    BY DEF Experts, PartsOf
  <1> QED BY <1>1, <1>2, <1>3, <1>4, <1>5, <1>6

(* The payloads of some experts are as many as those of each together.     *)
LEMMA PartsAddUp ==
  ASSUME NEW disk, NEW es \in SUBSET Experts, NEW f, \A e \in es : f[e] = HeldOn(disk, e)
  PROVE  SumFunctionOnSet(f, es) = Cardinality(BinsOf(disk, UNION {PartsOf(e) : e \in es}))
  <1> DEFINE all(T) == BinsOf(disk, UNION {PartsOf(e) : e \in T})
             Good == {T \in SUBSET es : SumFunctionOnSet(f, T) = Cardinality(all(T))}
  <1>1. IsFiniteSet(es) /\ \A e \in es : f[e] \in Nat
    <2>1. \A e \in es : HeldOn(disk, e) \in Nat
      BY ExpertsAre DEF HeldOn
    <2> QED BY <2>1, ExpertsAre, FS_Subset, ZenonT(30)
  <1>2. ASSUME NEW T \in SUBSET es, \A U \in (SUBSET T) \ {T} : U \in Good
        PROVE  T \in Good
    <2>1. IsFiniteSet(T)
      BY <1>1, FS_Subset
    <2>2. CASE T = {}
      <3>1. SumFunctionOnSet(f, T) = 0 /\ all(T) = {}
        BY <2>2, SumEmpty DEF BinsOf
      <3> QED BY <3>1, FS_EmptySet
    <2>3. CASE T # {}
      <3>1. PICK e \in T : TRUE
        BY <2>3
      <3> DEFINE U == T \ {e}
                 own == BinsOf(disk, PartsOf(e))
      <3>2. U \in (SUBSET T) \ {T} /\ U \in SUBSET Experts
        BY <3>1
      <3>3. SumFunctionOnSet(f, T) = f[e] + SumFunctionOnSet(f, U)
        <4>1. \A x \in T : f[x] \in Int
          BY <1>1
        <4> QED BY <2>1, <4>1, SumRemove
      <3>4. SumFunctionOnSet(f, U) = Cardinality(all(U))
        BY <1>2, <3>2
      <3>5. f[e] = Cardinality(own)
        BY DEF HeldOn
      <3>6. all(T) = all(U) \cup own /\ all(U) \cap own = {}
        BY DEF BinsOf, PartsOf
      <3>7. /\ IsFiniteSet(all(U)) /\ Cardinality(all(U)) \in Nat
            /\ IsFiniteSet(own) /\ Cardinality(own) \in Nat
        <4>1. UNION {PartsOf(d) : d \in U} \in SUBSET Tensor /\ PartsOf(e) \in SUBSET Tensor
          BY DEF PartsOf
        <4> QED BY <4>1, ExpertsAre
      <3> HIDE DEF all, own, U
      <3>8. Cardinality(all(T)) = Cardinality(all(U)) + Cardinality(own)
        <4>1. Cardinality(all(U) \cup own) = Cardinality(all(U)) + Cardinality(own) - Cardinality(all(U) \cap own)
          BY <3>7, FS_Union
        <4>2. Cardinality(all(U) \cap own) = 0
          BY <3>6, FS_EmptySet
        <4> QED BY <3>6, <3>7, <4>1, <4>2
      <3>9. SumFunctionOnSet(f, T) = Cardinality(all(T))
        BY <3>3, <3>4, <3>5, <3>7, <3>8
      <3> QED BY <3>9
    <2> QED BY <2>2, <2>3
  <1> HIDE DEF Good
  <1>3. \A T \in SUBSET es : T \in Good
    BY <1>1, <1>2, SubsetInduction
  <1> QED BY <1>3 DEF Good

LEMMA EvictFits ==
  ASSUME NEW s, NEW disk, StoreFits(s, disk), NEW es \in SUBSET StoredOn(disk), NEW gone,
         gone = UNION {PartsOf(e) : e \in es}
  PROVE  /\ StoreFits(Evicted(s, es), WithoutBins(disk, gone))
         /\ StoredOn(WithoutBins(disk, gone)) = StoredOn(disk) \ es
         /\ Evicted(s, es).acquired = s.acquired - SumFunctionOnSet(s.bytes, es)
         /\ Evicted(s, es).last \in {s.last, NoExpert}
         /\ \A a, b \in StoredOn(disk) \ es : Before(s.age, a, b) => Before(Evicted(s, es).age, a, b)
  <1> DEFINE after == WithoutBins(disk, gone)
             t == Evicted(s, es)
             kept == Keep(s.age, Experts \ es)
  <1>1. /\ t = [acquired |-> s.acquired - SumFunctionOnSet(s.bytes, es),
                bytes |-> [e \in DOMAIN s.bytes \ es |-> s.bytes[e]], age |-> kept,
                last |-> IF s.last \in es THEN NoExpert ELSE s.last, lines |-> s.lines]
    <2>1. s = [acquired |-> s.acquired, bytes |-> s.bytes, age |-> s.age, last |-> s.last, lines |-> s.lines]
      BY DEF StoreFits
    <2> DEFINE fewer == s.acquired - SumFunctionOnSet(s.bytes, es)
               bytes == [e \in DOMAIN s.bytes \ es |-> s.bytes[e]]
               last == IF s.last \in es THEN NoExpert ELSE s.last
    <2>2. t = [s EXCEPT !.acquired = fewer, !.bytes = bytes, !.age = kept, !.last = last]
      BY DEF Evicted
    <2> HIDE DEF fewer, bytes, last, t, kept
    <2>3. t = [acquired |-> fewer, bytes |-> bytes, age |-> kept, last |-> last, lines |-> s.lines]
      BY <2>1, <2>2
    <2> QED BY <2>3 DEF fewer, bytes, last
  <1>2. es \in SUBSET Experts /\ gone \in SUBSET Tensor
    BY DEF StoredOn, PartsOf
  <1>3. \A S \in SUBSET Tensor : BinsOf(after, S) = BinsOf(disk, S) \ gone
    BY DEF WithoutBins, BinsOf
  <1>4. /\ \A e \in Experts \ es : BinsOf(after, PartsOf(e)) = BinsOf(disk, PartsOf(e))
        /\ \A e \in es : BinsOf(after, PartsOf(e)) = {}
    <2>1. \A e \in Experts \ es : PartsOf(e) \cap gone = {}
      BY DEF PartsOf
    <2>2. \A e \in es : PartsOf(e) \subseteq gone
      OBVIOUS
    <2>3. \A e \in Experts : PartsOf(e) \in SUBSET Tensor
      BY ExpertsAre
    <2>4. \A S : BinsOf(disk, S) \subseteq S
      BY DEF BinsOf
    <2> HIDE DEF after
    <2>5. \A e \in Experts : BinsOf(after, PartsOf(e)) = BinsOf(disk, PartsOf(e)) \ gone
      BY <1>3, <2>3
    <2>6. ASSUME NEW e \in Experts \ es PROVE BinsOf(after, PartsOf(e)) = BinsOf(disk, PartsOf(e))
      <3>1. PartsOf(e) \cap gone = {} /\ BinsOf(disk, PartsOf(e)) \subseteq PartsOf(e)
        BY <2>1, <2>4
      <3>2. BinsOf(after, PartsOf(e)) = BinsOf(disk, PartsOf(e)) \ gone
        BY <2>5
      <3> QED BY ONLY <3>1, <3>2
    <2>7. ASSUME NEW e \in es PROVE BinsOf(after, PartsOf(e)) = {}
      <3>1. PartsOf(e) \subseteq gone /\ BinsOf(disk, PartsOf(e)) \subseteq PartsOf(e)
        BY <2>2, <2>4
      <3>2. BinsOf(after, PartsOf(e)) = BinsOf(disk, PartsOf(e)) \ gone
        BY <1>2, <2>5
      <3> QED BY ONLY <3>1, <3>2
    <2> QED BY ONLY <2>6, <2>7
  <1>5. StoredOn(after) = StoredOn(disk) \ es
    <2> HIDE DEF after
    <2> QED BY <1>4 DEF StoredOn
  <1>6. SumFunctionOnSet(s.bytes, es) = Cardinality(BinsOf(disk, gone))
    <2>1. \A e \in es : s.bytes[e] = HeldOn(disk, e)
      BY DEF StoreFits
    <2> QED BY <1>2, <2>1, PartsAddUp
  <1>7. Cardinality(BinsOf(after, Tensor)) = s.acquired - SumFunctionOnSet(s.bytes, es)
    <2> DEFINE A == BinsOf(disk, Tensor)
               G == BinsOf(disk, gone)
    <2>1. BinsOf(after, Tensor) = A \ G /\ A \cap G = G
      <3>1. BinsOf(after, Tensor) = A \ gone
        BY <1>3
      <3>2. A \cap gone = G
        BY <1>2 DEF BinsOf
      <3> HIDE DEF A, G, after
      <3> QED BY <3>1, <3>2
    <2>2. IsFiniteSet(A)
      BY ExpertsAre
    <2> HIDE DEF A, G, after
    <2>3. Cardinality(A \ G) = Cardinality(A) - Cardinality(A \cap G)
      BY <2>2, FS_Difference
    <2>4. Cardinality(BinsOf(after, Tensor)) = Cardinality(A) - Cardinality(G)
      BY <2>1, <2>3
    <2> QED BY <1>6, <2>4 DEF A, G, StoreFits
  <1>8. /\ kept \in Seq(Experts) /\ Once(kept) /\ Range(kept) = StoredOn(disk) \ es
        /\ \A a, b \in StoredOn(disk) \ es : Before(s.age, a, b) => Before(kept, a, b)
    <2> DEFINE age == s.age
               S == Experts \ es
    <2>1. age \in Seq(Experts) /\ Once(age) /\ Range(age) = StoredOn(disk)
      BY DEF StoreFits
    <2> HIDE DEF age, S
    <2>2. Keep(age, S) \in Seq(Experts) /\ Once(Keep(age, S)) /\ Range(Keep(age, S)) = Range(age) \cap S
      BY <2>1, KeepProperties
    <2>3. Range(Keep(age, S)) = StoredOn(disk) \ es
      <3>1. StoredOn(disk) \subseteq Experts
        BY DEF StoredOn
      <3> QED BY <2>1, <2>2, <3>1 DEF S
    <2>4. \A a, b \in Range(Keep(age, S)) : Before(age, a, b) => Before(Keep(age, S), a, b)
      BY <2>1, KeepBefore
    <2> QED BY <2>2, <2>3, <2>4 DEF age, S
  <1>9. [e \in DOMAIN s.bytes \ es |-> s.bytes[e]] = [e \in StoredOn(after) |-> HeldOn(after, e)]
    <2>1. DOMAIN s.bytes = StoredOn(disk) /\ \A e \in StoredOn(disk) : s.bytes[e] = HeldOn(disk, e)
      BY DEF StoreFits
    <2>2. \A e \in StoredOn(disk) \ es : HeldOn(after, e) = HeldOn(disk, e)
      <3> HIDE DEF after
      <3> QED BY <1>4 DEF HeldOn, StoredOn
    <2> HIDE DEF after
    <2> QED BY <1>5, <2>1, <2>2
  <1> HIDE DEF after, t, kept
  <1>10. StoreFits(t, after)
    <2>1. s.last \in Experts \cup {NoExpert} /\ s.lines \in Nat
      BY DEF StoreFits
    <2> QED BY <1>1, <1>5, <1>7, <1>8, <1>9, <2>1 DEF StoreFits
  <1> QED BY <1>1, <1>5, <1>8, <1>10 DEF t, after

(* mark_used puts the expert last and leaves the others in order.          *)
LEMMA MarkUsedIs ==
  ASSUME NEW age \in Seq(Experts), Once(age), NEW e \in Experts
  PROVE  /\ MarkUsed(age, e) \in Seq(Experts) /\ Once(MarkUsed(age, e))
         /\ Range(MarkUsed(age, e)) = Range(age) \cup {e}
         /\ Len(MarkUsed(age, e)) \in Nat \ {0} /\ MarkUsed(age, e)[Len(MarkUsed(age, e))] = e
         /\ \A a, b \in Range(age) \ {e} : Before(age, a, b) => Before(MarkUsed(age, e), a, b)
         /\ \A a \in Range(age) \ {e} : Before(MarkUsed(age, e), a, e)
  <1> DEFINE rest == Keep(age, Experts \ {e})
             all == Append(rest, e)
  <1>1. rest \in Seq(Experts) /\ Once(rest) /\ Range(rest) = Range(age) \ {e}
    <2> DEFINE S == Experts \ {e}
    <2> HIDE DEF S
    <2>1. Keep(age, S) \in Seq(Experts) /\ Once(Keep(age, S)) /\ Range(Keep(age, S)) = Range(age) \cap S
      BY KeepProperties
    <2>2. Range(age) \subseteq Experts
      BY RangeIs
    <2> QED BY <2>1, <2>2 DEF S
  <1>2. \A a, b \in Range(rest) : Before(age, a, b) => Before(rest, a, b)
    <2> DEFINE S == Experts \ {e}
    <2> HIDE DEF S
    <2>1. \A a, b \in Range(Keep(age, S)) : Before(age, a, b) => Before(Keep(age, S), a, b)
      BY KeepBefore
    <2> QED BY <2>1 DEF S
  <1> HIDE DEF rest
  <1>3. /\ all \in Seq(Experts) /\ Len(all) = Len(rest) + 1 /\ Len(rest) \in Nat
        /\ all[Len(rest) + 1] = e /\ \A i \in 1 .. Len(rest) : all[i] = rest[i]
    BY <1>1, AppendProperties, LenProperties
  <1>4. Grown(rest, all, e)
    BY <1>3 DEF Grown
  <1> HIDE DEF all
  <1>5. /\ Range(all) = Range(rest) \cup {e}
        /\ Once(rest) /\ e \notin Range(rest) => Once(all)
        /\ \A a, b : Before(rest, a, b) => Before(all, a, b)
        /\ \A a \in Range(rest) : Before(all, a, e)
    BY ONLY <1>1, <1>3, <1>4, e \in Experts, AppendLine
  <1>6. MarkUsed(age, e) = all
    BY DEF MarkUsed, all, rest
  <1>7. Once(all) /\ Range(all) = Range(age) \cup {e}
    BY <1>1, <1>5
  <1>8. \A a, b \in Range(age) \ {e} : Before(age, a, b) => Before(all, a, b)
    BY <1>1, <1>2, <1>5
  <1>9. \A a \in Range(age) \ {e} : Before(all, a, e)
    BY <1>1, <1>5
  <1>10. Len(all) \in Nat \ {0} /\ all[Len(all)] = e
    BY <1>3
  <1> QED BY <1>3, <1>6, <1>7, <1>8, <1>9, <1>10

LEMMA CountFits ==
  ASSUME NEW s, NEW disk, StoreFits(s, disk), DOMAIN disk = Tensor, disk = [y \in Tensor |-> disk[y]],
         NEW x \in Tensor, NEW c, c # NotStored,
         NEW after, after = [disk EXCEPT ![x] = c],
         NEW replaced, replaced = IF disk[x] = NotStored THEN 0 ELSE 1
  PROVE  /\ StoreFits(Counted(s, x, replaced), after)
         /\ StoredOn(after) = StoredOn(disk) \cup ({ExpertOf[x]} \ {NoExpert})
         /\ Counted(s, x, replaced).acquired = s.acquired - replaced + 1
         /\ Counted(s, x, replaced).last = s.last
         /\ \A a, b \in StoredOn(disk) : Before(s.age, a, b) => Before(Counted(s, x, replaced).age, a, b)
  <1> DEFINE e == ExpertOf[x]
             before == IF e \in DOMAIN s.bytes THEN s.bytes[e] ELSE 0
             bytes == IF e = NoExpert THEN s.bytes
                      ELSE [f \in DOMAIN s.bytes \cup {e} |-> IF f = e THEN before - replaced + 1 ELSE s.bytes[f]]
             age == IF e = NoExpert \/ e \in DOMAIN s.bytes THEN s.age ELSE MarkUsed(s.age, e)
             t == Counted(s, x, replaced)
  <1>1. t = [acquired |-> s.acquired - replaced + 1, bytes |-> bytes, age |-> age,
             last |-> s.last, lines |-> s.lines]
    <2>1. s = [acquired |-> s.acquired, bytes |-> s.bytes, age |-> s.age, last |-> s.last, lines |-> s.lines]
      BY DEF StoreFits
    <2> DEFINE more == s.acquired - replaced + 1
    <2>2. t = [s EXCEPT !.acquired = more, !.bytes = bytes, !.age = age]
      BY DEF Counted
    <2> HIDE DEF more, bytes, age, t
    <2>3. t = [acquired |-> more, bytes |-> bytes, age |-> age, last |-> s.last, lines |-> s.lines]
      BY <2>1, <2>2
    <2> QED BY <2>3 DEF more
  <1>2. \A y \in Tensor : after[y] = IF y = x THEN c ELSE disk[y]
    OBVIOUS
  <1>3. /\ replaced \in {0, 1}
        /\ \A S \in SUBSET Tensor :
             Cardinality(BinsOf(after, S)) =
               Cardinality(BinsOf(disk, S)) + (IF x \in S THEN 1 - replaced ELSE 0)
    <2>1. replaced \in {0, 1}
      OBVIOUS
    <2>2. ASSUME NEW S \in SUBSET Tensor
          PROVE  Cardinality(BinsOf(after, S)) =
                   Cardinality(BinsOf(disk, S)) + (IF x \in S THEN 1 - replaced ELSE 0)
      <3> DEFINE A == BinsOf(disk, S)
      <3>1. BinsOf(after, S) = IF x \in S THEN A \cup {x} ELSE A
        BY <1>2 DEF BinsOf
      <3>2. x \in A <=> x \in S /\ replaced = 1
        BY DEF BinsOf
      <3>3. IsFiniteSet(A) /\ Cardinality(A) \in Nat
        BY ExpertsAre
      <3> HIDE DEF A
      <3>4. Cardinality(A \cup {x}) = IF x \in A THEN Cardinality(A) ELSE Cardinality(A) + 1
        BY <3>3, FS_AddElement
      <3>5. Cardinality(BinsOf(after, S)) = Cardinality(A) + (IF x \in S THEN 1 - replaced ELSE 0)
        BY <2>1, <3>1, <3>2, <3>3, <3>4
      <3> QED BY <3>5 DEF A
    <2> QED BY <2>1, <2>2
  <1>4. /\ e # NoExpert => e \in Experts /\ x \in PartsOf(e)
        /\ \A f \in Experts : PartsOf(f) \in SUBSET Tensor /\ (x \in PartsOf(f) <=> f = e)
        /\ e = NoExpert => e \notin Experts
    BY ExpertsAre DEF PartsOf
  <1>5. \A f \in Experts : BinsOf(after, PartsOf(f)) = IF f = e THEN BinsOf(disk, PartsOf(f)) \cup {x}
                                                               ELSE BinsOf(disk, PartsOf(f))
    BY <1>2, <1>4 DEF BinsOf
  <1>6. StoredOn(after) = StoredOn(disk) \cup ({e} \ {NoExpert})
    <2>1. \A f : f \in StoredOn(after) <=> f \in Experts /\ BinsOf(after, PartsOf(f)) # {}
      BY DEF StoredOn
    <2>2. \A f : f \in StoredOn(disk) <=> f \in Experts /\ BinsOf(disk, PartsOf(f)) # {}
      BY DEF StoredOn
    <2> HIDE DEF e
    <2>3. ASSUME NEW f PROVE f \in StoredOn(after) <=> f \in StoredOn(disk) \/ (f = e /\ e # NoExpert)
      <3>1. CASE f \in Experts /\ f = e
        BY <1>4, <1>5, <2>1, <2>2, <3>1
      <3>2. CASE f \in Experts /\ f # e
        BY <1>5, <2>1, <2>2, <3>2
      <3>3. CASE f \notin Experts
        BY <1>4, <2>1, <2>2, <3>3
      <3> QED BY <3>1, <3>2, <3>3
    <2> QED BY ONLY <2>3
  <1>7. \A f \in Experts : HeldOn(after, f) = HeldOn(disk, f) + (IF f = e THEN 1 - replaced ELSE 0)
    BY <1>3, <1>4 DEF HeldOn
  <1>8. /\ DOMAIN s.bytes = StoredOn(disk) /\ \A f \in StoredOn(disk) : s.bytes[f] = HeldOn(disk, f)
        /\ s.bytes = [f \in StoredOn(disk) |-> s.bytes[f]]
    BY DEF StoreFits
  <1>9. \A f \in Experts : HeldOn(disk, f) \in Nat /\ (f \notin StoredOn(disk) => HeldOn(disk, f) = 0)
    <2>1. \A f \in Experts : f \notin StoredOn(disk) => BinsOf(disk, PartsOf(f)) = {}
      BY DEF StoredOn
    <2> QED BY <2>1, ExpertsAre, FS_EmptySet DEF HeldOn
  <1>10. bytes = [f \in StoredOn(after) |-> HeldOn(after, f)]
    <2>0. StoredOn(disk) \subseteq Experts
      BY DEF StoredOn
    <2>1. CASE e = NoExpert
      <3>1. StoredOn(after) = StoredOn(disk)
        BY <1>6, <2>1
      <3>2. \A f \in StoredOn(disk) : HeldOn(after, f) = s.bytes[f]
        BY <1>4, <1>7, <1>8, <1>9, <2>0, <2>1
      <3>3. s.bytes = [f \in StoredOn(after) |-> HeldOn(after, f)]
        BY <1>8, <3>1, <3>2
      <3> QED BY <2>1, <3>3
    <2>2. CASE e # NoExpert
      <3>1. DOMAIN s.bytes \cup {e} = StoredOn(after)
        BY <1>6, <1>8, <2>2
      <3>2. before = HeldOn(disk, e)
        BY <1>4, <1>8, <1>9, <2>2
      <3>3. before - replaced + 1 = HeldOn(after, e)
        BY <1>3, <1>4, <1>7, <1>9, <2>2, <3>2
      <3>4. \A f \in StoredOn(after) : f # e => s.bytes[f] = HeldOn(after, f)
        BY <1>6, <1>7, <1>8, <1>9, <2>0
      <3> HIDE DEF before, e
      <3>5. [f \in DOMAIN s.bytes \cup {e} |-> IF f = e THEN before - replaced + 1 ELSE s.bytes[f]]
              = [f \in StoredOn(after) |-> HeldOn(after, f)]
        BY <3>1, <3>3, <3>4
      <3> QED BY <2>2, <3>5
    <2> QED BY <2>1, <2>2
  <1>11. /\ age \in Seq(Experts) /\ Once(age) /\ Range(age) = StoredOn(after)
         /\ \A a, b \in StoredOn(disk) : Before(s.age, a, b) => Before(age, a, b)
    <2> DEFINE old == s.age
    <2>1. old \in Seq(Experts) /\ Once(old) /\ Range(old) = StoredOn(disk)
      BY DEF StoreFits
    <2> HIDE DEF old
    <2>2. CASE e = NoExpert \/ e \in DOMAIN s.bytes
      <3>1. age = old
        BY <2>2 DEF old
      <3> HIDE DEF age
      <3>2. StoredOn(after) = StoredOn(disk)
        BY <1>6, <1>8, <2>2
      <3> QED BY <2>1, <3>1, <3>2 DEF old
    <2>3. CASE ~(e = NoExpert \/ e \in DOMAIN s.bytes)
      <3>1. age = MarkUsed(old, e) /\ e \in Experts /\ e \notin StoredOn(disk)
        BY <1>4, <1>8, <2>3 DEF old
      <3> HIDE DEF age
      <3>2. /\ age \in Seq(Experts) /\ Once(age) /\ Range(age) = StoredOn(disk) \cup {e}
            /\ \A a, b \in StoredOn(disk) \ {e} : Before(old, a, b) => Before(age, a, b)
        <4> HIDE DEF e
        <4> QED BY <2>1, <3>1, MarkUsedIs
      <3>3. Range(age) = StoredOn(after)
        BY <1>6, <2>3, <3>2
      <3> QED BY <3>1, <3>2, <3>3 DEF old
    <2> QED BY <2>2, <2>3
  <1>12. s.acquired - replaced + 1 = Cardinality(BinsOf(after, Tensor))
    <2>1. s.acquired = Cardinality(BinsOf(disk, Tensor)) /\ Cardinality(BinsOf(disk, Tensor)) \in Nat
      BY ExpertsAre DEF StoreFits
    <2> QED BY <1>3, <2>1
  <1> HIDE DEF bytes, age, t
  <1>13. StoreFits(t, after)
    <2>1. s.last \in Experts \cup {NoExpert} /\ s.lines \in Nat
      BY DEF StoreFits
    <2> QED BY <1>1, <1>10, <1>11, <1>12, <2>1 DEF StoreFits
  <1> QED BY <1>1, <1>6, <1>11, <1>13 DEF t

(***************************************************************************)
(* The order of use.  j has the lines of the journal; a was used before b  *)
(* if the last use of b is later than any of a, or the journal has neither *)
(* and a comes first in name order.                                        *)
(***************************************************************************)
UsesIn(j) == IF j = NoJournal THEN <<>> ELSE j

UsedBefore(j, a, b) ==
  \/ \E i \in DOMAIN j : j[i] = b /\ \A k \in DOMAIN j : k >= i => j[k] # a
  \/ a \notin Range(j) /\ b \notin Range(j) /\ a < b

(* The store has its experts in this order, but for those in F, whose last *)
(* use is still to be written down.                                        *)
OrderFits(s, j, F) ==
  /\ \A a, b \in DOMAIN s.bytes \ F : a # b /\ UsedBefore(j, a, b) => Before(s.age, a, b)
  /\ s.last # NoExpert =>
       /\ Len(j) # 0 /\ j[Len(j)] = s.last
       /\ \A a \in DOMAIN s.bytes \ F : a # s.last => Before(s.age, a, s.last)

LEMMA OneUsedBefore ==
  ASSUME NEW j \in Seq(Experts), NEW a \in Experts, NEW b \in Experts, a # b
  PROVE  UsedBefore(j, a, b) \/ UsedBefore(j, b, a)
  <1> DEFINE n == Len(j)
             P == {i \in 1 .. n : j[i] \in {a, b}}
  <1>1. n \in Nat /\ DOMAIN j = 1 .. n /\ a \in Nat /\ b \in Nat
    BY LenProperties, ExpertsAre
  <1>2. CASE P = {}
    <2>1. a \notin Range(j) /\ b \notin Range(j)
      BY <1>1, <1>2 DEF Range
    <2>2. a < b \/ b < a
      BY <1>1
    <2> QED BY <2>1, <2>2 DEF UsedBefore
  <1>3. CASE P # {}
    <2> DEFINE m == Max(P)
    <2>1. m \in P /\ \A i \in P : i <= m
      <3>1. P \in SUBSET (1 .. n) /\ 1 \in Int /\ n \in Int
        BY <1>1
      <3> HIDE DEF P, n
      <3> QED BY <1>3, <3>1, MaxIs
    <2> HIDE DEF m
    <2>2. \A k \in 1 .. n : k >= m /\ k # m => j[k] \notin {a, b}
      BY <1>1, <2>1
    <2>3. CASE j[m] = b
      <3>1. \A k \in 1 .. n : k >= m => j[k] # a
        BY <2>2, <2>3
      <3> QED BY <1>1, <2>1, <2>3, <3>1 DEF UsedBefore
    <2>4. CASE j[m] = a
      <3>1. \A k \in 1 .. n : k >= m => j[k] # b
        BY <2>2, <2>4
      <3> QED BY <1>1, <2>1, <2>4, <3>1 DEF UsedBefore
    <2> QED BY <2>1, <2>3, <2>4
  <1> QED BY <1>2, <1>3

(* A longer journal, whose last line is the newest use.                    *)
LEMMA NewestUse ==
  ASSUME NEW j \in Seq(Experts), NEW e \in Experts, NEW k \in Seq(Experts), k = Append(j, e)
  PROVE  /\ Len(k) # 0 /\ k[Len(k)] = e
         /\ \A a, b : a # e /\ b # e /\ UsedBefore(k, a, b) => UsedBefore(j, a, b)
  <1>1. /\ Len(j) \in Nat /\ DOMAIN j = 1 .. Len(j) /\ DOMAIN k = 1 .. Len(j) + 1 /\ Len(k) = Len(j) + 1
        /\ k[Len(j) + 1] = e /\ \A i \in 1 .. Len(j) : k[i] = j[i]
    <2>1. /\ Len(k) = Len(j) + 1 /\ k[Len(j) + 1] = e /\ \A i \in 1 .. Len(j) : k[i] = j[i]
      BY AppendProperties
    <2> QED BY <2>1, LenProperties
  <1>2. ASSUME NEW a, NEW b, a # e, b # e, UsedBefore(k, a, b) PROVE UsedBefore(j, a, b)
    <2>1. CASE \E i \in DOMAIN k : k[i] = b /\ \A l \in DOMAIN k : l >= i => k[l] # a
      <3>1. PICK i \in 1 .. Len(j) + 1 : k[i] = b /\ \A l \in 1 .. Len(j) + 1 : l >= i => k[l] # a
        BY <1>1, <2>1
      <3>2. i \in 1 .. Len(j)
        BY <1>1, <1>2, <3>1
      <3>3. j[i] = b /\ \A l \in 1 .. Len(j) : l >= i => j[l] # a
        BY <1>1, <3>1, <3>2
      <3> QED BY <1>1, <3>2, <3>3 DEF UsedBefore
    <2>2. CASE a \notin Range(k) /\ b \notin Range(k) /\ a < b
      <3>1. a \notin Range(j) /\ b \notin Range(j)
        BY <1>1, <2>2 DEF Range
      <3> QED BY <2>2, <3>1 DEF UsedBefore
    <2> QED BY <1>2, <2>1, <2>2 DEF UsedBefore
  <1> QED BY <1>1, <1>2

(* The newest use is before none, and what a journal without repetitions   *)
(* says is its order.                                                      *)
LEMMA NewestIsLast ==
  ASSUME NEW j \in Seq(Experts), Len(j) # 0, NEW b, b # j[Len(j)]
  PROVE  ~UsedBefore(j, j[Len(j)], b)
  <1>1. Len(j) \in Nat /\ DOMAIN j = 1 .. Len(j) /\ Len(j) \in DOMAIN j
    BY LenProperties
  <1>2. \A i \in 1 .. Len(j) : Len(j) >= i
    BY <1>1
  <1>3. j[Len(j)] \in Range(j)
    BY <1>1 DEF Range
  <1> QED BY <1>1, <1>2, <1>3 DEF UsedBefore

LEMMA OrderOfJournal ==
  ASSUME NEW j \in Seq(Experts), NEW a \in Range(j), NEW b, UsedBefore(j, a, b)
  PROVE  Before(j, a, b)
  <1>1. Len(j) \in Nat /\ DOMAIN j = 1 .. Len(j)
    BY LenProperties
  <1>2. PICK i \in 1 .. Len(j) : j[i] = b /\ \A k \in 1 .. Len(j) : k >= i => j[k] # a
    BY <1>1 DEF UsedBefore
  <1>3. PICK k \in 1 .. Len(j) : j[k] = a
    BY <1>1 DEF Range
  <1>4. k < i
    BY <1>1, <1>2, <1>3
  <1> QED BY <1>1, <1>2, <1>3, <1>4 DEF Before

LEMMA EvictKeepsOrder ==
  ASSUME NEW s, NEW disk, StoreFits(s, disk), NEW es \in SUBSET StoredOn(disk), NEW gone,
         gone = UNION {PartsOf(e) : e \in es}, NEW j, NEW F, OrderFits(s, j, F)
  PROVE  OrderFits(Evicted(s, es), j, F)
  <1> DEFINE t == Evicted(s, es)
  <1>1. /\ StoreFits(t, WithoutBins(disk, gone))
        /\ StoredOn(WithoutBins(disk, gone)) = StoredOn(disk) \ es
        /\ \A a, b \in StoredOn(disk) \ es : Before(s.age, a, b) => Before(t.age, a, b)
    BY EvictFits
  <1>2. DOMAIN s.bytes = StoredOn(disk) /\ DOMAIN t.bytes = StoredOn(disk) \ es
    <2> HIDE DEF t
    <2> QED BY <1>1 DEF StoreFits
  <1>3. t.last = IF s.last \in es THEN NoExpert ELSE s.last
    BY DEF Evicted, StoreFits
  <1>4. t.last # NoExpert => \A a \in DOMAIN t.bytes \ F : a # t.last => Before(t.age, a, t.last)
    <2> SUFFICES ASSUME t.last # NoExpert, NEW a \in DOMAIN t.bytes \ F, a # t.last PROVE Before(t.age, a, t.last)
      OBVIOUS
    <2> HIDE DEF t
    <2>1. t.last = s.last /\ s.last \notin es /\ Before(s.age, a, s.last)
      BY <1>2, <1>3 DEF OrderFits
    <2>2. s.last \in StoredOn(disk)
      <3>1. s.age \in Seq(Experts) /\ Once(s.age) /\ Range(s.age) = StoredOn(disk)
        BY DEF StoreFits
      <3> DEFINE age == s.age
      <3> HIDE DEF age
      <3>2. age \in Seq(Experts) /\ Once(age) /\ Range(age) = StoredOn(disk) /\ Before(age, a, s.last)
        BY <2>1, <3>1 DEF age
      <3> QED BY ONLY <3>2, BeforeOneWay
    <2> QED BY <1>1, <1>2, <2>1, <2>2
  <1> HIDE DEF t
  <1>5. OrderFits(t, j, F)
    <2>1. \A a, b \in DOMAIN t.bytes \ F : a # b /\ UsedBefore(j, a, b) => Before(t.age, a, b)
      BY <1>1, <1>2 DEF OrderFits
    <2>2. t.last # NoExpert => Len(j) # 0 /\ j[Len(j)] = t.last
      BY <1>3 DEF OrderFits
    <2> QED BY ONLY <2>1, <2>2, <1>4 DEF OrderFits
  <1> QED BY <1>5 DEF t

LEMMA CountKeepsOrder ==
  ASSUME NEW s, NEW disk, StoreFits(s, disk), DOMAIN disk = Tensor, disk = [y \in Tensor |-> disk[y]],
         NEW x \in Tensor, NEW c, c # NotStored,
         NEW after, after = [disk EXCEPT ![x] = c],
         NEW replaced, replaced = IF disk[x] = NotStored THEN 0 ELSE 1,
         NEW j, NEW F, OrderFits(s, j, F)
  PROVE  OrderFits(Counted(s, x, replaced), j, F \cup {ExpertOf[x]})
  <1> DEFINE t == Counted(s, x, replaced)
             G == F \cup {ExpertOf[x]}
  <1>1. /\ StoreFits(t, after) /\ t.last = s.last
        /\ StoredOn(after) = StoredOn(disk) \cup ({ExpertOf[x]} \ {NoExpert})
        /\ \A a, b \in StoredOn(disk) : Before(s.age, a, b) => Before(t.age, a, b)
    BY CountFits
  <1> HIDE DEF t
  <1>2. DOMAIN s.bytes = StoredOn(disk) /\ DOMAIN t.bytes \ G \subseteq StoredOn(disk) \ F
    BY <1>1 DEF StoreFits
  <1>3. \A a, b : Before(s.age, a, b) => Before(t.age, a, b)
    <2> DEFINE age == s.age
    <2>1. age \in Seq(Experts) /\ Once(age) /\ Range(age) = StoredOn(disk)
      BY DEF StoreFits
    <2> HIDE DEF age
    <2>2. \A a, b : Before(age, a, b) => a \in StoredOn(disk) /\ b \in StoredOn(disk)
      BY <2>1, BeforeOneWay
    <2> QED BY <1>1, <2>2 DEF age
  <1>4. \A a, b \in DOMAIN t.bytes \ G : a # b /\ UsedBefore(j, a, b) => Before(t.age, a, b)
    BY <1>2, <1>3 DEF OrderFits
  <1>5. t.last # NoExpert =>
          /\ Len(j) # 0 /\ j[Len(j)] = t.last
          /\ \A a \in DOMAIN t.bytes \ G : a # t.last => Before(t.age, a, t.last)
    BY <1>1, <1>2, <1>3 DEF OrderFits
  <1>6. OrderFits(t, j, G)
    BY ONLY <1>4, <1>5 DEF OrderFits
  <1> QED BY <1>6 DEF t

JournalTyped(j) == j = NoJournal \/ j \in Seq(Experts)

LEMMA UsesInIs ==
  ASSUME NEW j, JournalTyped(j)
  PROVE  UsesIn(j) \in Seq(Experts)
  BY EmptySeq DEF JournalTyped, UsesIn

LEMMA NoJournalIs == NoJournal \notin Seq(Experts) /\ NoJournal # <<>>
  <1>1. ASSUME NoJournal \in Seq(Experts) PROVE FALSE
    <2>1. Len(NoJournal) = 1 /\ NoJournal[1] = NoExpert
      BY DEF NoJournal, NoExpert
    <2>2. 1 \in 1 .. Len(NoJournal)
      BY <2>1
    <2>3. NoJournal[1] \in Experts
      BY <1>1, <2>2, ElementOfSeq
    <2> QED BY <2>1, <2>3, ExpertsAre
  <1> QED BY <1>1 DEF NoJournal

(* A use of an expert that is written down is no longer to be written down. *)
LEMMA TouchKeeps ==
  ASSUME NEW e, StoreFits(store, bins), JournalTyped(journal),
         NEW F, OrderFits(store, UsesIn(journal), F), Touch(e)
  PROVE  /\ StoreFits(store', bins) /\ JournalTyped(journal')
         /\ OrderFits(store', UsesIn(journal'), F \ {e})
  <1> DEFINE j == UsesIn(journal)
             age == store.age
             D == StoredOn(bins)
  <1>1. /\ j \in Seq(Experts) /\ age \in Seq(Experts) /\ Once(age) /\ Range(age) = D
        /\ DOMAIN store.bytes = D /\ D \subseteq Experts
    BY UsesInIs DEF StoreFits, StoredOn
  <1>2. /\ \A a, b \in D \ F : a # b /\ UsedBefore(j, a, b) => Before(age, a, b)
        /\ store.last # NoExpert =>
             /\ Len(j) # 0 /\ j[Len(j)] = store.last
             /\ \A a \in D \ F : a # store.last => Before(age, a, store.last)
    BY <1>1 DEF OrderFits
  <1>3. CASE store.last = e \/ e \notin D
    <2>1. store' = store /\ journal' = journal
      BY <1>1, <1>3 DEF Touch
    <2>2. OrderFits(store, j, F \ {e})
      <3>1. CASE e \notin D
        <4>1. DOMAIN store.bytes \ (F \ {e}) = DOMAIN store.bytes \ F
          BY <1>1, <3>1
        <4> QED BY <4>1 DEF OrderFits
      <3>2. CASE e \in D /\ store.last = e
        <4> HIDE DEF j, age
        <4>1. e # NoExpert /\ Len(j) # 0 /\ j[Len(j)] = e /\ \A a \in D \ F : a # e => Before(age, a, e)
          BY <1>1, <1>2, <3>2, ExpertsAre
        <4>2. ASSUME NEW a \in D \ (F \ {e}), NEW b \in D \ (F \ {e}), a # b, UsedBefore(j, a, b)
              PROVE  Before(age, a, b)
          <5>1. CASE a = e
            <6>1. ~UsedBefore(j, e, b)
              <7>1. b # j[Len(j)]
                BY <4>1, <4>2, <5>1
              <7>2. ~UsedBefore(j, j[Len(j)], b)
                BY <1>1, <4>1, <7>1, NewestIsLast
              <7> QED BY <4>1, <7>2
            <6> QED BY <4>2, <5>1, <6>1
          <5>2. CASE b = e
            BY <4>1, <4>2, <5>2
          <5>3. CASE a # e /\ b # e
            BY <1>2, <4>2, <5>3
          <5> QED BY <5>1, <5>2, <5>3
        <4>3. \A a \in D \ (F \ {e}) : a # store.last => Before(age, a, store.last)
          BY <3>2, <4>1
        <4> QED BY <1>1, <1>2, <4>2, <4>3 DEF OrderFits, age
      <3> QED BY <1>3, <3>1, <3>2
    <2> QED BY <2>1, <2>2
  <1>4. CASE ~(store.last = e \/ e \notin D)
    <2> DEFINE used == MarkUsed(age, e)
               compacts == store.lines > JournalFactor * Cardinality(DOMAIN store.bytes) + JournalSlack
               count == IF compacts THEN Len(used) ELSE store.lines + 1
    <2>1. /\ store' = [store EXCEPT !.age = used, !.last = e, !.lines = count]
          /\ journal' = IF compacts THEN used ELSE IF journal = NoJournal THEN <<e>> ELSE Append(journal, e)
      BY <1>1, <1>4 DEF Touch
    <2>2. e \in Experts /\ e # NoExpert /\ e \in D
      BY <1>1, <1>4, ExpertsAre
    <2> HIDE DEF age, D
    <2>3. /\ used \in Seq(Experts) /\ Once(used) /\ Range(used) = D
          /\ Len(used) \in Nat \ {0} /\ used[Len(used)] = e
          /\ \A a, b \in D \ {e} : Before(age, a, b) => Before(used, a, b)
          /\ \A a \in D \ {e} : Before(used, a, e)
      <3>1. Range(age) \cup {e} = D
        BY <1>1, <2>2
      <3> QED BY <1>1, <2>2, <3>1, MarkUsedIs
    <2> HIDE DEF used
    <2>4. count \in Nat
      BY <2>3 DEF StoreFits
    <2> HIDE DEF count
    <2>5. /\ store' = [acquired |-> store.acquired, bytes |-> store.bytes, age |-> used,
                       last |-> e, lines |-> count]
      <3>1. store = [acquired |-> store.acquired, bytes |-> store.bytes, age |-> store.age,
                     last |-> store.last, lines |-> store.lines]
        BY DEF StoreFits
      <3> QED BY <2>1, <3>1
    <2>6. StoreFits(store', bins)
      <3>1. /\ store.acquired = Cardinality(BinsOf(bins, Tensor))
            /\ store.bytes = [f \in StoredOn(bins) |-> HeldOn(bins, f)]
        BY DEF StoreFits
      <3> QED BY <2>2, <2>3, <2>4, <2>5, <3>1 DEF StoreFits, D
    <2> DEFINE k == UsesIn(journal')
    <2>7. /\ JournalTyped(journal') /\ k \in Seq(Experts) /\ Len(k) # 0 /\ k[Len(k)] = e
          /\ \A a, b \in D \ (F \cup {e}) : a # b /\ UsedBefore(k, a, b) => Before(used, a, b)
      <3>1. CASE compacts
        <4>1. journal' = used /\ JournalTyped(journal')
          BY <2>1, <2>3, <3>1 DEF JournalTyped
        <4>2. k = used
          BY <2>3, <4>1, NoJournalIs DEF UsesIn
        <4>3. \A a, b \in D : UsedBefore(used, a, b) => Before(used, a, b)
          BY <2>3, OrderOfJournal
        <4> HIDE DEF k
        <4> QED BY <2>3, <4>1, <4>2, <4>3
      <3>2. CASE ~compacts
        <4>1. k = Append(j, e) /\ k \in Seq(Experts) /\ JournalTyped(journal')
          <5>1. Append(j, e) \in Seq(Experts)
            BY <1>1, <2>2, AppendProperties
          <5>2. journal' = Append(j, e)
            <6>1. CASE journal = NoJournal
              BY <2>1, <3>2, <6>1 DEF UsesIn
            <6>2. CASE journal # NoJournal
              BY <2>1, <3>2, <6>2 DEF UsesIn
            <6> QED BY <6>1, <6>2
          <5> HIDE DEF j
          <5>3. Append(j, e) # NoJournal
            BY <5>1, NoJournalIs
          <5> QED BY <5>1, <5>2, <5>3 DEF UsesIn, JournalTyped
        <4> HIDE DEF k, j
        <4>2. /\ Len(k) # 0 /\ k[Len(k)] = e
              /\ \A a, b : a # e /\ b # e /\ UsedBefore(k, a, b) => UsedBefore(j, a, b)
          BY <1>1, <2>2, <4>1, NewestUse
        <4>3. \A a, b \in D \ (F \cup {e}) : a # b /\ UsedBefore(k, a, b) => Before(used, a, b)
          BY <1>2, <2>3, <4>2
        <4> QED BY <4>1, <4>2, <4>3
      <3> QED BY <3>1, <3>2
    <2> HIDE DEF k
    <2>8. OrderFits(store', k, F \ {e})
      <3>1. ASSUME NEW a \in D \ (F \ {e}), NEW b \in D \ (F \ {e}), a # b, UsedBefore(k, a, b)
            PROVE  Before(used, a, b)
        <4>1. CASE a = e
          <5>1. b # k[Len(k)]
            BY <2>7, <3>1, <4>1
          <5>2. ~UsedBefore(k, k[Len(k)], b)
            BY <2>7, <5>1, NewestIsLast
          <5> QED BY <2>7, <3>1, <4>1, <5>2
        <4>2. CASE b = e
          BY <2>3, <3>1, <4>2
        <4>3. CASE a # e /\ b # e
          BY <2>7, <3>1, <4>3
        <4> QED BY <4>1, <4>2, <4>3
      <3>2. \A a \in D \ (F \ {e}) : a # e => Before(used, a, e)
        BY <2>3
      <3>3. store'.age = used /\ store'.last = e /\ DOMAIN store'.bytes = D
        BY <1>1, <2>5
      <3> QED BY <2>7, <3>1, <3>2, <3>3 DEF OrderFits
    <2> QED BY <2>6, <2>7, <2>8 DEF k
  <1> QED BY <1>3, <1>4

(* What Store::open finds: the payloads counted, and their experts in the  *)
(* order in which the journal says that they were used.                    *)
LEMMA OpenedIs ==
  ASSUME NEW disk, JournalTyped(journal)
  PROVE  /\ StoreFits(Opened(disk), disk)
         /\ OrderFits(Opened(disk), UsesIn(journal), {})
         /\ JournalTyped(IF journal = NoJournal THEN NoJournal ELSE Opened(disk).age)
         /\ OrderFits(Opened(disk), UsesIn(IF journal = NoJournal THEN NoJournal ELSE Opened(disk).age), {})
  <1> DEFINE D == StoredOn(disk)
             bytes == [e \in D |-> HeldOn(disk, e)]
             inOrder == AtPlaces([e \in Experts |-> e], D)
             j == UsesIn(journal)
             uses == inOrder \o j
             K == {i \in DOMAIN uses : /\ uses[i] \in D
                                       /\ \A k \in DOMAIN uses : k > i => uses[k] # uses[i]}
             age == AtPlaces(uses, K)
             m == Len(inOrder)
             n == Len(j)
  <1>1. j \in Seq(Experts) /\ D \in SUBSET Experts /\ D \in SUBSET Nat /\ IsFiniteSet(D)
    <2>1. D \in SUBSET Experts
      BY DEF StoredOn
    <2> QED BY <2>1, UsesInIs, ExpertsAre, FS_Subset
  <1>2. /\ inOrder \in Seq(Experts) /\ Once(inOrder) /\ Range(inOrder) = D
        /\ \A a, b \in D : a < b => Before(inOrder, a, b)
    <2> DEFINE id == [e \in Experts |-> e]
    <2>1. \A e \in D : id[e] = e /\ id[e] \in Experts
      BY <1>1
    <2> HIDE DEF id, D
    <2>2. /\ AtPlaces(id, D) \in Seq(Experts)
          /\ \A x : x \in Range(AtPlaces(id, D)) <=> \E i \in D : id[i] = x
          /\ \A i, k \in D : i < k => Before(AtPlaces(id, D), id[i], id[k])
          /\ (\A i, k \in D : id[i] = id[k] => i = k) => Once(AtPlaces(id, D))
      BY <1>1, <2>1, AtPlacesIs
    <2>3. \A x : x \in Range(AtPlaces(id, D)) <=> x \in D
      BY <2>1, <2>2
    <2> QED BY <2>1, <2>2, <2>3 DEF id
  <1>3. Opened(disk) = [acquired |-> Cardinality(BinsOf(disk, Tensor)), bytes |-> bytes, age |-> age,
                        last |-> NoExpert, lines |-> IF journal = NoJournal THEN 0 ELSE Len(age)]
    <2>1. DOMAIN bytes = D
      OBVIOUS
    <2>2. uses = IF journal = NoJournal THEN inOrder ELSE inOrder \o journal
      <3>1. inOrder \o <<>> = inOrder
        <4> HIDE DEF inOrder
        <4> QED BY <1>2, ConcatEmptySeq
      <3> QED BY <3>1 DEF UsesIn
    <2> HIDE DEF uses
    <2> QED BY <2>1, <2>2 DEF Opened, StoredOn, HeldOn
  <1> HIDE DEF inOrder, j, D
  <1>4. /\ uses \in Seq(Experts) /\ DOMAIN uses = 1 .. m + n /\ m \in Nat /\ n \in Nat
        /\ \A i \in 1 .. m : uses[i] = inOrder[i]
        /\ \A i \in 1 .. n : uses[m + i] = j[i]
        /\ DOMAIN inOrder = 1 .. m /\ DOMAIN j = 1 .. n
    <2>1. /\ uses \in Seq(Experts) /\ Len(uses) = m + n
          /\ \A i \in 1 .. m + n : uses[i] = IF i <= m THEN inOrder[i] ELSE j[i - m]
          /\ m \in Nat /\ n \in Nat
      BY <1>1, <1>2, ConcatProperties, LenProperties
    <2> HIDE DEF uses, m, n
    <2>2. \A i \in 1 .. n : uses[m + i] = j[i]
      <3> SUFFICES ASSUME NEW i \in 1 .. n PROVE uses[m + i] = j[i]
        OBVIOUS
      <3>1. m + i \in 1 .. m + n /\ ~(m + i <= m) /\ (m + i) - m = i
        BY <2>1
      <3> QED BY <2>1, <3>1
    <2>3. \A i \in 1 .. m : uses[i] = inOrder[i]
      BY <2>1
    <2>4. DOMAIN uses = 1 .. m + n
      BY <2>1, LenProperties
    <2>5. DOMAIN inOrder = 1 .. m /\ DOMAIN j = 1 .. n
      BY <1>1, <1>2, LenProperties DEF m, n
    <2> QED BY ONLY <2>1, <2>2, <2>3, <2>4, <2>5
  <1> HIDE DEF uses
  (* the last place of each expert that is stored *)
  <1>5. ASSUME NEW e \in D PROVE \E i \in K : uses[i] = e
    <2> DEFINE P == {i \in 1 .. m + n : uses[i] = e}
               last == Max(P)
    <2>1. P # {}
      <3>1. PICK i \in 1 .. m : inOrder[i] = e
        BY <1>2, <1>4 DEF Range
      <3>2. i \in 1 .. m + n /\ uses[i] = e
        BY <1>4, <3>1
      <3> QED BY <3>2
    <2>2. last \in P /\ \A i \in P : i <= last
      <3> DEFINE top == m + n
      <3>1. P \in SUBSET (1 .. top) /\ 1 \in Int /\ top \in Int
        BY <1>4
      <3> HIDE DEF P, top
      <3> QED BY <2>1, <3>1, MaxIs
    <2> HIDE DEF last
    <2>3. \A k \in 1 .. m + n : k > last => uses[k] # e
      BY <1>4, <2>2
    <2>4. last \in K /\ uses[last] = e
      BY <1>4, <2>2, <2>3
    <2> QED BY <2>4
  <1>6. \A i, k \in K : uses[i] = uses[k] => i = k
    <2> SUFFICES ASSUME NEW i \in K, NEW k \in K, uses[i] = uses[k], i # k PROVE FALSE
      OBVIOUS
    <2>1. i < k \/ k < i
      BY <1>4
    <2> QED BY <1>4, <2>1
  <1>7. K \in SUBSET (1 .. m + n) /\ K \in SUBSET Nat /\ IsFiniteSet(K) /\ \A i \in K : uses[i] \in D /\ uses[i] \in Experts
    <2>1. K \in SUBSET (1 .. m + n) /\ \A i \in K : uses[i] \in D
      BY <1>4
    <2>2. IsFiniteSet(1 .. m + n)
      <3> DEFINE top == m + n
      <3>1. top \in Int
        BY <1>4
      <3> HIDE DEF top
      <3>2. IsFiniteSet(1 .. top)
        BY <3>1, FS_Interval
      <3> QED BY <3>2 DEF top
    <2> HIDE DEF K
    <2>3. IsFiniteSet(K)
      BY <2>1, <2>2, FS_Subset
    <2>4. K \in SUBSET Nat
      BY <1>4, <2>1
    <2> QED BY <1>1, <2>1, <2>3, <2>4
  <1>8. \A i \in K : \A k \in 1 .. m + n : uses[k] = uses[i] => k <= i
    BY <1>4, SMTT(30)
  <1> HIDE DEF K
  <1>9. /\ age \in Seq(Experts) /\ Once(age) /\ Range(age) = D
        /\ \A i, k \in K : i < k => Before(age, uses[i], uses[k])
    <2>1. /\ AtPlaces(uses, K) \in Seq(Experts)
          /\ \A x : x \in Range(AtPlaces(uses, K)) <=> \E i \in K : uses[i] = x
          /\ \A i, k \in K : i < k => Before(AtPlaces(uses, K), uses[i], uses[k])
          /\ (\A i, k \in K : uses[i] = uses[k] => i = k) => Once(AtPlaces(uses, K))
      <3>1. K \in SUBSET Nat /\ IsFiniteSet(K) /\ \A i \in K : uses[i] \in Experts
        BY <1>7
      <3> HIDE DEF D, bytes, m, n
      <3> QED BY ONLY <3>1, AtPlacesIs
    <2>2. \A x : x \in Range(AtPlaces(uses, K)) <=> x \in D
      BY <1>5, <1>7, <2>1
    <2> QED BY <1>6, <2>1, <2>2
  <1> HIDE DEF age
  <1>10. ASSUME NEW a \in D, NEW b \in D, a # b, UsedBefore(j, a, b) PROVE Before(age, a, b)
    <2>1. PICK la \in K : uses[la] = a
      BY <1>5
    <2>2. PICK lb \in K : uses[lb] = b
      BY <1>5
    <2>3. la \in 1 .. m + n /\ lb \in 1 .. m + n
      BY <1>7
    <2>4. la < lb
      <3>1. CASE \E i \in DOMAIN j : j[i] = b /\ \A k \in DOMAIN j : k >= i => j[k] # a
        <4>1. PICK i \in 1 .. n : j[i] = b /\ \A k \in 1 .. n : k >= i => j[k] # a
          BY <1>4, <3>1
        <4>2. m + i \in 1 .. m + n /\ uses[m + i] = b
          BY <1>4, <4>1
        <4>3. m + i <= lb
          BY <1>8, <2>2, <4>2
        <4>4. la < m + i
          <5>1. CASE la <= m
            BY <1>4, <2>3, <4>1, <5>1
          <5>2. CASE la > m
            <6>1. la - m \in 1 .. n /\ m + (la - m) = la
              BY <1>4, <2>3, <5>2
            <6>2. j[la - m] = a
              BY <1>4, <2>1, <6>1
            <6>3. ~(la - m >= i)
              BY <4>1, <6>1, <6>2
            <6> QED BY <1>4, <2>3, <4>1, <6>3
          <5> QED BY <1>4, <2>3, <5>1, <5>2
        <4> QED BY <1>4, <2>3, <4>1, <4>3, <4>4
      <3>2. CASE a \notin Range(j) /\ b \notin Range(j) /\ a < b
        <4>1. PICK p, r \in 1 .. m : p < r /\ inOrder[p] = a /\ inOrder[r] = b
          BY <1>2, <1>4, <3>2 DEF Before
        <4>2. r \in 1 .. m + n /\ uses[r] = b
          BY <1>4, <4>1
        <4>3. r <= lb
          BY <1>8, <2>2, <4>2
        <4>4. la = p
          <5>1. la <= m
            <6> SUFFICES ASSUME la > m PROVE FALSE
              BY <1>4, <2>3
            <6>1. la - m \in 1 .. n /\ m + (la - m) = la
              BY <1>4, <2>3
            <6>2. j[la - m] = a
              BY <1>4, <2>1, <6>1
            <6> QED BY <1>4, <3>2, <6>1, <6>2 DEF Range
          <5>2. la \in 1 .. m /\ inOrder[la] = a
            BY <1>4, <2>1, <2>3, <5>1
          <5> QED BY <1>2, <4>1, <5>2 DEF Once, m
        <4> QED BY <1>4, <2>3, <4>1, <4>3, <4>4
      <3> QED BY <1>10, <3>1, <3>2 DEF UsedBefore
    <2> QED BY <1>9, <2>1, <2>2, <2>4
  <1>11. StoreFits(Opened(disk), disk)
    <2>1. Len(age) \in Nat
      BY <1>9, LenProperties
    <2> QED BY <1>3, <1>9, <2>1 DEF StoreFits, D
  <1>12. /\ Opened(disk).age = age /\ Opened(disk).last = NoExpert /\ DOMAIN Opened(disk).bytes = D
    BY <1>3
  <1>13. OrderFits(Opened(disk), j, {})
    BY <1>10, <1>12 DEF OrderFits
  <1>14. JournalTyped(IF journal = NoJournal THEN NoJournal ELSE Opened(disk).age)
    BY <1>9, <1>12 DEF JournalTyped
  <1>15. OrderFits(Opened(disk), UsesIn(IF journal = NoJournal THEN NoJournal ELSE Opened(disk).age), {})
    <2>1. CASE journal = NoJournal
      BY <1>13, <2>1 DEF j
    <2>2. CASE journal # NoJournal
      <3>1. UsesIn(IF journal = NoJournal THEN NoJournal ELSE Opened(disk).age) = age
        BY <1>9, <1>12, <2>2, NoJournalIs DEF UsesIn
      <3>2. \A a, b \in D : UsedBefore(age, a, b) => Before(age, a, b)
        BY <1>9, OrderOfJournal
      <3> QED BY <1>12, <3>1, <3>2 DEF OrderFits
    <2> QED BY <2>1, <2>2
  <1> QED BY <1>11, <1>13, <1>14, <1>15 DEF j

(***************************************************************************)
(* The inductive invariant: the store fits the disk and is within the      *)
(* envelope, receipts name what is there, only the thread that holds the   *)
(* lock fetches, and experts stand in their order of use but for those     *)
(* that a reader has in hand and will write down (InHand).                 *)
(***************************************************************************)
ReaderTyped(r) ==
  \/ r = AtRest
  \/ \E x \in Tensor, stage \in {"missing", "fetching", "reread", "touching"} :
       r = [at |-> stage, tensor |-> x] /\ (stage = "reread" => receipts[x] # NotStored)
  \/ \E x \in Tensor : \E c \in Content[x] :
       /\ r = [at |-> "receipt", tensor |-> x, content |-> c]
       /\ bins[x] = c /\ receipts[x] \in {NotStored, c}

Unwritten == {"receipt", "reread", "touching"}
InHand == {ExpertOf[reader[t].tensor] : t \in {u \in Thread : /\ reader[u].at \in Unwritten
                                                               /\ bins[reader[u].tensor] # NotStored}}

DiskTyped ==
  /\ bins = [x \in Tensor |-> bins[x]] /\ receipts = [x \in Tensor |-> receipts[x]]
  /\ \A x \in Tensor : bins[x] \in Content[x] \cup {NotStored} /\ receipts[x] \in Content[x] \cup {NotStored}
  /\ JournalTyped(journal)

ReadersFit ==
  /\ DOMAIN reader = Thread /\ reader = [t \in Thread |-> reader[t]]
  /\ \A t \in Thread : ReaderTyped(reader[t])
  /\ fetcher \in SUBSET Thread /\ Cardinality(fetcher) <= 1 /\ IsFiniteSet(fetcher)
  /\ \A t \in Thread : t \in fetcher <=> reader[t].at \in {"fetching", "receipt"}

(* How the lock changes with what its holder does next.                    *)
LockFollows(t, next) ==
  \/ fetcher' = fetcher /\ (next.at \in {"fetching", "receipt"} <=> t \in fetcher)
  \/ fetcher' = {t} /\ fetcher = {} /\ next.at \in {"fetching", "receipt"}
  \/ fetcher' = {} /\ t \in fetcher /\ next.at \notin {"fetching", "receipt"}

\* A reader's use is no longer to be written down only if what it read is gone.
StaysInHand(t, next) ==
  \/ reader[t].at \notin Unwritten
  \/ bins[reader[t].tensor] = NotStored
  \/ next.at \in Unwritten /\ next.tensor = reader[t].tensor

WeightInv ==
  /\ DiskTyped
  /\ ReadersFit
  /\ StoreFits(store, bins)
  /\ PayloadMatchesReceipt
  /\ Cardinality(BinsOf(bins, Tensor)) <= MaxAcquired
  /\ OrderFits(store, UsesIn(journal), InHand)

(* Fewer experts whose use is unwritten, where they are stored, suffice.   *)
LEMMA OrderFitsMore ==
  ASSUME NEW s, NEW j, NEW F, NEW G, OrderFits(s, j, F), DOMAIN s.bytes \ G \subseteq DOMAIN s.bytes \ F
  PROVE  OrderFits(s, j, G)
  BY DEF OrderFits

LEMMA OneOf ==
  ASSUME NEW S, IsFiniteSet(S), Cardinality(S) <= 1, NEW a \in S, NEW b \in S
  PROVE  a = b
  <1> SUFFICES ASSUME a # b PROVE FALSE
    OBVIOUS
  <1>1. {a} \cup {b} \in SUBSET S
    OBVIOUS
  <1>2. Cardinality({a}) = 1 /\ IsFiniteSet({a})
    BY FS_Singleton
  <1> DEFINE A == {a}
  <1>3. Cardinality({a} \cup {b}) = 2
    <2>1. b \notin A
      OBVIOUS
    <2>2. Cardinality(A) = 1 /\ IsFiniteSet(A)
      BY ONLY <1>2
    <2> HIDE DEF A
    <2>3. Cardinality(A \cup {b}) = IF b \in A THEN Cardinality(A) ELSE Cardinality(A) + 1
      BY ONLY <2>2, FS_AddElement
    <2>4. Cardinality(A \cup {b}) = 2
      BY ONLY <2>1, <2>2, <2>3
    <2> QED BY ONLY <2>4 DEF A
  <1>4. Cardinality({a} \cup {b}) <= Cardinality(S) /\ Cardinality(S) \in Nat
    BY <1>1, FS_Subset, FS_CardinalityType
  <1> QED BY <1>3, <1>4

LEMMA WithinEnvelopeFollows ==
  ASSUME WeightInv
  PROVE  WithinEnvelope
  <1>1. /\ store.acquired = Cardinality(BinsOf(bins, Tensor))
        /\ store.bytes = [e \in StoredOn(bins) |-> HeldOn(bins, e)]
        /\ store.age \in Seq(Experts) /\ Once(store.age) /\ Range(store.age) = StoredOn(bins)
        /\ store.last \in Experts \cup {NoExpert}
    BY DEF WeightInv, StoreFits
  <1>2. Len(store.age) = Cardinality(StoredOn(bins))
    <2> DEFINE age == store.age
    <2> HIDE DEF age
    <2>1. age \in Seq(Experts) /\ Once(age) /\ Range(age) = StoredOn(bins)
      BY <1>1 DEF age
    <2>2. Len(age) = Cardinality(StoredOn(bins))
      BY <2>1, OnceCounts
    <2> QED BY <2>2 DEF age
  <1>3. AcquiredExact
    BY <1>1, <1>2 DEF AcquiredExact, StoredOn, HeldOn
  <1>4. WeightTypeOK
    BY <1>1 DEF WeightInv, DiskTyped, ReadersFit, WeightTypeOK
  <1> QED BY <1>3, <1>4 DEF WeightInv, WithinEnvelope

LEMMA WeightStarts == WeightInit => WeightInv
  <1> SUFFICES ASSUME WeightInit PROVE WeightInv
    OBVIOUS
  <1>1. \A S : BinsOf(bins, S \cap Tensor) = {}
    BY DEF WeightInit, BinsOf
  <1>2. JournalTyped(journal) /\ store = Opened(bins) /\ journal = NoJournal
    BY DEF WeightInit, JournalTyped
  <1>3. StoreFits(store, bins) /\ OrderFits(store, UsesIn(journal), {})
    BY <1>2, OpenedIs
  <1>4. OrderFits(store, UsesIn(journal), InHand)
    BY <1>3, OrderFitsMore
  <1>5. Cardinality(BinsOf(bins, Tensor)) <= MaxAcquired
    <2>1. BinsOf(bins, Tensor) = {}
      BY DEF WeightInit, BinsOf
    <2> QED BY <2>1, FS_EmptySet, WeightAssumption
  <1>6. DiskTyped /\ PayloadMatchesReceipt
    BY <1>2 DEF WeightInit, DiskTyped, PayloadMatchesReceipt
  <1>7. ReadersFit
    <2>1. \A t \in Thread : reader[t] = AtRest /\ reader[t].at \notin {"fetching", "receipt"}
      BY DEF WeightInit, AtRest
    <2>2. fetcher = {} /\ Cardinality({}) = 0 /\ IsFiniteSet({})
      BY FS_EmptySet DEF WeightInit
    <2>3. DOMAIN reader = Thread /\ reader = [t \in Thread |-> reader[t]]
      BY DEF WeightInit
    <2> QED BY <2>1, <2>2, <2>3 DEF ReadersFit, ReaderTyped
  <1> QED BY <1>3, <1>4, <1>5, <1>6, <1>7 DEF WeightInv

(* A step of one reader that touches neither disk nor store, and takes     *)
(* nothing out of hand.                                                    *)
LEMMA ReaderKeeps ==
  ASSUME WeightInv, NEW t \in Thread, NEW next, Goes(t, next), ReaderTyped(next),
         UNCHANGED <<bins, receipts, journal, store>>,
         LockFollows(t, next), StaysInHand(t, next)
  PROVE  WeightInv'
  <1>1. /\ reader' = [u \in Thread |-> IF u = t THEN next ELSE reader[u]]
        /\ DOMAIN reader' = Thread
    BY DEF Goes, WeightInv, ReadersFit
  <1>2. \A u \in Thread : reader'[u] = IF u = t THEN next ELSE reader[u]
    BY <1>1
  <1>3. \A r : ReaderTyped(r) => ReaderTyped(r)'
    BY DEF ReaderTyped, AtRest
  <1>4. DiskTyped' /\ StoreFits(store, bins)' /\ PayloadMatchesReceipt'
        /\ (Cardinality(BinsOf(bins, Tensor)) <= MaxAcquired)'
    BY DEF WeightInv, DiskTyped, StoreFits, PayloadMatchesReceipt
  <1>5. \A u \in Thread : ReaderTyped(reader[u])'
    BY <1>2, <1>3 DEF WeightInv, ReadersFit, ReaderTyped, AtRest
  <1>6. fetcher' \in SUBSET Thread /\ Cardinality(fetcher') <= 1 /\ IsFiniteSet(fetcher')
    <2>1. Cardinality({t}) = 1 /\ IsFiniteSet({t}) /\ Cardinality({}) = 0 /\ IsFiniteSet({})
      BY FS_Singleton, FS_EmptySet
    <2>2. fetcher \in SUBSET Thread /\ Cardinality(fetcher) <= 1 /\ IsFiniteSet(fetcher)
      BY DEF WeightInv, ReadersFit
    <2>3. fetcher' = fetcher \/ fetcher' = {t} \/ fetcher' = {}
      BY DEF LockFollows
    <2>4. {t} \in SUBSET Thread /\ {} \in SUBSET Thread
      OBVIOUS
    <2> QED BY ONLY <2>1, <2>2, <2>3, <2>4
  <1>7. \A u \in Thread : u \in fetcher' <=> reader'[u].at \in {"fetching", "receipt"}
    <2>1. Cardinality(fetcher) <= 1 /\ IsFiniteSet(fetcher)
          /\ \A u \in Thread : u \in fetcher <=> reader[u].at \in {"fetching", "receipt"}
      BY DEF WeightInv, ReadersFit
    <2>2. \A u \in fetcher : t \in fetcher => u = t
      BY <2>1, OneOf
    <2> QED BY <1>2, <2>1, <2>2 DEF LockFollows
  <1>8. InHand \subseteq InHand'
    <2> SUFFICES ASSUME NEW u \in Thread, reader[u].at \in Unwritten, bins[reader[u].tensor] # NotStored
                 PROVE  /\ reader'[u].at \in Unwritten /\ reader'[u].tensor = reader[u].tensor
                        /\ bins'[reader'[u].tensor] # NotStored
      BY DEF InHand
    <2> QED BY <1>2 DEF StaysInHand
  <1>9. OrderFits(store, UsesIn(journal), InHand)'
    <2>1. OrderFits(store, UsesIn(journal), InHand')
      BY <1>8, OrderFitsMore DEF WeightInv
    <2> QED BY <2>1 DEF OrderFits, UsesIn, UsedBefore
  <1>10. ReadersFit'
    BY <1>1, <1>5, <1>6, <1>7 DEF ReadersFit
  <1> QED BY <1>4, <1>9, <1>10 DEF WeightInv

LEMMA ReaderIs ==
  ASSUME NEW r, ReaderTyped(r)
  PROVE  /\ r.at \in {"idle", "missing", "fetching", "reread", "touching", "receipt"}
         /\ r.at = "idle" => r = AtRest
         /\ \A stage \in {"missing", "fetching", "reread", "touching"} : r.at = stage =>
              \E x \in Tensor : r = [at |-> stage, tensor |-> x] /\ (stage = "reread" => receipts[x] # NotStored)
         /\ r.at = "receipt" => \E x \in Tensor : \E c \in Content[x] :
              /\ r = [at |-> "receipt", tensor |-> x, content |-> c]
              /\ bins[x] = c /\ receipts[x] \in {NotStored, c}
  <1>1. CASE r = AtRest
    BY <1>1 DEF AtRest
  <1>2. CASE \E x \in Tensor, stage \in {"missing", "fetching", "reread", "touching"} :
               r = [at |-> stage, tensor |-> x] /\ (stage = "reread" => receipts[x] # NotStored)
    <2>1. PICK x \in Tensor, stage \in {"missing", "fetching", "reread", "touching"} :
               r = [at |-> stage, tensor |-> x] /\ (stage = "reread" => receipts[x] # NotStored)
      BY <1>2
    <2>2. r.at = stage
      BY <2>1
    <2> QED BY <2>1, <2>2
  <1>3. CASE \E x \in Tensor : \E c \in Content[x] :
               /\ r = [at |-> "receipt", tensor |-> x, content |-> c]
               /\ bins[x] = c /\ receipts[x] \in {NotStored, c}
    <2>1. r.at = "receipt"
      BY <1>3
    <2> QED BY <1>3, <2>1
  <1> QED BY <1>1, <1>2, <1>3 DEF ReaderTyped

LEMMA ReadsKeep ==
  ASSUME WeightInv, NEW t \in Thread,
         (\E x \in Tensor : ReadTensor(t, x)) \/ BeginFetch(t) \/ DownloadFails(t) \/ Reread(t)
  PROVE  WeightInv' /\ UNCHANGED <<bins, store, restarts>>
  <1>1. ReaderTyped(reader[t]) /\ (t \in fetcher <=> reader[t].at \in {"fetching", "receipt"})
    BY DEF WeightInv, ReadersFit
  <1>2. ReaderTyped(AtRest) /\ AtRest.at = "idle"
    BY DEF ReaderTyped, AtRest
  <1>3. \A x \in Tensor : \A stage \in {"missing", "fetching", "touching"} :
          /\ ReaderTyped([at |-> stage, tensor |-> x])
          /\ [at |-> stage, tensor |-> x].at = stage /\ [at |-> stage, tensor |-> x].tensor = x
    BY DEF ReaderTyped
  <1>4. ASSUME NEW x \in Tensor, ReadTensor(t, x)
        PROVE  WeightInv' /\ UNCHANGED <<bins, store, restarts>>
    <2> DEFINE next == CASE LocalRead(x) = "read" -> [at |-> "touching", tensor |-> x]
                         [] LocalRead(x) = "not local" -> [at |-> "missing", tensor |-> x]
                         [] OTHER -> AtRest
    <2>1. reader[t] = AtRest /\ Goes(t, next) /\ UNCHANGED <<bins, receipts, journal, store, fetcher, restarts>>
      BY <1>4 DEF ReadTensor
    <2>2. next \in {[at |-> "touching", tensor |-> x], [at |-> "missing", tensor |-> x], AtRest}
      BY DEF LocalRead
    <2> HIDE DEF next
    <2>3. ReaderTyped(next) /\ next.at \in {"touching", "missing", "idle"}
      <3>1. CASE next = AtRest
        BY <1>2, <3>1
      <3>2. CASE next = [at |-> "touching", tensor |-> x]
        BY <1>3, <3>2
      <3>3. CASE next = [at |-> "missing", tensor |-> x]
        BY <1>3, <3>3
      <3> QED BY <2>2, <3>1, <3>2, <3>3
    <2>4. t \notin fetcher /\ reader[t].at \notin Unwritten
      BY <1>1, <1>2, <2>1 DEF Unwritten
    <2>5. next.at \in {"fetching", "receipt"} <=> t \in fetcher
      BY <2>3, <2>4
    <2>6. WeightInv'
      BY <2>1, <2>3, <2>4, <2>5, ReaderKeeps DEF LockFollows, StaysInHand
    <2> QED BY <2>1, <2>6
  <1>5. ASSUME BeginFetch(t)
        PROVE  WeightInv' /\ UNCHANGED <<bins, store, restarts>>
    <2>1. /\ reader[t].at = "missing" /\ fetcher = {} /\ UNCHANGED <<bins, receipts, journal, store, restarts>>
          /\ \/ Goes(t, AtRest) /\ UNCHANGED fetcher
             \/ Goes(t, [reader[t] EXCEPT !.at = "fetching"]) /\ fetcher' = {t}
      BY <1>5 DEF BeginFetch
    <2>2. PICK x \in Tensor : reader[t] = [at |-> "missing", tensor |-> x]
      BY <1>1, <2>1, ReaderIs
    <2>3. [reader[t] EXCEPT !.at = "fetching"] = [at |-> "fetching", tensor |-> x]
      BY <2>2
    <2>4. reader[t].at \notin Unwritten /\ t \notin fetcher
      BY <2>1 DEF Unwritten
    <2>5. CASE Goes(t, AtRest) /\ UNCHANGED fetcher
      BY <1>2, <2>1, <2>4, <2>5, ReaderKeeps DEF LockFollows, StaysInHand
    <2>6. CASE Goes(t, [reader[t] EXCEPT !.at = "fetching"]) /\ fetcher' = {t}
      <3> DEFINE next == [at |-> "fetching", tensor |-> x]
      <3>1. Goes(t, next) /\ ReaderTyped(next) /\ next.at = "fetching"
        BY <1>3, <2>3, <2>6
      <3> HIDE DEF next
      <3>2. WeightInv'
        BY <2>1, <2>4, <2>6, <3>1, ReaderKeeps DEF LockFollows, StaysInHand
      <3> QED BY <2>1, <3>2
    <2> QED BY <2>1, <2>5, <2>6
  <1>6. ASSUME DownloadFails(t)
        PROVE  WeightInv' /\ UNCHANGED <<bins, store, restarts>>
    <2>1. /\ reader[t].at = "fetching" /\ Goes(t, AtRest) /\ fetcher' = {}
          /\ UNCHANGED <<bins, receipts, journal, store, restarts>>
      BY <1>6 DEF DownloadFails
    <2>2. t \in fetcher /\ reader[t].at \notin Unwritten
      BY <1>1, <2>1 DEF Unwritten
    <2>3. WeightInv'
      BY <1>2, <2>1, <2>2, ReaderKeeps DEF LockFollows, StaysInHand
    <2> QED BY <2>1, <2>3
  <1>7. ASSUME Reread(t)
        PROVE  WeightInv' /\ UNCHANGED <<bins, store, restarts>>
    <2> DEFINE next == IF LocalRead(reader[t].tensor) = "read" THEN [reader[t] EXCEPT !.at = "touching"] ELSE AtRest
    <2>1. reader[t].at = "reread" /\ Goes(t, next) /\ UNCHANGED <<bins, receipts, journal, store, fetcher, restarts>>
      BY <1>7 DEF Reread
    <2>2. PICK x \in Tensor : reader[t] = [at |-> "reread", tensor |-> x] /\ receipts[x] # NotStored
      BY <1>1, <2>1, ReaderIs
    <2>3. t \notin fetcher
      BY <1>1, <2>1
    <2>4. CASE LocalRead(x) = "read"
      <3> DEFINE now == [at |-> "touching", tensor |-> x]
      <3>1. Goes(t, now) /\ ReaderTyped(now) /\ now.at = "touching" /\ now.tensor = reader[t].tensor
        <4>1. [reader[t] EXCEPT !.at = "touching"] = now /\ reader[t].tensor = x
          BY <2>2
        <4>2. next = now
          BY <2>4, <4>1
        <4>3. ReaderTyped(now) /\ now.at = "touching" /\ now.tensor = x
          BY <1>3
        <4> HIDE DEF next, now
        <4> QED BY <2>1, <4>1, <4>2, <4>3
      <3> HIDE DEF now, next
      <3>2. WeightInv'
        BY <2>1, <2>3, <3>1, ReaderKeeps DEF Unwritten, LockFollows, StaysInHand
      <3> QED BY <2>1, <3>2
    <2>5. CASE LocalRead(x) # "read"
      <3>1. Goes(t, AtRest)
        BY <2>1, <2>2, <2>5
      <3>2. bins[x] = NotStored
        <4>1. NotStored \in {bins[x], receipts[x]} \/ bins[x] = receipts[x]
          BY DEF WeightInv, PayloadMatchesReceipt
        <4> QED BY <2>2, <2>5, <4>1 DEF LocalRead
      <3>3. bins[reader[t].tensor] = NotStored
        BY <2>2, <3>2
      <3>4. WeightInv'
        BY <1>2, <2>1, <2>3, <3>1, <3>3, ReaderKeeps DEF LockFollows, StaysInHand
      <3> QED BY <2>1, <3>4
    <2> QED BY <2>2, <2>4, <2>5
  <1> QED BY <1>4, <1>5, <1>6, <1>7

LEMMA TouchesKeep ==
  ASSUME WeightInv, (\E t \in Thread : TouchRead(t)) \/ \E e \in Experts : MemoryHit(e)
  PROVE  WeightInv' /\ UNCHANGED <<bins, restarts>>
  <1>1. /\ StoreFits(store, bins) /\ JournalTyped(journal) /\ OrderFits(store, UsesIn(journal), InHand)
        /\ DOMAIN reader = Thread /\ reader = [t \in Thread |-> reader[t]]
    BY DEF WeightInv, DiskTyped, ReadersFit
  <1>2. ASSUME NEW e, Touch(e), UNCHANGED <<bins, receipts, fetcher>>,
               DOMAIN reader' = Thread /\ reader' = [t \in Thread |-> reader'[t]],
               \A t \in Thread : reader'[t] = reader[t] \/ (reader'[t] = AtRest /\ reader[t].at = "touching"),
               InHand \ {e} \subseteq InHand'
        PROVE  WeightInv'
    <2>1. StoreFits(store', bins) /\ JournalTyped(journal') /\ OrderFits(store', UsesIn(journal'), InHand \ {e})
      BY <1>1, <1>2, TouchKeeps
    <2>2. OrderFits(store', UsesIn(journal'), InHand')
      BY <1>2, <2>1, OrderFitsMore
    <2>3. ReadersFit'
      <3>1. AtRest.at = "idle"
        BY DEF AtRest
      <3>2. \A t \in Thread : ReaderTyped(reader[t])'
        BY <1>2 DEF WeightInv, ReadersFit, ReaderTyped, AtRest
      <3>3. \A t \in Thread : t \in fetcher' <=> reader'[t].at \in {"fetching", "receipt"}
        BY <1>2, <3>1 DEF WeightInv, ReadersFit
      <3> QED BY <1>2, <3>2, <3>3 DEF WeightInv, ReadersFit
    <2>4. DiskTyped' /\ PayloadMatchesReceipt' /\ (Cardinality(BinsOf(bins, Tensor)) <= MaxAcquired)'
      BY <1>2, <2>1 DEF WeightInv, DiskTyped, PayloadMatchesReceipt
    <2>5. StoreFits(store, bins)' /\ OrderFits(store, UsesIn(journal), InHand)'
      BY <1>2, <2>1, <2>2
    <2> QED BY <2>3, <2>4, <2>5 DEF WeightInv
  <1>3. ASSUME NEW t \in Thread, TouchRead(t) PROVE WeightInv' /\ UNCHANGED <<bins, restarts>>
    <2> DEFINE e == ExpertOf[reader[t].tensor]
    <2>1. /\ reader[t].at = "touching" /\ Touch(e) /\ Goes(t, AtRest)
          /\ UNCHANGED <<bins, receipts, fetcher, restarts>>
      BY <1>3 DEF TouchRead
    <2>2. /\ reader' = [u \in Thread |-> IF u = t THEN AtRest ELSE reader[u]]
      BY <1>1, <2>1 DEF Goes
    <2>3. /\ DOMAIN reader' = Thread /\ reader' = [u \in Thread |-> reader'[u]]
          /\ \A u \in Thread : reader'[u] = IF u = t THEN AtRest ELSE reader[u]
      BY <2>2
    <2>4. InHand \ {e} \subseteq InHand'
      <3> SUFFICES ASSUME NEW u \in Thread, reader[u].at \in Unwritten, bins[reader[u].tensor] # NotStored,
                          ExpertOf[reader[u].tensor] # e
                   PROVE  /\ reader'[u].at \in Unwritten /\ reader'[u].tensor = reader[u].tensor
                          /\ bins'[reader'[u].tensor] # NotStored
        BY DEF InHand
      <3>1. u # t
        OBVIOUS
      <3> QED BY <2>1, <2>3, <3>1
    <2>5. \A u \in Thread : reader'[u] = reader[u] \/ (reader'[u] = AtRest /\ reader[u].at = "touching")
      BY <2>1, <2>3
    <2> HIDE DEF e
    <2>6. WeightInv'
      BY <1>2, <2>1, <2>3, <2>4, <2>5
    <2> QED BY <2>1, <2>6
  <1>4. ASSUME NEW e \in Experts, MemoryHit(e) PROVE WeightInv' /\ UNCHANGED <<bins, restarts>>
    <2>1. Touch(e) /\ UNCHANGED <<bins, receipts, fetcher, reader, restarts>>
      BY <1>4 DEF MemoryHit
    <2>2. InHand' = InHand
      BY <2>1 DEF InHand
    <2>3. /\ DOMAIN reader' = Thread /\ reader' = [t \in Thread |-> reader'[t]]
          /\ \A t \in Thread : reader'[t] = reader[t]
      BY <1>1, <2>1
    <2>4. WeightInv'
      BY <1>2, <2>1, <2>2, <2>3
    <2> QED BY <2>1, <2>4
  <1> QED BY <1>3, <1>4

LEMMA ReceiptKeeps ==
  ASSUME WeightInv, NEW t \in Thread, WriteReceipt(t)
  PROVE  WeightInv' /\ UNCHANGED <<bins, store, restarts>>
  <1>1. /\ \A u \in Thread : ReaderTyped(reader[u])
        /\ DOMAIN reader = Thread /\ reader = [u \in Thread |-> reader[u]]
        /\ \A u \in Thread : u \in fetcher <=> reader[u].at \in {"fetching", "receipt"}
        /\ fetcher \in SUBSET Thread /\ Cardinality(fetcher) <= 1 /\ IsFiniteSet(fetcher)
    BY DEF WeightInv, ReadersFit
  <1>2. /\ reader[t].at = "receipt"
        /\ receipts' = [receipts EXCEPT ![reader[t].tensor] = IF @ = NotStored THEN reader[t].content ELSE @]
        /\ fetcher' = {} /\ Goes(t, [at |-> "reread", tensor |-> reader[t].tensor])
        /\ UNCHANGED <<bins, journal, store, restarts>>
    BY DEF WriteReceipt
  <1>0. PICK x \in Tensor : \E c \in Content[x] :
          /\ reader[t] = [at |-> "receipt", tensor |-> x, content |-> c]
          /\ bins[x] = c /\ receipts[x] \in {NotStored, c}
    BY <1>1, <1>2, ReaderIs
  <1>3. PICK c \in Content[x] :
          /\ reader[t] = [at |-> "receipt", tensor |-> x, content |-> c]
          /\ bins[x] = c /\ receipts[x] \in {NotStored, c}
    BY <1>0
  <1>4. c # NotStored
    BY WeightAssumption
  <1>5. /\ receipts' = [y \in Tensor |-> IF y = x THEN c ELSE receipts[y]]
        /\ reader' = [u \in Thread |-> IF u = t THEN [at |-> "reread", tensor |-> x] ELSE reader[u]]
    <2>1. receipts = [y \in Tensor |-> receipts[y]] /\ reader[t].tensor = x /\ reader[t].content = c
      BY <1>3 DEF WeightInv, DiskTyped
    <2> QED BY <1>1, <1>2, <1>3, <2>1 DEF Goes
  <1> DEFINE next == [at |-> "reread", tensor |-> x]
  <1>6. next.at = "reread" /\ next.tensor = x
    OBVIOUS
  <1> HIDE DEF next
  <1>7. /\ \A y \in Tensor : receipts'[y] = IF y = x THEN c ELSE receipts[y]
        /\ \A u \in Thread : reader'[u] = IF u = t THEN next ELSE reader[u]
        /\ DOMAIN reader' = Thread /\ reader' = [u \in Thread |-> reader'[u]]
        /\ receipts' = [y \in Tensor |-> receipts'[y]]
    BY <1>5 DEF next
  <1>8. \A u \in fetcher : u = t
    <2>1. t \in fetcher
      BY <1>1, <1>2
    <2> QED BY <1>1, <2>1, OneOf
  <1>9. \A u \in Thread : u # t => reader[u].at \notin {"fetching", "receipt"}
    BY <1>1, <1>8
  <1>10. ReadersFit'
    <2>1. ASSUME NEW u \in Thread PROVE ReaderTyped(reader[u])'
      <3>1. CASE u = t
        <4>1. reader'[u] = [at |-> "reread", tensor |-> x] /\ receipts'[x] # NotStored
          BY <1>4, <1>7, <3>1 DEF next
        <4> QED BY <4>1 DEF ReaderTyped
      <3>2. CASE u # t
        <4>1. reader'[u] = reader[u] /\ reader[u].at # "receipt" /\ ReaderTyped(reader[u])
          BY <1>1, <1>7, <1>9, <3>2
        <4>2. CASE reader[u] = AtRest
          BY <4>1, <4>2 DEF ReaderTyped, AtRest
        <4>3. CASE reader[u] # AtRest
          <5>1. PICK y \in Tensor, stage \in {"missing", "fetching", "reread", "touching"} :
                  reader[u] = [at |-> stage, tensor |-> y] /\ (stage = "reread" => receipts[y] # NotStored)
            BY <4>1, <4>3, ReaderIs
          <5>2. stage = "reread" => receipts'[y] # NotStored
            BY <1>4, <1>7, <5>1
          <5> QED BY <4>1, <5>1, <5>2 DEF ReaderTyped
        <4> QED BY <4>2, <4>3
      <3> QED BY <3>1, <3>2
    <2>2. \A u \in Thread : u \in fetcher' <=> reader'[u].at \in {"fetching", "receipt"}
      BY <1>2, <1>6, <1>7, <1>9
    <2>3. fetcher' \in SUBSET Thread /\ Cardinality(fetcher') <= 1 /\ IsFiniteSet(fetcher')
      BY <1>2, FS_EmptySet
    <2> QED BY <1>7, <2>1, <2>2, <2>3 DEF ReadersFit
  <1>11. InHand \subseteq InHand'
    <2> SUFFICES ASSUME NEW u \in Thread, reader[u].at \in Unwritten, bins[reader[u].tensor] # NotStored
                 PROVE  /\ reader'[u].at \in Unwritten /\ reader'[u].tensor = reader[u].tensor
                        /\ bins'[reader'[u].tensor] # NotStored
      BY DEF InHand
    <2>1. reader[t].tensor = x
      BY <1>3
    <2> QED BY <1>2, <1>6, <1>7, <2>1 DEF Unwritten
  <1>12. OrderFits(store, UsesIn(journal), InHand)'
    <2>1. OrderFits(store, UsesIn(journal), InHand')
      BY <1>11, OrderFitsMore DEF WeightInv
    <2> QED BY <1>2, <2>1
  <1>13. DiskTyped' /\ PayloadMatchesReceipt'
    <2>1. PayloadMatchesReceipt'
      BY <1>2, <1>3, <1>7 DEF WeightInv, PayloadMatchesReceipt
    <2> QED BY <1>2, <1>7, <2>1 DEF WeightInv, DiskTyped
  <1>14. StoreFits(store, bins)' /\ (Cardinality(BinsOf(bins, Tensor)) <= MaxAcquired)'
    BY <1>2 DEF WeightInv
  <1> QED BY <1>2, <1>10, <1>12, <1>13, <1>14 DEF WeightInv

(* The victims are stored, unpinned, not the expert that is fetched, and   *)
(* make room for one more payload.                                         *)
LEMMA VictimsIs ==
  ASSUME StoreFits(store, bins), NEW squeeze \in Squeeze, NEW keep, NEW n,
         n = Victims(1, squeeze, keep), n # NoRoom, NEW es, es = {Evictable(keep)[i] : i \in 1 .. n}
  PROVE  /\ es \in SUBSET StoredOn(bins) /\ es \cap Pinned = {} /\ keep \notin es
         /\ store.acquired - SumFunctionOnSet(store.bytes, es) + 1 <= MaxAcquired
  <1> DEFINE candidates == Evictable(keep)
             frees(k) == SumFunctionOnSet(store.bytes, {candidates[i] : i \in 1 .. k})
             short == Shortfall(1, squeeze)
             enough == {k \in 0 .. Len(candidates) : frees(k) >= short}
  <1>1. candidates \in Seq(Experts) /\ Range(candidates) = StoredOn(bins) \cap (Experts \ (Pinned \cup {keep}))
    <2> DEFINE age == store.age
               S == Experts \ (Pinned \cup {keep})
    <2>1. age \in Seq(Experts) /\ Range(age) = StoredOn(bins)
      BY DEF StoreFits
    <2> HIDE DEF age, S
    <2>2. Keep(age, S) \in Seq(Experts) /\ Range(Keep(age, S)) = Range(age) \cap S
      BY <2>1, KeepProperties
    <2> QED BY <2>1, <2>2 DEF age, S, Evictable
  <1>2. n = IF enough = {} THEN NoRoom ELSE Min(enough)
    BY DEF Victims
  <1> HIDE DEF candidates
  <1>3. Len(candidates) \in Nat /\ DOMAIN candidates = 1 .. Len(candidates)
    BY <1>1, LenProperties
  <1>4. n \in 0 .. Len(candidates) /\ frees(n) >= short
    <2>1. enough # {} /\ n = Min(enough)
      BY <1>2
    <2>2. \A k \in enough : k \in Int /\ 0 <= k
      BY <1>3
    <2> HIDE DEF frees, short
    <2>3. \A k \in enough : k \in 0 .. Len(candidates) /\ frees(k) >= short
      OBVIOUS
    <2> HIDE DEF enough
    <2>4. Min(enough) \in enough
      <3>1. 0 \in Int
        OBVIOUS
      <3> QED BY ONLY <2>1, <2>2, <3>1, MinIs
    <2> QED BY <2>1, <2>3, <2>4
  <1>5. es \subseteq Range(candidates)
    <2>1. \A i \in 1 .. n : i \in DOMAIN candidates
      BY <1>3, <1>4
    <2>2. es = {candidates[i] : i \in 1 .. n}
      BY DEF candidates
    <2> QED BY <2>1, <2>2 DEF Range
  <1>6. es \in SUBSET StoredOn(bins) /\ es \cap Pinned = {} /\ keep \notin es
    BY <1>1, <1>5
  <1>7. short >= store.acquired + 1 - MaxAcquired /\ short \in Int
    <2> DEFINE over == store.acquired + 1 - MaxAcquired
               S == {0, over, squeeze}
    <2>1. over \in Int /\ squeeze \in Int /\ store.acquired \in Nat /\ MaxAcquired \in Nat
      BY ExpertsAre, WeightAssumption DEF StoreFits
    <2> DEFINE top == IF over > squeeze THEN IF over > 0 THEN over ELSE 0 ELSE IF squeeze > 0 THEN squeeze ELSE 0
               low == IF over < squeeze THEN IF over < 0 THEN over ELSE 0 ELSE IF squeeze < 0 THEN squeeze ELSE 0
    <2>2. short = Max(S)
      BY DEF Shortfall
    <2> HIDE DEF over
    <2>3. S \in SUBSET (low .. top) /\ low \in Int /\ top \in Int /\ S # {} /\ over \in S /\ S \subseteq Int
      BY <2>1
    <2> HIDE DEF S, short, low, top
    <2>4. Max(S) \in S /\ \A y \in S : y <= Max(S)
      BY ONLY <2>3, MaxIs
    <2> QED BY <2>1, <2>2, <2>3, <2>4 DEF over
  <1>8. SumFunctionOnSet(store.bytes, es) >= short /\ SumFunctionOnSet(store.bytes, es) \in Nat
    <2>1. frees(n) = SumFunctionOnSet(store.bytes, es)
      BY DEF candidates
    <2>2. IsFiniteSet(es) /\ \A e \in es : store.bytes[e] \in Nat
      <3>1. es \in SUBSET Experts
        BY <1>6 DEF StoredOn
      <3>2. \A e \in es : store.bytes[e] = HeldOn(bins, e)
        BY <1>6 DEF StoreFits
      <3> QED BY <3>1, <3>2, ExpertsAre, FS_Subset DEF HeldOn
    <2>3. SumFunctionOnSet(store.bytes, es) \in Nat
      BY <2>2, SumNat
    <2> QED BY <1>4, <2>1, <2>3
  <1>9. store.acquired \in Nat /\ MaxAcquired \in Nat
    BY ExpertsAre, WeightAssumption DEF StoreFits
  <1> HIDE DEF short
  <1>10. store.acquired - SumFunctionOnSet(store.bytes, es) + 1 <= MaxAcquired
    BY <1>7, <1>8, <1>9
  <1> QED BY <1>6, <1>10

LEMMA StoreKeeps ==
  ASSUME WeightInv, NEW t \in Thread, StorePayload(t)
  PROVE  WeightInv' /\ PinnedStay /\ UNCHANGED restarts
  <1>1. /\ \A u \in Thread : ReaderTyped(reader[u])
        /\ DOMAIN reader = Thread /\ reader = [u \in Thread |-> reader[u]]
        /\ \A u \in Thread : u \in fetcher <=> reader[u].at \in {"fetching", "receipt"}
        /\ fetcher \in SUBSET Thread /\ Cardinality(fetcher) <= 1 /\ IsFiniteSet(fetcher)
    BY DEF WeightInv, ReadersFit
  <1>2. reader[t].at = "fetching" /\ UNCHANGED <<receipts, journal, fetcher, restarts>>
    BY DEF StorePayload
  <1>3. PICK x \in Tensor : reader[t] = [at |-> "fetching", tensor |-> x]
    BY <1>1, <1>2, ReaderIs
  <1> DEFINE n(room) == Victims(1, room, ExpertOf[x])
             removed(room) == {Evictable(ExpertOf[x])[i] : i \in 1 .. n(room)}
             unlinked(room) == UNION {PartsOf(e) : e \in removed(room)}
  <1>4a. PICK served \in Content[x], squeeze \in Squeeze :
          /\ n(squeeze) # NoRoom
          /\ Reproduced(x, served)
          /\ bins' = [WithoutBins(bins, unlinked(squeeze)) EXCEPT ![x] = served]
          /\ store' = Counted(Evicted(store, removed(squeeze)), x, IF bins[x] = NotStored THEN 0 ELSE 1)
          /\ Goes(t, [at |-> "receipt", tensor |-> x, content |-> served])
    <2> DEFINE z == reader[t].tensor
               m(room) == Victims(1, room, ExpertOf[z])
               taken(room) == {Evictable(ExpertOf[z])[i] : i \in 1 .. m(room)}
               cleared(room) == UNION {PartsOf(e) : e \in taken(room)}
    <2>1. z = x
      BY <1>3
    <2>2. \E served \in Content[z], squeeze \in Squeeze :
            /\ m(squeeze) # NoRoom
            /\ Reproduced(z, served)
            /\ bins' = [WithoutBins(bins, cleared(squeeze)) EXCEPT ![z] = served]
            /\ store' = Counted(Evicted(store, taken(squeeze)), z, IF bins[z] = NotStored THEN 0 ELSE 1)
            /\ Goes(t, [at |-> "receipt", tensor |-> z, content |-> served])
      BY DEF StorePayload
    <2> HIDE DEF z
    <2>3. \A room : m(room) = n(room) /\ taken(room) = removed(room) /\ cleared(room) = unlinked(room)
      BY <2>1
    <2> HIDE DEF m, taken, cleared, n, removed, unlinked
    <2> QED BY <2>1, <2>2, <2>3
  <1> DEFINE es == removed(squeeze)
             gone == unlinked(squeeze)
             replaced == IF bins[x] = NotStored THEN 0 ELSE 1
  <1>4. /\ n(squeeze) = Victims(1, squeeze, ExpertOf[x]) /\ n(squeeze) # NoRoom
        /\ es = {Evictable(ExpertOf[x])[i] : i \in 1 .. n(squeeze)}
        /\ gone = UNION {PartsOf(e) : e \in es}
        /\ replaced = IF bins[x] = NotStored THEN 0 ELSE 1
        /\ Reproduced(x, served)
        /\ bins' = [WithoutBins(bins, gone) EXCEPT ![x] = served]
        /\ store' = Counted(Evicted(store, es), x, replaced)
        /\ Goes(t, [at |-> "receipt", tensor |-> x, content |-> served])
    BY <1>4a
  <1> HIDE DEF n, removed, unlinked, es, gone, replaced
  <1>5. served # NotStored /\ receipts[x] \in {NotStored, served}
    BY <1>4, WeightAssumption DEF Reproduced
  <1>6. StoreFits(store, bins) /\ OrderFits(store, UsesIn(journal), InHand)
    BY DEF WeightInv
  <1>7. /\ es \in SUBSET StoredOn(bins) /\ es \cap Pinned = {} /\ ExpertOf[x] \notin es
        /\ store.acquired - SumFunctionOnSet(store.bytes, es) + 1 <= MaxAcquired
    BY <1>4, <1>6, VictimsIs
  <1> DEFINE disk == WithoutBins(bins, gone)
             s == Evicted(store, es)
             next == [at |-> "receipt", tensor |-> x, content |-> served]
  <1>8. /\ StoreFits(s, disk) /\ OrderFits(s, UsesIn(journal), InHand)
        /\ StoredOn(disk) = StoredOn(bins) \ es
        /\ s.acquired = store.acquired - SumFunctionOnSet(store.bytes, es)
    BY <1>4, <1>6, <1>7, EvictFits, EvictKeepsOrder
  <1>9. x \notin gone /\ es \in SUBSET Experts /\ \A y \in Tensor : y \in gone <=> ExpertOf[y] \in es
    BY <1>4, <1>7 DEF PartsOf, StoredOn
  <1>10. /\ disk = [y \in Tensor |-> disk[y]] /\ DOMAIN disk = Tensor
         /\ \A y \in Tensor : disk[y] = IF y \in gone THEN NotStored ELSE bins[y]
    BY DEF WithoutBins
  <1>11. replaced = (IF disk[x] = NotStored THEN 0 ELSE 1) /\ replaced \in {0, 1}
    BY <1>4, <1>9, <1>10
  <1>12. /\ bins' = [disk EXCEPT ![x] = served] /\ store' = Counted(s, x, replaced)
    BY <1>4
  <1>13. \A y \in Tensor : bins'[y] = IF y = x THEN served ELSE IF y \in gone THEN NotStored ELSE bins[y]
    BY <1>10, <1>12
  <1>14. bins' = [y \in Tensor |-> bins'[y]]
    BY <1>10, <1>12
  <1> HIDE DEF disk, s
  <1>15. /\ StoreFits(store', bins') /\ store'.acquired = s.acquired - replaced + 1
         /\ StoredOn(bins') = StoredOn(disk) \cup ({ExpertOf[x]} \ {NoExpert})
         /\ OrderFits(store', UsesIn(journal), InHand \cup {ExpertOf[x]})
    <2> DEFINE after == bins'
    <2>1. after = [disk EXCEPT ![x] = served]
      BY <1>12
    <2> HIDE DEF after
    <2>2. /\ StoreFits(Counted(s, x, replaced), after)
          /\ StoredOn(after) = StoredOn(disk) \cup ({ExpertOf[x]} \ {NoExpert})
          /\ Counted(s, x, replaced).acquired = s.acquired - replaced + 1
      BY <1>5, <1>8, <1>10, <1>11, <2>1, CountFits
    <2>3. OrderFits(Counted(s, x, replaced), UsesIn(journal), InHand \cup {ExpertOf[x]})
      BY <1>5, <1>8, <1>10, <1>11, <2>1, CountKeepsOrder
    <2> QED BY <1>12, <2>2, <2>3 DEF after
  <1>16. Cardinality(BinsOf(bins', Tensor)) <= MaxAcquired
    <2>1. store'.acquired = Cardinality(BinsOf(bins', Tensor))
      BY <1>15 DEF StoreFits
    <2>2. store'.acquired = store.acquired - SumFunctionOnSet(store.bytes, es) - replaced + 1
      BY <1>8, <1>15
    <2>3. /\ store.acquired \in Int /\ MaxAcquired \in Int
          /\ store'.acquired \in Int /\ store.acquired - SumFunctionOnSet(store.bytes, es) \in Int
      <3>1. store.acquired = Cardinality(BinsOf(bins, Tensor)) /\ s.acquired = Cardinality(BinsOf(disk, Tensor))
        BY <1>6, <1>8 DEF StoreFits
      <3>2. /\ Cardinality(BinsOf(bins, Tensor)) \in Nat /\ Cardinality(BinsOf(disk, Tensor)) \in Nat
            /\ Cardinality(BinsOf(bins', Tensor)) \in Nat
        BY ExpertsAre
      <3> QED BY <1>8, <2>1, <3>1, <3>2, WeightAssumption
    <2> DEFINE room == store.acquired - SumFunctionOnSet(store.bytes, es)
    <2>4. room \in Int /\ room + 1 <= MaxAcquired /\ store'.acquired = room - replaced + 1
      BY <1>7, <2>2, <2>3
    <2> HIDE DEF room
    <2>5. store'.acquired <= MaxAcquired
      BY <1>11, <2>3, <2>4
    <2> QED BY <2>1, <2>5
  <1>17. next.at = "receipt" /\ next.tensor = x
    OBVIOUS
  <1>18. /\ \A u \in Thread : reader'[u] = IF u = t THEN next ELSE reader[u]
         /\ DOMAIN reader' = Thread /\ reader' = [u \in Thread |-> reader'[u]]
    BY <1>1, <1>4 DEF Goes
  <1>19. \A u \in Thread : u # t => reader[u].at \notin {"fetching", "receipt"}
    <2>1. t \in fetcher
      BY <1>1, <1>2
    <2> QED BY <1>1, <2>1, OneOf
  <1>20. ReadersFit'
    <2>1. ASSUME NEW u \in Thread PROVE ReaderTyped(reader[u])'
      <3>1. CASE u = t
        <4>1. reader'[u] = next /\ bins'[x] = served /\ receipts'[x] \in {NotStored, served}
          BY <1>2, <1>5, <1>13, <1>18, <3>1
        <4> QED BY <1>4, <4>1 DEF ReaderTyped
      <3>2. CASE u # t
        <4>1. reader'[u] = reader[u] /\ reader[u].at # "receipt" /\ ReaderTyped(reader[u])
          BY <1>1, <1>18, <1>19, <3>2
        <4>2. CASE reader[u] = AtRest
          BY <4>1, <4>2 DEF ReaderTyped, AtRest
        <4>3. CASE reader[u] # AtRest
          <5>1. PICK y \in Tensor, stage \in {"missing", "fetching", "reread", "touching"} :
                  reader[u] = [at |-> stage, tensor |-> y] /\ (stage = "reread" => receipts[y] # NotStored)
            BY <4>1, <4>3, ReaderIs
          <5>2. stage = "reread" => receipts'[y] # NotStored
            BY <1>2, <5>1
          <5> QED BY <4>1, <5>1, <5>2 DEF ReaderTyped
        <4> QED BY <4>2, <4>3
      <3> QED BY <3>1, <3>2
    <2>2. \A u \in Thread : u \in fetcher' <=> reader'[u].at \in {"fetching", "receipt"}
      <3> HIDE DEF next
      <3> QED BY <1>1, <1>2, <1>17, <1>18
    <2> QED BY <1>1, <1>2, <1>18, <2>1, <2>2 DEF ReadersFit
  <1>21. OrderFits(store, UsesIn(journal), InHand)'
    <2>1. DOMAIN store'.bytes = StoredOn(bins')
      BY <1>15 DEF StoreFits
    <2>2. StoredOn(bins') \ InHand' \subseteq StoredOn(bins') \ (InHand \cup {ExpertOf[x]})
      <3>1. ExpertOf[x] \in InHand'
        <4>1. reader'[t].at \in Unwritten /\ bins'[reader'[t].tensor] # NotStored /\ reader'[t].tensor = x
          BY <1>5, <1>13, <1>17, <1>18 DEF Unwritten
        <4> QED BY <4>1 DEF InHand
      <3>2. ASSUME NEW e \in StoredOn(bins'), e \in InHand PROVE e \in InHand'
        <4>1. CASE e = ExpertOf[x]
          BY <3>1, <4>1
        <4>2. CASE e # ExpertOf[x]
          <5>1. PICK u \in Thread : /\ reader[u].at \in Unwritten /\ bins[reader[u].tensor] # NotStored
                                    /\ ExpertOf[reader[u].tensor] = e
            BY <3>2 DEF InHand
          <5>2. e \notin es
            BY <1>8, <1>15, <3>2, <4>2
          <5>3. u # t
            BY <1>2, <5>1 DEF Unwritten
          <5>4. reader[u].tensor \in Tensor
            <6>1. reader[u].at # "idle" /\ ReaderTyped(reader[u])
              BY <1>1, <5>1 DEF Unwritten
            <6>2. reader[u].at \in {"missing", "fetching", "reread", "touching"} \/ reader[u].at = "receipt"
              BY <6>1, ReaderIs
            <6>3. CASE reader[u].at \in {"missing", "fetching", "reread", "touching"}
              <7>1. PICK y \in Tensor : reader[u] = [at |-> reader[u].at, tensor |-> y]
                BY <6>1, <6>3, ReaderIs
              <7> QED BY <7>1
            <6>4. CASE reader[u].at = "receipt"
              <7>1. PICK y \in Tensor : \E c \in Content[y] : reader[u] = [at |-> "receipt", tensor |-> y, content |-> c]
                BY <6>1, <6>4, ReaderIs
              <7> QED BY <7>1
            <6> QED BY <6>2, <6>3, <6>4
          <5>5. bins'[reader[u].tensor] # NotStored
            BY <1>5, <1>9, <1>13, <5>1, <5>2, <5>4
          <5>6. reader'[u] = reader[u]
            BY <1>18, <5>3
          <5> QED BY <5>1, <5>5, <5>6 DEF InHand
        <4> QED BY <4>1, <4>2
      <3> QED BY <3>1, <3>2
    <2>3. OrderFits(store', UsesIn(journal), InHand')
      BY <1>15, <2>1, <2>2, OrderFitsMore
    <2> QED BY <1>2, <2>3
  <1>22. DiskTyped' /\ PayloadMatchesReceipt'
    <2>1. PayloadMatchesReceipt'
      BY <1>2, <1>5, <1>13 DEF WeightInv, PayloadMatchesReceipt
    <2>2. \A y \in Tensor : bins'[y] \in Content[y] \cup {NotStored}
      BY <1>13 DEF WeightInv, DiskTyped
    <2> QED BY <1>2, <1>14, <2>1, <2>2 DEF WeightInv, DiskTyped
  <1>23. PinnedStay
    <2> SUFFICES ASSUME NEW e \in Pinned \cap Experts, NEW y \in BinsOf(bins, PartsOf(e))
                 PROVE  y \in BinsOf(bins', PartsOf(e))
      BY DEF PinnedStay
    <2>1. y \in Tensor /\ ExpertOf[y] = e /\ bins[y] # NotStored /\ y \in PartsOf(e)
      BY DEF BinsOf, PartsOf
    <2>2. y \notin gone
      BY <1>7, <1>9, <2>1
    <2> QED BY <1>5, <1>13, <2>1, <2>2 DEF BinsOf
  <1>24. StoreFits(store, bins)' /\ (Cardinality(BinsOf(bins, Tensor)) <= MaxAcquired)'
    BY <1>15, <1>16
  <1> QED BY <1>2, <1>20, <1>21, <1>22, <1>23, <1>24 DEF WeightInv

(* The store that is opened again holds what the disk still holds, in the  *)
(* order the journal gives, which is the order it had.                     *)
LEMMA RestartKeeps ==
  ASSUME WeightInv, Restart
  PROVE  WeightInv' /\ PinnedStay /\ RestartKeepsRecency
  <1>1. PICK lost \in {{}} \cup {s \in SUBSET UNION {PartsOf(e) : e \in Experts \ Pinned} :
                                   \E t \in Thread : reader[t].at = "fetching"} :
          /\ bins' = WithoutBins(bins, lost)
          /\ store' = Opened(WithoutBins(bins, lost))
          /\ journal' = IF journal = NoJournal THEN NoJournal ELSE Opened(WithoutBins(bins, lost)).age
    BY DEF Restart
  <1>2. lost \subseteq UNION {PartsOf(e) : e \in Experts \ Pinned}
    BY <1>1
  <1>3. /\ fetcher' = {} /\ reader' = [t \in Thread |-> AtRest] /\ UNCHANGED receipts
    BY DEF Restart
  <1> DEFINE disk == WithoutBins(bins, lost)
  <1>4. /\ bins' = disk /\ disk = [x \in Tensor |-> disk[x]]
        /\ \A x \in Tensor : disk[x] = IF x \in lost THEN NotStored ELSE bins[x]
    BY <1>1 DEF WithoutBins
  <1>5. JournalTyped(journal) /\ StoreFits(store, bins) /\ OrderFits(store, UsesIn(journal), InHand)
    BY DEF WeightInv, DiskTyped
  <1> HIDE DEF disk
  <1>6. /\ store' = Opened(disk)
        /\ journal' = IF journal = NoJournal THEN NoJournal ELSE Opened(disk).age
    BY <1>1 DEF disk
  <1>7. /\ StoreFits(store', disk) /\ JournalTyped(journal')
        /\ OrderFits(store', UsesIn(journal), {}) /\ OrderFits(store', UsesIn(journal'), {})
    BY <1>5, <1>6, OpenedIs
  <1>8. StoreFits(store, bins)' /\ JournalTyped(journal)' /\ OrderFits(store, UsesIn(journal), InHand)'
    <2>1. OrderFits(store', UsesIn(journal'), InHand')
      BY <1>7, OrderFitsMore
    <2> QED BY <1>4, <1>7, <2>1
  <1>9. (Cardinality(BinsOf(bins, Tensor)) <= MaxAcquired)'
    <2>1. BinsOf(disk, Tensor) \subseteq BinsOf(bins, Tensor)
      BY <1>4 DEF BinsOf
    <2>2. IsFiniteSet(BinsOf(bins, Tensor)) /\ Cardinality(BinsOf(bins, Tensor)) <= MaxAcquired
      BY ExpertsAre DEF WeightInv
    <2>3. Cardinality(BinsOf(disk, Tensor)) <= Cardinality(BinsOf(bins, Tensor))
      BY <2>1, <2>2, FS_Subset
    <2>4. /\ Cardinality(BinsOf(disk, Tensor)) \in Nat /\ Cardinality(BinsOf(bins, Tensor)) \in Nat
          /\ MaxAcquired \in Nat
      BY ExpertsAre, WeightAssumption
    <2>5. Cardinality(BinsOf(disk, Tensor)) <= MaxAcquired
      BY <2>2, <2>3, <2>4
    <2> QED BY <1>4, <2>5
  <1>10. DiskTyped' /\ PayloadMatchesReceipt'
    <2>1. PayloadMatchesReceipt'
      BY <1>3, <1>4 DEF WeightInv, PayloadMatchesReceipt
    <2>2. \A x \in Tensor : bins'[x] \in Content[x] \cup {NotStored}
      BY <1>4 DEF WeightInv, DiskTyped
    <2>3. bins' = [x \in Tensor |-> bins'[x]]
      BY <1>4
    <2> QED BY <1>3, <1>8, <2>1, <2>2, <2>3 DEF WeightInv, DiskTyped
  <1>11. ReadersFit'
    <2>1. \A t \in Thread : reader'[t] = AtRest /\ reader'[t].at \notin {"fetching", "receipt"}
      BY <1>3 DEF AtRest
    <2>2. fetcher' = {} /\ Cardinality({}) = 0 /\ IsFiniteSet({})
      BY <1>3, FS_EmptySet
    <2>3. DOMAIN reader' = Thread /\ reader' = [t \in Thread |-> reader'[t]]
      BY <1>3
    <2>4. \A t \in Thread : ReaderTyped(reader[t])'
      BY <2>1 DEF ReaderTyped, AtRest
    <2> QED BY <2>1, <2>2, <2>3, <2>4 DEF ReadersFit
  <1>12. PinnedStay
    <2> SUFFICES ASSUME NEW e \in Pinned \cap Experts, NEW y \in BinsOf(bins, PartsOf(e))
                 PROVE  y \in BinsOf(bins', PartsOf(e))
      BY DEF PinnedStay
    <2>1. y \in Tensor /\ ExpertOf[y] = e /\ bins[y] # NotStored /\ y \in PartsOf(e)
      BY DEF BinsOf, PartsOf
    <2>2. y \notin lost
      BY <1>2, <2>1 DEF PartsOf
    <2> QED BY <1>4, <2>1, <2>2 DEF BinsOf
  <1>13. RestartKeepsRecency
    <2> DEFINE settled == DOMAIN store'.bytes \ InFlight
               age == store.age
               later == store'.age
    <2>1. /\ DOMAIN store.bytes = StoredOn(bins) /\ DOMAIN store'.bytes = StoredOn(disk)
          /\ age \in Seq(Experts) /\ Once(age) /\ Range(age) = StoredOn(bins)
          /\ later \in Seq(Experts) /\ Once(later) /\ Range(later) = StoredOn(disk)
      BY <1>5, <1>7 DEF StoreFits
    <2>2. StoredOn(disk) \subseteq StoredOn(bins)
      BY <1>4 DEF StoredOn, BinsOf, PartsOf
    <2>3. InHand \subseteq InFlight
      BY DEF InHand, InFlight, Unwritten
    <2>4. settled \subseteq Experts /\ settled \subseteq StoredOn(disk) /\ settled \subseteq StoredOn(bins) \ InHand
      BY <2>1, <2>2, <2>3 DEF StoredOn
    <2>5. UsesIn(journal) \in Seq(Experts)
      BY <1>5, UsesInIs
    <2> DEFINE j == UsesIn(journal)
    <2> HIDE DEF j, settled, age, later
    <2>6. /\ \A a, b \in settled : a # b /\ UsedBefore(j, a, b) => Before(age, a, b)
          /\ \A a, b \in settled : a # b /\ UsedBefore(j, a, b) => Before(later, a, b)
      BY <1>5, <1>7, <2>1, <2>4 DEF OrderFits, j, age, later
    <2>7. \A a, b \in settled : a # b => \/ Before(later, a, b) /\ Before(age, a, b)
                                         \/ Before(later, b, a) /\ Before(age, b, a)
      <3> SUFFICES ASSUME NEW a \in settled, NEW b \in settled, a # b
                   PROVE  \/ Before(later, a, b) /\ Before(age, a, b)
                          \/ Before(later, b, a) /\ Before(age, b, a)
        OBVIOUS
      <3>1. UsedBefore(j, a, b) \/ UsedBefore(j, b, a)
        BY <2>4, <2>5, OneUsedBefore DEF j
      <3> QED BY <2>6, <3>1
    <2>8. Keep(later, settled) = Keep(age, settled)
      BY <2>1, <2>2, <2>4, <2>7, KeepAlike
    <2> QED BY <2>8 DEF RestartKeepsRecency, settled, age, later
  <1> QED BY <1>8, <1>9, <1>10, <1>11, <1>12, <1>13 DEF WeightInv

LEMMA WeightStep ==
  ASSUME WeightInv, [WeightNext]_weightVars
  PROVE  WeightInv' /\ PinnedStay /\ RestartKeepsRecency
  <1>1. UNCHANGED bins => PinnedStay
    BY DEF PinnedStay, BinsOf
  <1>2. UNCHANGED restarts => RestartKeepsRecency
    BY DEF RestartKeepsRecency
  <1>3. CASE \E t \in Thread : \/ \E x \in Tensor : ReadTensor(t, x)
                               \/ BeginFetch(t)
                               \/ DownloadFails(t)
                               \/ Reread(t)
    BY <1>1, <1>2, <1>3, ReadsKeep
  <1>4. CASE \E t \in Thread : StorePayload(t)
    BY <1>2, <1>4, StoreKeeps
  <1>5. CASE \E t \in Thread : WriteReceipt(t)
    BY <1>1, <1>2, <1>5, ReceiptKeeps
  <1>6. CASE (\E t \in Thread : TouchRead(t)) \/ \E e \in Experts : MemoryHit(e)
    BY <1>1, <1>2, <1>6, TouchesKeep
  <1>7. CASE Restart
    BY <1>7, RestartKeeps
  <1>8. CASE UNCHANGED weightVars
    <2>1. UNCHANGED <<bins, receipts, journal, store, fetcher, reader, restarts>>
      BY <1>8 DEF weightVars
    <2>2. DiskTyped' /\ PayloadMatchesReceipt'
      BY <2>1 DEF WeightInv, DiskTyped, JournalTyped, PayloadMatchesReceipt
    <2>3. ReadersFit'
      BY <2>1 DEF WeightInv, ReadersFit, ReaderTyped, AtRest
    <2>4. StoreFits(store, bins)' /\ (Cardinality(BinsOf(bins, Tensor)) <= MaxAcquired)'
      BY <2>1 DEF WeightInv
    <2>5. InHand' = InHand
      BY <2>1 DEF InHand
    <2>6. OrderFits(store, UsesIn(journal), InHand)'
      BY <2>1, <2>5 DEF WeightInv
    <2>7. WeightInv'
      BY <2>2, <2>3, <2>4, <2>6 DEF WeightInv
    <2> QED BY <1>1, <1>2, <2>1, <2>7
  <1> QED BY <1>3, <1>4, <1>5, <1>6, <1>7, <1>8 DEF WeightNext

LEMMA WeightAlways == WeightSpec => []WeightInv
  <1>1. WeightInit => WeightInv
    BY WeightStarts
  <1>2. WeightInv /\ [WeightNext]_weightVars => WeightInv'
    BY WeightStep
  <1> QED BY <1>1, <1>2, PTL DEF WeightSpec

(* Reads of tensors by several threads, each fetching on a miss under the  *)
(* lock of FetchingSource, and restarts of the process, never take the     *)
(* directory beyond its envelope; what the store counts is what is on      *)
(* disk, and every payload with a receipt is the one receipted.            *)
THEOREM StoreWithinEnvelope == WeightSpec => []WithinEnvelope
  <1>1. WeightInv => WithinEnvelope
    BY WithinEnvelopeFollows
  <1> QED BY <1>1, WeightAlways, PTL

(* No step of a reader and no restart deletes a pinned expert's payload,   *)
(* and Store::open finds in the journal the order of use that the store    *)
(* had, but for uses that touch had still to write down.                   *)
THEOREM EvictsByUse == WeightSpec => EvictionFollowsUse
  <1>1. WeightInv /\ [WeightNext]_weightVars => [PinnedStay /\ RestartKeepsRecency]_weightVars
    BY WeightStep
  <1> QED BY <1>1, WeightAlways, PTL DEF WeightSpec, EvictionFollowsUse

----------------------------------------------------------------------------
(***************************************************************************)
(* The request session.  Residues: slots of a ring.                        *)
(***************************************************************************)
LEMMA ResidueOfSum ==
  ASSUME NEW w \in Nat \ {0}, NEW a \in Nat, NEW j \in 0 .. w - 1
  PROVE  (a + j) % w = IF (a % w) + j < w THEN (a % w) + j ELSE (a % w) + j - w
  <1> DEFINE d == a \div w
             r == a % w
  <1>1. d \in Nat /\ r \in 0 .. w - 1 /\ a = d * w + r
    BY Division
  <1> HIDE DEF d, r
  <1>2. CASE r + j < w
    <2>1. r + j \in 0 .. w - 1 /\ a + j = d * w + (r + j)
      BY <1>1, <1>2
    <2>2. (d * w + (r + j)) % w = r + j
      BY <1>1, <2>1, DivisionUnique
    <2> QED BY <1>2, <2>1, <2>2 DEF r
  <1>3. CASE ~(r + j < w)
    <2>1. /\ r + j - w \in 0 .. w - 1 /\ d + 1 \in Nat
      BY <1>1, <1>3
    <2>2. a + j = (d + 1) * w + (r + j - w)
      BY <1>1
    <2>3. ((d + 1) * w + (r + j - w)) % w = r + j - w
      BY <2>1, DivisionUnique
    <2> QED BY <1>3, <2>2, <2>3 DEF r
  <1> QED BY <1>2, <1>3

LEMMA ResiduesDiffer ==
  ASSUME NEW w \in Nat \ {0}, NEW a \in Nat, NEW b \in Nat, a < b, b - a < w
  PROVE  a % w # b % w
  <1> DEFINE j == b - a
             r == a % w
  <1>1. j \in 1 .. w - 1 /\ b = a + j /\ r \in 0 .. w - 1
    BY Division
  <1>2. (a + j) % w = IF r + j < w THEN r + j ELSE r + j - w
    <2> HIDE DEF j
    <2>1. j \in 0 .. w - 1
      BY <1>1
    <2> QED BY <2>1, ResidueOfSum
  <1> HIDE DEF j, r
  <1> QED BY <1>1, <1>2 DEF r

LEMMA SmallResidue ==
  ASSUME NEW w \in Nat \ {0}, NEW a \in 0 .. w - 1
  PROVE  a % w = a
  <1>1. (0 * w + a) % w = a
    BY DivisionUnique
  <1> QED BY <1>1

LEMMA MinOfTwo ==
  ASSUME NEW a \in Int, NEW b \in Int
  PROVE  Min({a, b}) = (IF a <= b THEN a ELSE b) /\ Max({a, b}) = (IF a <= b THEN b ELSE a)
  <1>1. \E m \in {a, b} : \A y \in {a, b} : m =< y
    OBVIOUS
  <1>2. \E m \in {a, b} : \A y \in {a, b} : m >= y
    OBVIOUS
  <1>3. Min({a, b}) \in {a, b} /\ \A y \in {a, b} : Min({a, b}) =< y
    BY <1>1 DEF Min
  <1>4. Max({a, b}) \in {a, b} /\ \A y \in {a, b} : Max({a, b}) >= y
    BY <1>2 DEF Max
  <1> QED BY <1>3, <1>4

(* Two finite lines, one behind the other.                                 *)
LEMMA JoinIs ==
  ASSUME NEW m \in Nat, NEW n \in Nat, NEW f, NEW g,
         f = [k \in 1 .. m |-> f[k]], g = [k \in 1 .. n |-> g[k]]
  PROVE  /\ Len(f) = m /\ Len(g) = n /\ Len(f \o g) = m + n
         /\ f \o g = [k \in 1 .. m + n |-> IF k <= m THEN f[k] ELSE g[k - m]]
  <1> DEFINE T == {f[k] : k \in 1 .. m} \cup {g[k] : k \in 1 .. n}
  <1>1. (\A k \in 1 .. m : f[k] \in T) /\ (\A k \in 1 .. n : g[k] \in T)
    OBVIOUS
  <1> HIDE DEF T
  <1>2. f \in [1 .. m -> T] /\ g \in [1 .. n -> T]
    BY <1>1
  <1>3. f \in Seq(T) /\ g \in Seq(T) /\ Len(f) = m /\ Len(g) = n
    <2>1. f \in Seq(T) /\ g \in Seq(T)
      BY <1>2, SeqDef
    <2>2. DOMAIN f = 1 .. m /\ DOMAIN g = 1 .. n
      BY <1>2
    <2> QED BY <2>1, <2>2, LenProperties
  <1> QED BY <1>3, ConcatIs

(* What is kept of a line when the places kept lie together.               *)
LEMMA KeepSpan ==
  ASSUME NEW w, NEW T, NEW a \in Nat, NEW n \in Nat, Kept(w, T) = a + 1 .. a + n,
         NEW g, g = [m \in 1 .. n |-> g[m]], \A m \in 1 .. n : g[m] = w[a + m]
  PROVE  Keep(w, T) = g
  <1> DEFINE K == a + 1 .. a + n
  <1>1. K \in SUBSET Nat /\ IsFiniteSet(K) /\ Cardinality(K) = n
    <2> DEFINE low == a + 1
               high == a + n
    <2>1. low \in Int /\ high \in Int /\ (IF low > high THEN 0 ELSE high - low + 1) = n
      OBVIOUS
    <2> HIDE DEF low, high
    <2>2. IsFiniteSet(low .. high) /\ Cardinality(low .. high) = n
      BY <2>1, FS_Interval
    <2> QED BY <2>2 DEF low, high
  <1>2. ASSUME NEW m \in 1 .. n PROVE Place(K, m) = a + m
    <2> DEFINE i == a + m
               below == {k \in K : k <= i}
               low == a + 1
    <2>1. i \in K
      OBVIOUS
    <2>2. below = low .. i
      OBVIOUS
    <2>3. Cardinality(low .. i) = m
      <3>1. low \in Int /\ i \in Int /\ (IF low > i THEN 0 ELSE i - low + 1) = m
        OBVIOUS
      <3> HIDE DEF low, i
      <3> QED BY <3>1, FS_Interval
    <2>4. Rank(K, i) = m
      BY <2>2, <2>3 DEF Rank
    <2> HIDE DEF K, i
    <2>5. Place(K, Rank(K, i)) = i
      BY <1>1, <2>1, PlaceProperties
    <2> QED BY <2>4, <2>5 DEF i
  <1>3. Keep(w, T) = [m \in 1 .. n |-> w[Place(K, m)]]
    <2>1. Kept(w, T) = K
      OBVIOUS
    <2> HIDE DEF K
    <2> QED BY <1>1, <2>1, KeepIs
  <1> HIDE DEF K
  <1> QED BY <1>2, <1>3

----------------------------------------------------------------------------
(* The schedule.                                                           *)
LEMMA ScheduleIs ==
  /\ Len(Schedule) \in Nat /\ Layers = 0 .. Len(Schedule)
  /\ Window \in Nat \ {0} /\ MaxTokens \in Nat \ {0} /\ MaxStepTokens \in Nat \ {0}
  BY SessionAssumption, LenProperties DEF Layers

LEMMA RatioIs ==
  ASSUME NEW i \in Layers
  PROVE  /\ Ratio(i) \in {0, 1, 2}
         /\ Owns(i) => i # 0 /\ Ratio(i) # 0
         /\ Owns(i) /\ Ratio(i) = 2 <=> Layer(i).kind = "ratio two owner"
         /\ ~Owns(0) /\ Ratio(0) = 0
  <1>1. Layer(0).kind = "window"
    BY DEF Layer, Startup
  <1>2. ~Owns(0) /\ Ratio(0) = 0
    BY <1>1 DEF Owns, Ratio
  <1> DEFINE kind == Layer(i).kind
  <1>3. Ratio(i) = (CASE kind = "window" -> 0
                      [] kind \in {"ratio two owner", "ratio two consumer"} -> 2
                      [] OTHER -> 1)
        /\ (Owns(i) <=> kind \in {"ratio two owner", "ratio one owner"})
    BY DEF Ratio, Owns
  <1>4. i = 0 => kind = "window"
    BY <1>1
  <1> HIDE DEF kind
  <1>5. CASE kind = "window"
    BY <1>2, <1>3, <1>5 DEF kind
  <1>6. CASE kind \in {"ratio two owner", "ratio two consumer"}
    <2>1. kind # "window" /\ i # 0
      BY <1>4, <1>6
    <2>2. Ratio(i) = 2
      BY <1>3, <1>6, <2>1
    <2>3. Owns(i) <=> kind = "ratio two owner"
      BY <1>3, <1>6
    <2>4. Owns(i) /\ Ratio(i) = 2 <=> Layer(i).kind = "ratio two owner"
      BY <2>2, <2>3 DEF kind
    <2>5. Ratio(i) \in 1 .. 2
      BY <2>2
    <2>6. Ratio(i) \in {0, 1, 2} /\ Ratio(i) # 0
      BY ONLY <2>5
    <2> QED BY ONLY <1>2, <2>1, <2>4, <2>6 DEF Owns
  <1>7. CASE kind \notin {"window", "ratio two owner", "ratio two consumer"}
    <2>1. kind # "window" /\ i # 0 /\ kind # "ratio two owner" /\ kind # "ratio two consumer"
      BY <1>4, <1>7
    <2>2. Ratio(i) = 1
      BY <1>3, <2>1
    <2>3. Ratio(i) \in 1 .. 1
      BY <2>2
    <2>4. Ratio(i) \in {0, 1, 2} /\ Ratio(i) # 0 /\ Ratio(i) # 2
      BY ONLY <2>3
    <2>5. Layer(i).kind # "ratio two owner"
      BY <2>1 DEF kind
    <2> QED BY ONLY <1>2, <2>1, <2>4, <2>5
  <1> QED BY <1>5, <1>6, <1>7

LEMMA OwnersAre ==
  /\ PreviousOwner \in Layers /\ Owns(PreviousOwner) /\ Ratio(PreviousOwner) = 1 /\ PreviousOwner # 0
  /\ \A i \in Layers : Ratio(i) # 0 =>
       /\ LatestOwner(i) \in Layers /\ LatestOwner(i) <= i /\ Owns(LatestOwner(i))
       /\ Ratio(LatestOwner(i)) = Ratio(i)
       /\ ~Owns(i) => LatestOwner(i) < i
  <1>1. Len(Schedule) \in Nat /\ Layers = 0 .. Len(Schedule)
    BY ScheduleIs
  <1>2. PreviousOwner \in Layers /\ Owns(PreviousOwner) /\ Ratio(PreviousOwner) = 1
    <2> DEFINE S == {i \in Layers : Owns(i) /\ Ratio(i) = 1}
               high == Len(Schedule)
    <2>1. S # {} /\ S \in SUBSET (0 .. high)
      BY <1>1, SessionAssumption
    <2>2. high \in Int
      BY <1>1
    <2> HIDE DEF S, high
    <2> DEFINE low == 0
    <2>3. low \in Int /\ S \in SUBSET (low .. high)
      BY <2>1
    <2> HIDE DEF low
    <2>4. Max(S) \in S
      BY ONLY <2>1, <2>2, <2>3, MaxIs
    <2> QED BY <2>4 DEF S, PreviousOwner
  <1>3. ASSUME NEW i \in Layers, Ratio(i) # 0
        PROVE  /\ LatestOwner(i) \in Layers /\ LatestOwner(i) <= i /\ Owns(LatestOwner(i))
               /\ Ratio(LatestOwner(i)) = Ratio(i)
               /\ ~Owns(i) => LatestOwner(i) < i
    <2> DEFINE S == {j \in 1 .. i : Owns(j)}
    <2>1. i \in Int /\ S # {} /\ S \in SUBSET (1 .. i) /\ Ratio(LatestOwner(i)) = Ratio(i)
      BY <1>1, <1>3, SessionAssumption
    <2> HIDE DEF S
    <2>2. Max(S) \in S
      BY <2>1, MaxIs
    <2>3. LatestOwner(i) \in 1 .. i /\ Owns(LatestOwner(i))
      BY <2>2 DEF S, LatestOwner
    <2> QED BY <1>1, <2>1, <2>3
  <1> QED BY <1>2, <1>3, RatioIs

----------------------------------------------------------------------------
(***************************************************************************)
(* What a layer holds when it has taken the tokens before `end` in `count` *)
(* calls.                                                                  *)
(***************************************************************************)
KeysTo(r, end) == [g \in 1 .. end \div r |-> Tokens(r * (g - 1), r)]

RingHolds(ring, end) == \A p \in Nat : p < end /\ end <= p + Window => ring[p % Window] = Token(p)

LayerAt(i, l, end, count) ==
  /\ l = [heard |-> l.heard, held |-> l.held, keys |-> l.keys, taken |-> l.taken,
          published |-> l.published, ring |-> l.ring, next |-> l.next, calls |-> l.calls]
  /\ Layer(i).engram => l.heard = Tokens(0, end)
  /\ Owns(i) => l.taken = end /\ l.published = count /\ l.keys = KeysTo(Ratio(i), end)
  /\ Owns(i) /\ Ratio(i) = 2 /\ end % 2 = 1 => l.held[1] = Token(end - 1)
  /\ RingHolds(l.ring, end)
  /\ l.next = end /\ l.calls = count

LEMMA TokensJoin ==
  ASSUME NEW a \in Nat, NEW m \in Nat, NEW n \in Nat
  PROVE  /\ Tokens(a, m) \o Tokens(a + m, n) = Tokens(a, m + n)
         /\ Len(Tokens(a, m)) = m
  <1> DEFINE f == Tokens(a, m)
             g == Tokens(a + m, n)
  <1>1. /\ f = [k \in 1 .. m |-> Token(a + k - 1)] /\ g = [k \in 1 .. n |-> Token(a + m + k - 1)]
        /\ Tokens(a, m + n) = [k \in 1 .. m + n |-> Token(a + k - 1)]
    BY DEF Tokens
  <1>2. f = [k \in 1 .. m |-> f[k]] /\ g = [k \in 1 .. n |-> g[k]]
    BY <1>1
  <1> HIDE DEF f, g
  <1>3. Len(f) = m /\ f \o g = [k \in 1 .. m + n |-> IF k <= m THEN f[k] ELSE g[k - m]]
    BY <1>2, JoinIs
  <1>4. \A k \in 1 .. m + n : (IF k <= m THEN f[k] ELSE g[k - m]) = Token(a + k - 1)
    <2> SUFFICES ASSUME NEW k \in 1 .. m + n
                 PROVE  (IF k <= m THEN f[k] ELSE g[k - m]) = Token(a + k - 1)
      OBVIOUS
    <2>1. CASE k <= m
      BY <1>1, <2>1
    <2>2. CASE ~(k <= m)
      <3>1. k - m \in 1 .. n /\ a + m + (k - m) - 1 = a + k - 1
        BY <2>2
      <3>2. g[k - m] = Token(a + m + (k - m) - 1)
        BY <1>1, <3>1
      <3> QED BY <2>2, <3>1, <3>2
    <2> QED BY <2>1, <2>2
  <1> QED BY <1>1, <1>3, <1>4 DEF f, g

(* The groups a call completes follow those there are.                     *)
LEMMA KeysJoin ==
  ASSUME NEW i \in Layers, NEW l, NEW end \in Nat, NEW count, NEW n \in Nat \ {0}, Owns(i),
         LayerAt(i, l, end, count)
  PROVE  KeysTo(Ratio(i), end) \o Groups(l, i, end, n) = KeysTo(Ratio(i), end + n)
  <1> DEFINE r == Ratio(i)
             f == KeysTo(r, end)
             g == Groups(l, i, end, n)
             a == end \div r
             b == (end + n) \div r
  <1>1. r \in {1, 2}
    BY RatioIs
  <1>2. a \in Nat /\ b \in Nat /\ a <= b
    BY <1>1
  <1>3. f = [k \in 1 .. a |-> Tokens(r * (k - 1), r)]
    BY DEF KeysTo
  <1>4. g = [k \in 1 .. b - a |->
               [s \in 1 .. r |-> IF r * (a + k - 1) + s > end THEN Token(r * (a + k - 1) + s - 1) ELSE l.held[s]]]
    BY DEF Groups
  <1>5. ASSUME NEW k \in 1 .. b - a PROVE g[k] = Tokens(r * (a + k - 1), r)
    <2>1. g[k] = [s \in 1 .. r |-> IF r * (a + k - 1) + s > end THEN Token(r * (a + k - 1) + s - 1) ELSE l.held[s]]
      BY <1>4
    <2>2. ASSUME NEW s \in 1 .. r, ~(r * (a + k - 1) + s > end)
          PROVE  l.held[s] = Token(r * (a + k - 1) + s - 1)
      <3>1. r = 2 /\ k = 1 /\ s = 1 /\ end = 2 * a + 1
        BY <1>1, <1>2, <2>2
      <3>2. end % 2 = 1
        BY <3>1
      <3>3. l.held[1] = Token(end - 1)
        BY <3>1, <3>2 DEF LayerAt
      <3>4. r * (a + k - 1) + s - 1 = end - 1
        BY <1>2, <3>1
      <3> QED BY <3>1, <3>3, <3>4
    <2>3. Tokens(r * (a + k - 1), r) = [s \in 1 .. r |-> Token(r * (a + k - 1) + s - 1)]
      BY DEF Tokens
    <2> QED BY <2>1, <2>2, <2>3
  <1> HIDE DEF a, b, f, g
  <1>6. f \o g = [k \in 1 .. a + (b - a) |-> IF k <= a THEN f[k] ELSE g[k - a]]
    <2>1. b - a \in Nat
      BY <1>2
    <2>2. f = [k \in 1 .. a |-> f[k]] /\ g = [k \in 1 .. b - a |-> g[k]]
      BY <1>3, <1>4
    <2> DEFINE d == b - a
    <2> HIDE DEF d
    <2>3. f \o g = [k \in 1 .. a + d |-> IF k <= a THEN f[k] ELSE g[k - a]]
      <3>1. d \in Nat /\ a \in Nat /\ f = [k \in 1 .. a |-> f[k]] /\ g = [k \in 1 .. d |-> g[k]]
        BY <1>2, <2>1, <2>2 DEF d
      <3> QED BY ONLY <3>1, JoinIs
    <2> QED BY <2>3 DEF d
  <1>7. KeysTo(r, end + n) = [k \in 1 .. b |-> Tokens(r * (k - 1), r)]
    BY DEF KeysTo, b
  <1>8. \A k \in 1 .. b : (IF k <= a THEN f[k] ELSE g[k - a]) = Tokens(r * (k - 1), r)
    <2> SUFFICES ASSUME NEW k \in 1 .. b
                 PROVE  (IF k <= a THEN f[k] ELSE g[k - a]) = Tokens(r * (k - 1), r)
      OBVIOUS
    <2>1. CASE k <= a
      BY <1>2, <1>3, <2>1
    <2>2. CASE ~(k <= a)
      <3>1. k - a \in 1 .. b - a /\ a + (k - a) - 1 = k - 1
        BY <1>2, <2>2
      <3>2. g[k - a] = Tokens(r * (a + (k - a) - 1), r)
        BY <1>5, <3>1
      <3> QED BY <2>2, <3>1, <3>2
    <2> QED BY <2>1, <2>2
  <1>9. a + (b - a) = b
    BY <1>2
  <1> QED BY <1>6, <1>7, <1>8, <1>9 DEF f, g

(* The slots of a compressor: the last token of a group that is not whole. *)
LEMMA HeldAt ==
  ASSUME NEW i \in Layers, NEW l, NEW end \in Nat, NEW n \in Nat \ {0}, Ratio(i) = 2, (end + n) % 2 = 1
  PROVE  HeldAfter(l, i, end, n)[1] = Token(end + n - 1)
  <1> DEFINE ps == {p \in end .. end + n - 1 : p % 2 = 0 /\ (end = 0 => p >= n - (n % 2))}
             top == end + n - 1
  <1>1. top \in ps /\ \A p \in ps : p <= top
    <2>1. top \in end .. end + n - 1 /\ top % 2 = 0
      OBVIOUS
    <2>2. end = 0 => top >= n - (n % 2)
      OBVIOUS
    <2> QED BY <2>1, <2>2
  <1>2. ps \in SUBSET (end .. top)
    OBVIOUS
  <1>3. HeldAfter(l, i, end, n)[1] =
          (IF ps # {} THEN Token(Max(ps)) ELSE IF end = 0 THEN Empty ELSE l.held[1])
    <2>1. {p \in end .. end + n - 1 : p % Ratio(i) = 1 - 1 /\ (end = 0 => p >= n - (n % Ratio(i)))} = ps
      OBVIOUS
    <2> HIDE DEF ps
    <2>2. 1 \in 1 .. 2
      OBVIOUS
    <2> QED BY <2>1, <2>2 DEF HeldAfter
  <1> HIDE DEF ps
  <1>4. Max(ps) = top
    <2>1. top \in Int /\ end \in Int
      OBVIOUS
    <2>2. Max(ps) \in ps /\ \A p \in ps : p <= Max(ps)
      <3> HIDE DEF top
      <3>1. ps \in SUBSET (end .. top) /\ ps # {}
        BY ONLY <1>1, <1>2
      <3> QED BY ONLY <2>1, <3>1, MaxIs
    <2> DEFINE m == Max(ps)
    <2> HIDE DEF m, top
    <2>3. m \in end .. top /\ top <= m
      BY ONLY <1>1, <1>2, <2>2 DEF m
    <2>4. m = top
      BY ONLY <2>1, <2>3
    <2> QED BY <2>4 DEF m
  <1> QED BY <1>1, <1>3, <1>4

(* A chunk goes to the ring's slots, its last tokens only.                 *)
LEMMA RingAt ==
  ASSUME NEW ring, NEW end \in Nat, NEW n \in Nat \ {0}, RingHolds(ring, end)
  PROVE  RingHolds(WrittenRing(ring, end, n), end + n)
  <1> DEFINE kept == Max({0, n - Window}) .. n - 1
             lands(slot) == {k \in kept : (end + k) % Window = slot}
  <1>1. Window \in Nat \ {0}
    BY ScheduleIs
  <1>2. Max({0, n - Window}) = IF n <= Window THEN 0 ELSE n - Window
    <2> DEFINE b == n - Window
               zero == 0
    <2>1. b \in Int /\ zero \in Int
      BY <1>1
    <2> HIDE DEF b, zero
    <2>2. Max({zero, b}) = IF zero <= b THEN b ELSE zero
      BY <2>1, MinOfTwo
    <2> QED BY <1>1, <2>2 DEF b, zero
  <1>3. ASSUME NEW p \in Nat, p < end + n, end + n <= p + Window
        PROVE  WrittenRing(ring, end, n)[p % Window] = Token(p)
    <2> DEFINE slot == p % Window
    <2>1. slot \in 0 .. Window - 1
      BY <1>1, Division
    <2>2. WrittenRing(ring, end, n)[slot] =
            (IF lands(slot) # {} THEN Token(end + Max(lands(slot)))
             ELSE IF end = 0 THEN Empty ELSE ring[slot])
      <3> HIDE DEF slot
      <3> QED BY <2>1 DEF WrittenRing
    <2>3. \A k \in kept : k \in Nat /\ k < n /\ n - Window <= k
      BY <1>1, <1>2
    <2>4. ASSUME NEW k \in lands(slot) PROVE end + k = p
      <3>1. k \in Nat /\ k < n /\ n - Window <= k /\ end + k \in Nat /\ (end + k) % Window = p % Window
        BY <2>3
      <3>2. ~(end + k < p)
        <4>1. end + k < p => p - (end + k) < Window
          BY <1>1, <1>3, <3>1
        <4> QED BY <1>1, <3>1, <4>1, ResiduesDiffer
      <3>3. ~(p < end + k)
        <4>1. p < end + k => (end + k) - p < Window
          BY <1>1, <1>3, <3>1
        <4> QED BY <1>1, <3>1, <4>1, ResiduesDiffer
      <3> QED BY <3>1, <3>2, <3>3
    <2>5. CASE p >= end
      <3>1. p - end \in kept /\ end + (p - end) = p
        BY <1>1, <1>2, <1>3, <2>5
      <3>2. p - end \in lands(slot)
        BY <3>1
      <3> HIDE DEF lands, kept, slot
      <3>3. lands(slot) = {p - end}
        <4>1. \A k \in lands(slot) : k \in kept
          BY DEF lands
        <4> QED BY <2>3, <2>4, <3>1, <3>2, <4>1
      <3>4. Max(lands(slot)) = p - end
        BY <3>3 DEF Max
      <3> QED BY <2>2, <3>1, <3>2, <3>4 DEF slot
    <2>6. CASE p < end
      <3>1. lands(slot) = {}
        BY <2>3, <2>4, <2>6
      <3>2. end # 0 /\ end <= p + Window
        BY <1>1, <1>3, <2>6
      <3>3. ring[p % Window] = Token(p)
        BY <2>6, <3>2 DEF RingHolds
      <3> HIDE DEF lands
      <3> QED BY <2>2, <3>1, <3>2, <3>3
    <2> QED BY <2>5, <2>6
  <1> QED BY <1>3 DEF RingHolds

(* What a layer is after its Engram, its compressor and its attention.     *)
Heard(i, l, end, n) == [l EXCEPT !.heard = IF Layer(i).engram THEN @ \o Tokens(end, n) ELSE @]
OwnedBy(i, l, n) == IF Owns(i) THEN Owned(l, i, n) ELSE l

LEMMA OwnedKeys ==
  ASSUME NEW i \in Layers, NEW l, NEW end \in Nat, NEW count, NEW n \in Nat \ {0}, Owns(i),
         LayerAt(i, l, end, count)
  PROVE  Owned(l, i, n).keys = KeysTo(Ratio(i), end + n)
  <1> DEFINE keys == l.keys \o Groups(l, i, end, n)
             held == HeldAfter(l, i, end, n)
  <1>1. /\ l = [heard |-> l.heard, held |-> l.held, keys |-> l.keys, taken |-> l.taken,
                published |-> l.published, ring |-> l.ring, next |-> l.next, calls |-> l.calls]
        /\ l.taken = end /\ l.keys = KeysTo(Ratio(i), end)
    BY DEF LayerAt
  <1>2. keys = KeysTo(Ratio(i), end + n)
    <2>1. KeysTo(Ratio(i), end) \o Groups(l, i, end, n) = KeysTo(Ratio(i), end + n)
      BY KeysJoin
    <2> QED BY <1>1, <2>1
  <1>3. l.keys \o Groups(l, i, l.taken, n) = keys /\ HeldAfter(l, i, l.taken, n) = held
    BY <1>1
  <1>4. Owned(l, i, n) = [l EXCEPT !.keys = keys, !.held = held, !.taken = l.taken + n, !.published = l.published + 1]
    BY <1>3 DEF Owned
  <1> HIDE DEF keys, held
  <1>5. Owned(l, i, n).keys = keys
    BY <1>1, <1>4
  <1> QED BY <1>2, <1>5

LEMMA AttendedAt ==
  ASSUME NEW i \in Layers, NEW l, NEW end \in Nat, NEW count \in Nat, NEW n \in Nat \ {0},
         LayerAt(i, l, end, count), end = 0 => count = 0
  PROVE  LayerAt(i, Attended(OwnedBy(i, Heard(i, l, end, n), n), end, n), end + n, count + 1)
  <1> DEFINE r == Ratio(i)
             heard == IF Layer(i).engram THEN l.heard \o Tokens(end, n) ELSE l.heard
             h == Heard(i, l, end, n)
             keys == l.keys \o Groups(l, i, end, n)
             held == HeldAfter(l, i, end, n)
             w == Owned(h, i, n)
             ring == WrittenRing(l.ring, end, n)
             calls == IF end = 0 THEN 1 ELSE l.calls + 1
  <1>1. l = [heard |-> l.heard, held |-> l.held, keys |-> l.keys, taken |-> l.taken,
             published |-> l.published, ring |-> l.ring, next |-> l.next, calls |-> l.calls]
    BY DEF LayerAt
  <1>2. h = [heard |-> heard, held |-> l.held, keys |-> l.keys, taken |-> l.taken,
             published |-> l.published, ring |-> l.ring, next |-> l.next, calls |-> l.calls]
    <2> HIDE DEF heard
    <2>1. h = [l EXCEPT !.heard = heard]
      BY DEF Heard, heard
    <2> QED BY <1>1, <2>1
  <1> HIDE DEF h, heard, keys, held, ring, calls
  <1>3. Owns(i) => w = [heard |-> heard, held |-> held, keys |-> keys, taken |-> l.taken + n,
                        published |-> l.published + 1, ring |-> l.ring, next |-> l.next, calls |-> l.calls]
    <2> SUFFICES ASSUME Owns(i)
                 PROVE  w = [heard |-> heard, held |-> held, keys |-> keys, taken |-> l.taken + n,
                             published |-> l.published + 1, ring |-> l.ring, next |-> l.next, calls |-> l.calls]
      OBVIOUS
    <2>1. l.taken = end
      BY DEF LayerAt
    <2>2. Groups(h, i, end, n) = Groups(l, i, end, n) /\ HeldAfter(h, i, end, n) = held
      BY <1>2 DEF Groups, HeldAfter, held
    <2>3. h.keys \o Groups(h, i, h.taken, n) = keys /\ HeldAfter(h, i, h.taken, n) = held
      BY <1>2, <2>1, <2>2 DEF keys
    <2>4. w = [h EXCEPT !.keys = keys, !.held = held, !.taken = h.taken + n, !.published = h.published + 1]
      BY <2>3 DEF Owned
    <2> QED BY <1>2, <2>4
  <1>4. Owns(i) => keys = KeysTo(r, end + n)
    <2> SUFFICES ASSUME Owns(i) PROVE keys = KeysTo(r, end + n)
      OBVIOUS
    <2>1. l.keys = KeysTo(Ratio(i), end)
      BY DEF LayerAt
    <2>2. KeysTo(Ratio(i), end) \o Groups(l, i, end, n) = KeysTo(Ratio(i), end + n)
      BY KeysJoin
    <2> QED BY <2>1, <2>2 DEF keys
  <1>5. Layer(i).engram => heard = Tokens(0, end + n)
    <2> SUFFICES ASSUME Layer(i).engram PROVE heard = Tokens(0, end + n)
      OBVIOUS
    <2>1. heard = Tokens(0, end) \o Tokens(end, n)
      BY DEF LayerAt, heard
    <2>2. Tokens(0, end) \o Tokens(0 + end, n) = Tokens(0, end + n)
      BY TokensJoin
    <2> QED BY <2>1, <2>2
  <1>6. r = 2 /\ (end + n) % 2 = 1 => held[1] = Token(end + n - 1)
    BY HeldAt DEF held
  <1>7. RingHolds(ring, end + n)
    BY RingAt DEF LayerAt, ring
  <1>8. calls = count + 1 /\ l.calls = count /\ l.next = end
        /\ (Owns(i) => l.taken = end /\ l.published = count)
    BY DEF LayerAt, calls
  <1> DEFINE o == OwnedBy(i, h, n)
             a == Attended(o, end, n)
  <1>9. /\ o = [heard |-> heard, held |-> o.held, keys |-> o.keys, taken |-> o.taken,
                published |-> o.published, ring |-> l.ring, next |-> l.next, calls |-> l.calls]
        /\ Owns(i) => o.held = held /\ o.keys = keys /\ o.taken = end + n /\ o.published = count + 1
    <2>1. CASE Owns(i)
      <3>1. o = w
        BY <2>1 DEF OwnedBy
      <3> HIDE DEF o, w
      <3> QED BY <1>3, <1>8, <2>1, <3>1
    <2>2. CASE ~Owns(i)
      <3>1. o = h
        BY <2>2 DEF OwnedBy
      <3> HIDE DEF o, w
      <3> QED BY <1>2, <2>2, <3>1
    <2> QED BY <2>1, <2>2
  <1> HIDE DEF o
  <1>10. a = [heard |-> heard, held |-> o.held, keys |-> o.keys, taken |-> o.taken,
              published |-> o.published, ring |-> ring, next |-> end + n, calls |-> calls]
    <2>1. WrittenRing(o.ring, end, n) = ring /\ (IF end = 0 THEN 1 ELSE o.calls + 1) = calls
      BY <1>9 DEF ring, calls
    <2>2. a = [o EXCEPT !.ring = ring, !.next = end + n, !.calls = calls]
      BY <2>1 DEF Attended
    <2> DEFINE stop == end + n
    <2>3. a = [o EXCEPT !.ring = ring, !.next = stop, !.calls = calls]
      BY <2>2
    <2> HIDE DEF a, stop
    <2> DEFINE b1 == o.held
               b2 == o.keys
               b3 == o.taken
               b4 == o.published
               b5 == l.ring
               b6 == l.next
               b7 == l.calls
    <2>5. o = [heard |-> heard, held |-> b1, keys |-> b2, taken |-> b3,
               published |-> b4, ring |-> b5, next |-> b6, calls |-> b7]
      BY <1>9
    <2> HIDE DEF b1, b2, b3, b4, b5, b6, b7
    <2>6. a = [heard |-> heard, held |-> b1, keys |-> b2, taken |-> b3,
               published |-> b4, ring |-> ring, next |-> stop, calls |-> calls]
      BY ONLY <2>3, <2>5
    <2>4. a = [heard |-> heard, held |-> o.held, keys |-> o.keys, taken |-> o.taken,
               published |-> o.published, ring |-> ring, next |-> stop, calls |-> calls]
      BY ONLY <2>6 DEF b1, b2, b3, b4
    <2> QED BY <2>4 DEF stop
  <1> HIDE DEF a
  <1>11. LayerAt(i, a, end + n, count + 1)
    <2>1. /\ a.heard = heard /\ a.held = o.held /\ a.keys = o.keys /\ a.taken = o.taken
          /\ a.published = o.published /\ a.ring = ring /\ a.next = end + n /\ a.calls = count + 1
      BY <1>8, <1>10
    <2>2. a = [heard |-> a.heard, held |-> a.held, keys |-> a.keys, taken |-> a.taken,
               published |-> a.published, ring |-> a.ring, next |-> a.next, calls |-> a.calls]
      BY <1>10, <2>1
    <2> HIDE DEF r
    <2>3. Layer(i).engram => a.heard = Tokens(0, end + n)
      BY <1>5, <2>1
    <2>4. Owns(i) => a.taken = end + n /\ a.published = count + 1 /\ a.keys = KeysTo(r, end + n)
      BY <1>4, <1>9, <2>1
    <2>5. Owns(i) /\ r = 2 /\ (end + n) % 2 = 1 => a.held[1] = Token(end + n - 1)
      BY <1>6, <1>9, <2>1
    <2>6. RingHolds(a.ring, end + n)
      BY <1>7, <2>1
    <2> QED BY ONLY <2>1, <2>2, <2>3, <2>4, <2>5, <2>6 DEF LayerAt, r
  <1> QED BY <1>11 DEF a, o, h

----------------------------------------------------------------------------
(***************************************************************************)
(* What a query reads.  `first` is the oldest position of its window.      *)
(***************************************************************************)
Width(p) == IF Window <= p + 1 THEN Window ELSE p + 1

LEMMA WidthIs ==
  ASSUME NEW p \in Nat
  PROVE  /\ Min({Window, p + 1}) = Width(p)
         /\ Max({0, p + 1 - Window}) = p + 1 - Width(p)
         /\ Width(p) \in 1 .. Window /\ p + 1 - Width(p) \in 0 .. p
         /\ p + 1 - Width(p) = IF Window <= p + 1 THEN p + 1 - Window ELSE 0
  <1>1. Window \in Nat \ {0}
    BY ScheduleIs
  <1> DEFINE a == p + 1
             b == p + 1 - Window
             zero == 0
  <1>2. a \in Int /\ b \in Int /\ zero \in Int /\ Window \in Int
    BY <1>1
  <1> HIDE DEF a, b, zero
  <1>3. Min({Window, a}) = IF Window <= a THEN Window ELSE a
    BY <1>2, MinOfTwo
  <1>4. Max({zero, b}) = IF zero <= b THEN b ELSE zero
    BY <1>2, MinOfTwo
  <1>5. Min({Window, p + 1}) = Width(p)
    BY <1>3 DEF a, Width
  <1>6. Max({0, p + 1 - Window}) = p + 1 - Width(p)
    BY <1>1, <1>4 DEF b, zero, Width
  <1> QED BY <1>1, <1>5, <1>6 DEF Width

(* The slots a decode reads are those of the window, oldest first.         *)
LEMMA DecodeIs ==
  ASSUME NEW p \in Nat
  PROVE  DecodeIndices(p) = [m \in 1 .. Width(p) |-> (p + 1 - Width(p) + m - 1) % Window]
  <1> DEFINE pos == p % Window
             suffix == Window - (pos + 1)
             first == p + 1 - Window
             slot(s) == IF s < suffix THEN pos + 1 + s ELSE s - suffix
             w == [s \in 1 .. Window |-> slot(s - 1)]
  <1>1. Window \in Nat \ {0} /\ pos \in 0 .. Window - 1 /\ suffix \in 0 .. Window - 1
    <2>1. Window \in Nat \ {0}
      BY ScheduleIs
    <2> QED BY <2>1, Division
  <1>2. DecodeIndices(p) = Keep(w, 0 .. p)
    BY DEF DecodeIndices
  <1>3. Kept(w, 0 .. p) = {s \in 1 .. Window : w[s] \in 0 .. p}
    BY DEF Kept
  <1>4. CASE Window <= p + 1
    <2>1. first \in Nat /\ p = first + (Window - 1) /\ Width(p) = Window
      BY <1>1, <1>4 DEF Width
    <2> DEFINE f == first % Window
    <2>2. f \in 0 .. Window - 1
      BY <1>1, <2>1, Division
    <2>3. pos = IF f + (Window - 1) < Window THEN f + (Window - 1) ELSE f + (Window - 1) - Window
      <3> DEFINE j == Window - 1
      <3>1. j \in 0 .. Window - 1
        BY <1>1
      <3> HIDE DEF j, first
      <3>2. (first + j) % Window
            = IF (first % Window) + j < Window THEN (first % Window) + j ELSE (first % Window) + j - Window
        BY <1>1, <2>1, <3>1, ResidueOfSum
      <3> QED BY <2>1, <3>2 DEF j
    <2>4. ASSUME NEW s \in 1 .. Window
          PROVE  (first + s - 1) % Window = slot(s - 1) /\ slot(s - 1) \in 0 .. Window - 1
      <3> DEFINE j == s - 1
      <3>1. j \in 0 .. Window - 1
        BY <1>1
      <3>2. (first + j) % Window = IF f + j < Window THEN f + j ELSE f + j - Window
        <4> HIDE DEF j, first
        <4> QED BY <1>1, <2>1, <3>1, ResidueOfSum
      <3>3. first + s - 1 = first + j
        BY <1>1
      <3> HIDE DEF f, pos, first
      <3>4. slot(j) = IF f + j < Window THEN f + j ELSE f + j - Window
        <4> HIDE DEF j
        <4> QED BY <1>1, <2>2, <2>3, <3>1
      <3>5. slot(j) \in 0 .. Window - 1
        <4> HIDE DEF j
        <4> QED BY <1>1, <2>2, <3>1, <3>4
      <3> HIDE DEF slot
      <3> QED BY <3>2, <3>3, <3>4, <3>5 DEF f, j
    <2>5. \A s \in 1 .. Window : w[s] \in 0 .. p
      <3> SUFFICES ASSUME NEW s \in 1 .. Window PROVE w[s] \in 0 .. p
        OBVIOUS
      <3>1. w[s] = slot(s - 1)
        OBVIOUS
      <3> HIDE DEF slot, w
      <3> QED BY <1>1, <1>4, <2>4, <3>1
    <2> HIDE DEF w
    <2>6. Kept(w, 0 .. p) = 0 + 1 .. 0 + Window
      <3>1. {s \in 1 .. Window : w[s] \in 0 .. p} = 1 .. Window
        BY ONLY <2>5
      <3>2. 0 + 1 .. 0 + Window = 1 .. Window
        BY <1>1
      <3> QED BY ONLY <1>3, <3>1, <3>2
    <2> DEFINE zero == 0
    <2>7. zero \in Nat /\ Window \in Nat /\ Kept(w, 0 .. p) = zero + 1 .. zero + Window
      BY <1>1, <2>6
    <2> DEFINE T == 0 .. p
               g == [m \in 1 .. Window |-> (first + m - 1) % Window]
    <2> HIDE DEF zero, T
    <2>9. \A m \in 1 .. Window : w[zero + m] = (first + m - 1) % Window
      <3> SUFFICES ASSUME NEW m \in 1 .. Window PROVE w[zero + m] = (first + m - 1) % Window
        OBVIOUS
      <3>1. zero + m = m
        BY DEF zero
      <3>2. w[m] = slot(m - 1)
        BY DEF w
      <3> HIDE DEF slot, first
      <3> QED BY <2>4, <3>1, <3>2
    <2>10. g = [m \in 1 .. Window |-> g[m]] /\ \A m \in 1 .. Window : g[m] = w[zero + m]
      <3> HIDE DEF first
      <3> QED BY <2>9
    <2>11. Keep(w, T) = g
      <3>1. Kept(w, T) = zero + 1 .. zero + Window
        BY <2>7 DEF T
      <3> HIDE DEF w, g
      <3> QED BY ONLY <2>7, <2>10, <3>1, KeepSpan
    <2>12. p + 1 - Width(p) = first
      BY <2>1
    <2> HIDE DEF first
    <2> QED BY <1>2, <2>1, <2>11, <2>12 DEF T
  <1>5. CASE ~(Window <= p + 1)
    <2>1. Width(p) = p + 1 /\ p \in 0 .. Window - 1
      BY <1>1, <1>5 DEF Width
    <2>2. pos = p /\ suffix = Window - (p + 1) /\ suffix \in Nat
      BY <1>1, <2>1, SmallResidue
    <2> DEFINE n == p + 1
    <2>3. n \in Nat /\ suffix + n = Window
      BY <1>1, <2>2
    <2> HIDE DEF pos
    <2>4. \A s \in 1 .. Window : w[s] = IF s - 1 < suffix THEN p + s ELSE s - 1 - suffix
      BY <1>1, <2>1, <2>2
    <2>5. Kept(w, 0 .. p) = suffix + 1 .. suffix + n
      <3>1. \A s \in 1 .. Window : w[s] \in 0 .. p <=> s \in suffix + 1 .. suffix + n
        <4> SUFFICES ASSUME NEW s \in 1 .. Window PROVE w[s] \in 0 .. p <=> s \in suffix + 1 .. suffix + n
          OBVIOUS
        <4>1. w[s] = IF s - 1 < suffix THEN p + s ELSE s - 1 - suffix
          BY <2>4
        <4> HIDE DEF w
        <4> QED BY <1>1, <2>1, <2>2, <4>1
      <3> HIDE DEF w, n, suffix
      <3>2. suffix + 1 .. suffix + n \in SUBSET (1 .. Window)
        BY ONLY <1>1, <2>2, <2>3
      <3> DEFINE span == suffix + 1 .. suffix + n
      <3> HIDE DEF span
      <3>3. \A s \in 1 .. Window : w[s] \in 0 .. p <=> s \in span
        BY <3>1 DEF span
      <3>4. span \in SUBSET (1 .. Window)
        BY <3>2 DEF span
      <3>5. {s \in 1 .. Window : w[s] \in 0 .. p} = span
        BY ONLY <3>3, <3>4
      <3> QED BY ONLY <1>3, <3>5 DEF span
    <2> DEFINE T == 0 .. p
               g == [m \in 1 .. n |-> (p + 1 - Width(p) + m - 1) % Window]
    <2> HIDE DEF w, T, n, suffix
    <2>7. \A m \in 1 .. n : w[suffix + m] = (p + 1 - Width(p) + m - 1) % Window
      <3> SUFFICES ASSUME NEW m \in 1 .. n PROVE w[suffix + m] = (p + 1 - Width(p) + m - 1) % Window
        OBVIOUS
      <3>1. suffix + m \in 1 .. Window /\ m - 1 \in 0 .. Window - 1 /\ p + 1 - Width(p) + m - 1 = m - 1
        BY <1>1, <2>1, <2>2, <2>3 DEF n
      <3>2. w[suffix + m] = m - 1
        BY <2>2, <2>4, <3>1
      <3> DEFINE j == m - 1
      <3> HIDE DEF j
      <3>3. j \in 0 .. Window - 1
        BY <3>1 DEF j
      <3>4. j % Window = j
        BY <1>1, <3>3, SmallResidue
      <3> QED BY <3>1, <3>2, <3>4 DEF j
    <2>8. g = [m \in 1 .. n |-> g[m]] /\ \A m \in 1 .. n : g[m] = w[suffix + m]
      BY <2>7
    <2>9. Keep(w, T) = g
      <3>1. Kept(w, T) = suffix + 1 .. suffix + n
        BY <2>5 DEF T
      <3> HIDE DEF g
      <3> QED BY ONLY <2>2, <2>3, <2>8, <3>1, KeepSpan, SMTT(30)
    <2> QED BY <1>2, <2>1, <2>9 DEF T, n
  <1> QED BY <1>4, <1>5

(* A window's indices lead to its tokens, wherever the chunk begins.       *)
LEMMA WindowIs ==
  ASSUME NEW ring, NEW start \in Nat, NEW n \in Nat \ {0}, NEW k \in 0 .. n - 1, RingHolds(ring, start)
  PROVE  /\ Offset(start, n) \in Nat
         /\ WindowRead(ring, start, n) = [m \in 1 .. Offset(start, n) |-> WindowRead(ring, start, n)[m]]
         /\ WindowIndices(start, n, k) = [m \in 1 .. Width(start + k) |-> WindowIndices(start, n, k)[m]]
         /\ \A m \in 1 .. Width(start + k) :
              /\ WindowIndices(start, n, k)[m] \in 0 .. Offset(start, n) - 1
              /\ WindowRead(ring, start, n)[WindowIndices(start, n, k)[m] + 1]
                   = Token(start + k + 1 - Width(start + k) + m - 1)
  <1> DEFINE first == start + k + 1 - Width(start + k)
             width == Width(start + k)
             read == WindowRead(ring, start, n)
             idx == WindowIndices(start, n, k)
             off == Offset(start, n)
  <1>1. /\ Window \in Nat \ {0} /\ width \in 1 .. Window /\ first \in 0 .. start + k
        /\ Max({0, start + k + 1 - Window}) = first /\ start + k + 1 - first = width
        /\ first = IF Window <= start + k + 1 THEN start + k + 1 - Window ELSE 0
    <2> DEFINE p == start + k
    <2>1. p \in Nat /\ Window \in Nat \ {0}
      BY ScheduleIs
    <2> HIDE DEF p
    <2>2. /\ Max({0, p + 1 - Window}) = p + 1 - Width(p) /\ Width(p) \in 1 .. Window
          /\ p + 1 - Width(p) \in 0 .. p
          /\ p + 1 - Width(p) = IF Window <= p + 1 THEN p + 1 - Window ELSE 0
      BY <2>1, WidthIs
    <2>3. p + 1 - (p + 1 - Width(p)) = Width(p)
      BY <2>1, <2>2
    <2> QED BY <2>1, <2>2, <2>3 DEF p
  <1> SUFFICES /\ off \in Nat /\ read = [m \in 1 .. off |-> read[m]] /\ idx = [m \in 1 .. width |-> idx[m]]
               /\ \A m \in 1 .. width : idx[m] \in 0 .. off - 1 /\ read[idx[m] + 1] = Token(first + m - 1)
    OBVIOUS
  <1>2. CASE start = 0
    <2>1. off = n /\ read = Tokens(0, n) /\ idx = PrefillIndices(k)
      BY <1>2 DEF Offset, WindowRead, WindowIndices
    <2>2. Max({0, k + 1 - Window}) = first /\ k + 1 - first = width
      BY <1>1, <1>2
    <2> HIDE DEF first, width
    <2>3. idx = [m \in 1 .. width |-> first + m - 1]
      BY <2>1, <2>2 DEF PrefillIndices
    <2>4. read = [m \in 1 .. n |-> Token(0 + m - 1)]
      BY <2>1 DEF Tokens
    <2> HIDE DEF off, read, idx
    <2>5. ASSUME NEW m \in 1 .. width PROVE idx[m] \in 0 .. n - 1 /\ read[idx[m] + 1] = Token(first + m - 1)
      <3>1. idx[m] = first + m - 1
        BY <2>3
      <3>2. first + m - 1 \in 0 .. n - 1 /\ first + m - 1 + 1 \in 1 .. n /\ 0 + (first + m - 1 + 1) - 1 = first + m - 1
        BY <1>1, <1>2, <2>2
      <3> DEFINE j == first + m - 1
      <3> HIDE DEF j
      <3>3. read[j + 1] = Token(0 + (j + 1) - 1)
        BY <2>4, <3>2 DEF j
      <3> QED BY <3>1, <3>2, <3>3 DEF j
    <2> QED BY <2>1, <2>3, <2>4, <2>5
  <1>3. CASE start # 0 /\ n = 1
    <2>1. off = Window /\ read = AsSequence(WrittenRing(ring, start, n)) /\ idx = DecodeIndices(start) /\ k = 0
      BY <1>3 DEF Offset, WindowRead, WindowIndices
    <2>2. RingHolds(WrittenRing(ring, start, n), start + n)
      BY RingAt
    <2> DEFINE after == WrittenRing(ring, start, n)
    <2>3. start + k = start
      BY <2>1
    <2>4. idx = [m \in 1 .. width |-> (first + m - 1) % Window]
      <3>1. width = Width(start) /\ first = start + 1 - Width(start)
        BY <2>3
      <3> HIDE DEF first, width, idx
      <3>2. DecodeIndices(start) = [m \in 1 .. Width(start) |-> (start + 1 - Width(start) + m - 1) % Window]
        BY DecodeIs
      <3> QED BY <2>1, <3>1, <3>2
    <2> HIDE DEF first, width, off, read, idx, after
    <2>5. read = [m \in 1 .. Window |-> after[m - 1]]
      BY <2>1 DEF AsSequence, after
    <2>6. ASSUME NEW m \in 1 .. width
          PROVE  idx[m] \in 0 .. Window - 1 /\ read[idx[m] + 1] = Token(first + m - 1)
      <3> DEFINE j == first + m - 1
      <3>1. j \in Nat /\ j < start + n /\ start + n <= j + Window /\ j % Window \in 0 .. Window - 1
        <4>1. j \in Nat /\ j < start + n /\ start + n <= j + Window
          BY <1>1, <1>3, <2>1
        <4> HIDE DEF j
        <4> QED BY <1>1, <4>1, Division
      <3>2. idx[m] = j % Window
        BY <2>4
      <3> HIDE DEF j
      <3>3. after[j % Window] = Token(j)
        BY <2>2, <3>1 DEF RingHolds, after
      <3> DEFINE slot == j % Window
      <3>4. read[slot + 1] = after[slot + 1 - 1] /\ slot + 1 - 1 = slot
        <4> HIDE DEF slot
        <4>1. slot \in 0 .. Window - 1
          BY <3>1 DEF slot
        <4>2. slot + 1 \in 1 .. Window
          BY <1>1, <4>1
        <4> QED BY <2>5, <4>1, <4>2
      <3> QED BY <3>1, <3>2, <3>3, <3>4 DEF j
    <2> QED BY <1>1, <2>1, <2>4, <2>5, <2>6
  <1>4. CASE start # 0 /\ n # 1
    <2>1. off = Window + n /\ read = AsSequence(ring) \o Tokens(start, n) /\ idx = AppendIndices(start, k)
      BY <1>4 DEF Offset, WindowRead, WindowIndices
    <2> DEFINE f == AsSequence(ring)
               g == Tokens(start, n)
               physical(t) == IF t < start THEN t % Window ELSE Window + t - start
    <2>2. f = [m \in 1 .. Window |-> ring[m - 1]] /\ g = [m \in 1 .. n |-> Token(start + m - 1)]
      BY DEF AsSequence, Tokens
    <2> HIDE DEF first, width, off, read, idx
    <2>3. idx = [m \in 1 .. width |-> physical(first + m - 1)]
      BY <1>1, <2>1 DEF AppendIndices
    <2>4. read = [m \in 1 .. Window + n |-> IF m <= Window THEN f[m] ELSE g[m - Window]]
      <3>1. f = [m \in 1 .. Window |-> f[m]] /\ g = [m \in 1 .. n |-> g[m]] /\ Window \in Nat /\ n \in Nat
        BY <1>1, <2>2
      <3> HIDE DEF f, g
      <3>2. f \o g = [m \in 1 .. Window + n |-> IF m <= Window THEN f[m] ELSE g[m - Window]]
        BY ONLY <3>1, JoinIs, SMTT(30)
      <3> QED BY <2>1, <3>2 DEF f, g
    <2> HIDE DEF f, g
    <2>5. ASSUME NEW m \in 1 .. width
          PROVE  idx[m] \in 0 .. Window + n - 1 /\ read[idx[m] + 1] = Token(first + m - 1)
      <3> DEFINE spot == first + m - 1
      <3>1. idx[m] = physical(spot)
        BY <2>3
      <3>2. spot \in Nat /\ spot < start + n /\ start <= spot + Window
        BY <1>1
      <3> HIDE DEF spot
      <3>3. CASE spot < start
        <4> DEFINE slot == spot % Window
        <4>1. slot \in 0 .. Window - 1 /\ idx[m] = slot /\ ring[slot] = Token(spot)
          BY <1>1, <3>1, <3>2, <3>3, Division DEF RingHolds
        <4> HIDE DEF slot
        <4>2. slot + 1 \in 1 .. Window /\ slot + 1 \in 1 .. Window + n /\ slot + 1 <= Window /\ slot + 1 - 1 = slot
          BY <1>1, <4>1
        <4>3. read[slot + 1] = f[slot + 1]
          BY <2>4, <4>2
        <4> DEFINE t == slot + 1
        <4>6. t \in 1 .. Window /\ t - 1 = slot
          BY <1>1, <4>1, <4>2
        <4> HIDE DEF t
        <4>7. f[t] = ring[t - 1]
          BY <2>2, <4>6
        <4>4. f[slot + 1] = ring[slot]
          BY <4>6, <4>7 DEF t
        <4>5. slot \in 0 .. Window + n - 1
          BY <1>1, <4>1
        <4> QED BY <4>1, <4>2, <4>3, <4>4, <4>5 DEF spot
      <3>4. CASE ~(spot < start)
        <4> DEFINE j == spot - start + 1
        <4>1. idx[m] + 1 = Window + j /\ idx[m] \in 0 .. Window + n - 1
          BY <1>1, <3>1, <3>2, <3>4
        <4>2. j \in 1 .. n /\ start + j - 1 = spot /\ Window + j \in 1 .. Window + n
              /\ ~(Window + j <= Window) /\ Window + j - Window = j
          BY <1>1, <3>2, <3>4
        <4> HIDE DEF j, physical
        <4> DEFINE t == Window + j
        <4>5. t \in 1 .. Window + n /\ ~(t <= Window) /\ t - Window = j
          BY <1>1, <4>2 DEF t
        <4> HIDE DEF t
        <4>6. read[t] = g[t - Window]
          BY <2>4, <4>5
        <4>3. read[Window + j] = g[j]
          BY <4>5, <4>6 DEF t
        <4>4. g[j] = Token(start + j - 1)
          BY <2>2, <4>2
        <4> QED BY <4>1, <4>2, <4>3, <4>4 DEF spot
      <3> QED BY <3>3, <3>4
    <2>6. off \in Nat
      BY <1>1, <2>1
    <2>7. read = [m \in 1 .. off |-> read[m]]
      BY <2>1, <2>4
    <2>8. idx = [m \in 1 .. width |-> idx[m]]
      BY <2>3
    <2>9. \A m \in 1 .. width : idx[m] \in 0 .. off - 1 /\ read[idx[m] + 1] = Token(first + m - 1)
      <3> SUFFICES ASSUME NEW m \in 1 .. width
                   PROVE  idx[m] \in 0 .. off - 1 /\ read[idx[m] + 1] = Token(first + m - 1)
        OBVIOUS
      <3>1. off = Window + n
        BY <2>1
      <3>2. idx[m] \in 0 .. Window + n - 1 /\ read[idx[m] + 1] = Token(first + m - 1)
        BY <2>5
      <3>3. 0 .. Window + n - 1 = 0 .. off - 1
        BY <1>1, <3>1
      <3> QED BY ONLY <3>2, <3>3
    <2> QED BY ONLY <2>6, <2>7, <2>8, <2>9
  <1> QED BY <1>2, <1>3, <1>4

(* A read that goes to the window first and to the keys behind it after.   *)
ReadOf(read, keys, idx, sel) ==
  LET shared == read \o keys
      indices == idx \o sel
  IN  [m \in DOMAIN indices |-> shared[indices[m] + 1]]

ReadsLike(read, keys, idx, sel, past, groups, off, all, width, seen) ==
  /\ off \in Nat /\ all \in Nat /\ width \in Nat /\ seen \in 0 .. all
  /\ read = [m \in 1 .. off |-> read[m]] /\ keys = [m \in 1 .. all |-> keys[m]]
  /\ idx = [m \in 1 .. width |-> idx[m]] /\ sel = [m \in 1 .. seen |-> sel[m]]
  /\ past = [m \in 1 .. width |-> past[m]] /\ groups = [m \in 1 .. seen |-> groups[m]]
  /\ \A m \in 1 .. width : idx[m] \in 0 .. off - 1
  /\ \A m \in 1 .. seen : sel[m] = off + m - 1
  /\ \A m \in 1 .. width : past[m] = read[idx[m] + 1]
  /\ \A m \in 1 .. seen : groups[m] = keys[m]

LEMMA ReadIs ==
  ASSUME NEW read, NEW keys, NEW idx, NEW sel, NEW past, NEW groups,
         NEW off, NEW all, NEW width, NEW seen,
         ReadsLike(read, keys, idx, sel, past, groups, off, all, width, seen)
  PROVE  ReadOf(read, keys, idx, sel) = past \o groups
  <1> off \in Nat /\ all \in Nat /\ width \in Nat /\ seen \in 0 .. all /\ seen \in Nat
    <2>1. all \in Nat /\ seen \in 0 .. all
      BY DEF ReadsLike
    <2> QED BY <2>1 DEF ReadsLike
  <1> /\ \A m \in 1 .. width : idx[m] \in 0 .. off - 1
      /\ \A m \in 1 .. seen : sel[m] = off + m - 1
      /\ \A m \in 1 .. width : past[m] = read[idx[m] + 1]
      /\ \A m \in 1 .. seen : groups[m] = keys[m]
    BY DEF ReadsLike
  <1>2. /\ read = [m \in 1 .. off |-> read[m]] /\ keys = [m \in 1 .. all |-> keys[m]]
        /\ idx = [m \in 1 .. width |-> idx[m]] /\ sel = [m \in 1 .. seen |-> sel[m]]
        /\ past = [m \in 1 .. width |-> past[m]] /\ groups = [m \in 1 .. seen |-> groups[m]]
    BY DEF ReadsLike
  <1> DEFINE shared == read \o keys
             indices == idx \o sel
  <1>0. off \in Nat /\ all \in Nat /\ width \in Nat /\ seen \in Nat
    OBVIOUS
  <1>1. shared = [m \in 1 .. off + all |-> IF m <= off THEN read[m] ELSE keys[m - off]]
    BY ONLY <1>0, <1>2, JoinIs, SMTT(30)
  <1>3. indices = [m \in 1 .. width + seen |-> IF m <= width THEN idx[m] ELSE sel[m - width]]
    BY ONLY <1>0, <1>2, JoinIs, SMTT(30)
  <1>4. past \o groups = [m \in 1 .. width + seen |-> IF m <= width THEN past[m] ELSE groups[m - width]]
    BY ONLY <1>0, <1>2, JoinIs, SMTT(30)
  <1> HIDE DEF shared, indices
  <1>5. ASSUME NEW m \in 1 .. width + seen
        PROVE  shared[indices[m] + 1] = IF m <= width THEN past[m] ELSE groups[m - width]
    <2>1. CASE m <= width
      <3>1. indices[m] = idx[m] /\ m \in 1 .. width
        BY <1>3, <2>1
      <3> DEFINE j == idx[m]
      <3>2. j \in 0 .. off - 1 /\ off \in Nat /\ all \in Nat
        BY <3>1
      <3> HIDE DEF j
      <3>3. j + 1 \in 1 .. off + all /\ j + 1 <= off
        BY ONLY <3>2
      <3>4. shared[j + 1] = read[j + 1]
        BY <1>1, <3>3
      <3> QED BY <2>1, <3>1, <3>4 DEF j
    <2>2. CASE ~(m <= width)
      <3> DEFINE j == m - width
      <3>1. j \in 1 .. seen /\ indices[m] = sel[j]
        BY <1>3, <2>2
      <3> HIDE DEF j
      <3>2. sel[j] = off + j - 1
        BY <3>1
      <3>3. indices[m] + 1 = off + j /\ off + j \in 1 .. off + all /\ ~(off + j <= off) /\ off + j - off = j
        BY <3>1, <3>2
      <3> DEFINE t == off + j
      <3>4. t \in 1 .. off + all /\ ~(t <= off) /\ t - off = j
        BY <3>1, <3>3 DEF t
      <3> HIDE DEF t
      <3>5. shared[t] = keys[t - off]
        BY <1>1, <3>4
      <3>6. shared[off + j] = keys[j]
        BY <3>4, <3>5 DEF t
      <3>7. shared[off + j] = groups[j]
        BY <3>1, <3>3, <3>6
      <3> QED BY <2>2, <3>3, <3>7 DEF j
    <2> QED BY <2>1, <2>2
  <1>6. DOMAIN indices = 1 .. width + seen
    BY <1>3
  <1> DEFINE line == past \o groups
  <1>7. line = [m \in 1 .. width + seen |-> IF m <= width THEN past[m] ELSE groups[m - width]]
    BY <1>4
  <1> HIDE DEF line
  <1>8. \A m \in 1 .. width + seen : line[m] = IF m <= width THEN past[m] ELSE groups[m - width]
    BY <1>7
  <1>9. line = [m \in 1 .. width + seen |-> line[m]]
    BY <1>7
  <1>10. \A m \in 1 .. width + seen : shared[indices[m] + 1] = line[m]
    BY <1>5, <1>8
  <1>11. [m \in DOMAIN indices |-> shared[indices[m] + 1]] = line
    BY ONLY <1>6, <1>9, <1>10
  <1> QED BY <1>11 DEF shared, indices, line, ReadOf

LEMMA NoLine == ASSUME NEW none, none = 0
  PROVE  <<>> = [m \in 1 .. none |-> <<>>[m]]
  OBVIOUS

LEMMA KeysIs ==
  ASSUME NEW r \in {1, 2}, NEW end \in Nat
  PROVE  /\ end \div r \in Nat /\ Len(KeysTo(r, end)) = end \div r
         /\ KeysTo(r, end) = [g \in 1 .. end \div r |-> KeysTo(r, end)[g]]
         /\ \A g \in 1 .. end \div r : KeysTo(r, end)[g] = Tokens(r * (g - 1), r)
  <1> DEFINE f == KeysTo(r, end)
             n == end \div r
  <1>1. n \in Nat
    OBVIOUS
  <1>2. f = [g \in 1 .. n |-> Tokens(r * (g - 1), r)]
    BY DEF KeysTo
  <1> HIDE DEF f, n
  <1>3. f = [g \in 1 .. n |-> f[g]] /\ \A g \in 1 .. n : f[g] = Tokens(r * (g - 1), r)
    BY <1>2
  <1>4. Len(f) = n
    BY ONLY <1>1, <1>3, JoinIs
  <1> QED BY <1>1, <1>3, <1>4 DEF f, n

(* A query reads its own past, wherever its chunk begins and ends.         *)
LEMMA QueryIs ==
  ASSUME NEW i \in Layers, NEW ring, NEW start \in Nat, NEW n \in Nat \ {0}, NEW k \in 0 .. n - 1,
         NEW keys, RingHolds(ring, start),
         keys = IF Ratio(i) = 0 THEN <<>> ELSE KeysTo(Ratio(i), start + n)
  PROVE  ReadOf(WindowRead(ring, start, n), keys, WindowIndices(start, n, k),
                IF Ratio(i) = 0 THEN <<>> ELSE Selected(i, start, n, k))
           = Attendable(i, start + k)
  <1> DEFINE r == Ratio(i)
             p == start + k
             width == Width(p)
             first == p + 1 - width
             read == WindowRead(ring, start, n)
             idx == WindowIndices(start, n, k)
             off == Offset(start, n)
             all == IF r = 0 THEN 0 ELSE (start + n) \div r
             seen == IF r = 0 THEN 0 ELSE (p + 1) \div r
             sel == IF r = 0 THEN <<>> ELSE Selected(i, start, n, k)
             past == Tokens(first, width)
             groups == IF r = 0 THEN <<>> ELSE [g \in 1 .. (p + 1) \div r |-> Tokens(r * (g - 1), r)]
  <1>0. p \in Nat /\ r \in {0, 1, 2} /\ start + n \in Nat
    <2>1. Ratio(i) \in {0, 1, 2}
      BY RatioIs
    <2> QED BY <2>1
  <1>1. width \in Nat /\ first \in Nat
    <2> HIDE DEF p
    <2>1. Width(p) \in 1 .. Window /\ p + 1 - Width(p) \in 0 .. p /\ Window \in Nat
      BY <1>0, WidthIs, ScheduleIs
    <2> QED BY <1>0, <2>1
  <1>2. /\ off \in Nat /\ read = [m \in 1 .. off |-> read[m]] /\ idx = [m \in 1 .. width |-> idx[m]]
        /\ \A m \in 1 .. width : idx[m] \in 0 .. off - 1 /\ read[idx[m] + 1] = Token(first + m - 1)
    BY WindowIs
  <1>3. past = [m \in 1 .. width |-> Token(first + m - 1)]
    BY DEF Tokens
  <1>4. Attendable(i, p) = past \o groups
    <2>1. Min({Window, p + 1}) = Width(p)
      <3> HIDE DEF p
      <3> QED BY <1>0, WidthIs
    <2> HIDE DEF p
    <2> QED BY <2>1 DEF Attendable
  <1>5. seen \in 0 .. all /\ all \in Nat
    <2>1. CASE r = 0
      BY <2>1
    <2>2. CASE r = 1
      BY <2>2
    <2>3. CASE r = 2
      BY <2>3
    <2> QED BY <1>0, <2>1, <2>2, <2>3
  <1>6. keys = [m \in 1 .. all |-> keys[m]] /\ groups = [m \in 1 .. seen |-> groups[m]]
        /\ \A m \in 1 .. seen : groups[m] = keys[m]
    <2>1. CASE r = 0
      <3>1. keys = <<>> /\ groups = <<>> /\ all = 0 /\ seen = 0
        BY <2>1
      <3> HIDE DEF groups, all, seen
      <3> QED BY ONLY <3>1, NoLine
    <2>2. CASE r # 0
      <3>1. r \in {1, 2} /\ keys = KeysTo(r, start + n) /\ all = (start + n) \div r /\ seen = (p + 1) \div r
        BY <1>0, <2>2
      <3>2. groups = [g \in 1 .. seen |-> Tokens(r * (g - 1), r)]
        BY <2>2
      <3> DEFINE end == start + n
      <3> HIDE DEF groups, all, seen, r, p, end
      <3>3. /\ KeysTo(r, end) = [g \in 1 .. end \div r |-> KeysTo(r, end)[g]]
            /\ \A g \in 1 .. end \div r : KeysTo(r, end)[g] = Tokens(r * (g - 1), r)
        <4>1. end \in Nat
          BY <1>0 DEF end
        <4> QED BY <3>1, <4>1, KeysIs
      <3>4. keys = [m \in 1 .. all |-> keys[m]] /\ \A m \in 1 .. all : keys[m] = Tokens(r * (m - 1), r)
        BY <3>1, <3>3 DEF end
      <3>5. \A m \in 1 .. seen : m \in 1 .. all
        BY <1>5
      <3> QED BY <3>2, <3>4, <3>5
    <2> QED BY <2>1, <2>2
  <1>7. sel = [m \in 1 .. seen |-> sel[m]] /\ \A m \in 1 .. seen : sel[m] = off + m - 1
    <2>1. CASE r = 0
      <3>1. sel = <<>> /\ seen = 0
        BY <2>1
      <3> HIDE DEF sel, seen, off
      <3> QED BY ONLY <3>1, NoLine
    <2>2. CASE r # 0
      <3>1. sel = [m \in 1 .. seen |-> off + m - 1]
        BY <2>2 DEF Selected
      <3> HIDE DEF sel, seen, off
      <3> QED BY <3>1
    <2> QED BY <2>1, <2>2
  <1> HIDE DEF p, width, first, read, idx, off, all, seen, sel, groups, past
  <1>8. past = [m \in 1 .. width |-> past[m]] /\ \A m \in 1 .. width : past[m] = read[idx[m] + 1]
    BY <1>2, <1>3
  <1>9. ReadOf(read, keys, idx, sel) = past \o groups
    <2>1. ReadsLike(read, keys, idx, sel, past, groups, off, all, width, seen)
      <3>1. \A m \in 1 .. width : idx[m] \in 0 .. off - 1
        BY <1>2
      <3> QED BY ONLY <1>1, <1>2, <1>5, <1>6, <1>7, <1>8, <3>1 DEF ReadsLike
    <2> QED BY ONLY <2>1, ReadIs
  <1> QED BY <1>4, <1>9 DEF p, read, idx, sel, r

----------------------------------------------------------------------------
(***************************************************************************)
(* The same, of the tokens of the b-th construction of the request.        *)
(***************************************************************************)
TokensOf(b, start, n) == [k \in 1 .. n |-> <<b, start + k - 1>>]
KeysOf(b, r, end) == [g \in 1 .. end \div r |-> TokensOf(b, r * (g - 1), r)]
AttendableOf(b, i, p) ==
  LET w == Min({Window, p + 1})
  IN  TokensOf(b, p + 1 - w, w)
      \o (IF Ratio(i) = 0 THEN <<>>
          ELSE [g \in 1 .. (p + 1) \div Ratio(i) |-> TokensOf(b, Ratio(i) * (g - 1), Ratio(i))])

LayerOf(b, i, l, end, count) ==
  /\ l = [heard |-> l.heard, held |-> l.held, keys |-> l.keys, taken |-> l.taken,
          published |-> l.published, ring |-> l.ring, next |-> l.next, calls |-> l.calls]
  /\ Layer(i).engram => l.heard = TokensOf(b, 0, end)
  /\ Owns(i) => l.taken = end /\ l.published = count /\ l.keys = KeysOf(b, Ratio(i), end)
  /\ Owns(i) /\ Ratio(i) = 2 /\ end % 2 = 1 => l.held[1] = <<b, end - 1>>
  /\ \A p \in Nat : p < end /\ end <= p + Window => l.ring[p % Window] = <<b, p>>
  /\ l.next = end /\ l.calls = count

LEMMA OfBuilt ==
  /\ \A p : Token(p) = <<built, p>>
  /\ \A start, n : Tokens(start, n) = TokensOf(built, start, n)
  /\ \A r, end : KeysTo(r, end) = KeysOf(built, r, end)
  /\ \A i, p : Attendable(i, p) = AttendableOf(built, i, p)
  /\ \A i, l, end, count : LayerAt(i, l, end, count) <=> LayerOf(built, i, l, end, count)
  <1>1. \A p : Token(p) = <<built, p>>
    BY DEF Token
  <1>2. \A start, n : Tokens(start, n) = TokensOf(built, start, n)
    BY DEF Tokens, TokensOf, Token
  <1>3. \A r, end : KeysTo(r, end) = KeysOf(built, r, end)
    BY DEF KeysTo, KeysOf, Tokens, TokensOf, Token
  <1>4. \A i, p : Attendable(i, p) = AttendableOf(built, i, p)
    BY DEF Attendable, AttendableOf, Tokens, TokensOf, Token
  <1>5. ASSUME NEW i, NEW l, NEW end, NEW count
        PROVE  LayerAt(i, l, end, count) <=> LayerOf(built, i, l, end, count)
    <2>1. KeysTo(Ratio(i), end) = KeysOf(built, Ratio(i), end) /\ Tokens(0, end) = TokensOf(built, 0, end)
          /\ Token(end - 1) = <<built, end - 1>>
      BY <1>1, <1>2, <1>3
    <2>2. RingHolds(l.ring, end)
            <=> \A p \in Nat : p < end /\ end <= p + Window => l.ring[p % Window] = <<built, p>>
      BY DEF RingHolds, Token
    <2> QED BY ONLY <2>1, <2>2 DEF LayerAt, LayerOf
  <1> QED BY ONLY <1>1, <1>2, <1>3, <1>4, <1>5

LEMMA FreshIs ==
  ASSUME NEW b, NEW i \in Layers
  PROVE  LayerOf(b, i, FreshLayer, 0, 0)
  <1> DEFINE none == 0
             l == FreshLayer
  <1>1. <<>> = TokensOf(b, 0, none)
    BY DEF TokensOf
  <1>2. Owns(i) => <<>> = KeysOf(b, Ratio(i), none)
    <2> SUFFICES ASSUME Owns(i) PROVE <<>> = KeysOf(b, Ratio(i), none)
      OBVIOUS
    <2>1. Ratio(i) \in {1, 2}
      BY RatioIs
    <2>2. none \div Ratio(i) = 0
      BY <2>1
    <2> QED BY <2>2 DEF KeysOf
  <1>3. /\ l.heard = <<>> /\ l.keys = <<>> /\ l.taken = 0 /\ l.published = 0 /\ l.next = 0 /\ l.calls = 0
        /\ l = [heard |-> l.heard, held |-> l.held, keys |-> l.keys, taken |-> l.taken,
                published |-> l.published, ring |-> l.ring, next |-> l.next, calls |-> l.calls]
    BY DEF FreshLayer
  <1> HIDE DEF l
  <1>4. 0 % 2 # 1 /\ \A p \in Nat : ~(p < 0)
    OBVIOUS
  <1>5. LayerOf(b, i, l, 0, 0)
    BY <1>1, <1>2, <1>3, <1>4 DEF LayerOf
  <1> QED BY <1>5 DEF l

----------------------------------------------------------------------------
(* The inductive invariant: what `prior`, the layers and the step hold.    *)
CallsOf(start, before) == IF start = 0 THEN 0 ELSE before.id + 1

PublicationOf(b, i, start, n, count) ==
  IF Ratio(i) = 0 THEN [keys |-> <<>>, id |-> 0, start |-> start]
  ELSE [keys |-> KeysOf(b, Ratio(i), start + n), id |-> count, start |-> start]

OutOf(b, i, out, start, n, count) ==
  /\ out.publication = PublicationOf(b, i, start, n, count)
  /\ \A k \in 0 .. n - 1 : out.reads[k] = AttendableOf(b, i, start + k)
  /\ Layer(i).kind = "ratio two owner" =>
       /\ Len(out.scored) = (start + n) \div 2
       /\ \A g \in DOMAIN out.scored : \A s \in DOMAIN out.scored[g] :
            out.scored[g][s] \in {<<b, p>> : p \in 0 .. 2 * g - 1}

SessionPlaces ==
  /\ fault \in {"none", "outside"} /\ DOMAIN layers = Layers
  /\ nextStart \in 0 .. MaxTokens /\ positions \in 0 .. MaxTokens /\ remaining \in 0 .. MaxTokens
  /\ nextStart + remaining <= MaxTokens /\ nextStart # 1
  /\ nextStart = 0 => remaining # 1

PriorIs ==
  IF nextStart = 0 THEN prior = NoPrior
  ELSE prior.id \in Nat /\ prior = [source |-> PreviousOwner, id |-> prior.id, keys |-> KeysOf(built, 1, nextStart)]

MarksAgree ==
  /\ poisoned \/ remaining # 0 => refuses
  /\ poisoned /\ remaining # 0 => step # NoRun
  /\ step # NoRun => poisoned
  /\ ~refuses => positions = nextStart

LayersAgree == ~poisoned =>
  \A i \in Layers : LayerOf(built, i, layers[i], nextStart, CallsOf(nextStart, prior))

RunFits == step # NoRun =>
  /\ step = [start |-> nextStart, n |-> step.n, layer |-> step.layer, outs |-> step.outs]
  /\ step.n \in 1 .. remaining /\ (nextStart = 0 => step.n # 1)
  /\ step.layer \in 0 .. Len(Schedule) + 1
  /\ step.outs = [j \in 1 .. step.layer |-> step.outs[j]]
  /\ \A i \in Layers :
       IF i < step.layer
       THEN /\ LayerOf(built, i, layers[i], nextStart + step.n, CallsOf(nextStart, prior) + 1)
            /\ OutOf(built, i, step.outs[i + 1], nextStart, step.n, CallsOf(nextStart, prior))
       ELSE LayerOf(built, i, layers[i], nextStart, CallsOf(nextStart, prior))

SessionInv == SessionPlaces /\ PriorIs /\ MarksAgree /\ LayersAgree /\ RunFits

LEMMA OneMore ==
  ASSUME NEW n \in Nat, NEW s, s = [j \in 1 .. n |-> s[j]], NEW x
  PROVE  /\ Append(s, x) = [j \in 1 .. n + 1 |-> Append(s, x)[j]]
         /\ \A j \in 1 .. n : Append(s, x)[j] = s[j]
         /\ Append(s, x)[n + 1] = x
  <1> DEFINE T == {s[j] : j \in 1 .. n} \cup {x}
             t == Append(s, x)
  <1>1. x \in T /\ \A j \in 1 .. n : s[j] \in T
    OBVIOUS
  <1> HIDE DEF T
  <1>2. s \in [1 .. n -> T]
    BY <1>1
  <1>3. s \in Seq(T) /\ Len(s) = n
    <2>1. s \in Seq(T)
      BY <1>2, SeqDef
    <2>2. DOMAIN s = 1 .. n
      BY <1>2
    <2> QED BY <2>1, <2>2, LenProperties
  <1>4. /\ t \in Seq(T) /\ Len(t) = Len(s) + 1
        /\ \A j \in 1 .. Len(s) : t[j] = s[j]
        /\ t[Len(s) + 1] = x
    BY <1>1, <1>3, AppendProperties
  <1> HIDE DEF t
  <1>5. DOMAIN t = 1 .. n + 1 /\ t \in [1 .. Len(t) -> T]
    BY <1>3, <1>4, LenProperties
  <1>6. t = [j \in 1 .. n + 1 |-> t[j]]
    BY <1>3, <1>4, <1>5
  <1> QED BY <1>3, <1>4, <1>6 DEF t

(* The step at its next layer.                                             *)
Running == SessionInv /\ step # NoRun /\ step.layer \in Layers

LEMMA RunningIs ==
  ASSUME Running
  PROVE  /\ nextStart \in Nat /\ step.n \in Nat \ {0} /\ step.start = nextStart
         /\ CallsOf(nextStart, prior) \in Nat /\ (nextStart = 0 => CallsOf(nextStart, prior) = 0)
         /\ LayerAt(step.layer, layers[step.layer], nextStart, CallsOf(nextStart, prior))
         /\ nextStart + step.n <= MaxTokens
         /\ poisoned
  <1> USE DEF Running
  <1>1. nextStart \in 0 .. MaxTokens /\ remaining \in 0 .. MaxTokens /\ nextStart + remaining <= MaxTokens
        /\ step.n \in 1 .. remaining /\ step.start = nextStart /\ poisoned
    BY DEF SessionInv, SessionPlaces, RunFits, MarksAgree
  <1>2. MaxTokens \in Nat
    BY ScheduleIs
  <1>3. CallsOf(nextStart, prior) \in Nat /\ (nextStart = 0 => CallsOf(nextStart, prior) = 0)
    <2>1. CASE nextStart = 0
      BY <2>1 DEF CallsOf
    <2>2. CASE nextStart # 0
      <3>1. prior.id \in Nat
        BY <2>2 DEF SessionInv, PriorIs
      <3> QED BY <2>2, <3>1 DEF CallsOf
    <2> QED BY <2>1, <2>2
  <1>4. LayerOf(built, step.layer, layers[step.layer], nextStart, CallsOf(nextStart, prior))
    <2> DEFINE i == step.layer
    <2>1. i \in Layers /\ Layers = 0 .. Len(Schedule) /\ Len(Schedule) \in Nat
      BY ScheduleIs
    <2>2. ~(i < step.layer)
      BY <2>1
    <2> QED BY <2>1, <2>2 DEF SessionInv, RunFits
  <1>5. LayerAt(step.layer, layers[step.layer], nextStart, CallsOf(nextStart, prior))
    BY <1>4, OfBuilt
  <1>6. nextStart \in Nat /\ step.n \in Nat \ {0} /\ nextStart + step.n <= MaxTokens
    BY <1>1, <1>2
  <1> QED BY <1>1, <1>3, <1>5, <1>6

(* What the attention is given is this step's publication.                 *)
LEMMA PublicationIs ==
  ASSUME Running
  PROVE  Publication(step.layer)
           = PublicationOf(built, step.layer, nextStart, step.n, CallsOf(nextStart, prior))
  <1> DEFINE i == step.layer
             n == step.n
             count == CallsOf(nextStart, prior)
             l == layers[i]
  <1>1. /\ nextStart \in Nat /\ n \in Nat \ {0} /\ step.start = nextStart /\ count \in Nat
        /\ (nextStart = 0 => count = 0) /\ LayerAt(i, l, nextStart, count)
    BY RunningIs
  <1>2. i \in Layers
    BY DEF Running
  <1>3. CASE Ratio(i) = 0
    BY <1>1, <1>3 DEF Publication, PublicationOf
  <1>4. CASE Ratio(i) # 0 /\ Owns(i)
    <2>1. Publication(i) = [keys |-> Owned(l, i, n).keys, id |-> l.published, start |-> l.taken]
      BY <1>4 DEF Publication
    <2>2. Owned(l, i, n).keys = KeysTo(Ratio(i), nextStart + n)
      <3> HIDE DEF i, n, l, count
      <3> QED BY ONLY <1>1, <1>2, <1>4, OwnedKeys
    <2>3. l.published = count /\ l.taken = nextStart
      BY <1>1, <1>4 DEF LayerAt
    <2>4. KeysTo(Ratio(i), nextStart + n) = KeysOf(built, Ratio(i), nextStart + n)
      BY OfBuilt
    <2> HIDE DEF i, n, l, count
    <2>5. Publication(i) = PublicationOf(built, i, nextStart, n, count)
      BY <1>4, <2>1, <2>2, <2>3, <2>4 DEF PublicationOf
    <2> QED BY <2>5 DEF i, n, count
  <1>5. CASE Ratio(i) # 0 /\ ~Owns(i)
    <2> DEFINE o == LatestOwner(i)
               p == step.outs[o + 1].publication
    <2>1. o \in Layers /\ o < i /\ Ratio(o) = Ratio(i)
      <3> HIDE DEF i
      <3> QED BY <1>2, <1>5, OwnersAre
    <2>2. p = PublicationOf(built, o, nextStart, n, count)
      <3> HIDE DEF o
      <3> QED BY <2>1 DEF Running, SessionInv, RunFits, OutOf
    <2>3. Publication(i) = [p EXCEPT !.start = nextStart]
      BY <1>1, <1>5 DEF Publication
    <2> DEFINE keys == KeysOf(built, Ratio(i), nextStart + n)
    <2> HIDE DEF i, n, count, o, p
    <2>4. p = [keys |-> keys, id |-> count, start |-> nextStart]
      BY <1>5, <2>1, <2>2 DEF PublicationOf
    <2> HIDE DEF keys
    <2>5. Publication(i) = [keys |-> keys, id |-> count, start |-> nextStart]
      BY ONLY <2>3, <2>4
    <2>6. Publication(i) = PublicationOf(built, i, nextStart, n, count)
      BY <1>5, <2>5 DEF PublicationOf, keys
    <2> QED BY <2>6 DEF i, n, count
  <1> QED BY <1>3, <1>4, <1>5

(* What each query of the step reads.                                      *)
LEMMA ReadsAre ==
  ASSUME Running, NEW k \in 0 .. step.n - 1
  PROVE  ReadBy(step.layer, Publication(step.layer), k) = AttendableOf(built, step.layer, nextStart + k)
  <1> DEFINE i == step.layer
             n == step.n
             l == layers[i]
             p == Publication(i)
             ring == l.ring
             keys == p.keys
  <1>1. /\ nextStart \in Nat /\ n \in Nat \ {0} /\ i \in Layers /\ k \in 0 .. n - 1
    BY RunningIs DEF Running
  <1>2. RingHolds(ring, nextStart)
    BY RunningIs DEF LayerAt
  <1>3. p = PublicationOf(built, i, nextStart, n, CallsOf(nextStart, prior))
    BY PublicationIs
  <1>4. p.start = nextStart
    BY <1>3 DEF PublicationOf
  <1>5. keys = IF Ratio(i) = 0 THEN <<>> ELSE KeysTo(Ratio(i), nextStart + n)
    <2>1. KeysTo(Ratio(i), nextStart + n) = KeysOf(built, Ratio(i), nextStart + n)
      BY OfBuilt
    <2> HIDE DEF i, n, p
    <2> QED BY <1>3, <2>1 DEF PublicationOf
  <1> DEFINE read == ReadOf(WindowRead(ring, nextStart, n), keys, WindowIndices(nextStart, n, k),
                            IF Ratio(i) = 0 THEN <<>> ELSE Selected(i, nextStart, n, k))
  <1>6. ReadBy(i, p, k) = read
    BY <1>4 DEF ReadBy, ReadOf
  <1>7. read = Attendable(i, nextStart + k)
    <2> HIDE DEF i, n, ring, keys
    <2> QED BY ONLY <1>1, <1>2, <1>5, QueryIs
  <1>8. Attendable(i, nextStart + k) = AttendableOf(built, i, nextStart + k)
    BY OfBuilt
  <1> QED BY <1>6, <1>7, <1>8

(* Keys scored for a group that is not whole are those before it.          *)
LEMMA ScoredIs ==
  ASSUME Running, Owns(step.layer), Ratio(step.layer) = 2
  PROVE  LET scored == Scored(layers[step.layer], step.layer, step.n)
         IN  /\ Len(scored) = (nextStart + step.n) \div 2
             /\ \A g \in DOMAIN scored : \A s \in DOMAIN scored[g] :
                  scored[g][s] \in {<<built, p>> : p \in 0 .. 2 * g - 1}
  <1> DEFINE i == step.layer
             n == step.n
             l == layers[i]
             end == nextStart + n
             scored == Scored(l, i, n)
  <1> SUFFICES /\ Len(scored) = end \div 2
               /\ \A g \in DOMAIN scored : \A s \in DOMAIN scored[g] :
                    scored[g][s] \in {<<built, p>> : p \in 0 .. 2 * g - 1}
    OBVIOUS
  <1>0. nextStart \in Nat /\ n \in Nat \ {0}
    BY RunningIs
  <1>1. LayerAt(i, l, nextStart, CallsOf(nextStart, prior))
    BY RunningIs
  <1>2. i \in Layers
    BY DEF Running
  <1>3. Owns(i) /\ Ratio(i) = 2
    OBVIOUS
  <1>4. l.taken = nextStart /\ l.keys = KeysTo(2, nextStart)
    BY <1>1, <1>3 DEF LayerAt
  <1>5. nextStart = 0 => n # 1
    BY DEF Running, SessionInv, RunFits
  <1>6. Owned(l, i, n).keys = KeysTo(2, end)
    <2> HIDE DEF i, n, l
    <2>1. Owned(l, i, n).keys = KeysTo(Ratio(i), nextStart + n)
      BY ONLY <1>0, <1>1, <1>2, <1>3, OwnedKeys
    <2> QED BY <1>3, <2>1
  <1>7. CompletesGroup(nextStart, n) <=> end \div 2 # nextStart \div 2
    BY DEF CompletesGroup
  <1> HIDE DEF i, n, l
  <1>8. /\ Len(KeysTo(2, end)) = end \div 2 /\ DOMAIN KeysTo(2, end) = 1 .. end \div 2
        /\ \A g \in 1 .. end \div 2 : KeysTo(2, end)[g] = [s \in 1 .. 2 |-> <<built, 2 * (g - 1) + s - 1>>]
    <2>1. end \in Nat
      BY <1>0
    <2> HIDE DEF end
    <2>2. /\ Len(KeysTo(2, end)) = end \div 2
          /\ KeysTo(2, end) = [g \in 1 .. end \div 2 |-> KeysTo(2, end)[g]]
          /\ \A g \in 1 .. end \div 2 : KeysTo(2, end)[g] = Tokens(2 * (g - 1), 2)
      BY <2>1, KeysIs
    <2> QED BY <2>2 DEF Tokens, Token
  <1>9. CASE CompletesGroup(nextStart, n)
    <2>1. scored = KeysTo(2, end)
      BY <1>4, <1>6, <1>9 DEF Scored
    <2> HIDE DEF scored, end
    <2>2. ASSUME NEW g \in 1 .. end \div 2, NEW s \in 1 .. 2
          PROVE  KeysTo(2, end)[g][s] \in {<<built, p>> : p \in 0 .. 2 * g - 1}
      <3>1. KeysTo(2, end)[g][s] = <<built, 2 * (g - 1) + s - 1>>
        <4> DEFINE f == KeysTo(2, end)[g]
        <4>1. f = [t \in 1 .. 2 |-> <<built, 2 * (g - 1) + t - 1>>]
          BY <1>8
        <4> HIDE DEF f
        <4>2. f[s] = <<built, 2 * (g - 1) + s - 1>>
          BY ONLY <4>1
        <4> QED BY <4>2 DEF f
      <3>2. 2 * (g - 1) + s - 1 \in 0 .. 2 * g - 1
        BY <1>0 DEF end
      <3> QED BY <3>1, <3>2
    <2>3. \A g \in 1 .. end \div 2 : DOMAIN KeysTo(2, end)[g] = 1 .. 2
      BY <1>8
    <2>4. \A g \in DOMAIN scored : \A s \in DOMAIN scored[g] :
            scored[g][s] \in {<<built, p>> : p \in 0 .. 2 * g - 1}
      BY <1>8, <2>1, <2>2, <2>3
    <2> QED BY <1>8, <2>1, <2>4
  <1>10. CASE ~CompletesGroup(nextStart, n)
    <2> DEFINE m == nextStart \div 2
    <2>1. m \in Nat /\ end \div 2 = m /\ nextStart # 0 /\ m <= nextStart
      <3>1. end \div 2 = nextStart \div 2
        BY <1>7, <1>10
      <3>2. nextStart # 0
        BY <1>0, <1>5, <3>1
      <3> QED BY <1>0, <3>1, <3>2
    <2>2. prior.keys = KeysTo(1, nextStart)
      <3>1. prior = [source |-> PreviousOwner, id |-> prior.id, keys |-> KeysOf(built, 1, nextStart)]
        BY <2>1 DEF Running, SessionInv, PriorIs
      <3>2. KeysTo(1, nextStart) = KeysOf(built, 1, nextStart)
        BY OfBuilt
      <3> QED BY <3>1, <3>2
    <2>3. Len(l.keys) = m
      <3>1. Len(KeysTo(2, nextStart)) = nextStart \div 2
        BY <1>0, KeysIs
      <3> QED BY <1>4, <3>1
    <2>4. scored = SubSeq(KeysTo(1, nextStart), 1, m)
      BY <1>4, <1>10, <2>2, <2>3 DEF Scored
    <2>5. ASSUME NEW g \in 1 .. m
          PROVE  KeysTo(1, nextStart)[g] = [s \in 1 .. 1 |-> <<built, 1 * (g - 1) + s - 1>>]
      <3>1. nextStart \div 1 = nextStart
        BY <1>0
      <3>2. g \in 1 .. nextStart \div 1
        BY <1>0, <2>1, <3>1
      <3>3. KeysTo(1, nextStart)[g] = Tokens(1 * (g - 1), 1)
        <4>1. \A j \in 1 .. nextStart \div 1 : KeysTo(1, nextStart)[j] = Tokens(1 * (j - 1), 1)
          BY <1>0, KeysIs
        <4> QED BY <3>2, <4>1
      <3> QED BY <3>3 DEF Tokens, Token
    <2> DEFINE all == KeysTo(1, nextStart)
               one == 1
    <2> HIDE DEF all, m, scored, end
    <2>6. scored = [j \in 1 .. m |-> all[j]] /\ Len(scored) = m
      <3>1. one \in Int /\ m \in Int /\ one <= m + 1
        BY <2>1
      <3>2. m - one + 1 = m /\ \A j \in 1 .. m : one + j - 1 = j
        BY <2>1
      <3>3. scored = SubSeq(all, one, m)
        BY <2>4 DEF all
      <3> HIDE DEF one
      <3>4. /\ SubSeq(all, one, m) = [j \in 1 .. m - one + 1 |-> all[one + j - 1]]
            /\ Len(SubSeq(all, one, m)) = m - one + 1
        BY <3>1, SubSeqIs
      <3> QED BY <3>2, <3>3, <3>4
    <2>7. ASSUME NEW g \in 1 .. m, NEW s \in 1 .. 1
          PROVE  all[g][s] \in {<<built, p>> : p \in 0 .. 2 * g - 1}
      <3>1. all[g][s] = <<built, 1 * (g - 1) + s - 1>>
        BY <2>5, ZenonT(30) DEF all
      <3>2. 1 * (g - 1) + s - 1 \in 0 .. 2 * g - 1
        BY <2>1
      <3> QED BY <3>1, <3>2
    <2>8. \A g \in 1 .. m : DOMAIN all[g] = 1 .. 1
      BY <2>5 DEF all
    <2>9. \A g \in DOMAIN scored : \A s \in DOMAIN scored[g] :
            scored[g][s] \in {<<built, p>> : p \in 0 .. 2 * g - 1}
      BY <2>6, <2>7, <2>8
    <2> QED BY <2>1, <2>6, <2>9
  <1> QED BY <1>9, <1>10

(* No check of the stages refuses the call.                                *)
LEMMA OwnerAcceptsIs ==
  ASSUME Running, Owns(step.layer)
  PROVE  LET i == step.layer
             l == layers[i]
         IN  /\ Len(l.keys) = l.taken \div Ratio(i)
             /\ (l.taken + step.n) \div Ratio(i) <= (MaxTokens + Ratio(i) - 1) \div Ratio(i)
             /\ Ratio(i) = 2 /\ ~CompletesGroup(nextStart, step.n) => ScoreAccepts(l, step.n)
  <1> DEFINE i == step.layer
             n == step.n
             l == layers[i]
             end == l.taken + n
             r == Ratio(i)
             count == CallsOf(nextStart, prior)
  <1>1. /\ nextStart \in Nat /\ n \in Nat \ {0} /\ nextStart + n <= MaxTokens /\ count \in Nat
    BY RunningIs
  <1>2. i \in Layers /\ r \in {1, 2}
    BY RatioIs DEF Running
  <1>3. l.taken = nextStart /\ l.published = count /\ l.keys = KeysTo(r, nextStart)
    BY RunningIs DEF LayerAt
  <1>4. nextStart = 0 => n # 1
    BY DEF Running, SessionInv, RunFits
  <1>6. nextStart # 0 => /\ count = prior.id + 1 /\ prior.id \in Nat /\ prior.source = PreviousOwner
                         /\ prior.keys = KeysTo(1, nextStart)
    <2> SUFFICES ASSUME nextStart # 0
                 PROVE  /\ count = prior.id + 1 /\ prior.id \in Nat /\ prior.source = PreviousOwner
                        /\ prior.keys = KeysTo(1, nextStart)
      OBVIOUS
    <2>1. prior.id \in Nat /\ prior = [source |-> PreviousOwner, id |-> prior.id, keys |-> KeysOf(built, 1, nextStart)]
      BY DEF Running, SessionInv, PriorIs
    <2>2. KeysTo(1, nextStart) = KeysOf(built, 1, nextStart)
      BY OfBuilt
    <2> QED BY <2>1, <2>2 DEF CallsOf
  <1>7. Len(l.keys) = nextStart \div r
    <2> HIDE DEF r
    <2> QED BY <1>1, <1>2, <1>3, KeysIs
  <1>8. CompletesGroup(nextStart, n) <=> (nextStart + n) \div 2 # nextStart \div 2
    BY DEF CompletesGroup
  <1>9. nextStart # 0 => Len(prior.keys) = nextStart
    <2>1. nextStart \div 1 = nextStart /\ Len(KeysTo(1, nextStart)) = nextStart \div 1
      BY <1>1, KeysIs
    <2> QED BY <1>6, <2>1
  <1>10. PreviousOwner # 0
    BY OwnersAre
  <1>11. nextStart # 1 /\ MaxTokens \in Nat
    BY ScheduleIs DEF Running, SessionInv, SessionPlaces
  <1> HIDE DEF i, n, l, r, count
  <1>12. end \div r <= (MaxTokens + r - 1) \div r
    BY <1>1, <1>2, <1>3, <1>11
  <1>13. ASSUME r = 2, ~CompletesGroup(nextStart, n) PROVE ScoreAccepts(l, n)
    <2>1. nextStart # 0 /\ nextStart \div 2 # 0
      BY <1>1, <1>4, <1>8, <1>11, <1>13
    <2>2. prior # NoPrior
      BY <1>6, <1>10, <2>1 DEF NoPrior
    <2>3. l.published >= 1 /\ prior.id = l.published - 1 /\ prior.source = PreviousOwner
      BY <1>3, <1>6, <2>1
    <2>4. Len(prior.keys) = l.taken /\ Len(l.keys) # 0
      BY <1>3, <1>7, <1>9, <1>13, <2>1
    <2> QED BY <2>2, <2>3, <2>4 DEF ScoreAccepts
  <1>14. Len(l.keys) = l.taken \div r
    BY <1>3, <1>7
  <1> QED BY <1>12, <1>13, <1>14 DEF i, n, l, r

LEMMA AttentionAcceptsIs ==
  ASSUME Running
  PROVE  AttentionAccepts(step.layer)
  <1> DEFINE i == step.layer
             n == step.n
             l == layers[i]
             r == Ratio(i)
             count == CallsOf(nextStart, prior)
             p == Publication(i)
             read == WindowRead(l.ring, nextStart, n)
             off == Offset(nextStart, n)
  <1>1. nextStart \in Nat /\ n \in Nat \ {0} /\ count \in Nat /\ (nextStart = 0 => count = 0)
    BY RunningIs
  <1>2. l.next = nextStart /\ l.calls = count /\ RingHolds(l.ring, nextStart)
    BY RunningIs DEF LayerAt
  <1>3. r \in {0, 1, 2}
    <2>1. i \in Layers
      BY DEF Running
    <2> HIDE DEF i
    <2>2. Ratio(i) \in {0, 1, 2}
      BY <2>1, RatioIs
    <2> QED BY <2>2
  <1>4. p = PublicationOf(built, i, nextStart, n, count)
    BY PublicationIs
  <1>5. p.start = nextStart /\ (r # 0 => p.id = count /\ p.keys = KeysOf(built, r, nextStart + n))
    <2> HIDE DEF p, count, n, i
    <2> QED BY <1>4 DEF PublicationOf
  <1>6. KeysTo(r, nextStart + n) = KeysOf(built, r, nextStart + n)
    BY OfBuilt
  <1>7. Len(read) = off /\ off \in Nat
    <2> DEFINE ring == l.ring
               none == 0
    <2>1. none \in 0 .. n - 1 /\ RingHolds(ring, nextStart)
      BY <1>1, <1>2
    <2> HIDE DEF n, ring, none
    <2>2. /\ Offset(nextStart, n) \in Nat
          /\ WindowRead(ring, nextStart, n) = [m \in 1 .. Offset(nextStart, n) |-> WindowRead(ring, nextStart, n)[m]]
      BY <1>1, <2>1, WindowIs
    <2> DEFINE f == WindowRead(ring, nextStart, n)
    <2> HIDE DEF f, off
    <2>3. off \in Nat /\ f = [m \in 1 .. off |-> f[m]]
      BY <2>2 DEF f, off
    <2>4. Len(f) = off
      BY ONLY <2>3, JoinIs
    <2> QED BY <2>3, <2>4 DEF f, ring
  <1> HIDE DEF i, n, l, r, count, p, read, off
  <1>8. r # 0 => Len(p.keys) = (nextStart + n) \div r
    <2> SUFFICES ASSUME r # 0 PROVE Len(p.keys) = (nextStart + n) \div r
      OBVIOUS
    <2> DEFINE end == nextStart + n
    <2>1. r \in {1, 2} /\ end \in Nat /\ p.keys = KeysTo(r, end)
      BY <1>1, <1>3, <1>5, <1>6
    <2> HIDE DEF end
    <2>2. Len(KeysTo(r, end)) = end \div r
      BY <2>1, KeysIs
    <2> QED BY <2>1, <2>2 DEF end
  <1>9. ASSUME r # 0, NEW k \in 0 .. n - 1, NEW g \in DOMAIN Selected(i, nextStart, n, k)
        PROVE  Selected(i, nextStart, n, k)[g] - off \in 0 .. (nextStart + k + 1) \div r - 1
    <2> DEFINE top == (nextStart + k + 1) \div r
    <2>1. Selected(i, nextStart, n, k) = [j \in 1 .. top |-> off + j - 1]
      BY DEF Selected, off, r
    <2>4. top \in Nat
      BY <1>1, <1>3, <1>9
    <2> HIDE DEF top
    <2>2. g \in 1 .. top /\ Selected(i, nextStart, n, k)[g] = off + g - 1
      BY <2>1
    <2>3. off + g - 1 - off \in 0 .. top - 1
      BY <1>7, <2>2, <2>4
    <2> DEFINE v == Selected(i, nextStart, n, k)[g]
    <2>5. v = off + g - 1
      BY <2>2
    <2> HIDE DEF v
    <2>6. v - off \in 0 .. top - 1
      BY <1>7, <2>2, <2>4, <2>5
    <2> QED BY <2>6 DEF top, v
  <1>10. r # 0 => p.id = IF nextStart = 0 THEN 0 ELSE l.calls
    BY <1>1, <1>2, <1>5
  <1>11. AttentionAccepts(i)
    <2> DEFINE b1 == l.ring
    <2>1. r # 0 => \A k \in 0 .. n - 1 : \A g \in DOMAIN Selected(i, nextStart, n, k) :
            Selected(i, nextStart, n, k)[g] - Len(read) \in 0 .. (nextStart + k + 1) \div r - 1
      BY <1>7, <1>9
    <2> QED BY ONLY <1>2, <1>5, <1>8, <1>10, <2>1 DEF AttentionAccepts, p, l, n, r, read
  <1> QED BY <1>11 DEF i

LEMMA AcceptsIs ==
  ASSUME Running
  PROVE  Accepts(step.layer)
  <1>1. AttentionAccepts(step.layer)
    BY AttentionAcceptsIs
  <1>2. Owns(step.layer) => OwnerAccepts(step.layer)
    <2> SUFFICES ASSUME Owns(step.layer) PROVE OwnerAccepts(step.layer)
      OBVIOUS
    <2> DEFINE i == step.layer
    <2>1. Owns(i) /\ Ratio(i) = 2 <=> Layer(i).kind = "ratio two owner"
      <3>1. i \in Layers
        BY DEF Running
      <3> HIDE DEF i
      <3> QED BY ONLY <3>1, RatioIs
    <2>2. Layer(i).kind = "ratio two owner" /\ ~CompletesGroup(step.start, step.n)
            => ScoreAccepts(layers[i], step.n)
      BY ONLY <2>1, Running, Owns(step.layer), OwnerAcceptsIs, RunningIs
    <2> QED BY <2>2, OwnerAcceptsIs DEF OwnerAccepts
  <1>3. step.layer = 0 => layers[0].next = step.start
    BY RunningIs DEF LayerAt
  <1>4. Layer(step.layer).engram => Len(layers[step.layer].heard) = step.start
    <2>1. nextStart \in Nat /\ step.start = nextStart
      BY RunningIs
    <2>2. Layer(step.layer).engram => layers[step.layer].heard = Tokens(0, nextStart)
      BY RunningIs DEF LayerAt
    <2>3. Len(Tokens(0, nextStart)) = nextStart
      BY <2>1, TokensJoin
    <2> QED BY <2>1, <2>2, <2>3
  <1> QED BY ONLY <1>1, <1>2, <1>3, <1>4 DEF Accepts

(***************************************************************************)
(* Every step keeps the invariant.                                         *)
(***************************************************************************)
LEMMA RunLayerKeeps ==
  ASSUME SessionInv, RunLayer
  PROVE  SessionInv'
  <1> DEFINE i == step.layer
             n == step.n
             l == layers[i]
             count == CallsOf(nextStart, prior)
             p == Publication(i)
             owned == IF Owns(i) THEN Owned(Hears(i), i, n) ELSE Hears(i)
             done == Attended(owned, p.start, n)
             out == [publication |-> p, reads |-> [k \in 0 .. n - 1 |-> ReadBy(i, p, k)],
                     scored |-> IF Layer(i).kind = "ratio two owner" THEN Scored(l, i, n) ELSE <<>>]
  <1>1. Running
    BY DEF RunLayer, Running
  <1>2. Accepts(i)
    BY <1>1, AcceptsIs
  <1>3. /\ layers' = [layers EXCEPT ![i] = done]
        /\ step' = [step EXCEPT !.layer = i + 1, !.outs = Append(@, out)]
        /\ UNCHANGED <<built, prior, nextStart, poisoned, refuses, positions, remaining, fault>>
    BY <1>2 DEF RunLayer
  <1>4. /\ nextStart \in Nat /\ n \in Nat \ {0} /\ step.start = nextStart
        /\ count \in Nat /\ (nextStart = 0 => count = 0) /\ poisoned /\ i \in Layers
    BY <1>1, RunningIs DEF Running
  <1>5. LayerOf(built, i, done, nextStart + n, count + 1)
    <2>1. LayerAt(i, l, nextStart, count)
      BY <1>1, RunningIs
    <2>2. p.start = nextStart
      <3>1. p = PublicationOf(built, i, nextStart, n, count)
        BY <1>1, PublicationIs
      <3> HIDE DEF p, i, n, count
      <3> QED BY <3>1 DEF PublicationOf
    <2>3. Hears(i) = Heard(i, l, nextStart, n)
      BY <1>4 DEF Hears, Heard
    <2> HIDE DEF p, i, n, count, l
    <2>4. done = Attended(OwnedBy(i, Heard(i, l, nextStart, n), n), nextStart, n)
      BY <2>2, <2>3 DEF OwnedBy
    <2>5. LayerAt(i, Attended(OwnedBy(i, Heard(i, l, nextStart, n), n), nextStart, n), nextStart + n, count + 1)
      BY ONLY <1>4, <2>1, AttendedAt
    <2> HIDE DEF done
    <2> QED BY <2>4, <2>5, OfBuilt
  <1>6. OutOf(built, i, out, nextStart, n, count)
    <2>1. out.publication = PublicationOf(built, i, nextStart, n, count)
      BY <1>1, PublicationIs
    <2>2. ASSUME NEW k \in 0 .. n - 1 PROVE out.reads[k] = AttendableOf(built, i, nextStart + k)
      BY <1>1, ReadsAre
    <2>3. Owns(i) /\ Ratio(i) = 2 <=> Layer(i).kind = "ratio two owner"
      <3> HIDE DEF i
      <3> QED BY <1>4, RatioIs
    <2> DEFINE scored == Scored(l, i, n)
    <2>4. Owns(i) /\ Ratio(i) = 2 =>
            /\ Len(scored) = (nextStart + n) \div 2
            /\ \A g \in DOMAIN scored : \A s \in DOMAIN scored[g] :
                 scored[g][s] \in {<<built, t>> : t \in 0 .. 2 * g - 1}
      BY <1>1, ScoredIs
    <2>5. Layer(i).kind = "ratio two owner" => out.scored = scored
      OBVIOUS
    <2> HIDE DEF i, n, l, p, out, scored, count
    <2>6. Layer(i).kind = "ratio two owner" =>
            /\ Len(out.scored) = (nextStart + n) \div 2
            /\ \A g \in DOMAIN out.scored : \A s \in DOMAIN out.scored[g] :
                 out.scored[g][s] \in {<<built, t>> : t \in 0 .. 2 * g - 1}
      BY ONLY <2>3, <2>4, <2>5
    <2> QED BY ONLY <2>1, <2>2, <2>6 DEF OutOf
  <1>7. /\ step = [start |-> nextStart, n |-> n, layer |-> i, outs |-> step.outs]
        /\ n \in 1 .. remaining /\ (nextStart = 0 => n # 1)
        /\ i \in 0 .. Len(Schedule) + 1
        /\ step.outs = [j \in 1 .. i |-> step.outs[j]]
        /\ DOMAIN layers = Layers
    BY <1>1 DEF Running, SessionInv, RunFits, SessionPlaces
  <1>8. \A j \in Layers : IF j < i
          THEN LayerOf(built, j, layers[j], nextStart + n, count + 1)
               /\ OutOf(built, j, step.outs[j + 1], nextStart, n, count)
          ELSE LayerOf(built, j, layers[j], nextStart, count)
    BY <1>1 DEF Running, SessionInv, RunFits
  <1> DEFINE outs == step.outs
             more == Append(outs, out)
             after == i + 1
  <1> HIDE DEF i, n, l, count, p, owned, done, out, outs
  <1>9. Layers = 0 .. Len(Schedule) /\ Len(Schedule) \in Nat
    BY ScheduleIs
  <1>10. i \in Nat /\ after \in 0 .. Len(Schedule) + 1
    BY <1>4, <1>9
  <1>11. /\ more = [j \in 1 .. after |-> more[j]] /\ more[i + 1] = out
         /\ \A j \in 1 .. i : more[j] = outs[j]
    <2>1. outs = [j \in 1 .. i |-> outs[j]]
      BY <1>7 DEF outs
    <2> QED BY <1>10, <2>1, OneMore
  <1> HIDE DEF more, after
  <1>12. step' = [start |-> nextStart, n |-> n, layer |-> after, outs |-> more]
    <2>1. Append(step.outs, out) = more /\ i + 1 = after
      BY DEF after, more, outs
    <2>2. step' = [step EXCEPT !.layer = after, !.outs = more]
      BY <1>3, <2>1
    <2>3. step = [start |-> nextStart, n |-> n, layer |-> i, outs |-> outs]
      BY <1>7 DEF outs
    <2> QED BY ONLY <2>2, <2>3
  <1>13. \A j \in Layers : IF j < after
           THEN LayerOf(built, j, layers'[j], nextStart + n, count + 1)
                /\ OutOf(built, j, more[j + 1], nextStart, n, count)
           ELSE LayerOf(built, j, layers'[j], nextStart, count)
    <2> SUFFICES ASSUME NEW j \in Layers
                 PROVE  IF j < after
                        THEN /\ LayerOf(built, j, layers'[j], nextStart + n, count + 1)
                             /\ OutOf(built, j, more[j + 1], nextStart, n, count)
                        ELSE LayerOf(built, j, layers'[j], nextStart, count)
      OBVIOUS
    <2>1. layers'[j] = IF j = i THEN done ELSE layers[j]
      BY <1>3, <1>7
    <2>2. j \in Nat
      BY <1>9
    <2>3. CASE j = i
      BY <1>5, <1>6, <1>10, <1>11, <2>1, <2>3 DEF after
    <2>4. CASE j < i
      <3>1. j < after /\ j # i /\ j + 1 \in 1 .. i
        BY <1>10, <2>2, <2>4 DEF after
      <3>2. more[j + 1] = outs[j + 1]
        BY <1>11, <3>1
      <3> QED BY <1>8, <2>1, <2>4, <3>1, <3>2 DEF outs
    <2>5. CASE i < j
      <3>1. ~(j < after) /\ j # i /\ ~(j < i)
        BY <1>10, <2>2, <2>5 DEF after
      <3> QED BY <1>8, <2>1, <3>1
    <2> QED BY <1>10, <2>2, <2>3, <2>4, <2>5
  <1>14. step # NoRun /\ step' # NoRun
    <2>1. n # 0
      BY <1>4
    <2>2. step # NoRun
      BY <1>1 DEF Running
    <2> QED BY <1>12, <2>1, <2>2 DEF NoRun
  <1>15. RunFits'
    <2>1. CallsOf(nextStart', prior') = count /\ built' = built /\ nextStart' = nextStart /\ remaining' = remaining
      BY <1>3 DEF count
    <2>2. step'.n = n /\ step'.layer = after /\ step'.outs = more /\ step'.start = nextStart
      BY <1>12
    <2>3. /\ step' = [start |-> nextStart', n |-> step'.n, layer |-> step'.layer, outs |-> step'.outs]
          /\ step'.n \in 1 .. remaining' /\ (nextStart' = 0 => step'.n # 1)
          /\ step'.layer \in 0 .. Len(Schedule) + 1
          /\ step'.outs = [j \in 1 .. step'.layer |-> step'.outs[j]]
      BY ONLY <1>7, <1>10, <1>11, <1>12, <2>1, <2>2
    <2>4. \A j \in Layers :
            IF j < step'.layer
            THEN /\ LayerOf(built', j, layers'[j], nextStart' + step'.n, CallsOf(nextStart', prior') + 1)
                 /\ OutOf(built', j, step'.outs[j + 1], nextStart', step'.n, CallsOf(nextStart', prior'))
            ELSE LayerOf(built', j, layers'[j], nextStart', CallsOf(nextStart', prior'))
      BY ONLY <1>13, <2>1, <2>2
    <2> QED BY ONLY <2>3, <2>4 DEF RunFits
  <1>16. SessionPlaces' /\ MarksAgree'
    BY <1>3, <1>4, <1>14 DEF SessionInv, SessionPlaces, MarksAgree
  <1>17. PriorIs' /\ LayersAgree'
    BY <1>3, <1>4 DEF SessionInv, PriorIs, LayersAgree
  <1> QED BY <1>15, <1>16, <1>17 DEF SessionInv

LEMMA BetweenSteps ==
  ASSUME SessionInv, step = NoRun, ~poisoned, UNCHANGED <<built, layers, prior, nextStart, step, poisoned>>
  PROVE  PriorIs' /\ LayersAgree' /\ RunFits'
  BY DEF SessionInv, PriorIs, LayersAgree, RunFits

LEMMA BeginAppendKeeps ==
  ASSUME SessionInv, NEW k \in Asked, BeginAppend(k)
  PROVE  SessionInv'
  <1>1. k \in Nat /\ MaxTokens \in Nat
    BY SessionAssumption, ScheduleIs
  <1>2. /\ ~refuses /\ remaining = 0 /\ step = NoRun /\ refuses' = TRUE /\ fault' = "none"
        /\ UNCHANGED <<built, layers, prior, nextStart, poisoned, positions, step>>
        /\ ((remaining' = k /\ MayAppend(k)) \/ remaining' = 0)
    BY DEF BeginAppend
  <1>3. ~poisoned
    BY <1>2 DEF SessionInv, MarksAgree
  <1>4. PriorIs' /\ LayersAgree' /\ RunFits'
    BY <1>2, <1>3, BetweenSteps
  <1>5. nextStart \in 0 .. MaxTokens /\ positions \in 0 .. MaxTokens /\ nextStart # 1 /\ DOMAIN layers = Layers
    BY DEF SessionInv, SessionPlaces
  <1>6. /\ remaining' \in 0 .. MaxTokens /\ nextStart + remaining' <= MaxTokens
        /\ (nextStart = 0 => remaining' # 1)
    <2>1. CASE remaining' = k /\ MayAppend(k)
      BY <1>1, <1>5, <2>1 DEF MayAppend
    <2>2. CASE remaining' = 0
      BY <1>1, <1>5, <2>2
    <2> QED BY <1>2, <2>1, <2>2
  <1>7. SessionPlaces'
    <2>1. fault' \in {"none", "outside"}
      BY <1>2
    <2> QED BY ONLY <1>2, <1>5, <1>6, <2>1 DEF SessionPlaces
  <1>8. MarksAgree'
    BY <1>2, <1>3 DEF SessionInv, MarksAgree
  <1> QED BY ONLY <1>4, <1>7, <1>8 DEF SessionInv

LEMMA BeginStepKeeps ==
  ASSUME SessionInv, BeginStep
  PROVE  SessionInv'
  <1> DEFINE most == Max({MaxStepTokens, 2})
             n == Min({remaining, most})
  <1>1. /\ nextStart \in 0 .. MaxTokens /\ positions \in 0 .. MaxTokens /\ remaining \in 0 .. MaxTokens
        /\ nextStart + remaining <= MaxTokens /\ nextStart # 1 /\ (nextStart = 0 => remaining # 1)
        /\ DOMAIN layers = Layers /\ fault \in {"none", "outside"}
    BY DEF SessionInv, SessionPlaces
  <1>2. remaining # 0 /\ step = NoRun /\ UNCHANGED <<built, layers, prior, nextStart, refuses, positions>>
    BY DEF BeginStep
  <1>3. ~poisoned /\ refuses
    BY <1>2 DEF SessionInv, MarksAgree
  <1>4. MaxTokens \in Nat /\ MaxStepTokens \in Nat
    BY ScheduleIs
  <1>5. n \in 1 .. remaining /\ (nextStart = 0 => n # 1) /\ ~(nextStart + n > MaxTokens)
    <2> DEFINE two == 2
    <2>1. two \in Int /\ MaxStepTokens \in Int /\ remaining \in Int
      BY <1>1, <1>4
    <2> HIDE DEF two
    <2>2. Max({MaxStepTokens, two}) = IF MaxStepTokens <= two THEN two ELSE MaxStepTokens
      BY <2>1, MinOfTwo
    <2>3. most \in Int /\ most >= 2
      BY <1>4, <2>2 DEF two
    <2> HIDE DEF most
    <2>4. Min({remaining, most}) = IF remaining <= most THEN remaining ELSE most
      BY <2>1, <2>3, MinOfTwo
    <2> QED BY <1>1, <1>2, <1>4, <2>3, <2>4
  <1>6. /\ poisoned' = TRUE /\ step' = [start |-> nextStart, n |-> n, layer |-> 0, outs |-> <<>>]
        /\ UNCHANGED <<remaining, fault>>
    BY <1>3, <1>5 DEF BeginStep
  <1> HIDE DEF n
  <1>7. step'.n = n /\ step'.layer = 0 /\ step'.outs = <<>> /\ step'.start = nextStart /\ step' # NoRun
    <2>1. step'.n = n /\ step'.layer = 0 /\ step'.outs = <<>> /\ step'.start = nextStart
      BY <1>6
    <2>2. n # 0
      BY <1>5
    <2>3. NoRun.n = 0
      BY DEF NoRun
    <2> QED BY <2>1, <2>2, <2>3
  <1>8. \A j \in Layers : LayerOf(built, j, layers[j], nextStart, CallsOf(nextStart, prior))
    BY <1>3 DEF SessionInv, LayersAgree
  <1>9. <<>> = [j \in 1 .. step'.layer |-> <<>>[j]]
    BY <1>7, NoLine
  <1>10. RunFits'
    <2>1. /\ step' = [start |-> nextStart', n |-> step'.n, layer |-> step'.layer, outs |-> step'.outs]
          /\ step'.n \in 1 .. remaining' /\ (nextStart' = 0 => step'.n # 1)
          /\ step'.outs = [j \in 1 .. step'.layer |-> step'.outs[j]]
      BY ONLY <1>2, <1>5, <1>6, <1>7, <1>9
    <2>2. step'.layer \in 0 .. Len(Schedule) + 1 /\ \A j \in Layers : ~(j < step'.layer)
      BY <1>7, ScheduleIs
    <2>3. \A j \in Layers : LayerOf(built', j, layers'[j], nextStart', CallsOf(nextStart', prior'))
      BY ONLY <1>2, <1>8
    <2> QED BY ONLY <2>1, <2>2, <2>3 DEF RunFits
  <1>11. SessionPlaces'
    BY ONLY <1>1, <1>2, <1>6 DEF SessionPlaces
  <1>12. MarksAgree'
    BY <1>2, <1>3, <1>6, <1>7 DEF SessionInv, MarksAgree
  <1>13. PriorIs' /\ LayersAgree'
    BY <1>2, <1>6 DEF SessionInv, PriorIs, LayersAgree
  <1> QED BY ONLY <1>10, <1>11, <1>12, <1>13 DEF SessionInv

LEMMA StageFailsKeeps ==
  ASSUME SessionInv, StageFails
  PROVE  SessionInv'
  <1>1. /\ step # NoRun /\ step' = NoRun /\ remaining' = 0 /\ fault' = "outside"
        /\ UNCHANGED <<built, prior, nextStart, poisoned, refuses, positions>>
    BY DEF StageFails, Poisons
  <1>2. DOMAIN layers' = DOMAIN layers
    <2>1. CASE UNCHANGED layers
      BY <2>1
    <2>2. CASE ~UNCHANGED layers
      <3>1. PICK x, i : layers' = [layers EXCEPT ![i] = x]
        BY <2>2 DEF StageFails
      <3> QED BY <3>1
    <2> QED BY <2>1, <2>2
  <1>3. /\ nextStart \in 0 .. MaxTokens /\ positions \in 0 .. MaxTokens /\ nextStart # 1
        /\ DOMAIN layers = Layers /\ MaxTokens \in Nat
    BY ScheduleIs DEF SessionInv, SessionPlaces
  <1>4. poisoned /\ refuses
    BY <1>1 DEF SessionInv, MarksAgree
  <1>5. SessionPlaces'
    <2>1. fault' \in {"none", "outside"}
      BY <1>1
    <2>2. remaining' \in 0 .. MaxTokens /\ nextStart + remaining' <= MaxTokens /\ remaining' # 1
      BY <1>1, <1>3
    <2> QED BY ONLY <1>1, <1>2, <1>3, <2>1, <2>2 DEF SessionPlaces
  <1>6. MarksAgree'
    BY <1>1, <1>4 DEF MarksAgree
  <1>7. PriorIs' /\ LayersAgree' /\ RunFits'
    BY <1>1, <1>4 DEF SessionInv, PriorIs, LayersAgree, RunFits
  <1> QED BY ONLY <1>5, <1>6, <1>7 DEF SessionInv

LEMMA FinishStepKeeps ==
  ASSUME SessionInv, FinishStep
  PROVE  SessionInv'
  <1> DEFINE n == step.n
             p == step.outs[PreviousOwner + 1].publication
             end == nextStart + n
             count == CallsOf(nextStart, prior)
  <1>1. /\ step # NoRun /\ step.layer = Len(Schedule) + 1
        /\ prior' = [source |-> PreviousOwner, id |-> p.id, keys |-> p.keys]
        /\ nextStart' = end /\ remaining' = remaining - n
        /\ poisoned' = FALSE /\ step' = NoRun /\ UNCHANGED <<built, layers, fault>>
        /\ \/ remaining = n /\ refuses' = FALSE /\ positions' = end
           \/ remaining # n /\ UNCHANGED <<refuses, positions>>
    BY DEF FinishStep
  <1>2. /\ nextStart \in 0 .. MaxTokens /\ positions \in 0 .. MaxTokens /\ remaining \in 0 .. MaxTokens
        /\ nextStart + remaining <= MaxTokens /\ nextStart # 1
        /\ DOMAIN layers = Layers /\ fault \in {"none", "outside"}
    BY DEF SessionInv, SessionPlaces
  <1>3. n \in 1 .. remaining /\ (nextStart = 0 => n # 1)
    BY <1>1 DEF SessionInv, RunFits
  <1>4. MaxTokens \in Nat
    BY ScheduleIs
  <1>5. count \in Nat
    <2>1. CASE nextStart = 0
      BY <2>1 DEF CallsOf
    <2>2. CASE nextStart # 0
      <3>1. prior.id \in Nat
        BY <2>2 DEF SessionInv, PriorIs
      <3> QED BY <2>2, <3>1 DEF CallsOf
    <2> QED BY <2>1, <2>2
  <1>6. \A j \in Layers : LayerOf(built, j, layers[j], end, count + 1)
                          /\ OutOf(built, j, step.outs[j + 1], nextStart, n, count)
    <2>1. \A j \in Layers : j < step.layer
      BY <1>1, ScheduleIs
    <2> QED BY <1>1, <2>1 DEF SessionInv, RunFits
  <1>7. PreviousOwner \in Layers /\ Ratio(PreviousOwner) = 1
    BY OwnersAre
  <1>8. p = PublicationOf(built, PreviousOwner, nextStart, n, count)
    BY <1>6, <1>7 DEF OutOf
  <1> HIDE DEF p, n, count
  <1>9. p.id = count /\ p.keys = KeysOf(built, 1, end)
    BY <1>7, <1>8 DEF PublicationOf
  <1>10. end \in Nat /\ end # 0 /\ end # 1 /\ end <= MaxTokens /\ end + remaining' <= MaxTokens
         /\ remaining' \in 0 .. MaxTokens /\ end \in 0 .. MaxTokens
    BY <1>1, <1>2, <1>3, <1>4
  <1> HIDE DEF end
  <1>11. PriorIs'
    <2>1. prior' = [source |-> PreviousOwner, id |-> count, keys |-> KeysOf(built, 1, end)]
      BY <1>1, <1>9
    <2>2. prior'.id = count
      BY <2>1
    <2> QED BY ONLY <1>1, <1>5, <1>10, <2>1, <2>2 DEF PriorIs
  <1>12. CallsOf(nextStart', prior') = count + 1
    <2>1. prior'.id = count
      BY <1>1, <1>9
    <2> QED BY <1>1, <1>10, <2>1 DEF CallsOf
  <1>13. LayersAgree'
    BY ONLY <1>1, <1>6, <1>12 DEF LayersAgree
  <1>14. RunFits'
    BY <1>1 DEF RunFits
  <1>15. positions' \in 0 .. MaxTokens
    BY <1>1, <1>2, <1>10
  <1>16. SessionPlaces'
    BY ONLY <1>1, <1>2, <1>10, <1>15 DEF SessionPlaces
  <1>17. MarksAgree'
    <2>1. refuses
      BY <1>2, <1>3 DEF SessionInv, MarksAgree
    <2>2. remaining = n => remaining' = 0
      BY <1>1, <1>2
    <2> QED BY <1>1, <2>1, <2>2 DEF MarksAgree
  <1> QED BY ONLY <1>11, <1>13, <1>14, <1>16, <1>17 DEF SessionInv

LEMMA ResetKeeps ==
  ASSUME SessionInv, Reset \/ ResetFails
  PROVE  SessionInv'
  <1>1. MaxTokens \in Nat
    BY ScheduleIs
  <1>2. CASE Reset
    <2>1. /\ remaining = 0 /\ step = NoRun /\ layers' = [i \in Layers |-> FreshLayer] /\ prior' = NoPrior
          /\ nextStart' = 0 /\ poisoned' = FALSE /\ refuses' = FALSE /\ positions' = 0 /\ fault' = "none"
          /\ UNCHANGED <<remaining, step>>
      BY <1>2 DEF Reset
    <2>2. \A i \in Layers : LayerOf(built', i, layers'[i], 0, 0)
      <3> SUFFICES ASSUME NEW i \in Layers PROVE LayerOf(built', i, layers'[i], 0, 0)
        OBVIOUS
      <3>1. layers'[i] = FreshLayer
        BY <2>1
      <3> QED BY <3>1, FreshIs
    <2>3. CallsOf(nextStart', prior') = 0
      BY <2>1 DEF CallsOf
    <2>4. LayersAgree'
      BY ONLY <2>1, <2>2, <2>3 DEF LayersAgree
    <2>5. PriorIs' /\ RunFits' /\ MarksAgree'
      BY <2>1 DEF PriorIs, RunFits, MarksAgree
    <2>6. SessionPlaces'
      <3>1. fault' \in {"none", "outside"}
        BY <2>1
      <3>2. DOMAIN layers' = Layers
        BY <2>1
      <3>3. 0 \in 0 .. MaxTokens /\ 0 + 0 <= MaxTokens /\ 0 # 1
        BY <1>1
      <3> QED BY ONLY <2>1, <3>1, <3>2, <3>3 DEF SessionPlaces
    <2> QED BY ONLY <2>4, <2>5, <2>6 DEF SessionInv
  <1>3. CASE ResetFails
    <2>1. /\ remaining = 0 /\ step = NoRun /\ refuses' = TRUE
          /\ UNCHANGED <<built, layers, prior, nextStart, poisoned, positions, remaining, step, fault>>
      BY <1>3 DEF ResetFails
    <2>2. SessionPlaces'
      BY ONLY SessionInv, <2>1 DEF SessionInv, SessionPlaces
    <2>3. MarksAgree'
      BY <2>1 DEF SessionInv, MarksAgree
    <2>4. PriorIs' /\ LayersAgree' /\ RunFits'
      BY <2>1 DEF SessionInv, PriorIs, LayersAgree, RunFits
    <2> QED BY ONLY <2>2, <2>3, <2>4 DEF SessionInv
  <1> QED BY <1>2, <1>3

LEMMA SessionStarts == SessionInit => SessionInv
  <1> SUFFICES ASSUME SessionInit PROVE SessionInv
    OBVIOUS
  <1>1. /\ layers = [i \in Layers |-> FreshLayer] /\ prior = NoPrior /\ nextStart = 0 /\ poisoned = FALSE
        /\ refuses = FALSE /\ positions = 0 /\ remaining = 0 /\ step = NoRun /\ fault = "none"
    BY DEF SessionInit
  <1>2. MaxTokens \in Nat
    BY ScheduleIs
  <1>3. \A i \in Layers : LayerOf(built, i, layers[i], 0, 0)
    <2> SUFFICES ASSUME NEW i \in Layers PROVE LayerOf(built, i, layers[i], 0, 0)
      OBVIOUS
    <2>1. layers[i] = FreshLayer
      BY <1>1
    <2> QED BY <2>1, FreshIs
  <1>4. CallsOf(nextStart, prior) = 0
    BY <1>1 DEF CallsOf
  <1>5. LayersAgree
    BY ONLY <1>1, <1>3, <1>4 DEF LayersAgree
  <1>6. PriorIs /\ RunFits /\ MarksAgree
    BY <1>1 DEF PriorIs, RunFits, MarksAgree
  <1>7. SessionPlaces
    <2>1. fault \in {"none", "outside"}
      BY <1>1
    <2>2. DOMAIN layers = Layers
      BY <1>1
    <2>3. 0 \in 0 .. MaxTokens /\ 0 + 0 <= MaxTokens /\ 0 # 1
      BY <1>2
    <2> QED BY ONLY <1>1, <2>1, <2>2, <2>3 DEF SessionPlaces
  <1> QED BY ONLY <1>5, <1>6, <1>7 DEF SessionInv

LEMMA SessionKeeps == SessionInv /\ [SessionNext]_sessionVars => SessionInv'
  <1> SUFFICES ASSUME SessionInv, [SessionNext]_sessionVars PROVE SessionInv'
    OBVIOUS
  <1>1. ASSUME NEW k \in Asked, BeginAppend(k) PROVE SessionInv'
    BY <1>1, BeginAppendKeeps
  <1>2. CASE BeginStep
    BY <1>2, BeginStepKeeps
  <1>3. CASE RunLayer
    BY <1>3, RunLayerKeeps
  <1>4. CASE StageFails
    BY <1>4, StageFailsKeeps
  <1>5. CASE FinishStep
    BY <1>5, FinishStepKeeps
  <1>6. CASE Reset \/ ResetFails
    BY <1>6, ResetKeeps
  <1>7. CASE UNCHANGED sessionVars
    <2>1. UNCHANGED <<built, layers, prior, nextStart, poisoned, refuses, positions, remaining, step, fault>>
      BY <1>7 DEF sessionVars
    <2> QED BY <2>1 DEF SessionInv, SessionPlaces, PriorIs, MarksAgree, LayersAgree, RunFits
  <1> QED BY <1>1, <1>2, <1>3, <1>4, <1>5, <1>6, <1>7 DEF SessionNext

(* What the invariant says of each finished layer of the step being run.   *)
LEMMA FinishedLayer ==
  ASSUME SessionInv, NEW i \in Layers, i < Len(step.outs)
  PROVE  /\ step.start = nextStart /\ nextStart \in Nat /\ step.n \in Nat
         /\ LayerOf(built, i, layers[i], nextStart + step.n, CallsOf(nextStart, prior) + 1)
         /\ OutOf(built, i, step.outs[i + 1], nextStart, step.n, CallsOf(nextStart, prior))
  <1>1. i \in Nat
    BY ScheduleIs
  <1>2. step # NoRun
    <2>1. step = NoRun => Len(step.outs) = 0
      BY DEF NoRun
    <2> QED BY <1>1, <2>1
  <1> DEFINE outs == step.outs
             m == step.layer
  <1>3. m \in Nat /\ outs = [j \in 1 .. m |-> outs[j]]
    BY <1>2, ScheduleIs DEF SessionInv, RunFits
  <1>4. Len(outs) = m
    <2> HIDE DEF outs, m
    <2> QED BY ONLY <1>3, JoinIs
  <1>5. step.start = nextStart /\ step.n \in 1 .. remaining
    BY <1>2 DEF SessionInv, RunFits
  <1>6. nextStart \in 0 .. MaxTokens /\ remaining \in 0 .. MaxTokens /\ MaxTokens \in Nat
    BY ScheduleIs DEF SessionInv, SessionPlaces
  <1>7. /\ LayerOf(built, i, layers[i], nextStart + step.n, CallsOf(nextStart, prior) + 1)
        /\ OutOf(built, i, step.outs[i + 1], nextStart, step.n, CallsOf(nextStart, prior))
    BY <1>2, <1>4 DEF SessionInv, RunFits
  <1> QED BY <1>5, <1>6, <1>7

LEMMA ReadsFollow == SessionInv => ReadsOwnPast
  <1> SUFFICES ASSUME SessionInv PROVE ReadsOwnPast
    OBVIOUS
  <1>1. ASSUME NEW i \in Layers, i < Len(step.outs)
        PROVE  /\ \A k \in 0 .. step.n - 1 : step.outs[i + 1].reads[k] = Attendable(i, step.start + k)
               /\ Layer(i).engram => layers[i].heard = Tokens(0, step.start + step.n)
    <2>1. /\ step.start = nextStart
          /\ \A k \in 0 .. step.n - 1 : step.outs[i + 1].reads[k] = AttendableOf(built, i, nextStart + k)
          /\ Layer(i).engram => layers[i].heard = TokensOf(built, 0, nextStart + step.n)
      BY <1>1, FinishedLayer DEF OutOf, LayerOf
    <2>2. /\ \A k : Attendable(i, nextStart + k) = AttendableOf(built, i, nextStart + k)
          /\ Tokens(0, nextStart + step.n) = TokensOf(built, 0, nextStart + step.n)
      BY OfBuilt
    <2> QED BY ONLY <2>1, <2>2
  <1>2. AttendsOwnPast
    BY <1>1 DEF AttendsOwnPast
  <1>3. ASSUME NEW i \in Layers, i < Len(step.outs)
        PROVE  Layer(i).kind = "ratio two owner" =>
                 LET scored == step.outs[i + 1].scored
                 IN  /\ Len(scored) = Len(layers[i].keys)
                     /\ \A g \in DOMAIN scored : \A s \in DOMAIN scored[g] :
                          scored[g][s] \in {Token(p) : p \in 0 .. 2 * g - 1}
    <2> DEFINE scored == step.outs[i + 1].scored
    <2>1. Layer(i).kind = "ratio two owner" =>
            /\ Len(scored) = (nextStart + step.n) \div 2
            /\ \A g \in DOMAIN scored : \A s \in DOMAIN scored[g] :
                 scored[g][s] \in {<<built, p>> : p \in 0 .. 2 * g - 1}
      BY <1>3, FinishedLayer DEF OutOf
    <2>2. Owns(i) /\ Ratio(i) = 2 <=> Layer(i).kind = "ratio two owner"
      BY RatioIs
    <2>3. Owns(i) /\ Ratio(i) = 2 => Len(layers[i].keys) = (nextStart + step.n) \div 2
      <3> SUFFICES ASSUME Owns(i), Ratio(i) = 2 PROVE Len(layers[i].keys) = (nextStart + step.n) \div 2
        OBVIOUS
      <3> DEFINE end == nextStart + step.n
      <3>4. nextStart \in Nat /\ step.n \in Nat
        BY <1>3, FinishedLayer
      <3>5. LayerOf(built, i, layers[i], end, CallsOf(nextStart, prior) + 1)
        BY <1>3, FinishedLayer
      <3>6. layers[i].keys = KeysOf(built, Ratio(i), end)
        <4> HIDE DEF end
        <4> QED BY <3>5 DEF LayerOf
      <3>1. end \in Nat /\ layers[i].keys = KeysOf(built, 2, end)
        BY <3>4, <3>6
      <3> HIDE DEF end
      <3>2. KeysTo(2, end) = KeysOf(built, 2, end)
        BY OfBuilt
      <3>3. Len(KeysTo(2, end)) = end \div 2
        BY <3>1, KeysIs
      <3> QED BY <3>1, <3>2, <3>3 DEF end
    <2>4. \A g : {Token(p) : p \in 0 .. 2 * g - 1} = {<<built, p>> : p \in 0 .. 2 * g - 1}
      BY DEF Token
    <2> HIDE DEF scored
    <2>5. Layer(i).kind = "ratio two owner" =>
            /\ Len(scored) = Len(layers[i].keys)
            /\ \A g \in DOMAIN scored : \A s \in DOMAIN scored[g] :
                 scored[g][s] \in {Token(p) : p \in 0 .. 2 * g - 1}
      BY ONLY <2>1, <2>2, <2>3, <2>4
    <2> QED BY <2>5 DEF scored
  <1>4. ScoresOwnPast
    BY ONLY <1>3 DEF ScoresOwnPast
  <1>5. fault # "check"
    BY DEF SessionInv, SessionPlaces
  <1> QED BY <1>2, <1>4, <1>5 DEF ReadsOwnPast

LEMMA StepFollows == SessionInv => LayersInStep
  <1> SUFFICES ASSUME SessionInv PROVE LayersInStep
    OBVIOUS
  <1> DEFINE count == CallsOf(nextStart, prior)
  <1>1. /\ nextStart \in 0 .. MaxTokens /\ positions \in 0 .. MaxTokens /\ remaining \in 0 .. MaxTokens
        /\ DOMAIN layers = Layers /\ fault \in {"none", "outside"}
    BY DEF SessionInv, SessionPlaces
  <1>2. SessionTypeOK
    <2>1. step.layer \in 0 .. Len(Schedule) + 1
      <3>1. CASE step = NoRun
        <4>1. step.layer = 0
          BY <3>1 DEF NoRun
        <4> QED BY <4>1, ScheduleIs
      <3>2. CASE step # NoRun
        BY <3>2 DEF SessionInv, RunFits
      <3> QED BY <3>1, <3>2
    <2>2. fault \in {"none", "outside", "check"}
      BY <1>1
    <2> QED BY ONLY <1>1, <2>1, <2>2 DEF SessionTypeOK
  <1>3. poisoned \/ remaining # 0 => refuses
    BY DEF SessionInv, MarksAgree
  <1>4. ~refuses => positions = nextStart
    BY DEF SessionInv, MarksAgree
  <1>5. ASSUME ~poisoned, NEW i \in Layers
        PROVE  LayerAt(i, layers[i], nextStart, count)
    <2>1. LayerOf(built, i, layers[i], nextStart, count)
      BY <1>5 DEF SessionInv, LayersAgree
    <2> HIDE DEF count
    <2> QED BY <2>1, OfBuilt
  <1>6. ASSUME ~poisoned, NEW i \in Layers
        PROVE  LET l == layers[i]
               IN  /\ l.next = nextStart /\ l.calls = layers[0].calls
                   /\ Owns(i) => /\ l.taken = nextStart /\ l.published = l.calls
                                 /\ Len(l.keys) = nextStart \div Ratio(i)
                   /\ Layer(i).engram => Len(l.heard) = nextStart
    <2> DEFINE l == layers[i]
    <2>1. LayerAt(i, l, nextStart, count) /\ nextStart \in Nat
      BY <1>1, <1>5, <1>6
    <2>2. layers[0].calls = count
      <3>1. 0 \in Layers
        BY ScheduleIs
      <3>2. LayerAt(0, layers[0], nextStart, count)
        BY <1>5, <1>6, <3>1
      <3> QED BY <3>2 DEF LayerAt
    <2> HIDE DEF l, count
    <2>3. l.next = nextStart /\ l.calls = count
      BY <2>1 DEF LayerAt
    <2>4. Owns(i) => l.taken = nextStart /\ l.published = l.calls /\ Len(l.keys) = nextStart \div Ratio(i)
      <3> SUFFICES ASSUME Owns(i)
                   PROVE  l.taken = nextStart /\ l.published = l.calls /\ Len(l.keys) = nextStart \div Ratio(i)
        OBVIOUS
      <3>1. l.taken = nextStart /\ l.published = count /\ l.keys = KeysTo(Ratio(i), nextStart)
        BY <2>1 DEF LayerAt
      <3>2. Ratio(i) \in {1, 2}
        BY RatioIs
      <3> DEFINE r == Ratio(i)
      <3> HIDE DEF r
      <3>3. Len(KeysTo(r, nextStart)) = nextStart \div r
        <4>1. r \in {1, 2}
          BY <3>2 DEF r
        <4> QED BY ONLY <2>1, <4>1, KeysIs
      <3> QED BY <2>3, <3>1, <3>3 DEF r
    <2>5. Layer(i).engram => Len(l.heard) = nextStart
      <3>1. Layer(i).engram => l.heard = Tokens(0, nextStart)
        BY <2>1 DEF LayerAt
      <3>2. Len(Tokens(0, nextStart)) = nextStart
        BY <2>1, TokensJoin
      <3> QED BY <3>1, <3>2
    <2> QED BY <2>2, <2>3, <2>4, <2>5 DEF l
  <1>7. ASSUME ~poisoned, prior # NoPrior
        PROVE  prior.keys = layers[PreviousOwner].keys /\ prior.id + 1 = layers[0].calls
    <2>1. nextStart # 0 /\ prior = [source |-> PreviousOwner, id |-> prior.id, keys |-> KeysOf(built, 1, nextStart)]
      BY <1>7 DEF SessionInv, PriorIs
    <2>2. count = prior.id + 1
      BY <2>1 DEF CallsOf
    <2>3. PreviousOwner \in Layers /\ Owns(PreviousOwner) /\ Ratio(PreviousOwner) = 1 /\ 0 \in Layers
      BY OwnersAre, ScheduleIs
    <2>4. layers[PreviousOwner].keys = KeysOf(built, 1, nextStart)
      BY <1>7, <2>3 DEF SessionInv, LayersAgree, LayerOf
    <2>5. layers[0].calls = count
      BY <1>7, <2>3 DEF SessionInv, LayersAgree, LayerOf
    <2>6. prior.keys = KeysOf(built, 1, nextStart)
      BY <2>1
    <2> QED BY <2>2, <2>4, <2>5, <2>6
  <1> QED BY ONLY <1>2, <1>3, <1>4, <1>6, <1>7 DEF LayersInStep

LEMMA SessionInvariant == SessionSpec => []SessionInv
  BY SessionStarts, SessionKeeps, PTL DEF SessionSpec

(* However an append is cut into chunks and wherever one fails, the layers *)
(* of a request that is not poisoned stand at one position of one call, as *)
(* RequestSession::step_with_sources leaves them, and the facade counts    *)
(* what they hold.                                                         *)
THEOREM SessionLayersInStep == SessionSpec => []LayersInStep
  BY SessionInvariant, StepFollows, PTL

(* Every query attends its own past and nothing else: the tokens of its    *)
(* window and the groups complete by then, of this construction of the     *)
(* request; and no check of the stages refuses what the session made.      *)
THEOREM SessionReadsOwnPast == SessionSpec => []ReadsOwnPast
  BY SessionInvariant, ReadsFollow, PTL

=============================================================================
