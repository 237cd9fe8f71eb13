--------------------------- MODULE RequestSession ---------------------------
(***************************************************************************)
(* One request of the reduced DeepSeek decoder: V41Session over            *)
(* RequestSession over the state of each layer                             *)
(* (crates/models/deepseek/src: generation.rs, reduced/request/session.rs, *)
(* reduced/layer_one.rs, layer_three.rs, layer_four.rs, startup.rs,        *)
(* attention/, compressor.rs, indexer/).  An append runs in chunks, a      *)
(* chunk layer by layer, and any stage may fail for a reason from outside: *)
(* rows or experts that are not there, values that are not finite, tied    *)
(* scores.  A failure leaves the layers at different positions.            *)
(*                                                                         *)
(* A value stands for the tokens it was computed from: <<r, p>> is what    *)
(* a layer keeps of the token at position p, since the r-th construction   *)
(* of the request.  Which of the reachable keys the scores pick is         *)
(* abstract: the attention here reads all of them, as it does while there  *)
(* are no more than index_topk.  Keys and compressed values advance        *)
(* together and are one prefix.  Counters start afresh when a request is   *)
(* rebuilt, so epochs, which only resets of single layers advance, are     *)
(* left out, and so are the layers' own marks of failure: the request      *)
(* refuses a call before they would.                                       *)
(***************************************************************************)
EXTENDS Integers, Sequences, FiniteSets, FiniteSetsExt, Lines

CONSTANTS
  Schedule,      \* RequestModel::layers after startup: [kind, source, engram]
  Window,        \* slots of each attention ring
  MaxTokens,     \* context_tokens, which is also max_tokens
  MaxStepTokens, \* prefill_step_tokens
  Asked,         \* how many tokens a caller may append at once
  MaxRebuilds    \* bound: resets

\* What a scheduled layer's attention owns or reads
LayerKind == {"window", "ratio two owner", "ratio two consumer", "ratio one owner",
              "ratio one indexer", "ratio one consumer"}

Startup == [kind |-> "window", source |-> 0, engram |-> FALSE]
Layers == 0 .. Len(Schedule)
Layer(i) == IF i = 0 THEN Startup ELSE Schedule[i]
Owns(i) == Layer(i).kind \in {"ratio two owner", "ratio one owner"}
Ratio(i) == CASE Layer(i).kind = "window" -> 0
              [] Layer(i).kind \in {"ratio two owner", "ratio two consumer"} -> 2
              [] OTHER -> 1

\* The owner whose publication layer i reads
LatestOwner(i) == Max({j \in 1 .. i : Owns(j)})

\* Where incomplete groups find keys to be scored with
PreviousOwner == Max({i \in Layers : Owns(i) /\ Ratio(i) = 1})

\* validate_schedule; the released schedule has a ratio-one owner, which the code
\* asks for only of schedules with a ratio-two owner
ASSUME SessionAssumption ==
  /\ Schedule \in Seq([kind : LayerKind, source : Nat, engram : BOOLEAN])
  /\ {Window, MaxTokens, MaxStepTokens} \subseteq Nat \ {0}
  /\ Asked \subseteq Nat /\ MaxRebuilds \in Nat
  /\ \E i \in Layers : Owns(i) /\ Ratio(i) = 1
  /\ \A i \in Layers : Ratio(i) # 0 =>
       /\ \E j \in 1 .. i : Owns(j)
       /\ Layer(i).source = LatestOwner(i) /\ Ratio(LatestOwner(i)) = Ratio(i)
       /\ Ratio(i) = 2 => \A j \in 1 .. i : Ratio(j) # 1

VARIABLES
  built,      \* how often the request was constructed
  layers,     \* LayerState, with the startup and the Engram sessions
  prior,      \* prior_ratio_one
  nextStart,  \* next_start
  poisoned,   \* RequestSession::poisoned
  refuses,    \* V41Session::poisoned
  positions,  \* V41Session::positions
  remaining,  \* tokens of the append that no step has finished
  step,       \* the step being run: [start, n, layer, outs]
  fault       \* who failed the last step

sessionVars == <<built, layers, prior, nextStart, poisoned, refuses, positions, remaining, step, fault>>

Empty == <<0, 0>>   \* a slot of a ring or of a compressor before its first token
NoPrior == [source |-> 0, id |-> 0, keys |-> <<>>]
NoRun == [start |-> 0, n |-> 0, layer |-> 0, outs |-> <<>>]

\* heard is the history of an Engram; held, keys, taken and published are an
\* owner's: its compressor, its prefix, the next position and the next call ID
FreshLayer ==
  [heard |-> <<>>, held |-> <<Empty, Empty>>, keys |-> <<>>, taken |-> 0, published |-> 0,
   ring |-> [s \in 0 .. Window - 1 |-> Empty], next |-> 0, calls |-> 0]

\* build
SessionInit ==
  /\ built = 1 /\ layers = [i \in Layers |-> FreshLayer] /\ prior = NoPrior
  /\ nextStart = 0 /\ poisoned = FALSE /\ refuses = FALSE /\ positions = 0
  /\ remaining = 0 /\ step = NoRun /\ fault = "none"

Token(p) == <<built, p>>
Tokens(start, n) == [q \in 1 .. n |-> Token(start + q - 1)]

----------------------------------------------------------------------------
(* The window of one attention: a chunk of n tokens from `start`.          *)

\* write_window_kv_bf16, into zeros when a sequence starts
WrittenRing(ring, start, n) ==
  LET kept == Max({0, n - Window}) .. n - 1
      lands(s) == {q \in kept : (start + q) % Window = s}
  IN  [s \in 0 .. Window - 1 |->
         IF lands(s) # {} THEN Token(start + Max(lands(s)))
         ELSE IF start = 0 THEN Empty ELSE ring[s]]

AsSequence(ring) == [s \in 1 .. Window |-> ring[s - 1]]

\* A mutated WindowRead: early queries of a chunk read the ring its end has
\* overwritten.
WindowReadStaged(ring, start, n) ==
  LET staged == WrittenRing(ring, start, n)
  IN  CASE start = 0 -> Tokens(0, n)
        [] start # 0 /\ n = 1 -> AsSequence(staged)
        [] OTHER -> AsSequence(staged) \o Tokens(start, n)

\* window_snapshot
WindowRead(ring, start, n) ==
  CASE start = 0 -> Tokens(0, n)
    [] start # 0 /\ n = 1 -> AsSequence(WrittenRing(ring, start, n))
    [] OTHER -> AsSequence(ring) \o Tokens(start, n)

\* window_topk_indices of query q, without the -1s compact_sparse_indices drops
PrefillIndices(q) ==
  LET first == Max({0, q + 1 - Window}) IN [k \in 1 .. q + 1 - first |-> first + k - 1]
DecodeIndices(p) ==
  LET suffix == Window - ((p % Window) + 1)
      slot(s) == IF s < suffix THEN (p % Window) + 1 + s ELSE s - suffix
  IN  Keep([s \in 1 .. Window |-> slot(s - 1)], 0 .. p)
AppendIndices(start, q) ==
  LET first == Max({0, start + q + 1 - Window})
      physical(key) == IF key < start THEN key % Window ELSE Window + key - start
  IN  [k \in 1 .. start + q + 1 - first |-> physical(first + k - 1)]
WindowIndices(start, n, q) ==
  IF start = 0 THEN PrefillIndices(q) ELSE IF n = 1 THEN DecodeIndices(start) ELSE AppendIndices(start, q)

----------------------------------------------------------------------------
(* Compressed keys.                                                        *)

CompletesGroup(start, n) == (start + n) \div 2 # start \div 2

\* forward_gated: the groups this call completes
Groups(l, i, start, n) ==
  [g \in 1 .. (start + n) \div Ratio(i) - start \div Ratio(i) |->
     LET first == Ratio(i) * (start \div Ratio(i) + g - 1)
     IN  [s \in 1 .. Ratio(i) |-> IF first + s > start THEN Token(first + s - 1) ELSE l.held[s]]]

\* The compressor's slots after it: only a remainder when a sequence starts
HeldAfter(l, i, start, n) ==
  [s \in 1 .. 2 |->
     LET ps == {p \in start .. start + n - 1 : p % Ratio(i) = s - 1 /\ (start = 0 => p >= n - (n % Ratio(i)))}
     IN  IF ps # {} THEN Token(Max(ps)) ELSE IF start = 0 THEN Empty ELSE l.held[s]]

\* RatioTwoCompressedOwner::forward, PendingRatioOneCompressedOwner::commit:
\* a call that completes no group publishes too
Owned(l, i, n) ==
  [l EXCEPT !.keys = @ \o Groups(l, i, l.taken, n), !.held = HeldAfter(l, i, l.taken, n),
            !.taken = @ + n, !.published = @ + 1]

\* Positions of the compressed keys that follow the window in what is read
Offset(start, n) == IF start = 0 THEN n ELSE IF n = 1 THEN Window ELSE Window + n

\* causal_select, select_from_candidates
Selected(i, start, n, q) == [g \in 1 .. (start + q + 1) \div Ratio(i) |-> Offset(start, n) + g - 1]

\* score_prefix of a call that completes no group
ScoreAccepts(l, n) ==
  /\ prior # NoPrior /\ l.published >= 1
  /\ prior.source = PreviousOwner /\ prior.id = l.published - 1
  /\ Len(prior.keys) = l.taken /\ Len(l.keys) # 0

Scored(l, i, n) ==
  IF CompletesGroup(l.taken, n) THEN Owned(l, i, n).keys ELSE SubSeq(prior.keys, 1, Len(l.keys))

----------------------------------------------------------------------------
(* One layer of one step.                                                  *)

Hears(i) == [layers[i] EXCEPT !.heard = IF Layer(i).engram THEN @ \o Tokens(step.start, step.n) ELSE @]

\* What the layer's attention is given: the prefix, its call ID and the start
Publication(i) ==
  IF Ratio(i) = 0 THEN [keys |-> <<>>, id |-> 0, start |-> step.start]
  ELSE IF Owns(i)
       THEN [keys |-> Owned(layers[i], i, step.n).keys, id |-> layers[i].published, start |-> layers[i].taken]
       ELSE [step.outs[LatestOwner(i) + 1].publication EXCEPT !.start = step.start]

\* LayerAttentionState::forward
Attended(l, start, n) ==
  [l EXCEPT !.ring = WrittenRing(@, start, n), !.next = start + n, !.calls = IF start = 0 THEN 1 ELSE @ + 1]

ReadBy(i, p, q) ==
  LET n == step.n
      shared == WindowRead(layers[i].ring, p.start, n) \o p.keys
      indices == WindowIndices(p.start, n, q) \o (IF Ratio(i) = 0 THEN <<>> ELSE Selected(i, p.start, n, q))
  IN  [k \in DOMAIN indices |-> shared[indices[k] + 1]]

\* prepare_call, score_prefix and their likes
OwnerAccepts(i) ==
  LET l == layers[i]
      end == l.taken + step.n
  IN  /\ Len(l.keys) = l.taken \div Ratio(i)
      /\ end \div Ratio(i) <= (MaxTokens + Ratio(i) - 1) \div Ratio(i)
      /\ Layer(i).kind = "ratio two owner" /\ ~CompletesGroup(step.start, step.n) => ScoreAccepts(l, step.n)

\* validate_transition, validate_publication
AttentionAccepts(i) ==
  LET l == layers[i]
      p == Publication(i)
  IN  /\ p.start = 0 \/ l.next = p.start
      /\ Ratio(i) # 0 =>
           /\ p.id = IF p.start = 0 THEN 0 ELSE l.calls
           /\ Len(p.keys) = (p.start + step.n) \div Ratio(i)
           /\ \A q \in 0 .. step.n - 1 : \A k \in DOMAIN Selected(i, p.start, step.n, q) :
                Selected(i, p.start, step.n, q)[k] - Len(WindowRead(l.ring, p.start, step.n))
                  \in 0 .. (p.start + q + 1) \div Ratio(i) - 1

\* Every check the stages of layer i make of the call.  None ever fails (see
\* ReadsOwnPast), so what a layer keeps after one that did is not told apart.
Accepts(i) ==
  /\ i = 0 => layers[0].next = step.start
  /\ Layer(i).engram => Len(layers[i].heard) = step.start
  /\ Owns(i) => OwnerAccepts(i)
  /\ AttentionAccepts(i)

\* A mutated Poisons: the mark is cleared whether or not the step succeeded.
PoisonsNever ==
  /\ step' = NoRun /\ remaining' = 0 /\ poisoned' = FALSE /\ refuses' = FALSE
  /\ UNCHANGED <<built, prior, nextStart, positions>>

\* An error of an admitted step: both marks stay, the rest of the append goes
Poisons ==
  /\ step' = NoRun /\ remaining' = 0
  /\ UNCHANGED <<built, prior, nextStart, poisoned, refuses, positions>>

\* StartupSession::step_with_sources, one arm of step_admitted's loop
RunLayer ==
  /\ step # NoRun /\ step.layer \in Layers
  /\ LET i == step.layer
         p == Publication(i)
         owned == IF Owns(i) THEN Owned(Hears(i), i, step.n) ELSE Hears(i)
         out == [publication |-> p, reads |-> [q \in 0 .. step.n - 1 |-> ReadBy(i, p, q)],
                 scored |-> IF Layer(i).kind = "ratio two owner" THEN Scored(layers[i], i, step.n) ELSE <<>>]
     IN  IF Accepts(i)
         THEN /\ layers' = [layers EXCEPT ![i] = Attended(owned, p.start, step.n)]
              /\ step' = [step EXCEPT !.layer = i + 1, !.outs = Append(@, out)]
              /\ UNCHANGED <<built, prior, nextStart, poisoned, refuses, positions, remaining, fault>>
         ELSE /\ Poisons /\ fault' = "check"
              /\ UNCHANGED layers

\* A stage fails: before the layer, after its Engram, after the owner's
\* commit, after the attention (the experts of its tail), or in the head
StageFails ==
  /\ step # NoRun
  /\ LET i == step.layer
     IN  \/ UNCHANGED layers
         \/ /\ i \in Layers /\ Accepts(i)
            /\ LET owned == IF Owns(i) THEN Owned(Hears(i), i, step.n) ELSE Hears(i)
               IN  \E l \in {Hears(i), owned, Attended(owned, Publication(i).start, step.n)} :
                     layers' = [layers EXCEPT ![i] = l]
  /\ Poisons /\ fault' = "outside"

----------------------------------------------------------------------------
(* The request and its facade.                                             *)

\* append_with_sources, before the request is called
MayAppend(k) == k # 0 /\ (nextStart = 0 => k >= 2) /\ nextStart + k <= MaxTokens

\* An invalid append poisons the facade; a token outside the vocabulary too
BeginAppend(k) ==
  /\ ~refuses /\ remaining = 0 /\ step = NoRun
  /\ \E valid \in BOOLEAN : remaining' = IF MayAppend(k) /\ valid THEN k ELSE 0
  /\ refuses' = TRUE /\ fault' = "none"
  /\ UNCHANGED <<built, layers, prior, nextStart, poisoned, positions, step>>

\* prefill_with_sources: the next chunk, and the checks of step_with_sources
BeginStep ==
  /\ remaining # 0 /\ step = NoRun
  /\ LET n == Min({remaining, Max({MaxStepTokens, 2})})
     IN  IF poisoned \/ nextStart + n > MaxTokens
         THEN /\ remaining' = 0 /\ fault' = "check"
              /\ UNCHANGED <<poisoned, step>>
         ELSE /\ poisoned' = TRUE
              /\ step' = [start |-> nextStart, n |-> n, layer |-> 0, outs |-> <<>>]
              /\ UNCHANGED <<remaining, fault>>
  /\ UNCHANGED <<built, layers, prior, nextStart, refuses, positions>>

\* The heads, then the end of step_admitted; after the last chunk the append
\* returns and the facade counts its positions
FinishStep ==
  /\ step # NoRun /\ step.layer = Len(Schedule) + 1
  /\ LET p == step.outs[PreviousOwner + 1].publication
         end == nextStart + step.n
     IN  /\ prior' = [source |-> PreviousOwner, id |-> p.id, keys |-> p.keys]
         /\ nextStart' = end
         /\ remaining' = remaining - step.n
         /\ IF remaining = step.n THEN refuses' = FALSE /\ positions' = end
            ELSE UNCHANGED <<refuses, positions>>
  /\ poisoned' = FALSE /\ step' = NoRun
  /\ UNCHANGED <<built, layers, fault>>

\* V41Session::reset, RequestSession::restart: everything is built anew
Reset ==
  /\ remaining = 0 /\ step = NoRun /\ built <= MaxRebuilds
  /\ built' = built + 1
  /\ layers' = [i \in Layers |-> FreshLayer] /\ prior' = NoPrior
  /\ nextStart' = 0 /\ poisoned' = FALSE /\ refuses' = FALSE /\ positions' = 0
  /\ fault' = "none"
  /\ UNCHANGED <<remaining, step>>

\* A component cannot be built: the old state stays, the facade refuses calls
ResetFails ==
  /\ remaining = 0 /\ step = NoRun
  /\ refuses' = TRUE
  /\ UNCHANGED <<built, layers, prior, nextStart, poisoned, positions, remaining, step, fault>>

SessionNext ==
  \/ \E k \in Asked : BeginAppend(k)
  \/ BeginStep
  \/ RunLayer
  \/ StageFails
  \/ FinishStep
  \/ Reset
  \/ ResetFails

SessionSpec == SessionInit /\ [][SessionNext]_sessionVars

----------------------------------------------------------------------------
(* Properties.                                                             *)

SessionTypeOK ==
  /\ fault \in {"none", "outside", "check"}
  /\ nextStart \in 0 .. MaxTokens /\ positions \in 0 .. MaxTokens /\ remaining \in 0 .. MaxTokens
  /\ DOMAIN layers = Layers /\ step.layer \in 0 .. Len(Schedule) + 1

\* What a query at position p may attend: the last tokens of the window in
\* their order, then every group completed by then, each of its own tokens.
Attendable(i, p) ==
  LET w == Min({Window, p + 1})
  IN  Tokens(p + 1 - w, w)
      \o (IF Ratio(i) = 0 THEN <<>>
          ELSE [g \in 1 .. (p + 1) \div Ratio(i) |-> Tokens(Ratio(i) * (g - 1), Ratio(i))])

\* Every query attends its own past, the same however the request was cut into
\* chunks: across the wrap of the ring, over groups that two calls share, and
\* after failures and resets.
AttendsOwnPast ==
  \A i \in Layers : i < Len(step.outs) =>
    /\ \A q \in 0 .. step.n - 1 : step.outs[i + 1].reads[q] = Attendable(i, step.start + q)
    /\ Layer(i).engram => layers[i].heard = Tokens(0, step.start + step.n)

\* Keys scored in place of a group that is not complete are of this request,
\* one for each key the layer has, and none sees past the group it stands for.
ScoresOwnPast ==
  \A i \in Layers : i < Len(step.outs) /\ Layer(i).kind = "ratio two owner" =>
    LET scored == step.outs[i + 1].scored
    IN  /\ Len(scored) = Len(layers[i].keys)
        /\ \A g \in DOMAIN scored : \A s \in DOMAIN scored[g] :
             scored[g][s] \in {Token(p) : p \in 0 .. 2 * g - 1}

\* No check of the session refuses what the session itself produced: an append
\* fails for a reason from outside or before it starts.
ReadsOwnPast == AttendsOwnPast /\ ScoresOwnPast /\ fault # "check"

\* Between steps all layers stand at the same position of the same call, or the
\* request is poisoned; and what the facade says is committed is.
LayersInStep ==
  /\ SessionTypeOK
  /\ ~poisoned => \A i \in Layers :
       LET l == layers[i]
       IN  /\ l.next = nextStart /\ l.calls = layers[0].calls
           /\ Owns(i) => /\ l.taken = nextStart /\ l.published = l.calls
                         /\ Len(l.keys) = nextStart \div Ratio(i)
           /\ Layer(i).engram => Len(l.heard) = nextStart
  /\ ~poisoned /\ prior # NoPrior => prior.keys = layers[PreviousOwner].keys /\ prior.id + 1 = layers[0].calls
  /\ poisoned \/ remaining # 0 => refuses
  /\ ~refuses => positions = nextStart
=============================================================================
